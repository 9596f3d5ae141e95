-------------------------------- MODULE Edits --------------------------------
(***************************************************************************)
(* How edit_file finds what it replaces (ah-core/src/tools/edit.rs): text   *)
(* that a model wrote from memory is looked for exactly, then without       *)
(* regard to what ends a line, then to how far a block is indented, then to *)
(* the spacing of words.  A text is a sequence of characters.  And the diff *)
(* a person is shown of it (tools/diff.rs), of texts that are sequences of  *)
(* lines.                                                                   *)
(***************************************************************************)
EXTENDS Integers, Sequences, SequencesExt, FiniteSets

CONSTANTS
    EditLen, EditOldLen    \* bounds: the length of a text, and of what is looked for

VARIABLES
    edit_text, edit_call,   \* the file, and what is to be replaced in it
    edit_out                \* what came of it

edit_vars == <<edit_text, edit_call, edit_out>>
Unedited == [none |-> TRUE]
\* What is put in: a word, a line of one, an indented one, nothing.
NewTexts == {<<"z">>, <<"z", "\n">>, <<" ", "z">>, <<>>}

Gap == {" ", "\n"}
Positions(s) == [i \in DOMAIN s |-> i]
TrimmedEnd(s) == SubSeq(s, 1, SelectLastInSeq(s, LAMBDA c : c \notin Gap))
Lead(s) == LET i == SelectInSeq(s, LAMBDA c : c \notin Gap) IN IF i = 0 THEN Len(s) ELSE i - 1
Trimmed(s) == LET t == TrimmedEnd(s) IN SubSeq(t, Lead(t) + 1, Len(t))
AllBlank(s) == Trimmed(s) = <<>>

\* line_spans: where each line begins and ends, without its newline.
Spans(text) ==
    LET breaks == SetToSortSeq({i \in DOMAIN text : text[i] = "\n"}, <)
        n == Len(breaks)
    IN [k \in 1 .. n + 1 |-> [from |-> IF k = 1 THEN 0 ELSE breaks[k - 1],
                              to |-> IF k = n + 1 THEN Len(text) ELSE breaks[k] - 1]]
Piece(text, span) == SubSeq(text, span.from + 1, span.to)
LinesOf(text) == [k \in DOMAIN Spans(text) |-> Piece(text, Spans(text)[k])]
Joined(lines) == FoldLeft(LAMBDA out, k : out \o (IF k > 1 THEN <<"\n">> ELSE <<>>) \o lines[k], <<>>, Positions(lines))
\* needle_lines
EndsInBreak(s) == s # <<>> /\ Last(s) = "\n"
Needle(old) == LinesOf(IF EndsInBreak(old) THEN Front(old) ELSE old)

\* A hit: what lies after `from` up to `to`, and what is put in its place.
Found(from, to, new) == [from |-> from, to |-> to, new |-> new]
EndOf(hits) == IF hits = <<>> THEN 0 ELSE Last(hits).to
\* The hits, by where they begin, from left to right: each is `n` long, and none
\* begins before the one before has ended.
FromLeft(hits, n, top) ==
    FoldLeft(LAMBDA acc, i :
                IF i > acc.after /\ i \in DOMAIN hits THEN [hits |-> Append(acc.hits, hits[i]), after |-> i + n - 1] ELSE acc,
             [hits |-> <<>>, after |-> 0], [i \in 1 .. top |-> i]).hits

-----------------------------------------------------------------------------
(* The four ways to look.                                                   *)

ExactHits(text, e) ==
    LET n == Len(e.old)
        at == {i \in 1 .. Len(text) - n + 1 : SubSeq(text, i, i + n - 1) = e.old}
    IN FromLeft([i \in at |-> Found(i - 1, i + n - 1, e.new)], n, Len(text))

\* by_lines: whole lines; a needle that ends in a newline takes the newline too.
Windows(text, e) ==
    LET spans == Spans(text)
        n == Len(Needle(e.old))
    IN [i \in 1 .. Len(spans) - n + 1 |-> [k \in 1 .. n |-> Piece(text, spans[i + k - 1])]]
\* `new` says what is put in the place of each window that matched.
ByLines(text, e, new) ==
    LET n == Len(Needle(e.old))
        spans == Spans(text)
        hit(i) ==
            LET end == spans[i + n - 1].to
            IN Found(spans[i].from, IF EndsInBreak(e.old) /\ end < Len(text) THEN end + 1 ELSE end,
                     IF EndsInBreak(e.old) /\ ~EndsInBreak(new[i]) THEN Append(new[i], "\n") ELSE new[i])
    IN FromLeft([i \in DOMAIN new |-> hit(i)], n, Len(spans))

LineEndHits(text, e) ==
    LET windows == Windows(text, e)
        at == {i \in DOMAIN windows : \A k \in DOMAIN windows[i] : TrimmedEnd(windows[i][k]) = TrimmedEnd(Needle(e.old)[k])}
    IN ByLines(text, e, [i \in at |-> e.new])

\* common_indent, in one kind of space.
Indentation(lines) ==
    LET leads == {Lead(lines[k]) : k \in {j \in DOMAIN lines : ~AllBlank(lines[j])}}
    IN IF leads = {} THEN 0 ELSE CHOOSE n \in leads : \A m \in leads : n <= m
Spaces(n) == [i \in 1 .. n |-> " "]
Reindented(new, from, to) ==
    LET lines == LinesOf(new)
    IN Joined([k \in DOMAIN lines |->
          IF ~AllBlank(lines[k]) /\ Lead(lines[k]) >= from
          THEN Spaces(to) \o SubSeq(lines[k], from + 1, Len(lines[k])) ELSE lines[k]])
IndentHits(text, e) ==
    LET needle == Needle(e.old)
        windows == Windows(text, e)
        Same(a, b) == TrimmedEnd(a) # TrimmedEnd(b) /\ Trimmed(a) = Trimmed(b)
        at == {i \in DOMAIN windows : \A k \in DOMAIN needle : Same(windows[i][k], needle[k])}
    IN IF \A k \in DOMAIN needle : AllBlank(needle[k]) THEN <<>>
       ELSE ByLines(text, e, [i \in at |-> Reindented(e.new, Indentation(needle), Indentation(windows[i]))])

\* collapse: one space for a run of them, none in front, and where each was.
Collapsed(text) ==
    LET kept == {i \in DOMAIN text : text[i] \notin Gap}
        first == CHOOSE i \in kept : \A j \in kept : i <= j
    IN FoldLeft(LAMBDA out, i :
                   IF i \notin kept THEN out
                   ELSE out \o (IF i # first /\ i - 1 \notin kept THEN <<<<" ", i>>>> ELSE <<>>) \o <<<<text[i], i>>>>,
                <<>>, Positions(text))
Flat(s) == [k \in DOMAIN Collapsed(s) |-> Collapsed(s)[k][1]]
SpacingHits(text, e) ==
    LET flat == Collapsed(text)
        needle == Flat(e.old)
        n == Len(needle)
        end(i) == IF i + n > Len(flat) THEN Len(text) ELSE flat[i + n][2] - 1
        at == {i \in 1 .. Len(flat) - n + 1 : \A k \in 1 .. n : flat[i + k - 1][1] = needle[k]}
    IN IF needle = <<>> THEN <<>>
       ELSE FromLeft([i \in at |-> Found(flat[i][2] - 1, Len(TrimmedEnd(SubSeq(text, 1, end(i)))), e.new)], n, Len(flat))

-----------------------------------------------------------------------------
(* apply.                                                                   *)

\* A last hit, of nothing, brings what is left of the text.
Spliced(text, hits) ==
    FoldLeft(LAMBDA acc, h : [out |-> acc.out \o SubSeq(text, acc.at + 1, h.from) \o h.new, at |-> h.to],
             [out |-> <<>>, at |-> 0], Append(hits, Found(Len(text), Len(text), <<>>))).out
\* The first way that finds anything is the one that counts.
Either(hits, others) == IF hits # <<>> THEN hits ELSE others
Hits(text, e) ==
    Either(ExactHits(text, e), Either(LineEndHits(text, e), Either(IndentHits(text, e), SpacingHits(text, e))))
Refused(text) == [ok |-> FALSE, text |-> text]
\* What is found in no place is refused, and in more than one unless all are meant.
Made(text, e, hits) ==
    IF e.old # <<>> /\ e.old # e.new /\ Len(hits) \in (IF e.all THEN Nat \ {0} ELSE {1})
    THEN [ok |-> TRUE, text |-> Spliced(text, hits)] ELSE Refused(text)
ApplyOne(text, e) == Made(text, e, Hits(text, e))
\* Several, each in what the one before it left; one that fails, and none is made.
AndThen(done, e) == IF done.ok THEN ApplyOne(done.text, e) ELSE done
OrNone(text, done) == IF done.ok THEN done ELSE Refused(text)
Apply(text, edits) == OrNone(text, FoldLeft(AndThen, [ok |-> edits # <<>>, text |-> text], edits))

-----------------------------------------------------------------------------
(* A call of the tool, on every small text.                                 *)

Written(chars, n) == UNION {[1 .. k -> chars] : k \in 0 .. n}
EditInit ==
    /\ edit_text \in Written({"x", " ", "\n"}, EditLen) /\ edit_out = Unedited
    /\ \E old \in Written({"x", " ", "\n"}, EditOldLen), new \in NewTexts, all \in BOOLEAN :
          edit_call = [old |-> old, new |-> new, all |-> all]
EditRun ==
    /\ edit_out = Unedited /\ edit_out' = Apply(edit_text, <<edit_call>>)
    /\ UNCHANGED <<edit_text, edit_call>>
EditNext == EditRun

-----------------------------------------------------------------------------
NonBlank(s) == SelectSeq(s, LAMBDA c : c \notin Gap)
Alike(s, t) == Flat(s) = Flat(t)
Occurs(s, text) == \E i \in 0 .. Len(text) - Len(s) : SubSeq(text, i + 1, i + Len(s)) = s
\* What one edit takes out of a file is what it named but for its spaces, in one
\* place; what it puts there is what it was given but for its indentation; and
\* not a character of the rest changes.  What is there as it was written is
\* never passed over for something alike.
EditLandsWhereNamed ==
    edit_out # Unedited /\ edit_out.ok /\ ~edit_call.all =>
       \E from \in 0 .. Len(edit_text) : \E to \in from .. Len(edit_text) :
          LET old == SubSeq(edit_text, from + 1, to)
              kept == Len(edit_text) - (to - from)
              new == SubSeq(edit_out.text, from + 1, Len(edit_out.text) - (Len(edit_text) - to))
          IN /\ Alike(old, edit_call.old)
             /\ Occurs(edit_call.old, edit_text) => old = edit_call.old /\ new = edit_call.new
             /\ NonBlank(new) = NonBlank(edit_call.new)
             /\ edit_out.text = SubSeq(edit_text, 1, from) \o new \o SubSeq(edit_text, to + 1, Len(edit_text))
\* A file that is not edited is left as it was, and one in which nothing like
\* what was named is found is not edited.
NothingAlikeNothingDone ==
    edit_out # Unedited =>
       /\ ~edit_out.ok => edit_out.text = edit_text
       /\ edit_out.ok => \E from \in 0 .. Len(edit_text) : \E to \in from .. Len(edit_text) :
                            Alike(SubSeq(edit_text, from + 1, to), edit_call.old)
EditsHold == EditLandsWhereNamed /\ NothingAlikeNothingDone

-----------------------------------------------------------------------------
(* The diff: the script of lines kept, deleted and inserted, cut into hunks *)
(* with some of what is kept around each change.  The size above which no   *)
(* script is worked out, and the cap on lines shown, are small.             *)

CONSTANTS
    DiffLen,        \* bound: lines of a text
    DiffLimit,      \* DP_LIMIT
    DiffLines       \* MAX_LINES

VARIABLES
    diff_old, diff_new, diff_context,   \* what `unified` is given
    diff_out                            \* what it gives

diff_vars == <<diff_old, diff_new, diff_context, diff_out>>

UpTo(n) == [i \in 1 .. n |-> i]
Lesser(a, b) == IF a < b THEN a ELSE b
Same(op, n) == [i \in 1 .. n |-> op]

-----------------------------------------------------------------------------
(* script.                                                                  *)

\* lcs_ops: the table, then the way through it, deletions before insertions.
Longest(a, b) ==
    LET t[i \in 1 .. Len(a) + 1, j \in 1 .. Len(b) + 1] ==
            IF i > Len(a) \/ j > Len(b) THEN 0
            ELSE IF a[i] = b[j] THEN t[i + 1, j + 1] + 1
            ELSE IF t[i + 1, j] >= t[i, j + 1] THEN t[i + 1, j] ELSE t[i, j + 1]
    IN t
LcsOps(a, b) ==
    LET t == Longest(a, b)
        walk == FoldLeft(LAMBDA w, k :
                   IF w.i > Len(a) \/ w.j > Len(b) THEN w
                   ELSE IF a[w.i] = b[w.j] THEN [ops |-> Append(w.ops, "keep"), i |-> w.i + 1, j |-> w.j + 1]
                   ELSE IF t[w.i + 1, w.j] >= t[w.i, w.j + 1] THEN [w EXCEPT !.ops = Append(@, "del"), !.i = @ + 1]
                   ELSE [w EXCEPT !.ops = Append(@, "ins"), !.j = @ + 1],
                [ops |-> <<>>, i |-> 1, j |-> 1], UpTo(Len(a) + Len(b)))
    IN walk.ops \o Same("del", Len(a) - walk.i + 1) \o Same("ins", Len(b) - walk.j + 1)
\* The lines both begin with, and those both end with, are kept.
Common(a, b) == {n \in 0 .. Lesser(Len(a), Len(b)) : SubSeq(a, 1, n) = SubSeq(b, 1, n)}
Most(s) == CHOOSE n \in s : \A m \in s : m <= n
Script(a, b) ==
    LET pre == Most(Common(a, b))
        suf == Most(Common(Reverse(SubSeq(a, pre + 1, Len(a))), Reverse(SubSeq(b, pre + 1, Len(b)))))
        ma == SubSeq(a, pre + 1, Len(a) - suf)
        mb == SubSeq(b, pre + 1, Len(b) - suf)
    IN Same("keep", pre)
       \o (IF Len(ma) * Len(mb) > DiffLimit THEN Same("del", Len(ma)) \o Same("ins", Len(mb)) ELSE LcsOps(ma, mb))
       \o Same("keep", suf)

-----------------------------------------------------------------------------
(* unified: a hunk begins `context` lines before a change and ends as many  *)
(* after the last one that is near enough to the one before it.             *)

Kept(ops, i) == ops[i] = "keep"
Before(ops, i, context) ==
    Most({n \in 0 .. Lesser(context, i - 1) : \A k \in 1 .. n : Kept(ops, i - k)})
LastChange(ops, i, context) ==
    FoldLeft(LAMBDA w, end :
                IF w.over THEN w
                ELSE IF ~Kept(ops, end) THEN [w EXCEPT !.last = end]
                ELSE [w EXCEPT !.over = end - w.last > 2 * context],
             [last |-> i, over |-> FALSE], [k \in 1 .. Len(ops) - i + 1 |-> i + k - 1]).last
Hunk(a, b, ops, from, to, ai, bi) ==
    LET taken(i, op) == Cardinality({k \in from .. i - 1 : ops[k] # op})
        line(i) == IF ops[i] = "ins" THEN b[bi + taken(i, "del")] ELSE a[ai + taken(i, "ins")]
    IN [old |-> ai, new |-> bi,
        lines |-> [k \in 1 .. to - from + 1 |-> <<ops[from + k - 1], line(from + k - 1)>>]]
Unified(a, b, context) ==
    LET ops == Script(a, b)
        next(w, i) ==
           IF i < w.i THEN w
           ELSE IF Kept(ops, i) THEN [w EXCEPT !.i = i + 1, !.ai = @ + 1, !.bi = @ + 1]
           ELSE LET back == Before(ops, i, context)
                    to == Lesser(LastChange(ops, i, context) + context, Len(ops))
                    hunk == Hunk(a, b, ops, i - back, to, w.ai - back, w.bi - back)
                    used(op) == Cardinality({k \in i - back .. to : ops[k] # op})
                IN [hunks |-> Append(w.hunks, hunk), i |-> to + 1,
                    ai |-> w.ai - back + used("ins"), bi |-> w.bi - back + used("del")]
    IN FoldLeft(next, [hunks |-> <<>>, i |-> 1, ai |-> 1, bi |-> 1], UpTo(Len(ops))).hunks
\* The lines that are shown: at the cap it says so and ends.
Shown(hunks) ==
    FoldLeft(LAMBDA w, h :
                IF w.cut THEN w
                ELSE LET room == DiffLines - w.count
                     IN [hunks |-> Append(w.hunks, [h EXCEPT !.lines = SubSeq(@, 1, Lesser(room, Len(@)))]),
                         count |-> w.count + Lesser(room, Len(h.lines)), cut |-> Len(h.lines) > room],
             [hunks |-> <<>>, count |-> 0, cut |-> FALSE], hunks)

Unseen == [none |-> TRUE]
DiffTexts == UNION {[1 .. n -> {"a", "b"}] : n \in 0 .. DiffLen}
DiffInit == diff_old \in DiffTexts /\ diff_new \in DiffTexts /\ diff_context \in 0 .. 1 /\ diff_out = Unseen
DiffRun ==
    /\ diff_out = Unseen /\ diff_out' = Shown(Unified(diff_old, diff_new, diff_context))
    /\ UNCHANGED <<diff_old, diff_new, diff_context>>
DiffNext == DiffRun

-----------------------------------------------------------------------------
Side(h, op) == [k \in DOMAIN SelectSeq(h.lines, LAMBDA l : l[1] # op) |-> SelectSeq(h.lines, LAMBDA l : l[1] # op)[k][2]]
\* The hunks, put one after another in the place of what each says it replaces,
\* make the new text of the old one; the numbers they begin with are those of
\* both texts; a diff that was cut says less and never something else.
ShowsTheChange ==
    diff_out # Unseen =>
       LET hunks == diff_out.hunks
           made == FoldLeft(LAMBDA w, h :
                      [text |-> w.text \o SubSeq(diff_old, w.at, h.old - 1) \o Side(h, "del"),
                       at |-> h.old + Len(Side(h, "ins")),
                       right |-> w.right /\ w.at <= h.old
                                 /\ h.new = Len(w.text) + h.old - w.at + 1
                                 /\ Side(h, "ins") = SubSeq(diff_old, h.old, h.old + Len(Side(h, "ins")) - 1)],
                   [text |-> <<>>, at |-> 1, right |-> TRUE], hunks)
           text == made.text \o SubSeq(diff_old, made.at, Len(diff_old))
       IN /\ made.right
          /\ ~diff_out.cut => text = diff_new /\ (hunks = <<>> <=> diff_old = diff_new)
          /\ diff_out.cut => IsPrefix(made.text, diff_new)
=============================================================================
