------------------------------- MODULE Editor -------------------------------
(***************************************************************************)
(* The input of a window (ah/src/tui/input.rs): text and cursor, chips     *)
(* that stand for a long paste or an image until the message is sent, the  *)
(* last kill, and the history with its file.  A chip is two pieces of      *)
(* text, its head, which says its number, and its end: the cursor can be   *)
(* between them.                                                           *)
(***************************************************************************)
EXTENDS Integers, Sequences, SequencesExt, FiniteSets

CONSTANTS
    EdKeep,      \* HISTORY_KEEP
    EdSteps,     \* bound: keys struck
    EdChips      \* bound: pastes, and images, of a behaviour

VARIABLES
    ed_text, ed_cursor, ed_images, ed_pastes, ed_killed,    \* Editor
    ed_hist, ed_pos, ed_draft,      \* history, hist_pos (0 is none) and draft
    ed_file,                        \* the history file, and what it held once trimmed
    ed_sent,                        \* what the last submit sent, and of what text
    ed_typed,                       \* history: the text at the start of a walk through the history
    ed_broken,                      \* history: a chip was cut, killed, written into or left for another text
    ed_count, ed_steps

ed_box  == <<ed_text, ed_cursor, ed_images, ed_pastes, ed_killed>>
ed_past == <<ed_hist, ed_pos, ed_draft, ed_file>>
ed_vars == <<ed_box, ed_past, ed_sent, ed_typed, ed_broken, ed_count, ed_steps>>

Char(c) == <<c, 0, 0>>
ChipHead(kind, n, id) == <<kind, n, id>>     \* "[Image #1: 12 " and "[Pasted #1: 40 "
ChipEnd == Char("end")                    \* "KB]" and "lines]"
Body(id) == <<"body", 0, id>>             \* what was pasted
Blank == {Char(" "), Char("\n")}
IsHead(a) == a[1] \in {"image", "paste"}
LeftText == SubSeq(ed_text, 1, ed_cursor)
RightText  == SubSeq(ed_text, ed_cursor + 1, Len(ed_text))
NothingSent == [of |-> <<>>, text |-> <<>>, images |-> <<>>, whole |-> TRUE]

EdInit ==
    /\ ed_text = <<>> /\ ed_cursor = 0 /\ ed_images = <<>> /\ ed_pastes = <<>> /\ ed_killed = <<>>
    /\ ed_hist = <<>> /\ ed_pos = 0 /\ ed_draft = <<>> /\ ed_file = <<>>
    /\ ed_sent = NothingSent /\ ed_typed = <<>> /\ ed_broken = FALSE /\ ed_count = 0 /\ ed_steps = 0

EdStep == ed_steps < EdSteps /\ ed_steps' = ed_steps + 1
\* Is the cursor inside a chip: its head before, its end after.
Inside == ed_cursor > 0 /\ IsHead(Last(LeftText)) /\ RightText # <<>> /\ RightText[1] = ChipEnd

-----------------------------------------------------------------------------
(* Putting in.                                                              *)

PutIn(s) == ed_text' = LeftText \o s \o RightText /\ ed_cursor' = ed_cursor + Len(s)
TypeChar ==
    /\ EdStep /\ \E c \in {"a", " ", "\n"} : PutIn(<<Char(c)>>)
    /\ ed_broken' = (ed_broken \/ Inside)
    /\ UNCHANGED <<ed_images, ed_pastes, ed_killed, ed_past, ed_sent, ed_typed, ed_count>>
\* insert_paste: a long one is a chip.
InsertPaste ==
    /\ EdStep /\ Len(ed_pastes) < EdChips
    /\ ed_count' = ed_count + 1 /\ ed_pastes' = Append(ed_pastes, ed_count')
    /\ PutIn(<<ChipHead("paste", Len(ed_pastes'), ed_count'), ChipEnd>>)
    /\ ed_broken' = (ed_broken \/ Inside)
    /\ UNCHANGED <<ed_images, ed_killed, ed_past, ed_sent, ed_typed>>
\* insert_image, at the cursor; the space is for what the text ends with.
InsertImage ==
    /\ EdStep /\ Len(ed_images) < EdChips
    /\ ed_count' = ed_count + 1 /\ ed_images' = Append(ed_images, ed_count')
    /\ LET chip == <<ChipHead("image", Len(ed_images'), ed_count'), ChipEnd>>
       IN PutIn(IF ed_text # <<>> /\ Last(ed_text) \notin Blank THEN <<Char(" ")>> \o chip ELSE chip)
    /\ ed_broken' = (ed_broken \/ Inside)
    /\ UNCHANGED <<ed_pastes, ed_killed, ed_past, ed_sent, ed_typed>>
YankBack ==
    /\ EdStep /\ ed_killed # <<>> /\ PutIn(ed_killed)
    /\ ed_broken' = (ed_broken \/ Inside)
    /\ UNCHANGED <<ed_images, ed_pastes, ed_killed, ed_past, ed_sent, ed_typed, ed_count>>

-----------------------------------------------------------------------------
(* Taking out.                                                              *)

\* backspace_chip: where the chip that ends at the cursor begins, or 0.
ChipStart ==
    LET heads == {i \in 1 .. ed_cursor : IsHead(ed_text[i])}
        start == CHOOSE i \in heads : \A j \in heads : j <= i
    IN IF ed_cursor = 0 \/ Last(LeftText) # ChipEnd \/ heads = {} THEN 0
       ELSE IF \E i \in start .. ed_cursor : ed_text[i] = Char("\n") THEN 0 ELSE start
FirstOf(text, n) == SelectInSeq(text, LAMBDA a : a[1] = "image" /\ a[2] = n)
Numbered(text, n, m) ==
    LET i == FirstOf(text, n) IN IF i = 0 THEN text ELSE [text EXCEPT ![i] = ChipHead("image", m, @[3])]
\* The chips of the images that follow are numbered again, each the first it finds.
Renumbered(text, n, last) ==
    FoldLeft(LAMBDA t, i : Numbered(t, i + 1, i), text, [k \in 1 .. last - n + 1 |-> n + k - 1])
\* A mutant: the chips behind keep the numbers of images that have moved up.
BackspaceChipAlone ==
    LET start == ChipStart
        n == ed_text[start][2]
    IN /\ start # 0
       /\ ed_images' = IF ed_text[start][1] = "image" /\ n \in DOMAIN ed_images THEN RemoveAt(ed_images, n) ELSE ed_images
       /\ ed_text' = SubSeq(ed_text, 1, start - 1) \o SubSeq(ed_text, ed_cursor + 1, Len(ed_text))
       /\ ed_cursor' = start - 1
       /\ UNCHANGED <<ed_pastes, ed_killed, ed_broken>>
BackspaceChip ==
    LET start == ChipStart
        n == ed_text[start][2]
        dropped == ed_text[start][1] = "image" /\ n \in DOMAIN ed_images
        text == IF dropped THEN Renumbered(ed_text, n, Len(ed_images) - 1) ELSE ed_text
    IN /\ start # 0
       /\ ed_images' = IF dropped THEN RemoveAt(ed_images, n) ELSE ed_images
       /\ ed_text' = SubSeq(text, 1, start - 1) \o SubSeq(text, ed_cursor + 1, Len(text))
       /\ ed_cursor' = start - 1
       /\ UNCHANGED <<ed_pastes, ed_killed, ed_broken>>
CutOut(from, to) ==    \* the atoms after `from` up to `to`
    /\ ed_text' = SubSeq(ed_text, 1, from) \o SubSeq(ed_text, to + 1, Len(ed_text))
    /\ ed_cursor' = from
    /\ ed_broken' = (ed_broken \/ \E i \in from + 1 .. to : IsHead(ed_text[i]) \/ ed_text[i] = ChipEnd)
    /\ UNCHANGED <<ed_images, ed_pastes>>
KillText(from, to) == from < to /\ CutOut(from, to) /\ ed_killed' = SubSeq(ed_text, from + 1, to)
\* Where the word before the cursor begins; a head ends in a blank.
WordStart ==
    LET blank(i) == ed_text[i] \in Blank
        end == CHOOSE i \in 0 .. ed_cursor :
                  (\A j \in i + 1 .. ed_cursor : blank(j)) /\ (i = 0 \/ ~blank(i))
    IN CHOOSE i \in 0 .. end :
          (\A j \in i + 1 .. end : ~blank(j) /\ ~IsHead(ed_text[j])) /\ (i = 0 \/ blank(i) \/ IsHead(ed_text[i]))
TakeOut ==
    /\ EdStep
    /\ \/ BackspaceChip                                                          \* Backspace, Ctrl-W
       \/ ChipStart = 0 /\ ed_cursor > 0 /\ CutOut(ed_cursor - 1, ed_cursor) /\ UNCHANGED ed_killed
       \/ ed_cursor < Len(ed_text) /\ CutOut(ed_cursor, ed_cursor + 1) /\ UNCHANGED ed_killed     \* Delete
       \/ ChipStart = 0 /\ ~Inside /\ KillText(WordStart, ed_cursor)                 \* Ctrl-W
       \/ KillText(0, Len(ed_text))                                                  \* Ctrl-U
    /\ UNCHANGED <<ed_past, ed_sent, ed_typed, ed_count>>
\* Esc, with nothing else to leave.
EdClear ==
    /\ EdStep /\ ed_text # <<>>
    /\ ed_text' = <<>> /\ ed_cursor' = 0 /\ ed_images' = <<>> /\ ed_pastes' = <<>> /\ ed_pos' = 0
    /\ UNCHANGED <<ed_killed, ed_hist, ed_draft, ed_file, ed_sent, ed_typed, ed_broken, ed_count>>

-----------------------------------------------------------------------------
(* Moving, and the history at the first and the last line.                  *)

LineStarts == {0} \cup {i \in DOMAIN ed_text : ed_text[i] = Char("\n")}     \* line_starts
LineStart(at) == CHOOSE s \in LineStarts : s <= at /\ \A t \in LineStarts : t <= at => t <= s
LineEnd(at) == CHOOSE e \in at .. Len(ed_text) :
                  (e = Len(ed_text) \/ ed_text[e + 1] = Char("\n")) /\ \A i \in at + 1 .. e : ed_text[i] # Char("\n")
ColumnOf(at) == at - LineStart(at)
AtMost(a, b) == IF a < b THEN a ELSE b
FirstLine == LineStart(ed_cursor) = 0
LastLine == LineEnd(ed_cursor) = Len(ed_text)
CursorTo(at) == ed_cursor' = at /\ UNCHANGED <<ed_text, ed_images, ed_pastes, ed_killed, ed_past, ed_broken, ed_typed>>
LineUp == LET s == LineStart(LineStart(ed_cursor) - 1)
          IN CursorTo(AtMost(s + ColumnOf(ed_cursor), LineStart(ed_cursor) - 1))
LineDown == LET s == LineEnd(ed_cursor) + 1 IN CursorTo(AtMost(s + ColumnOf(ed_cursor), LineEnd(s)))

Recall(text, pos) ==
    /\ ed_text' = text /\ ed_cursor' = Len(text) /\ ed_pos' = pos
    /\ ed_broken' = (ed_broken \/ ed_images # <<>> \/ ed_pastes # <<>>)
    /\ UNCHANGED <<ed_images, ed_pastes, ed_killed, ed_hist, ed_file>>
HistoryPrev ==
    /\ ed_hist # <<>> /\ ed_pos # 1
    /\ LET pos == IF ed_pos = 0 THEN Len(ed_hist) ELSE ed_pos - 1 IN Recall(ed_hist[pos], pos)
    /\ ed_draft' = (IF ed_pos = 0 THEN ed_text ELSE ed_draft)
    /\ ed_typed' = (IF ed_pos = 0 THEN ed_text ELSE ed_typed)
HistoryNext ==
    /\ ed_pos # 0
    /\ \/ ed_pos = Len(ed_hist) /\ Recall(ed_draft, 0) /\ ed_draft' = <<>>
       \/ ed_pos < Len(ed_hist) /\ Recall(ed_hist[ed_pos + 1], ed_pos + 1) /\ UNCHANGED ed_draft
    /\ UNCHANGED ed_typed
MoveCursor ==
    /\ EdStep
    /\ \/ ed_cursor > 0 /\ CursorTo(ed_cursor - 1)
       \/ ed_cursor < Len(ed_text) /\ CursorTo(ed_cursor + 1)
       \/ CursorTo(LineStart(ed_cursor)) \/ CursorTo(LineEnd(ed_cursor))
       \/ FirstLine /\ HistoryPrev
       \/ LastLine /\ HistoryNext
       \/ ~FirstLine /\ LineUp
       \/ ~LastLine /\ LineDown
    /\ UNCHANGED <<ed_sent, ed_count>>

-----------------------------------------------------------------------------
(* Sending.                                                                 *)

\* expand_pastes: the chips that are whole, by their number.
Expanded(text) ==
    LET whole(i) == text[i][1] = "paste" /\ i < Len(text) /\ text[i + 1] = ChipEnd /\ text[i][2] \in DOMAIN ed_pastes
    IN FoldLeft(LAMBDA out, i : IF whole(i) THEN Append(out, Body(ed_pastes[text[i][2]]))
                                ELSE IF i > 1 /\ whole(i - 1) THEN out ELSE Append(out, text[i]),
                <<>>, [i \in DOMAIN text |-> i])
\* strip_image_chips: from a head to the next end, what is between them too.
Stripped(text) ==
    LET ends(i) == {j \in i .. Len(text) : text[j] = ChipEnd}
        gone(k) == \E i \in 1 .. k : text[i][1] = "image" /\ ends(i) # {} /\ \A j \in ends(i) : k <= j
    IN FoldLeft(LAMBDA out, k : IF gone(k) THEN out ELSE Append(out, text[k]), <<>>, [k \in DOMAIN text |-> k])
IsBlank(text) == \A i \in DOMAIN text : text[i] \in Blank
Remembered(hist, t) ==
    LET all == Append(SelectSeq(hist, LAMBDA h : h # t), t)
    IN IF hist # <<>> /\ Last(hist) = t THEN hist
       ELSE IF Len(all) > EdKeep THEN Tail(all) ELSE all
\* submit_editor: take, take_images and record_history.
EdSubmit ==
    /\ EdStep
    /\ LET t == Stripped(Expanded(ed_text))
           new == ~IsBlank(t) /\ (ed_hist = <<>> \/ Last(ed_hist) # t)
       IN /\ ed_sent' = [of |-> ed_text, text |-> t, images |-> ed_images, whole |-> ~ed_broken]
          /\ ed_hist' = IF IsBlank(t) THEN ed_hist ELSE Remembered(ed_hist, t)
          /\ ed_file' = IF new THEN Append(ed_file, t) ELSE ed_file
    /\ ed_text' = <<>> /\ ed_cursor' = 0 /\ ed_images' = <<>> /\ ed_pastes' = <<>> /\ ed_pos' = 0
    /\ UNCHANGED <<ed_killed, ed_draft, ed_typed, ed_broken, ed_count>>
\* Another window: load_history_file and set_history.
Newest(s, n) == SubSeq(s, Len(s) - AtMost(n, Len(s)) + 1, Len(s))
Reopened ==
    LET kept == Newest(ed_file, EdKeep)
    IN SelectSeq([i \in DOMAIN kept |-> IF \E j \in i + 1 .. Len(kept) : kept[j] = kept[i] THEN <<>> ELSE kept[i]],
                 LAMBDA h : h # <<>>)
Reopen ==
    /\ EdStep /\ ed_file # <<>>
    /\ ed_hist' = Reopened
    /\ ed_file' = IF Len(ed_file) > 2 * EdKeep THEN Newest(ed_file, EdKeep) ELSE ed_file
    /\ ed_text' = <<>> /\ ed_cursor' = 0 /\ ed_images' = <<>> /\ ed_pastes' = <<>> /\ ed_killed' = <<>>
    /\ ed_pos' = 0 /\ ed_draft' = <<>> /\ ed_typed' = <<>>
    /\ UNCHANGED <<ed_sent, ed_broken, ed_count>>

EdNext == TypeChar \/ InsertPaste \/ InsertImage \/ YankBack \/ TakeOut \/ EdClear \/ MoveCursor \/ EdSubmit \/ Reopen

-----------------------------------------------------------------------------
\* While no chip was cut or killed, the chips of a text are its images and
\* pastes, each once and by its number, however they were added and removed.
HeadsOf(text, kind) == {i \in DOMAIN text : text[i][1] = kind}
ChipsAreWhatIsAttached ==
    /\ ed_cursor \in 0 .. Len(ed_text)
    /\ ~ed_broken =>
          /\ Cardinality(HeadsOf(ed_text, "image")) = Len(ed_images)
          /\ \A i \in HeadsOf(ed_text, "image") : ed_text[i][2] \in DOMAIN ed_images /\ ed_images[ed_text[i][2]] = ed_text[i][3]
          /\ \A i \in HeadsOf(ed_text, "paste") : ed_pastes[ed_text[i][2]] = ed_text[i][3]
\* What is sent of such a text is what was written, each paste in full, no part
\* of a chip, and the image of every chip that it showed.
SentIsShown ==
    ed_sent.whole =>
       LET shown == SelectSeq(ed_sent.of, LAMBDA a : a[1] \in {"a", "body", "paste"})
       IN /\ SelectSeq(ed_sent.text, LAMBDA a : a \notin Blank) =
                [i \in DOMAIN shown |-> IF shown[i][1] = "paste" THEN Body(shown[i][3]) ELSE shown[i]]
          /\ ToSet(ed_sent.images) = {ed_sent.of[i][3] : i \in HeadsOf(ed_sent.of, "image")}
\* A walk through the history gives back what was typed before it, the history
\* says nothing twice, and another window opens with the newest of it.
HistoryHolds ==
    /\ ed_pos \in 0 .. Len(ed_hist)
    /\ ed_pos # 0 => ed_draft = ed_typed
    /\ Len(ed_hist) <= EdKeep /\ IsInjective(ed_hist)
    /\ IsSuffix(Reopened, ed_hist)
EditorHolds == ChipsAreWhatIsAttached /\ SentIsShown /\ HistoryHolds
=============================================================================
