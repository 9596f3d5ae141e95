----------------------------- MODULE KeptOutput -----------------------------
(***************************************************************************)
(* What is kept of a job's output (Output in ah-core/src/jobs.rs): the     *)
(* first lines, the most recent ones, and the count of those that fell out *)
(* in between; and a reader who asks for the lines from the number the     *)
(* last answer gave it (ah-core/src/tools/jobs.rs).  A line is its number  *)
(* in the order of writing and its length.                                 *)
(***************************************************************************)
EXTENDS Naturals, Sequences, SequencesExt

CONSTANTS
    KeptCap,     \* Output::cap, in units; a third of it is the head's
    KeptSizes,   \* what is written at once
    KeptLines    \* bound: lines

VARIABLES
    kept_head, kept_tail, kept_start, kept_lines, kept_dropped, kept_partial,   \* Output
    kept_next,   \* the next_line the reader was given
    kept_read    \* history: the lines it was given

kept_out == <<kept_head, kept_tail, kept_start, kept_lines, kept_dropped, kept_partial>>
kept_vars == <<kept_out, kept_next, kept_read>>

KeptInit ==
    /\ kept_head = <<>> /\ kept_tail = <<>> /\ kept_start = 0
    /\ kept_lines = 0 /\ kept_dropped = 0 /\ kept_partial = 0
    /\ kept_next = 0 /\ kept_read = <<>>

HeadRoom == KeptCap \div 3
TailRoom == KeptCap - KeptCap \div 3
Bytes(ls) == FoldSeq(LAMBDA l, sum : sum + l.len + 1, 0, ls)

\* How many of the oldest lines have to go for the rest to fit.
Excess(ls) == CHOOSE k \in 0..Len(ls) :
    /\ Bytes(SubSeq(ls, k + 1, Len(ls))) <= TailRoom
    /\ \A j \in 0..k - 1 : Bytes(SubSeq(ls, j + 1, Len(ls))) > TailRoom

\* Output::push_line.
PushLine(len) ==
    LET line == [n |-> kept_lines, len |-> len]
        tail == Append(kept_tail, line)
        gone == Excess(tail)
    IN /\ kept_lines' = kept_lines + 1
       /\ IF Bytes(kept_head) + len <= HeadRoom
          THEN /\ kept_head' = Append(kept_head, line) /\ kept_start' = Len(kept_head')
               /\ UNCHANGED <<kept_tail, kept_dropped>>
          ELSE /\ kept_tail' = SubSeq(tail, gone + 1, Len(tail))
               /\ kept_start' = kept_start + gone /\ kept_dropped' = kept_dropped + gone
               /\ UNCHANGED kept_head

\* Output::push_bytes: text that ends a line or does not; a line that never
\* ends is cut back to its last half.
Write(size, ended) ==
    LET len == kept_partial + size IN
    /\ kept_lines < KeptLines
    /\ IF ended
       THEN PushLine(len) /\ kept_partial' = 0
       ELSE /\ kept_partial' = IF len > KeptCap THEN KeptCap \div 2 ELSE len
            /\ UNCHANGED <<kept_head, kept_tail, kept_start, kept_lines, kept_dropped>>
    /\ UNCHANGED <<kept_next, kept_read>>

\* Output::line.
Has(n) == n < Len(kept_head) \/ n - kept_start \in 0..Len(kept_tail) - 1
LineAt(n) == IF n < Len(kept_head) THEN kept_head[n + 1] ELSE kept_tail[n - kept_start + 1]
\* Output::view, of any number of lines, without the line still being written.
View(from) ==
    LET Step(s) == IF s.n >= kept_lines THEN s
                   ELSE IF Has(s.n) THEN [n |-> s.n + 1, lines |-> Append(s.lines, LineAt(s.n))]
                   ELSE [s EXCEPT !.n = IF kept_start > s.n + 1 THEN kept_start ELSE s.n + 1]
        walk[k \in 0..kept_lines] ==
            IF k = 0 THEN [n |-> from, lines |-> <<>>] ELSE Step(walk[k - 1])
    IN walk[kept_lines]
\* The jobs tool's output, from_line on.
KeptRead ==
    /\ kept_next < kept_lines
    /\ LET v == View(kept_next) IN
          /\ kept_next' = v.n
          /\ kept_read' = kept_read \o [i \in 1..Len(v.lines) |-> v.lines[i].n]
    /\ UNCHANGED kept_out

KeptNext == KeptRead \/ \E size \in KeptSizes, ended \in BOOLEAN : Write(size, ended)
KeptSpec == KeptInit /\ [][KeptNext]_kept_vars

-----------------------------------------------------------------------------
(* Properties. *)

\* Every line is kept or counted as dropped, whatever the lengths, and what is
\* kept stays within the limit.  As long as no line was put in front of an older
\* one (README, "Where the code and its texts disagree"), a reader who goes by
\* next_line is shown each line once, in order, and misses only what fell out.
OutputHolds ==
    /\ Len(kept_head) + Len(kept_tail) + kept_dropped = kept_lines
    /\ Bytes(kept_tail) <= TailRoom
    /\ Bytes(kept_head) + Bytes(kept_tail) + kept_partial <= 2 * KeptCap + 1
    /\ (\A i \in DOMAIN kept_head : kept_head[i].n = i - 1) =>
          /\ \A i \in 1..Len(kept_read) - 1 : kept_read[i] < kept_read[i + 1]
          /\ \A l \in ToSet(kept_head) \cup ToSet(kept_tail) : l.n < kept_next => l.n \in ToSet(kept_read)
=============================================================================
