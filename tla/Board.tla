-------------------------------- MODULE Board --------------------------------
(***************************************************************************)
(* How what several sessions do reaches a phone (Publisher::observe,       *)
(* state_changed, fold and run in ah/src/remote/publisher.rs, and the loop *)
(* and Machine::note of ah/src/remote/daemon.rs).  One thread hears every  *)
(* session and adds to a batch; another takes the batch when it is time,   *)
(* puts it behind what must not wait, and sends it while the link is up.   *)
(* What becomes of a frame after that is in Remote.                        *)
(***************************************************************************)
EXTENDS Naturals, Sequences, SequencesExt, FiniteSets

CONSTANTS
    BoardSessions,   \* sessions of the daemon, all alike: the first to speak is a fixed one
    BoardSteps,      \* bound: events of a behaviour
    BoardKeep,       \* remote.outbox_bytes, in frames
    BoardBreaks      \* bound: times the link is lost or another phone attaches

VARIABLES
    board_busy,      \* Running::busy
    board_hand,      \* the daemon's loop: the event in hand, and what is left to do with it
    board_batch,     \* Shared::batch
    board_pending,   \* Shared::pending: the number of the question, 0 for none
    board_last,      \* Shared::last_state
    board_up,        \* Shared::up
    board_outbox,
    board_phone,     \* what a phone has made of the frames: words, state and question of each session
    board_steps, board_breaks,
    board_said,      \* history: what each session said
    board_asks,      \* history: the question each session waits on
    board_whole      \* history: that no frame was dropped

board_shared == <<board_batch, board_pending, board_last>>
board_bounds == <<board_steps, board_breaks>>
board_vars == <<board_busy, board_hand, board_shared, board_up, board_outbox, board_phone, board_bounds,
                board_said, board_asks, board_whole>>

Ev(kind, of) == [kind |-> kind, of |-> of]
Idle0 == [do |-> "recv"]
EmptyBatch == [events |-> [s \in BoardSessions |-> <<>>], order |-> <<>>, urgent |-> FALSE, ahead |-> <<>>]
BoardInit ==
    /\ board_busy = [s \in BoardSessions |-> FALSE] /\ board_hand = Idle0
    /\ board_batch = EmptyBatch /\ board_pending = [s \in BoardSessions |-> 0] /\ board_last = [of |-> ""]
    /\ board_up = FALSE /\ board_outbox = <<>>
    /\ board_phone = [s \in BoardSessions |-> [said |-> <<>>, busy |-> FALSE, asks |-> 0]]
    /\ board_steps = 0 /\ board_breaks = 0
    /\ board_said = [s \in BoardSessions |-> <<>>] /\ board_asks = [s \in BoardSessions |-> 0] /\ board_whole = TRUE

-----------------------------------------------------------------------------
(* The daemon's loop.                                                       *)

\* The next event of a session: a turn begins and ends, says something, calls a
\* tool, counts a compaction, puts a question or has its answer.
NextOf(s) ==
    {e \in {Ev("begin", 0)} : ~board_busy[s]}
    \cup {e \in {Ev("end", 0)} : board_busy[s] /\ board_asks[s] = 0}
    \cup {e \in {Ev(k, board_steps') : k \in {"text", "tool", "progress", "ask"}} :
             board_busy[s] /\ board_asks[s] = 0}
    \cup {e \in {Ev("answered", board_asks[s])} : board_asks[s] # 0}
\* UiEvent::Busy.
IsBusy(e) == e.kind \in {"begin", "end"}
\* Machine::note.
BoardNote ==
    /\ board_hand = Idle0 /\ board_steps < BoardSteps /\ board_steps' = board_steps + 1
    /\ \E s \in IF board_steps = 0 THEN {CHOOSE s \in BoardSessions : TRUE} ELSE BoardSessions : \E e \in NextOf(s) :
          /\ board_hand' = [do |-> "observe", of |-> s, ev |-> e]
          /\ board_busy' = IF IsBusy(e) THEN [board_busy EXCEPT ![s] = e.kind = "begin"] ELSE board_busy
          /\ board_said' = IF e.kind \in {"begin", "end", "ask", "answered"} THEN board_said
                           ELSE [board_said EXCEPT ![s] = Append(@, e)]
          /\ board_asks' = CASE e.kind = "ask" -> [board_asks EXCEPT ![s] = e.of]
                             [] e.kind = "answered" -> [board_asks EXCEPT ![s] = 0]
                             [] OTHER -> board_asks
    /\ UNCHANGED <<board_shared, board_up, board_outbox, board_phone, board_breaks, board_whole>>

\* A mutant: words are put with the last words, whatever came between.
FoldAnywhere(evs, e) ==
    LET i == SelectLastInSeq(evs, LAMBDA x : x.kind = e.kind)
    IN IF e.kind = "text" /\ i # 0 THEN [evs EXCEPT ![i].of = @ \o e.of] ELSE Append(evs, e)
\* fold: a run of words is one piece, and only the last count of a run stands.
FoldIn(evs, e) ==
    IF evs = <<>> \/ Last(evs).kind # e.kind \/ e.kind = "tool" THEN Append(evs, e)
    ELSE IF e.kind = "progress" THEN Append(Front(evs), e)
    ELSE Append(Front(evs), [Last(evs) EXCEPT !.of = @ \o e.of])
Ahead(frames) == [board_batch EXCEPT !.ahead = @ \o frames]
Frame(kind, s, of) == [kind |-> kind, s |-> s, of |-> of]
\* Publisher::observe.
BoardObserve ==
    /\ board_hand.do = "observe"
    /\ LET s == board_hand.of
           e == board_hand.ev IN
          CASE IsBusy(e) -> UNCHANGED <<board_batch, board_pending>>
            [] e.kind = "ask" -> /\ board_pending' = [board_pending EXCEPT ![s] = e.of]
                                 /\ board_batch' = Ahead(<<Frame("ask", s, e.of)>>)
            [] e.kind = "answered" -> /\ board_pending' = [board_pending EXCEPT ![s] = 0]
                                      /\ board_batch' = Ahead(<<Frame("answered", s, e.of)>>)
            [] OTHER -> /\ board_batch' = [board_batch EXCEPT !.events[s] = FoldIn(@, [e EXCEPT !.of = <<e.of>>]),
                                                              !.order = IF board_batch.events[s] = <<>> THEN Append(@, s) ELSE @,
                                                              !.urgent = @ \/ e.kind = "tool"]
                        /\ UNCHANGED board_pending
    /\ board_hand' = IF IsBusy(board_hand.ev) THEN [board_hand EXCEPT !.do = "state"] ELSE Idle0
    /\ UNCHANGED <<board_busy, board_last, board_up, board_outbox, board_phone, board_bounds, board_said, board_asks, board_whole>>
StateOf(s) == [of |-> s, busy |-> board_busy[s]]
\* state_changed: said unless it is what was said last, of whichever session.
BoardState ==
    /\ board_hand.do = "state" /\ board_hand' = Idle0
    /\ LET state == StateOf(board_hand.of)
           ended == board_last.of # "" /\ board_last.busy /\ ~state.busy IN
          IF board_last = state THEN UNCHANGED <<board_last, board_batch>>
          ELSE /\ board_last' = state
               /\ board_batch' = Ahead(<<Frame("state", state.of, state.busy)>>
                                       \o IF ended THEN <<Frame("sessions", "", 0)>> ELSE <<>>)
    /\ UNCHANGED <<board_busy, board_pending, board_up, board_outbox, board_phone, board_bounds, board_said, board_asks, board_whole>>

-----------------------------------------------------------------------------
(* The publisher's thread.                                                  *)

BoardOpen ==
    /\ ~board_up /\ board_up' = TRUE
    /\ board_outbox' = <<Frame("hello", "", 0)>> \o board_outbox \o <<Frame("sessions", "", 0)>>
    /\ UNCHANGED <<board_busy, board_hand, board_shared, board_phone, board_bounds, board_said, board_asks, board_whole>>
BoardDown ==
    /\ board_up /\ board_breaks < BoardBreaks /\ board_up' = FALSE /\ board_breaks' = board_breaks + 1
    /\ UNCHANGED <<board_busy, board_hand, board_shared, board_outbox, board_phone, board_steps, board_said, board_asks, board_whole>>
\* answer, to Attach: the state as it is at that moment.
BoardAttach ==
    /\ board_up /\ board_breaks < BoardBreaks /\ board_breaks' = board_breaks + 1
    /\ \E s \in BoardSessions : board_outbox' = Append(board_outbox, Frame("state", s, board_busy[s]))
    /\ UNCHANGED <<board_busy, board_hand, board_shared, board_up, board_phone, board_steps, board_said, board_asks, board_whole>>

\* What a phone makes of a frame.
Taken(phone, f) ==
    CASE f.kind = "events"   -> [phone EXCEPT ![f.s].said = @ \o f.of]
      [] f.kind = "state"    -> [phone EXCEPT ![f.s].busy = f.of]
      [] f.kind = "ask"      -> [phone EXCEPT ![f.s].asks = f.of]
      [] f.kind = "answered" -> [phone EXCEPT ![f.s].asks = IF @ = f.of THEN 0 ELSE @]
      [] OTHER -> phone
\* The tail of the loop: what does not wait, then the batch if it is time, and
\* all of it sent; or, with the link down, the oldest dropped.
BoardFlush ==
    /\ \E due \in BOOLEAN :
          LET takes == due \/ board_batch.urgent
              evs   == [i \in DOMAIN board_batch.order |->
                           Frame("events", board_batch.order[i], board_batch.events[board_batch.order[i]])]
              all   == board_outbox \o board_batch.ahead \o (IF takes THEN evs ELSE <<>>)
              kept  == IF Len(all) > BoardKeep THEN Len(all) - BoardKeep + 1 ELSE 1
          IN /\ board_batch' = IF takes THEN EmptyBatch ELSE [board_batch EXCEPT !.ahead = <<>>]
             /\ all # <<>>
             /\ IF board_up
                THEN /\ board_phone' = FoldLeft(Taken, board_phone, all) /\ board_outbox' = <<>>
                     /\ UNCHANGED board_whole
                ELSE /\ board_outbox' = SubSeq(all, kept, Len(all)) /\ UNCHANGED board_phone
                     /\ board_whole' = (board_whole /\ kept = 1)
    /\ UNCHANGED <<board_busy, board_hand, board_pending, board_last, board_up, board_bounds, board_said, board_asks>>

BoardNext == BoardNote \/ BoardObserve \/ BoardState \/ BoardOpen \/ BoardDown \/ BoardAttach \/ BoardFlush
BoardSpec == BoardInit /\ [][BoardNext]_board_vars

-----------------------------------------------------------------------------
(* Property. *)

\* What is said in events, with every run of words one piece and every run of
\* counts its last.
Reads(evs) == FoldLeft(LAMBDA es, e : FoldIn(es, e), <<>>, evs)
Words(s) == [i \in DOMAIN board_said[s] |-> [board_said[s][i] EXCEPT !.of = <<@>>]]

\* One by one, without the counts.
OneByOne(evs) == FlattenSeq([i \in DOMAIN evs |-> IF evs[i].kind = "progress" THEN <<>> ELSE evs[i].of])

\* While nothing was dropped: a phone has, of every session, the beginning of
\* what it said, in its order and without a hole; and once all of it is sent the
\* whole, whether the session is at work and the question it waits on, however
\* batches, questions and states overtook each other and however often the link
\* was lost (Publisher).
PhoneFollows ==
    board_whole => \A s \in BoardSessions :
        /\ IsPrefix(OneByOne(board_phone[s].said), OneByOne(Words(s)))
        /\ (board_hand = Idle0 /\ board_batch = EmptyBatch /\ board_outbox = <<>>) =>
              /\ Reads(board_phone[s].said) = Reads(Words(s))
              /\ board_phone[s].busy = board_busy[s]
              /\ board_phone[s].asks = board_asks[s] /\ board_pending[s] = board_asks[s]
=============================================================================
