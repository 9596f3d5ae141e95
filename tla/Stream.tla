------------------------------- MODULE Stream -------------------------------
(***************************************************************************)
(* One request to the model and its answer (the loop of Agent::run_turn    *)
(* and stream_with_retry in ah-core/src/agent.rs, Provider::stream in      *)
(* ah-core/src/provider): a worker reads the answer off the socket, the    *)
(* loop takes it up piece by piece, shows it as it comes, tries again when *)
(* nothing came, asks again when a call was cut off, and keeps what is     *)
(* worth keeping of an answer that ended part way.                         *)
(***************************************************************************)
EXTENDS Naturals, Sequences, SequencesExt

CONSTANTS
    StreamItems,    \* bound: what the provider sends
    StreamCalls,    \* bound: calls of one answer
    StreamRoom,     \* room of the channel between worker and loop
    StreamTries,    \* tries after a transient failure; 3 in the code
    StreamCutOffs   \* MAX_CUT_OFF

VARIABLES
    stream_pc,      \* "reading", "waiting" to try again, or "over"
    stream_wire,    \* whether the worker still reads
    stream_chan,    \* what it read
    stream_sent,    \* bound: items sent
    stream_acc,     \* Accumulator
    stream_any,     \* got_any
    stream_tries, stream_cuts, stream_cancel,
    stream_shown,   \* what the screen shows as this answer
    stream_kept,    \* the message pushed on the conversation
    stream_bill     \* history: usage reported by the attempts not tried again, and usage counted

stream_net == <<stream_wire, stream_chan, stream_sent>>
stream_end == <<stream_kept, stream_bill>>
stream_vars == <<stream_pc, stream_net, stream_acc, stream_any, stream_tries, stream_cuts,
                 stream_cancel, stream_shown, stream_end>>

NoMessage == [text |-> <<>>, calls |-> <<>>, short |-> FALSE, none |-> TRUE]
FreshAcc == [text |-> <<>>, calls |-> <<>>, usage |-> FALSE, length |-> FALSE]
StreamInit ==
    /\ stream_pc = "reading" /\ stream_wire = TRUE /\ stream_chan = <<>> /\ stream_sent = 0
    /\ stream_acc = FreshAcc /\ stream_any = FALSE /\ stream_tries = 0 /\ stream_cuts = 0
    /\ stream_cancel = FALSE /\ stream_shown = <<>> /\ stream_kept = NoMessage
    /\ stream_bill = [reported |-> 0, counted |-> 0]

-----------------------------------------------------------------------------
(* External: the provider.  The worker takes what it sends as fast as there *)
(* is room.  The end is "[DONE]" or the socket closed, which are one.       *)

Item(kind, n) == [kind |-> kind, n |-> n, index |-> 0, last |-> FALSE]
Delta(i, last) == [Item("call", stream_sent') EXCEPT !.index = i, !.last = last]
Pieces == {Item(k, stream_sent') : k \in {"text", "reasoning", "usage", "noise", "length"}}
         \cup {Delta(i, last) : i \in 1..StreamCalls, last \in BOOLEAN}
Ends  == {Item(k, 0) : k \in {"done", "transient", "refused"}}
StreamSend ==
    /\ stream_wire /\ Len(stream_chan) < StreamRoom
    /\ \/ /\ stream_sent < StreamItems /\ stream_sent' = stream_sent + 1 /\ UNCHANGED stream_wire
          /\ \E it \in Pieces : stream_chan' = Append(stream_chan, it)
       \/ /\ stream_wire' = FALSE /\ UNCHANGED stream_sent
          /\ \E it \in Ends : stream_chan' = Append(stream_chan, it)
    /\ UNCHANGED <<stream_pc, stream_acc, stream_any, stream_tries, stream_cuts, stream_cancel, stream_shown, stream_end>>

-----------------------------------------------------------------------------
(* The loop.                                                                *)

\* Accumulator::apply: a piece goes to the call of its index, and the calls
\* before it are there, if empty.
Apply(acc, it) ==
    CASE it.kind = "text"   -> [acc EXCEPT !.text = Append(@, it.n)]
      [] it.kind = "call"   -> [acc EXCEPT !.calls =
              [i \in 1..(IF it.index > Len(@) THEN it.index ELSE Len(@)) |->
                  (IF i <= Len(acc.calls) THEN acc.calls[i] ELSE <<>>)
                      \o (IF i = it.index THEN <<it>> ELSE <<>>)]]
      [] it.kind = "usage"  -> [acc EXCEPT !.usage = TRUE]
      [] it.kind = "length" -> [acc EXCEPT !.length = TRUE]
      [] OTHER -> acc
\* unfinished_call: arguments that do not parse; none at all are an empty object.
Unfinished(acc) == \E i \in DOMAIN acc.calls : acc.calls[i] # <<>> /\ ~Last(acc.calls[i]).last

Count(acc) == stream_bill' = IF acc.usage THEN [stream_bill EXCEPT !.counted = @ + 1] ELSE stream_bill
\* Another go, on a connection of its own.
Again(pc) ==
    /\ stream_pc' = pc /\ stream_wire' = TRUE /\ stream_chan' = <<>>
    /\ stream_acc' = FreshAcc /\ stream_any' = FALSE
Over(message) ==
    /\ stream_kept' = message /\ stream_pc' = "over" /\ stream_wire' = FALSE /\ stream_chan' = <<>>
    /\ UNCHANGED <<stream_acc, stream_any, stream_tries, stream_cuts, stream_shown>>

\* partial_message: the text so far, and no calls.
Partial(acc) ==
    /\ Count(acc)
    /\ Over(IF acc.text = <<>> THEN NoMessage
            ELSE [text |-> acc.text, calls |-> <<>>, short |-> TRUE, none |-> FALSE])
\* The end of an answer.
Complete ==
    /\ Count(stream_acc)
    /\ IF stream_cuts < StreamCutOffs /\ stream_acc.length /\ Unfinished(stream_acc)
       THEN /\ stream_cuts' = stream_cuts + 1 /\ stream_tries' = 0 /\ stream_shown' = <<>>
            /\ Again("reading") /\ UNCHANGED stream_kept
       ELSE Over([text |-> stream_acc.text, calls |-> stream_acc.calls, short |-> FALSE, none |-> FALSE])
\* stream_with_retry: only what produced nothing is tried again.
MayTry == stream_tries < StreamTries /\ ~stream_any
Fail(transient) ==
    IF transient /\ MayTry
    THEN /\ stream_tries' = stream_tries + 1 /\ Again("waiting")
         \* Usage such an attempt reported goes with it.
         /\ stream_bill' = IF stream_acc.usage THEN [stream_bill EXCEPT !.reported = @ - 1] ELSE stream_bill
         /\ UNCHANGED <<stream_cuts, stream_shown, stream_kept>>
    ELSE Partial(stream_acc)

\* drive and handle_chunk.
StreamRead ==
    /\ stream_pc = "reading" /\ ~stream_cancel /\ stream_chan # <<>>
    /\ LET it == Head(stream_chan) IN
          CASE it.kind = "done"      -> Complete /\ UNCHANGED stream_sent
            [] it.kind = "transient" -> Fail(TRUE) /\ UNCHANGED stream_sent
            [] it.kind = "refused"   -> Fail(FALSE) /\ UNCHANGED stream_sent
            [] OTHER -> /\ stream_chan' = Tail(stream_chan) /\ stream_acc' = Apply(stream_acc, it)
                        /\ stream_any' = (stream_any \/ it.kind \in {"text", "reasoning", "call"})
                        /\ stream_shown' = IF it.kind = "text" THEN Append(stream_shown, it.n) ELSE stream_shown
                        /\ stream_bill' = IF it.kind = "usage" /\ ~stream_acc.usage
                                          THEN [stream_bill EXCEPT !.reported = @ + 1] ELSE stream_bill
                        /\ UNCHANGED <<stream_pc, stream_wire, stream_sent, stream_tries, stream_cuts, stream_kept>>
    /\ UNCHANGED stream_cancel
\* The wait before another try is over.
StreamWake ==
    /\ stream_pc = "waiting" /\ ~stream_cancel /\ stream_pc' = "reading"
    /\ UNCHANGED <<stream_net, stream_acc, stream_any, stream_tries, stream_cuts, stream_cancel, stream_shown, stream_end>>
\* The cancel flag, looked at between two pieces and while nothing comes.
StreamStop ==
    /\ stream_pc \in {"reading", "waiting"} /\ stream_cancel /\ Partial(stream_acc)
    /\ UNCHANGED <<stream_sent, stream_cancel>>
StreamCancel ==
    /\ ~stream_cancel /\ stream_pc # "over" /\ stream_cancel' = TRUE
    /\ UNCHANGED <<stream_pc, stream_net, stream_acc, stream_any, stream_tries, stream_cuts, stream_shown, stream_end>>

StreamNext == StreamSend \/ StreamRead \/ StreamWake \/ StreamStop \/ StreamCancel
StreamSpec == StreamInit /\ [][StreamNext]_stream_vars

-----------------------------------------------------------------------------
(* Property. *)

\* When a request is over, the conversation has exactly the text the screen
\* shows as its answer, once, whatever failed or was cancelled on the way; a
\* call is in it only if its answer was whole, with its own pieces in order; a
\* call cut off is only kept once asking again is used up; and what the
\* provider charged for it is counted.
ShownIsKept ==
    stream_pc = "over" =>
        /\ stream_kept.text = stream_shown
        /\ stream_kept.short => stream_kept.calls = <<>>
        /\ \A i \in DOMAIN stream_kept.calls : LET c == stream_kept.calls[i] IN
              /\ \A k \in DOMAIN c : c[k].index = i
              /\ \A k \in 1..Len(c) - 1 : c[k].n < c[k + 1].n
        /\ (~stream_kept.none /\ stream_acc.length /\ Unfinished(stream_kept)) => stream_cuts = StreamCutOffs
        /\ stream_bill.counted = stream_bill.reported
=============================================================================
