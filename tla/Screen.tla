------------------------------- MODULE Screen -------------------------------
(***************************************************************************)
(* How the events of a turn become the blocks on the screen (handle_agent, *)
(* apply_event and load_history in ah/src/tui/mod.rs, Events in ah-core/   *)
(* src/agents.rs).  The conversation's blocks are made as the events come; *)
(* an agent's own view takes the same events up later, in lumps, from a    *)
(* log that drops the oldest; and a conversation opened again is made of   *)
(* its messages alone.                                                     *)
(***************************************************************************)
EXTENDS Naturals, Sequences, SequencesExt, FiniteSets

CONSTANTS
    ScrSteps,     \* bound: pieces, calls, requests and messages of a behaviour
    ScrLog        \* bound: events the log of an agent keeps

VARIABLES
    scr_pc,       \* run_turn: "top", "reply", "calls", "over"
    scr_got,      \* the reply so far: the pieces, whether anything came, and a picture
    scr_calls,    \* calls of the reply still to run
    scr_msgs,     \* the conversation
    scr_entries,  \* App::entries
    scr_log,      \* Events: the events kept, and the number of the next
    scr_pane,     \* Pane: its blocks, and the last event it has taken up
    scr_n,        \* bound, and the name of the next piece, call or message
    scr_ran,      \* history: the calls that ran
    scr_apart     \* history: "main", "pane", where a block came into a reply, or events were lost

scr_loop == <<scr_pc, scr_got, scr_calls, scr_msgs, scr_n, scr_ran>>
scr_vars == <<scr_loop, scr_entries, scr_log, scr_pane, scr_apart>>

\* What a call came to: its own output, by its id, or one of these.
NoOut     == 0
Refused   == ScrSteps + 1
Cancelled == ScrSteps + 2
Block(k, text, id, plan, out) == [k |-> k, text |-> text, id |-> id, plan |-> plan, out |-> out]
Said(k, text)       == Block(k, text, 0, FALSE, NoOut)
Tool(id, plan, out) == Block("tool", <<>>, id, plan, out)
Other               == Said("other", <<>>)
Event(e, text, id, plan, out) == [e |-> e, text |-> text, id |-> id, plan |-> plan, out |-> out]
Bare(e) == Event(e, <<>>, 0, FALSE, NoOut)

Nothing == [text |-> <<>>, any |-> FALSE, image |-> FALSE]
ScrInit ==
    /\ scr_pc = "over" /\ scr_got = Nothing /\ scr_calls = <<>> /\ scr_msgs = <<>> /\ scr_entries = <<>>
    /\ scr_log = [items |-> <<>>, next |-> 1] /\ scr_pane = [entries |-> <<>>, seen |-> 0]
    /\ scr_n = 1 /\ scr_ran = {} /\ scr_apart = {}

-----------------------------------------------------------------------------
(* Blocks.                                                                  *)

\* push_block: of a run of plans only the last is still true.
PushBlock(es, b) ==
    IF b.plan /\ es # <<>> /\ Last(es).plan THEN Append(Front(es), b) ELSE Append(es, b)
IsReply(es) == es # <<>> /\ Last(es).k = "reply"
\* A mutant: a result goes to the last call that has none.
EndLastCall(es, id, out) ==
    LET i == SelectLastInSeq(es, LAMBDA b : b.k = "tool" /\ b.out = NoOut)
    IN IF i = 0 THEN es ELSE [es EXCEPT ![i].out = out]
\* A result goes to the call it answers.
EndCall(es, id, out) ==
    LET i == SelectLastInSeq(es, LAMBDA b : b.k = "tool" /\ b.id = id)
    IN IF i = 0 THEN es ELSE [es EXCEPT ![i].out = out]
\* What the two copies share.
Shown(es, ev) ==
    CASE ev.e = "start"  -> PushBlock(es, Said("reply", <<>>))
      [] ev.e = "text"   -> IF IsReply(es) THEN Append(Front(es), Said("reply", Last(es).text \o ev.text)) ELSE es
      [] ev.e = "whole"  -> IF ~IsReply(es) THEN es
                            ELSE Front(es) \o IF ev.text = <<>> THEN <<>> ELSE <<Said("reply", ev.text)>>
      [] ev.e = "user"   -> PushBlock(es, Said("user", ev.text))
      [] ev.e = "call"   -> PushBlock(es, Tool(ev.id, ev.plan, NoOut))
      [] ev.e = "result" -> EndCall(es, ev.id, ev.out)
      [] OTHER -> es
\* handle_agent: the rest is said over the input box, and goes; a picture has
\* a block of its own.
HandleAgent(es, ev) == IF ev.e = "image" THEN PushBlock(es, Other) ELSE Shown(es, ev)
\* apply_event: an agent's view has no such place, and pictures are left out.
ApplyEvent(es, ev) == IF ev.e \in {"retry", "notice", "error"} THEN PushBlock(es, Other) ELSE Shown(es, ev)

\* load_history.
LoadHistory(msgs) ==
    FoldLeft(LAMBDA es, m :
        CASE m.k = "user"   -> PushBlock(es, Said("user", m.text))
          [] m.k = "result" -> EndCall(es, m.id, m.out)
          [] m.k = "reply"  -> FoldLeft(LAMBDA s, c : PushBlock(s, Tool(c.id, c.plan, NoOut)),
                                   IF m.text # <<>> \/ m.calls = <<>> THEN PushBlock(es, Said("reply", m.text)) ELSE es,
                                   m.calls), <<>>, msgs)

-----------------------------------------------------------------------------
(* The turn: events, in the order run_turn emits them.                      *)

\* Emitted: shown at once in the conversation, kept for an agent's view.
Emit(evs) ==
    LET items == scr_log.items \o [i \in DOMAIN evs |-> [n |-> scr_log.next + i - 1, ev |-> evs[i]]]
        kept  == SubSeq(items, IF Len(items) > ScrLog THEN Len(items) - ScrLog + 1 ELSE 1, Len(items))
    IN /\ scr_entries' = FoldLeft(HandleAgent, scr_entries, evs)
       /\ scr_log' = [items |-> kept, next |-> scr_log.next + Len(evs)]
       /\ UNCHANGED scr_pane
Apart(who) == scr_apart' = scr_apart \cup who
Keep1 == scr_n < ScrSteps /\ scr_n' = scr_n + 1
Message(k, text) == [k |-> k, text |-> text, calls |-> <<>>, id |-> 0, out |-> NoOut]
Reply(text, calls) == [Message("reply", text) EXCEPT !.calls = calls]
Result(id, out) == [Message("result", <<>>) EXCEPT !.id = id, !.out = out]

\* A turn begins with what was said; or what was said meanwhile is read.
ScrSay ==
    /\ scr_pc \in {"over", "top"} /\ Keep1
    /\ Emit(<<Event("user", <<scr_n>>, 0, FALSE, NoOut)>>)
    /\ scr_msgs' = Append(scr_msgs, Message("user", <<scr_n>>))
    /\ scr_pc' = "top"
    /\ UNCHANGED <<scr_got, scr_calls, scr_ran, scr_apart>>
ScrAsk ==
    /\ scr_pc = "top" /\ Keep1 /\ scr_pc' = "reply" /\ scr_got' = Nothing
    /\ Emit(<<Bare("start")>>)
    /\ UNCHANGED <<scr_calls, scr_msgs, scr_ran, scr_apart>>
ScrPiece ==
    /\ scr_pc = "reply" /\ Keep1
    /\ \/ /\ Emit(<<Event("text", <<scr_n>>, 0, FALSE, NoOut)>>)
          /\ scr_got' = [scr_got EXCEPT !.text = Append(@, scr_n), !.any = TRUE] /\ UNCHANGED scr_apart
       \/ /\ Emit(<<Bare("image")>>) /\ Apart({"main"})
          /\ scr_got' = [scr_got EXCEPT !.any = TRUE, !.image = TRUE]
       \/ ~scr_got.any /\ Emit(<<Bare("retry")>>) /\ Apart({"pane"}) /\ UNCHANGED scr_got
    /\ UNCHANGED <<scr_pc, scr_calls, scr_msgs, scr_ran>>
\* The answer is whole; the calls in it are named and come one after another.
ScrWhole ==
    /\ scr_pc = "reply"
    /\ \E plans \in {<<>>, <<FALSE>>, <<TRUE>>, <<FALSE, FALSE>>} :
          LET calls == [i \in DOMAIN plans |-> [id |-> scr_n + i - 1, plan |-> plans[i]]] IN
          /\ scr_n + Len(calls) <= ScrSteps /\ scr_n' = scr_n + Len(calls)
          /\ scr_calls' = calls /\ scr_msgs' = Append(scr_msgs, Reply(scr_got.text, calls))
          /\ scr_pc' = IF calls = <<>> THEN "over" ELSE "calls"
          /\ Emit(<<Event("whole", scr_got.text, 0, FALSE, NoOut)>> \o IF calls = <<>> THEN <<Bare("turn_end")>> ELSE <<>>)
    /\ UNCHANGED <<scr_got, scr_ran, scr_apart>>
\* It was cut off in a call and is asked for again; or it failed or was stopped,
\* and the words there are kept.
ScrShort ==
    /\ scr_pc = "reply" /\ UNCHANGED <<scr_got, scr_calls, scr_n, scr_ran, scr_apart>>
    /\ \/ scr_pc' = "top" /\ Emit(<<Bare("notice")>>) /\ UNCHANGED scr_msgs
       \/ LET kept == scr_got.text # <<>> \/ scr_got.image IN
          /\ scr_pc' = "over"
          /\ scr_msgs' = IF kept THEN Append(scr_msgs, Reply(scr_got.text \o <<0>>, <<>>)) ELSE scr_msgs
          /\ \E how \in {"error", "turn_end"} :
                Emit((IF kept THEN <<Event("whole", scr_got.text \o <<0>>, 0, FALSE, NoOut)>> ELSE <<>>) \o <<Bare(how)>>)
\* run_batch: one call, or two that run at once; a call that is refused is not
\* begun, and every one has its end.  Or the turn is stopped before it.
ScrBatch ==
    /\ scr_pc = "calls"
    /\ UNCHANGED <<scr_got, scr_n, scr_apart>>
    /\ \/ \E n \in 1..Len(scr_calls) :
          \E run \in SUBSET (1..n) :
             LET batch == SubSeq(scr_calls, 1, n)
                 out(i) == IF i \in run THEN batch[i].id ELSE Refused
                 begun == SelectSeq([i \in 1..n |-> i], LAMBDA i : i \in run)
             IN /\ Emit([i \in DOMAIN begun |-> LET c == batch[begun[i]] IN Event("call", <<>>, c.id, c.plan, NoOut)]
                        \o [i \in 1..n |-> Event("result", <<>>, batch[i].id, FALSE, out(i))])
                /\ scr_msgs' = scr_msgs \o [i \in 1..n |-> Result(batch[i].id, out(i))]
                /\ scr_calls' = SubSeq(scr_calls, n + 1, Len(scr_calls))
                /\ scr_pc' = IF scr_calls' = <<>> THEN "top" ELSE "calls"
                /\ scr_ran' = scr_ran \cup {batch[i].id : i \in run}
       \/ /\ scr_msgs' = scr_msgs \o [i \in DOMAIN scr_calls |-> Result(scr_calls[i].id, Cancelled)]
          /\ scr_calls' = <<>> /\ scr_pc' = "over" /\ Emit(<<Bare("turn_end")>>) /\ UNCHANGED scr_ran

-----------------------------------------------------------------------------
(* The window.                                                              *)

\* pump_agent: whatever there is since the last look.
ScrPump ==
    LET fresh == SelectSeq(scr_log.items, LAMBDA it : it.n > scr_pane.seen) IN
    /\ fresh # <<>>
    /\ scr_pane' = [entries |-> FoldLeft(LAMBDA es, it : ApplyEvent(es, it.ev), scr_pane.entries, fresh),
                    seen |-> scr_log.next - 1]
    /\ scr_apart' = IF fresh[1].n > scr_pane.seen + 1 THEN scr_apart \cup {"pane"} ELSE scr_apart
    /\ UNCHANGED <<scr_loop, scr_entries, scr_log>>
\* A command of the window that answers with a block, at any time.
ScrSlash ==
    /\ scr_n < ScrSteps /\ scr_n' = scr_n + 1
    /\ scr_entries' = PushBlock(scr_entries, Other)
    /\ scr_apart' = IF scr_pc = "reply" THEN scr_apart \cup {"main"} ELSE scr_apart
    /\ UNCHANGED <<scr_pc, scr_got, scr_calls, scr_msgs, scr_ran, scr_log, scr_pane>>
\* Resumed: the screen is what the messages say.
ScrReopen ==
    /\ scr_pc = "over" /\ scr_entries' = LoadHistory(scr_msgs) /\ scr_apart' = scr_apart \ {"main"}
    /\ UNCHANGED <<scr_loop, scr_log, scr_pane>>

ScrNext == ScrSay \/ ScrAsk \/ ScrPiece \/ ScrWhole \/ ScrShort \/ ScrBatch \/ ScrPump \/ ScrSlash \/ ScrReopen
ScrSpec == ScrInit /\ [][ScrNext]_scr_vars

-----------------------------------------------------------------------------
(* Property. *)

\* What a reader takes from blocks: words that are there, and calls that ran.
\* A plan call is not counted: a later one takes its place.
Told(es) ==
    SelectSeq(es, LAMBDA b : \/ b.k \in {"user", "reply"} /\ b.text # <<>>
                             \/ b.k = "tool" /\ ~b.plan /\ b.id \in scr_ran)
\* Whether s is what is left of t when some of it is taken out.
Within(s, t) == FoldLeft(LAMBDA k, x : IF k <= Len(s) /\ s[k] = x THEN k + 1 ELSE k, 1, t) > Len(s)

\* Between two requests the screen tells the conversation: every word said and
\* every call that ran, each with its own result, in their order, as the
\* conversation opened again would; so does an agent's view once it has caught
\* up; and no call is left open.  What an attempt showed before it was cut off
\* may be there besides.  Not where a block came between the words of a reply
\* (see the README), nor where the log had dropped what the view had not seen.
ScreenTells ==
    scr_pc \in {"top", "over"} =>
        LET history == Told(LoadHistory(scr_msgs)) IN
        /\ "main" \notin scr_apart => Within(history, Told(scr_entries))
        /\ "pane" \notin scr_apart /\ scr_pane.seen = scr_log.next - 1 => Within(history, Told(scr_pane.entries))
        /\ \A i \in DOMAIN scr_entries : scr_entries[i].k = "tool" => \/ scr_entries[i].out # NoOut
                                                                      \/ scr_entries[i].id \notin scr_ran
=============================================================================
