------------------------------- MODULE Window -------------------------------
(***************************************************************************)
(* A session in a window: the UI thread (ah/src/tui/mod.rs) drives the     *)
(* engine of Turns, a forwarder carries its events to the UI queue, the    *)
(* tables of jobs and subagents put their own messages on that queue, and  *)
(* a phone reaches the same engine from the publisher's thread             *)
(* (ah/src/remote/window.rs).  The UI's `busy` is what it believes of the  *)
(* engine; the phone reads a copy of that belief.                          *)
(***************************************************************************)
EXTENDS Turns

CONSTANTS QueueMax, NoPhone

Tables == {"jobs", "agents"}
WorkOf(t) == IF t = "jobs" THEN Jobs ELSE Kids
TableOf(w) == IF w \in Jobs THEN "jobs" ELSE "agents"
Changed(t) == [is |-> "changed", of |-> t]      \* Msg::Jobs, Msg::Agents
News == {Changed(t) : t \in Tables}

VARIABLES
    ui,        \* the UI thread's queue: engine events and table changes
    busy,      \* App::busy
    queue,     \* App::queue: typed into the mailbox and not yet seen read
    woke,      \* App::mail_woke
    mid,       \* the table whose handler has caught up and not yet looked
    live,      \* Window::live.busy, the phone's copy
    phone,     \* a submit the publisher's thread has looked at `live` for
    pending,   \* Jobs::pending, Agents::pending
    ringing,   \* work that has ended and not yet called wake
    quiet      \* history: work that ended with nothing running

windowVars == <<ui, busy, queue, woke, mid, live, phone, pending, ringing, quiet>>
vars == <<turnVars, windowVars>>

Init ==
    /\ TurnInit
    /\ ui = <<>> /\ busy = FALSE /\ queue = <<>> /\ woke = FALSE
    /\ mid = {} /\ live = FALSE /\ phone = NoPhone
    /\ pending = [t \in Tables |-> FALSE] /\ ringing = {}
    /\ quiet = {}

-----------------------------------------------------------------------------
(* The engine and the forwarder. *)

EngineStep == Engine /\ UNCHANGED windowVars

Forward ==
    /\ out # <<>>
    /\ ui' = Append(ui, Head(out))
    /\ out' = Tail(out)
    /\ UNCHANGED <<cmds, inbox, cancel, key, pc, msg, requests, work, heard, fate,
                   stops, compacts>>
    /\ UNCHANGED <<busy, queue, woke, mid, live, phone, pending, ringing, quiet>>

-----------------------------------------------------------------------------
(* What the UI thread does with the keyboard.  Between two messages only:   *)
(* a handler in the middle of its work has `mid` set.                       *)

AtKeyboard ==
    /\ mid = {}
    /\ UNCHANGED <<out, key, pc, msg, requests, work, heard>>
    /\ UNCHANGED <<ui, mid, live, phone, pending, ringing, quiet>>

\* submit_with, nothing running: a turn of its own.
Type(m) ==
    /\ AtKeyboard
    /\ fate[m] = "unsaid" /\ ~busy
    /\ Send(m)
    /\ busy' = TRUE
    /\ UNCHANGED <<inbox, cancel, stops, compacts, queue, woke>>

\* A mutant: one message too many is let wait.
TypeMidTurnOffByOne(m) ==
    /\ AtKeyboard
    /\ fate[m] = "unsaid" /\ busy
    /\ IF Len(queue) > QueueMax
       THEN Becomes({m}, "full") /\ UNCHANGED <<inbox, queue, woke>>
       ELSE /\ Push(m)
            /\ queue' = Append(queue, m)
            /\ woke' = FALSE
    /\ UNCHANGED <<cmds, cancel, stops, compacts, busy>>

\* submit_with, a turn running: into the mailbox, or turned away at queue_max.
TypeMidTurn(m) ==
    /\ AtKeyboard
    /\ fate[m] = "unsaid" /\ busy
    /\ IF Len(queue) >= QueueMax
       THEN Becomes({m}, "full") /\ UNCHANGED <<inbox, queue, woke>>
       ELSE /\ Push(m)
            /\ queue' = Append(queue, m)
            /\ woke' = FALSE
    /\ UNCHANGED <<cmds, cancel, stops, compacts, busy>>


\* The part of the queue that unqueue_last gives back, called until it fails:
\* the messages at its end that the engine has not taken.
Unread == {i \in DOMAIN queue : \A j \in i..Len(queue) : queue[j] \in ToSet(inbox)}

TakeBack(is) ==
    LET ms == {queue[i] : i \in is}
    IN /\ queue' = SubSeq(queue, 1, Len(queue) - Cardinality(is))
       /\ inbox' = SelectSeq(inbox, LAMBDA m : m \notin ms)
       /\ Becomes(ms, "back")

\* Up with an empty editor: the last message not yet read comes back.
Up ==
    /\ AtKeyboard
    /\ queue # <<>> /\ Len(queue) \in Unread
    /\ TakeBack({Len(queue)})
    /\ UNCHANGED <<cmds, cancel, stops, compacts, busy, woke>>

\* cancel_turn.
Esc ==
    /\ AtKeyboard
    /\ busy
    /\ RaiseCancel
    /\ woke' = FALSE
    /\ TakeBack(Unread)
    /\ UNCHANGED <<cmds, compacts, busy>>

\* /compact.
TypeCompact ==
    /\ AtKeyboard
    /\ ~busy
    /\ AskCompaction
    /\ busy' = TRUE
    /\ UNCHANGED <<inbox, cancel, fate, stops, queue, woke>>

-----------------------------------------------------------------------------
(* What the UI thread does with its queue. *)

Handling(e) ==
    /\ mid = {} /\ ui # <<>>
    /\ e = Head(ui)
    /\ ui' = Tail(ui)
    /\ UNCHANGED <<out, inbox, cancel, key, pc, msg, requests, work, heard, fate,
                   stops, compacts>>
    /\ UNCHANGED <<phone, ringing, quiet>>

\* A mutant: woken for at the end of every turn.
DeliverAgain ==
    IF queue # <<>>
    THEN woke' = TRUE /\ Order(Wake)
    ELSE UNCHANGED <<woke, cmds>>

\* deliver_pending: mail is left after a turn, and it has not been woken for.
Deliver ==
    IF queue # <<>> /\ ~woke
    THEN woke' = TRUE /\ Order(Wake)
    ELSE UNCHANGED <<woke, cmds>>

\* UiEvent::Busy, then publish_live.
HandleBusy ==
    \E b \in BOOLEAN :
        /\ Handling(Busy(b))
        /\ busy' = b /\ live' = b
        /\ IF b THEN UNCHANGED <<woke, cmds>> ELSE Deliver
        /\ UNCHANGED <<queue, mid, pending>>

\* AgentEvent::UserMessage, then publish_live.
HandleRead ==
    \E m \in Msgs :
        /\ Handling(Read(m))
        /\ queue' = SelectSeq(queue, LAMBDA q : q # m)
        /\ woke' = FALSE
        /\ live' = busy
        /\ UNCHANGED <<cmds, busy, mid, pending>>

\* A mutant: the table is never told its watcher has caught up.
HandleTableNeverCaughtUp ==
    \E t \in Tables :
        /\ Handling(Changed(t))
        /\ mid' = {t}
        /\ UNCHANGED <<cmds, busy, queue, woke, live, pending>>

\* jobs_changed and agents_changed: caught_up first,
HandleTable ==
    \E t \in Tables :
        /\ Handling(Changed(t))
        /\ pending' = [pending EXCEPT ![t] = FALSE]
        /\ mid' = {t}
        /\ UNCHANGED <<cmds, busy, queue, woke, live>>


\* then the look for news, which starts a turn if nothing is running.
Notice ==
    \E t \in mid :
        /\ mid' = {}
        /\ IF ~busy /\ UnheardOf(WorkOf(t), 0)
           THEN busy' = TRUE /\ Order(Wake)
           ELSE UNCHANGED <<busy, cmds>>
        /\ UNCHANGED <<out, inbox, cancel, key, pc, msg, requests, work, heard,
                       fate, stops, compacts>>
        /\ UNCHANGED <<ui, queue, woke, live, phone, pending, ringing, quiet>>

UI == HandleBusy \/ HandleRead \/ HandleTable \/ Notice

-----------------------------------------------------------------------------
(* The threads of the tables. *)

\* wake: one message until the UI says it has caught up.
Call(t) ==
    /\ IF pending[t] THEN UNCHANGED ui ELSE ui' = Append(ui, Changed(t))
    /\ pending' = [pending EXCEPT ![t] = TRUE]

Ended(w) ==
    /\ EndWork(w)
    /\ ringing' = ringing \cup {w}
    /\ quiet' = IF Resting /\ ~busy /\ ui \in Seq(News) THEN quiet \cup {w} ELSE quiet
    /\ UNCHANGED <<ui, busy, queue, woke, mid, live, phone, pending>>

Ring ==
    \E w \in ringing :
        /\ Call(TableOf(w))
        /\ ringing' = ringing \ {w}
        /\ UNCHANGED <<turnVars, busy, queue, woke, mid, live, phone, quiet>>

\* A running job prints, a running subagent takes a step.
Stir(w) ==
    /\ work[w] = "running"
    /\ Call(TableOf(w))
    /\ UNCHANGED <<turnVars, busy, queue, woke, mid, live, phone, ringing, quiet>>

-----------------------------------------------------------------------------
(* The publisher's thread: Window::act. *)

\* Act::Submit looks at its copy of busy, and lets go of it,
PhoneLook(m) ==
    /\ phone = NoPhone /\ fate[m] = "unsaid"
    /\ phone' = [of |-> m, busy |-> live]
    /\ UNCHANGED <<turnVars, ui, busy, queue, woke, mid, live, pending, ringing, quiet>>

\* then acts on what it saw.
PhonePut ==
    /\ phone # NoPhone
    /\ IF phone.busy
       THEN Push(phone.of) /\ UNCHANGED cmds
       ELSE Send(phone.of) /\ UNCHANGED inbox
    /\ phone' = NoPhone
    /\ UNCHANGED <<out, cancel, key, pc, msg, requests, work, heard, stops, compacts>>
    /\ UNCHANGED <<ui, busy, queue, woke, mid, live, pending, ringing, quiet>>

\* Act::Interrupt raises the flag and does nothing else.
PhoneInterrupt ==
    /\ Phone # {} /\ phone = NoPhone
    /\ RaiseCancel
    /\ UNCHANGED <<cmds, out, inbox, key, pc, msg, requests, work, heard, fate,
                   compacts, windowVars>>

\* Act::Compact, whatever is running.
PhoneCompact ==
    /\ Phone # {} /\ phone = NoPhone
    /\ AskCompaction
   
    /\ UNCHANGED <<out, inbox, cancel, key, pc, msg, requests, work, heard, fate, stops>>
    /\ UNCHANGED <<ui, busy, queue, woke, mid, live, phone, pending, ringing, quiet>>

Keyboard == (\E m \in NextSaid(Desk) : Type(m) \/ TypeMidTurn(m)) \/ Up \/ Esc \/ TypeCompact
Remote   == (\E m \in NextSaid(Phone) : PhoneLook(m)) \/ PhonePut \/ PhoneInterrupt \/ PhoneCompact
Threads  == (\E w \in Work : Ended(w) \/ Stir(w)) \/ Ring

Next == EngineStep \/ Forward \/ Keyboard \/ UI \/ Threads \/ Remote

(* Every thread keeps running, the provider answers each request, and what *)
(* a person or a background process does is never owed.                    *)
Fairness ==
    /\ WF_vars(EngineStep) /\ WF_vars(Forward) /\ WF_vars(UI)
    /\ WF_vars(Ring) /\ WF_vars(PhonePut)

Spec == Init /\ [][Next]_vars /\ Fairness

-----------------------------------------------------------------------------
(* Types, and the bounds the budgets set. *)
TypeOK ==
    /\ TurnTypeOK
    /\ ui \in Seq(Events \cup News) /\ busy \in BOOLEAN /\ live \in BOOLEAN
    /\ queue \in Seq(Desk) /\ Len(queue) <= QueueMax /\ woke \in BOOLEAN
    /\ mid \in SUBSET Tables /\ phone \in [of : Phone, busy : BOOLEAN] \cup {NoPhone}
    /\ pending \in [Tables -> BOOLEAN]
    /\ ringing \subseteq Work /\ quiet \subseteq Work

Reads(s) == SelectSeq(s, LAMBDA e : e.is = "read")
Texts(s) == [i \in DOMAIN Reads(s) |-> Reads(s)[i].of]

(* Once everything said between the threads has arrived, the UI's belief   *)
(* is the truth: it is busy exactly while the engine is in a turn.  It is  *)
(* set early, by the UI itself, on three of the four ways a turn starts,   *)
(* and a Wake that finds nothing to do never clears it (serve, app.rs).    *)
BusyIsTrue ==
    cmds = <<>> /\ out = <<>> /\ ui = <<>> => (busy <=> pc # "idle")

(* The messages shown as waiting are, in order, those typed here that are  *)
(* still in the mailbox and those whose reading has yet to be shown: what  *)
(* Up or Esc gives back the model never sees (unqueue_last, UserMessage).  *)
QueueIsUnread ==
    queue = SelectSeq(Texts(ui) \o Texts(out) \o inbox, LAMBDA m : m \in Desk)

(* A typed message comes to an end: it is read, or given back, or there    *)
(* was no room for it; mail the last look of a turn missed is woken for    *)
(* (deliver_pending).                                                      *)
MailSettles ==
    \A m \in Desk :
        key /\ fate[m] \in {"sent", "mailed"} ~> fate[m] \notin {"sent", "mailed"}

(* The engine comes to rest: mail a turn cannot read is not woken for      *)
(* again and again (mail_woke).                                            *)
ComesToRest == <>[](pc = "idle")

(* Work that ends with nothing running is told to the model: jobs_changed  *)
(* and agents_changed start a turn for it, and a wake that meets one still *)
(* on its way is not lost (wake, caught_up).  Without a key, or with the   *)
(* turn interrupted, it waits.                                             *)
QuietEndIsTold ==
    \A w \in Work : w \in quiet ~> w \in heard \/ ~key \/ stops > 0

(* What a phone says mid-turn is read, as what is typed here is.           *)
PhoneMailIsRead ==
    \A m \in Phone : fate[m] = "mailed" ~> fate[m] = "read"
=============================================================================
