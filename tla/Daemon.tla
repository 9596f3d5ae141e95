------------------------------- MODULE Daemon -------------------------------
(***************************************************************************)
(* A session of the daemon (ah/src/remote/daemon.rs): nobody at a          *)
(* keyboard, a phone's commands carried out by Machine::act, and the       *)
(* engine's events noted by Machine::note before they are published.  Both *)
(* hold the map of running sessions, so each is one step.  No waker is set *)
(* on the tables of jobs and subagents in this process.                    *)
(***************************************************************************)
EXTENDS Turns

VARIABLES
    running,   \* Running::busy
    woke       \* Running::mail_woke

daemonVars == <<running, woke>>
vars == <<turnVars, daemonVars>>

Init == TurnInit /\ running = FALSE /\ woke = FALSE

EngineStep == Engine /\ UNCHANGED daemonVars


\* Machine::note.  Mail left after a turn is woken for, once until more of it
\* comes or some of it is read.
Note ==
    /\ out # <<>>
    /\ out' = Tail(out)
    /\ LET e == Head(out) IN
       \/ /\ e.is = "busy"
          /\ running' = e.on
          /\ IF ~e.on /\ inbox # <<>> /\ ~woke
             THEN woke' = TRUE /\ Order(Wake)
             ELSE UNCHANGED <<woke, cmds>>
       \/ /\ e.is = "read"
          /\ woke' = FALSE
          /\ UNCHANGED <<running, cmds>>
    /\ UNCHANGED <<inbox, cancel, key, pc, msg, requests, work, heard, fate,
                   stops, compacts>>


\* Machine::act: Act::Submit.
ActSubmit(m) ==
    /\ fate[m] = "unsaid"
    /\ IF running
       THEN Push(m) /\ woke' = FALSE /\ UNCHANGED cmds
       ELSE Send(m) /\ UNCHANGED <<inbox, woke>>
    /\ UNCHANGED <<out, cancel, key, pc, msg, requests, work, heard, stops,
                   compacts, running>>

ActInterrupt ==
    /\ RaiseCancel
    /\ UNCHANGED <<cmds, out, inbox, key, pc, msg, requests, work, heard, fate,
                   compacts, daemonVars>>

ActCompact ==
    /\ AskCompaction
    /\ UNCHANGED <<out, inbox, cancel, key, pc, msg, requests, work, heard, fate,
                   stops, daemonVars>>

Ended(w) ==
    /\ EndWork(w)
    /\ UNCHANGED <<running, woke>>

Act == (\E m \in NextSaid(Phone) : ActSubmit(m)) \/ ActInterrupt \/ ActCompact

Next == EngineStep \/ Note \/ Act \/ (\E w \in Work : Ended(w))

Fairness == WF_vars(EngineStep) /\ WF_vars(Note)

Spec == Init /\ [][Next]_vars /\ Fairness

-----------------------------------------------------------------------------
TypeOK ==
    /\ TurnTypeOK
    /\ running \in BOOLEAN /\ woke \in BOOLEAN

(* Mail in the mailbox of a session at rest has had its wake: it is there  *)
(* only because the turn that wake started could not read it -- no key, or *)
(* an interrupt before its first look.                                     *)
RestingMailWasWoken ==
    Resting /\ inbox # <<>> => ~running /\ woke /\ (~key \/ stops > 0)

(* What a phone says is read, in the turn it starts or at a request of the *)
(* one it meets, unless there is no key or the session is interrupted.     *)
MailIsRead ==
    \A m \in Phone :
        fate[m] \in {"sent", "mailed"} ~> fate[m] = "read" \/ ~key \/ stops > 0

(* The engine comes to rest: mail a turn cannot read is not woken for      *)
(* again and again (mail_woke).                                            *)
ComesToRest == <>[](pc = "idle")
=============================================================================
