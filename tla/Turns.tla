------------------------------- MODULE Turns -------------------------------
(***************************************************************************)
(* The engine thread of one session (Engine::serve and Engine::turn in     *)
(* ah/src/app.rs) and the part of the turn loop that decides what the      *)
(* model is told (AgentLoop::run_turn in ah-core/src/agent.rs): commands   *)
(* come in on one channel, events go out on another, and whoever drives    *)
(* the session also reaches past both, into the mailbox and the cancel     *)
(* flag.  Window and Daemon add the two drivers.                           *)
(***************************************************************************)
EXTENDS Naturals, Sequences, FiniteSets, SequencesExt

CONSTANTS
    Desk,          \* messages typed at the keyboard; texts differ
    Phone,         \* messages sent from a phone
    NoMsg,         \* no message
    Jobs,          \* background jobs this session may start
    Kids,          \* background subagents it may start
    Owner,         \* Engine::owner: 0 in a window, an id of its own in a daemon
    MaxRequests,   \* agent.max_requests, for one turn
    Keys,          \* {TRUE}, {FALSE}: whether the provider has an API key
    MaxStops,      \* bound: times a turn is interrupted
    MaxCompacts    \* bound: times a compaction is asked for

Msgs == Desk \cup Phone
Work == Jobs \cup Kids

VARIABLES
    cmds,      \* EngineCmd channel, driver to engine
    out,       \* UiEvent channel, engine to forwarder
    inbox,     \* Inbox: said while a turn runs, not yet read
    cancel,    \* Engine::cancel
    key,       \* there is an API key
    pc,        \* where the engine thread is
    msg,       \* the message the turn was started with, if any
    requests,  \* TurnSummary::requests
    work,      \* how far each job and subagent has got
    heard,     \* ended work the model has been told of (the Model bit of `reported`)
    fate,      \* what became of each message
    stops, compacts                                      \* the budgets spent

turnVars == <<cmds, out, inbox, cancel, key, pc, msg, requests, work, heard,
              fate, stops, compacts>>

Busy(b)  == [is |-> "busy", on |-> b]
Read(m)  == [is |-> "read", of |-> m]
Submit(m) == [do |-> "submit", msg |-> m]
Wake      == [do |-> "wake", msg |-> NoMsg]
Compact   == [do |-> "compact", msg |-> NoMsg]

Commands == [do : {"submit"}, msg : Msgs] \cup {Wake, Compact}
Events   == [is : {"busy"}, on : BOOLEAN] \cup [is : {"read"}, of : Msgs]
Fates    == {"unsaid", "sent", "mailed", "read", "back", "refused", "full"}
Stages   == {"idle", "begin", "top", "request", "end", "compact"}

Emit(e)  == out' = Append(out, e)
Order(c) == cmds' = Append(cmds, c)
Becomes(ms, f) == fate' = [m \in Msgs |-> IF m \in ms THEN f ELSE fate[m]]
\* The next to be said of some messages: any one, for only their names tell them apart.
NextSaid(ms) ==
    LET left == {m \in ms : fate[m] = "unsaid"} IN {m \in left : m = CHOOSE n \in left : TRUE}

\* What the model has not been told of: Jobs::unheard and Agents::unheard,
\* asked on behalf of one owner.
UnheardOf(ws, owner) ==
    /\ owner = Owner
    /\ \E w \in ws : work[w] = "ended" /\ w \notin heard

TurnInit ==
    /\ cmds = <<>> /\ out = <<>> /\ inbox = <<>>
    /\ cancel = FALSE /\ key \in Keys
    /\ pc = "idle" /\ msg = NoMsg /\ requests = 0
    /\ work = [w \in Work |-> "none"] /\ heard = {}
    /\ fate = [m \in Msgs |-> "unsaid"]
    /\ stops = 0 /\ compacts = 0

-----------------------------------------------------------------------------
(* The engine thread. *)

\* A mutant: Wake asks the tables only, not the mailbox.
TakeCmdMissesMail ==
    /\ pc = "idle" /\ cmds # <<>>
    /\ cmds' = Tail(cmds)
    /\ IF Head(cmds) = Wake /\ ~UnheardOf(Work, 0)
       THEN UNCHANGED <<out, pc, msg>>
       ELSE /\ Emit(Busy(TRUE))
            /\ pc' = IF Head(cmds) = Compact THEN "compact" ELSE "begin"
            /\ msg' = Head(cmds).msg
    /\ UNCHANGED <<inbox, cancel, key, requests, work, heard, fate, stops, compacts>>

\* A mutant: a compaction does not say that it began.
TakeCmdQuietCompact ==
    /\ pc = "idle" /\ cmds # <<>>
    /\ cmds' = Tail(cmds)
    /\ LET c == Head(cmds)
           idle == c = Wake /\ inbox = <<>> /\ ~UnheardOf(Work, 0)
       IN IF idle
          THEN UNCHANGED <<out, pc, msg>>
          ELSE /\ IF c = Compact THEN UNCHANGED out ELSE Emit(Busy(TRUE))
               /\ pc' = IF c = Compact THEN "compact" ELSE "begin"
               /\ msg' = c.msg
    /\ UNCHANGED <<inbox, cancel, key, requests, work, heard, fate, stops, compacts>>

\* One command off the channel.  A Wake that finds nothing to act on is the one
\* command with no Busy around it; it asks the tables as owner 0 whoever the
\* session is.
TakeCmd ==
    /\ pc = "idle" /\ cmds # <<>>
    /\ cmds' = Tail(cmds)
    /\ LET c == Head(cmds)
           idle == /\ c = Wake /\ inbox = <<>>
                   /\ ~UnheardOf(Jobs, 0) /\ ~UnheardOf(Kids, 0)
       IN IF idle
          THEN UNCHANGED <<out, pc, msg>>
          ELSE /\ Emit(Busy(TRUE))
               /\ pc' = IF c = Compact THEN "compact" ELSE "begin"
               /\ msg' = c.msg
    /\ UNCHANGED <<inbox, cancel, key, requests, work, heard, fate, stops, compacts>>

\* Engine::turn up to the loop: the cancel flag is lowered, and without a key
\* the turn is over and its message is gone.
Begin ==
    /\ pc = "begin"
    /\ cancel' = FALSE
    /\ requests' = 0
    /\ pc' = IF key THEN "top" ELSE "end"
    /\ Becomes({msg} \ {NoMsg}, IF key THEN "read" ELSE "refused")
    /\ UNCHANGED <<cmds, out, inbox, key, msg, work, heard, stops, compacts>>


\* The top of the loop, on its way to a request: the ended work is claimed and
\* the mailbox emptied, each message announced as it is taken.
Look ==
    /\ pc = "top" /\ ~cancel /\ requests < MaxRequests
    /\ requests' = requests + 1
    /\ heard' = heard \cup {w \in Work : work[w] = "ended"}
    /\ out' = out \o [i \in DOMAIN inbox |-> Read(inbox[i])]
    /\ Becomes(ToSet(inbox), "read")
    /\ inbox' = <<>>
    /\ pc' = "request"
    /\ UNCHANGED <<cmds, cancel, key, msg, work, stops, compacts>>

\* The top of the loop, on its way out.
StopLoop ==
    /\ pc = "top"
    /\ cancel \/ requests >= MaxRequests
    /\ pc' = "end"
    /\ UNCHANGED <<cmds, out, inbox, cancel, key, msg, requests, work, heard,
                   fate, stops, compacts>>

\* The reply asks for tools, some of which leave work in the background.
ReplyTools ==
    /\ pc = "request"
    /\ \E ws \in SUBSET {w \in Work : work[w] = "none"} :
         work' = [w \in Work |-> IF w \in ws THEN "running" ELSE work[w]]
    /\ pc' = "top"
    /\ UNCHANGED <<cmds, out, inbox, cancel, key, msg, requests, heard, fate,
                   stops, compacts>>

\* The reply asks for nothing more, or the request failed or was cut short.
ReplyLast ==
    /\ pc = "request"
    /\ pc' = "end"
    /\ UNCHANGED <<cmds, out, inbox, cancel, key, msg, requests, work, heard,
                   fate, stops, compacts>>

\* Engine::compact: a request of its own that reads neither table nor mailbox.
CompactNow ==
    /\ pc = "compact"
    /\ cancel' = FALSE
    /\ pc' = "end"
    /\ UNCHANGED <<cmds, out, inbox, key, msg, requests, work, heard, fate,
                   stops, compacts>>

End ==
    /\ pc = "end"
    /\ Emit(Busy(FALSE))
    /\ pc' = "idle" /\ msg' = NoMsg
    /\ UNCHANGED <<cmds, inbox, cancel, key, requests, work, heard, fate, stops,
                   compacts>>

Engine == TakeCmd \/ Begin \/ Look \/ StopLoop \/ ReplyTools \/ ReplyLast
          \/ CompactNow \/ End

-----------------------------------------------------------------------------
(* What reaches past the channel. *)

\* Inbox::push.
Push(m) == inbox' = Append(inbox, m) /\ Becomes({m}, "mailed")

\* A command with a message in it.
Send(m) == Order(Submit(m)) /\ Becomes({m}, "sent")

\* A background job exits, or a subagent reports.
EndWork(w) ==
    /\ work[w] = "running"
    /\ work' = [work EXCEPT ![w] = "ended"]
    /\ UNCHANGED <<cmds, out, inbox, cancel, key, pc, msg, requests, heard, fate,
                   stops, compacts>>

\* The cancel flag is raised, by Esc or by a phone.
RaiseCancel ==
    /\ stops < MaxStops
    /\ cancel' = TRUE
    /\ stops' = stops + 1

AskCompaction ==
    /\ compacts < MaxCompacts
    /\ Order(Compact)
    /\ compacts' = compacts + 1

Resting == pc = "idle" /\ cmds = <<>> /\ out = <<>>

TurnTypeOK ==
    /\ cmds \in Seq(Commands) /\ out \in Seq(Events) /\ inbox \in Seq(Msgs)
    /\ cancel \in BOOLEAN /\ key \in BOOLEAN
    /\ pc \in Stages /\ msg \in Msgs \cup {NoMsg} /\ requests \in 0..MaxRequests
    /\ work \in [Work -> {"none", "running", "ended"}]
    /\ heard \subseteq {w \in Work : work[w] = "ended"}
    /\ fate \in [Msgs -> Fates]
    /\ stops \in 0..MaxStops /\ compacts \in 0..MaxCompacts

TurnFairness == WF_turnVars(Engine)
=============================================================================
