------------------------------- MODULE Agents -------------------------------
(***************************************************************************)
(* The table of subagents (ah-core/src/agents.rs) and the two tools that   *)
(* work it (ah-core/src/tools/agent.rs).                                   *)
(*                                                                         *)
(* Every conversation -- the window's, or each one a daemon runs -- is a   *)
(* root agent on a thread of its own.  A root, or a child shallow enough,  *)
(* starts children; a child runs one turn of the loop on a thread of its   *)
(* own and is then over, until a follow-up queues it again.  All of them   *)
(* share one table behind one mutex, `lock` here, while a child's own      *)
(* fields are behind locks and atomics of their own: that is why a finish  *)
(* or a follow-up can land in the middle of a scan of the table.           *)
(***************************************************************************)
EXTENDS Integers, FiniteSets

CONSTANTS
    Roots,           \* owners: 0 is the window, a daemon session gets an id
    MaxKids,         \* bound: ids there are for children
    MaxConcurrent,   \* agents.max_concurrent
    MaxTotal,        \* agents.max_total
    MaxDepth,        \* agents.max_depth
    MaxSpawn,        \* agents.max_spawn: tasks in one `agent` call
    Keep,            \* agents.keep: finished children kept
    MaxRequests,     \* agents.max_requests, for a child
    MaxRuns,         \* bound: runs of one child, follow-ups included
    MaxSaid,         \* bound: unread messages in one child's inbox
    MaxStops         \* bound: cancel flags that are up at once

Kids   == 1..MaxKids
Agents == Roots \cup Kids
NoKid  == 0

\* The report of a child that was given no thread: a text that says so.
NoThread == -1

\* A thread is one run of an agent; a root has just the one.
Thread == (Roots \X {1}) \cup (Kids \X (1..MaxRuns))
Free   == <<0, 0>>     \* no thread: runs count from 1

Limit  == IF MaxConcurrent > 1 THEN MaxConcurrent ELSE 1

ASSUME ConstantsAssumption ==
    /\ MaxKids \in Nat /\ MaxConcurrent \in Nat /\ MaxTotal \in Nat
    /\ MaxDepth \in Nat /\ MaxSpawn \in Nat \ {0} /\ Keep \in Nat
    /\ MaxRequests \in Nat /\ MaxRuns \in Nat \ {0} /\ MaxSaid \in Nat
    /\ MaxStops \in Nat
    /\ Roots \cap Kids = {}

VARIABLES
    kids,      \* the table: ids of the children it still holds
    next_id,   \* the next id to hand out
    started,   \* children started in this process, ever
    lock,      \* the thread inside the table's mutex, or Free
    state,     \* Child.state, "none" before it exists
    parent,    \* Child.parent
    depth,     \* Child.depth; a root is at 0
    cancel,    \* the cancel flag of a child, or of a root's turn
    heard,     \* Child.reported, the model's bit
    inbox,     \* how much said to a child is still unread
    report,    \* the run whose report is stored, 0 for none, or NoThread
    runs,      \* how often a child was put on a thread, or refused one
    pc,        \* where a thread is
    after,     \* where it goes on when `start_queued` has nothing left to start
    pick,      \* the child a thread is about to start or to ask again
    batch,     \* the children it started in one call, or waits on
    scan,      \* what `claim_queued` counted and chose
    ended,     \* how the turn ended, before it is turned into a state
    asked,     \* requests made in this run
    news       \* history: finishes of a child its model has not been told of

table  == <<kids, next_id, started, lock>>
child  == <<state, parent, depth, cancel, heard, inbox, report, runs, news>>
local  == <<pc, after, pick, batch, scan, ended, asked>>
vars   == <<table, child, local>>

State  == {"none", "queued", "running", "done", "stopped", "cancelled"}
OverStates == {"done", "stopped", "cancelled"}
Over(c) == state[c] \in OverStates
Going(c) == state[c] \in {"queued", "running"}

Id(t)  == t[1]
Root(t) == Id(t) \in Roots
Mine(t) == {c \in kids : parent[c] = Id(t)}
Running == {c \in kids : state[c] = "running"}

PC == {"off", "idle", "turn", "request", "call", "spawn", "spawned", "claim", "mark",
       "launch", "excuse", "await", "waitall", "waitany", "requeue", "forget",
       "report", "finish", "gone"}
Ended == {"open", "reply", "cancelled", "limit", "failed"}

TypeOK ==
    /\ kids \subseteq Kids
    /\ next_id \in 1..(MaxKids + 1)
    /\ started \in Nat
    /\ lock \in Thread \cup {Free}
    /\ state \in [Kids -> State]
    /\ parent \in [Kids -> Agents \cup {NoKid}]
    /\ depth \in [Agents -> Nat]
    /\ cancel \in [Agents -> BOOLEAN]
    /\ heard \in [Kids -> BOOLEAN]
    /\ inbox \in [Kids -> 0..MaxSaid]
    /\ report \in [Kids -> {NoThread} \cup (0..MaxRuns)]
    /\ runs \in [Kids -> 0..MaxRuns]
    /\ news \in [Kids -> Int]
    /\ pc \in [Thread -> PC]
    /\ after \in [Thread -> {"spawned", "call", "gone"}]
    /\ pick \in [Thread -> Kids \cup {NoKid}]
    /\ batch \in [Thread -> SUBSET Kids]
    /\ scan \in [Thread -> SUBSET Kids]
    /\ ended \in [Thread -> Ended]
    /\ asked \in [Thread -> 0..MaxRequests]

Init ==
    /\ kids = {} /\ next_id = 1 /\ started = 0 /\ lock = Free
    /\ state = [c \in Kids |-> "none"]
    /\ parent = [c \in Kids |-> NoKid]
    /\ depth = [a \in Agents |-> 0]
    /\ cancel = [a \in Agents |-> FALSE]
    /\ heard = [c \in Kids |-> FALSE]
    /\ inbox = [c \in Kids |-> 0]
    /\ report = [c \in Kids |-> 0]
    /\ runs = [c \in Kids |-> 0]
    /\ news = [c \in Kids |-> 0]
    /\ pc = [t \in Thread |-> IF Root(t) THEN "idle" ELSE "off"]
    /\ after = [t \in Thread |-> "call"]
    /\ pick = [t \in Thread |-> NoKid]
    /\ batch = [t \in Thread |-> {}]
    /\ scan = [t \in Thread |-> {}]
    /\ ended = [t \in Thread |-> "open"]
    /\ asked = [t \in Thread |-> 0]

Goto(t, l) == pc' = [pc EXCEPT ![t] = l]

(***************************************************************************)
(* The loop, one turn of a root or of a child.                             *)
(***************************************************************************)

\* Engine::turn: a turn begins with the cancel flag down.
BeginTurn(t) ==
    /\ Root(t) /\ pc[t] = "idle"
    /\ cancel' = [cancel EXCEPT ![Id(t)] = FALSE]
    /\ Goto(t, "turn")
    /\ UNCHANGED <<table, state, parent, depth, heard, inbox, report, runs, news,
                   after, pick, batch, scan, ended, asked>>

\* A mutant: one request more than max_requests.
SpentOffByOne(t) == ~Root(t) /\ asked[t] > MaxRequests

\* A child has made the requests it may; a root's own limit is left out.
Spent(t) == ~Root(t) /\ asked[t] >= MaxRequests

\* The checks at the top of the loop: cancelled, or out of requests.
StopAsking(t) ==
    /\ pc[t] = "turn"
    /\ \/ cancel[Id(t)] /\ ended' = [ended EXCEPT ![t] = "cancelled"]
       \/ /\ ~cancel[Id(t)] /\ Spent(t)
          /\ ended' = [ended EXCEPT ![t] = "limit"]
    /\ Goto(t, "report")
    /\ UNCHANGED <<table, child, after, pick, batch, scan, asked>>


\* notices: the caller's children whose finish it has not been told of.
Notices(t) == {c \in Mine(t) : Over(c) /\ ~heard[c]}

\* Otherwise: the news of children that are over is claimed under the table's
\* mutex, the mailbox is emptied, and the request goes out.
Ask(t) ==
    /\ pc[t] = "turn" /\ lock = Free
    /\ ~cancel[Id(t)]
    /\ ~Spent(t)
    /\ heard' = [c \in Kids |-> heard[c] \/ c \in Notices(t)]
    /\ news' = [c \in Kids |-> IF c \in Notices(t) THEN news[c] - 1 ELSE news[c]]
    /\ inbox' = [c \in Kids |-> IF c = Id(t) THEN 0 ELSE inbox[c]]
    /\ asked' = IF Root(t) THEN asked ELSE [asked EXCEPT ![t] = @ + 1]
    /\ Goto(t, "request")
    /\ UNCHANGED <<table, state, parent, depth, cancel, report, runs,
                   after, pick, batch, scan, ended>>

\* The request ends the turn: an answer with no tool call, a failure (for a
\* child also an answer that makes its conversation too big), or the cancel seen
\* mid-stream.
EndTurn(t) ==
    /\ pc[t] = "request"
    /\ \E how \in {"reply", "failed", "cancelled"} :
          /\ how = "cancelled" => cancel[Id(t)]
          /\ ended' = [ended EXCEPT ![t] = how]
    /\ Goto(t, "report")
    /\ UNCHANGED <<table, child, after, pick, batch, scan, asked>>

\* Or the answer calls tools, which run one after another.
GetCalls(t) ==
    /\ pc[t] = "request"
    /\ Goto(t, "call")
    /\ UNCHANGED <<table, child, after, pick, batch, scan, ended, asked>>

\* No call is left (the others leave the table alone, or are refused).  A cancel
\* seen before a call drops it and every one behind it, and ends the turn.
EndCalls(t) ==
    /\ pc[t] = "call"
    /\ IF cancel[Id(t)]
       THEN /\ ended' = [ended EXCEPT ![t] = "cancelled"]
            /\ Goto(t, "report")
       ELSE /\ Goto(t, "turn")
            /\ UNCHANGED ended
    /\ UNCHANGED <<table, child, after, pick, batch, scan, asked>>

\* The loop is about to run a call of the answer; a call that looks the
\* caller's children up needs the mutex for it.
MayCall(t) == pc[t] = "call" /\ ~cancel[Id(t)]
Look(t)    == MayCall(t) /\ lock = Free

(***************************************************************************)
(* The `agent` tool: start a batch, then leave it or wait for all of it.   *)
(***************************************************************************)

\* The bound on ids: one for every thread that is past the look at the counter.
IdsLeft == next_id + Cardinality({t \in Thread : pc[t] = "spawn"}) <= MaxKids


\* AgentSpawner::spawn, up to the look at the counter.
CheckSpawn(t) ==
    /\ \/ MayCall(t)
       \/ pc[t] = "spawned" /\ Cardinality(batch[t]) < MaxSpawn
    /\ depth[Id(t)] < MaxDepth
    /\ started < MaxTotal
    /\ IdsLeft
    /\ Goto(t, "spawn")
    /\ UNCHANGED <<table, child, after, pick, batch, scan, ended, asked>>

\* A mutant: finished children go whether or not they were heard.
EvictUnheard(filed) ==
    LET over == {c \in filed : Over(c)}
        excess == Cardinality(over) - Keep
    IN  filed \ {c \in over : Cardinality({d \in over : d <= c}) <= excess}

\* What `evict` leaves: beyond Keep finished ones, the oldest that were heard go.
Evict(filed) ==
    LET over == {c \in filed : Over(c)}
        told == {c \in over : heard[c]}
        excess == Cardinality(over) - Keep
    IN  filed \ {c \in told : Cardinality({d \in told : d <= c}) <= excess}

\* The rest of spawn: an id, the counter, and under the mutex the push and the
\* eviction.
Spawn(t) ==
    /\ pc[t] = "spawn" /\ lock = Free /\ next_id <= MaxKids
    /\ LET c == next_id IN
       /\ next_id' = next_id + 1
       /\ started' = started + 1
       /\ state' = [state EXCEPT ![c] = "queued"]
       /\ parent' = [parent EXCEPT ![c] = Id(t)]
       /\ depth' = [depth EXCEPT ![c] = depth[Id(t)] + 1]
       /\ kids' = Evict(kids) \cup {c}
       /\ batch' = [batch EXCEPT ![t] = @ \cup {c}]
    /\ after' = [after EXCEPT ![t] = "spawned"]
    /\ Goto(t, "claim")
    /\ UNCHANGED <<lock, cancel, heard, inbox, report, runs, news,
                   pick, scan, ended, asked>>

\* background: the ids go back at once.  Otherwise wait for every one.
Leave(t) ==
    /\ pc[t] = "spawned"
    /\ batch' = [batch EXCEPT ![t] = {}]
    /\ Goto(t, "call")
    /\ UNCHANGED <<table, child, after, pick, scan, ended, asked>>

Await(t) ==
    /\ pc[t] = "spawned"
    /\ Goto(t, "await")
    /\ UNCHANGED <<table, child, after, pick, batch, scan, ended, asked>>

(***************************************************************************)
(* start_queued: claim under the mutex, then put the child on a thread.    *)
(***************************************************************************)

\* A mutant: the scan does not take the table's mutex.
ScanUnlocked(t) ==
    /\ pc[t] = "claim" /\ lock = Free
    /\ LET queued == {c \in kids : state[c] = "queued"} IN
       IF Cardinality(Running) >= Limit \/ queued = {}
       THEN /\ Goto(t, after[t])
            /\ UNCHANGED <<lock, pick, scan>>
       ELSE /\ UNCHANGED lock
            /\ scan' = [scan EXCEPT ![t] = Running]
            /\ \E c \in queued : /\ \A d \in queued : c <= d
                                /\ pick' = [pick EXCEPT ![t] = c]
            /\ Goto(t, "mark")
    /\ UNCHANGED <<kids, next_id, started, child, after, batch, ended, asked>>

\* claim_queued, first pass: count what runs, choose the first that is queued.
\* With no room or nothing waiting the mutex is let go at once.
Scan(t) ==
    /\ pc[t] = "claim" /\ lock = Free
    /\ LET queued == {c \in kids : state[c] = "queued"} IN
       IF Cardinality(Running) >= Limit \/ queued = {}
       THEN /\ Goto(t, after[t])
            /\ UNCHANGED <<lock, pick, scan>>
       ELSE /\ lock' = t
            /\ scan' = [scan EXCEPT ![t] = Running]
            /\ \E c \in queued : /\ \A d \in queued : c <= d
                                /\ pick' = [pick EXCEPT ![t] = c]
            /\ Goto(t, "mark")
    /\ UNCHANGED <<kids, next_id, started, child, after, batch, ended, asked>>

\* claim_queued, second pass: the child chosen is marked running, if it is
\* still queued, and the mutex is let go.
Mark(t) ==
    /\ pc[t] = "mark"
    /\ lock' = Free
    /\ scan' = [scan EXCEPT ![t] = {}]
    /\ IF state[pick[t]] = "queued"
       THEN /\ state' = [state EXCEPT ![pick[t]] = "running"]
            /\ Goto(t, "launch")
            /\ UNCHANGED pick
       ELSE /\ pick' = [pick EXCEPT ![t] = NoKid]
            /\ Goto(t, after[t])
            /\ UNCHANGED state
    /\ UNCHANGED <<kids, next_id, started, parent, depth, cancel, heard, inbox,
                   report, runs, news, after, batch, ended, asked>>

\* run: the claimed child gets a thread, and the caller looks for another.
Launch(t) ==
    /\ pc[t] = "launch" /\ runs[pick[t]] < MaxRuns
    /\ LET c == pick[t] IN
       /\ runs' = [runs EXCEPT ![c] = @ + 1]
       /\ pc' = [pc EXCEPT ![t] = "claim", ![<<c, runs[c] + 1>>] = "turn"]
    /\ pick' = [pick EXCEPT ![t] = NoKid]
    /\ UNCHANGED <<table, state, parent, depth, cancel, heard, inbox, report,
                   news, after, batch, scan, ended, asked>>

\* A mutant: a child that could not be launched is queued again.
LaunchRetried(t) ==
    /\ pc[t] = "launch"
    /\ state' = [state EXCEPT ![pick[t]] = "queued"]
    /\ pick' = [pick EXCEPT ![t] = NoKid]
    /\ Goto(t, "claim")
    /\ UNCHANGED <<table, parent, depth, cancel, heard, inbox, report, runs, news,
                   after, batch, scan, ended, asked>>

\* run, when the system has no thread to give: the child is over at once, and
\* anyone may see that it is.
LaunchFails(t) ==
    /\ pc[t] = "launch" /\ runs[pick[t]] < MaxRuns
    /\ runs' = [runs EXCEPT ![pick[t]] = @ + 1]
    /\ state' = [state EXCEPT ![pick[t]] = "stopped"]
    /\ news' = [news EXCEPT ![pick[t]] = @ + 1]
    /\ Goto(t, "excuse")
    /\ UNCHANGED <<table, parent, depth, cancel, heard, inbox, report,
                   after, pick, batch, scan, ended, asked>>

\* Only then is the reason put where its report belongs, whatever the child has
\* done since; announce_finish, and the caller looks for another.
Excuse(t) ==
    /\ pc[t] = "excuse"
    /\ report' = [report EXCEPT ![pick[t]] = NoThread]
    /\ pick' = [pick EXCEPT ![t] = NoKid]
    /\ Goto(t, "claim")
    /\ UNCHANGED <<table, state, parent, depth, cancel, heard, inbox, runs, news,
                   after, batch, scan, ended, asked>>

(***************************************************************************)
(* wait_any, from `agent` and from `agents wait`.                          *)
(***************************************************************************)
Waiting(t) == pc[t] \in {"await", "waitall", "waitany"}

\* A child the table no longer holds counts as over.
Settled(c) == c \notin kids \/ Over(c)
Satisfied(t) == IF pc[t] = "waitany" THEN \E c \in batch[t] : Settled(c)
                                     ELSE \A c \in batch[t] : Settled(c)

\* `agents wait`: some of the caller's own.
Watch(t) ==
    /\ Look(t)
    /\ \E some \in (SUBSET Mine(t)) \ {{}} : batch' = [batch EXCEPT ![t] = some]
    /\ \E how \in {"waitall", "waitany"} : Goto(t, how)
    /\ UNCHANGED <<table, child, after, pick, scan, ended, asked>>

\* The wait is over.  `agent` then stops what it started if the caller was
\* cancelled meanwhile; `agents wait` stops nothing.
EndWait(t) ==
    /\ IF pc[t] = "await" /\ cancel[Id(t)]
       THEN cancel' = [a \in Agents |-> cancel[a] \/ a \in batch[t]]
       ELSE UNCHANGED cancel
    /\ batch' = [batch EXCEPT ![t] = {}]
    /\ Goto(t, "call")
    /\ UNCHANGED <<table, state, parent, depth, heard, inbox, report, runs, news,
                   after, pick, scan, ended, asked>>

Collect(t) == Waiting(t) /\ lock = Free /\ Satisfied(t) /\ EndWait(t)
GiveUp(t)  == Waiting(t) /\ cancel[Id(t)] /\ EndWait(t)

\* A mutant: a wait has no timeout.
WaitForever(t) == FALSE
TimeOut(t) == Waiting(t) /\ EndWait(t)

(***************************************************************************)
(* `agents kill` and `agents say`.                                         *)
(***************************************************************************)

MayStop == Cardinality({a \in Agents : cancel[a]}) < MaxStops

\* The wait for the grace period that follows changes nothing.
Kill(t) ==
    /\ Look(t)
    /\ MayStop
    /\ \E c \in Mine(t) : cancel' = [cancel EXCEPT ![c] = TRUE]
    /\ Goto(t, "call")
    /\ UNCHANGED <<table, state, parent, depth, heard, inbox, report, runs, news,
                   after, pick, batch, scan, ended, asked>>

\* say to one that is queued or running: into its inbox.
Say(t) ==
    /\ Look(t)
    /\ \E c \in Mine(t) :
          /\ Going(c) /\ inbox[c] < MaxSaid
          /\ inbox' = [inbox EXCEPT ![c] = @ + 1]
    /\ Goto(t, "call")
    /\ UNCHANGED <<table, state, parent, depth, cancel, heard, report, runs, news,
                   after, pick, batch, scan, ended, asked>>

\* A mutant: a child that still runs is queued a second time.
FollowUpAny(t) ==
    /\ Look(t)
    /\ \E c \in Mine(t) : runs[c] < MaxRuns /\ pick' = [pick EXCEPT ![t] = c]
    /\ Goto(t, "requeue")
    /\ UNCHANGED <<table, child, after, batch, scan, ended, asked>>


\* say to one that is over: a follow-up, on the handle the tool took from the
\* table.  The handle is used without the table's mutex from here on.
FollowUp(t) ==
    /\ Look(t)
    /\ \E c \in Mine(t) :
          /\ Over(c) /\ runs[c] < MaxRuns
          /\ pick' = [pick EXCEPT ![t] = c]
    /\ Goto(t, "requeue")
    /\ UNCHANGED <<table, child, after, batch, scan, ended, asked>>

\* follow_up: the flag down, the text into the conversation, back in the queue.
Requeue(t) ==
    /\ pc[t] = "requeue"
    /\ cancel' = [cancel EXCEPT ![pick[t]] = FALSE]
    /\ state' = [state EXCEPT ![pick[t]] = "queued"]
    /\ news' = [news EXCEPT ![pick[t]] = 0]
    /\ Goto(t, "forget")
    /\ UNCHANGED <<table, parent, depth, heard, inbox, report, runs,
                   after, pick, batch, scan, ended, asked>>

\* follow_up: nobody has heard of the finish to come; then start what can start.
Forget(t) ==
    /\ pc[t] = "forget"
    /\ heard' = [heard EXCEPT ![pick[t]] = FALSE]
    /\ pick' = [pick EXCEPT ![t] = NoKid]
    /\ after' = [after EXCEPT ![t] = "call"]
    /\ Goto(t, "claim")
    /\ UNCHANGED <<table, state, parent, depth, cancel, inbox, report, runs, news,
                   batch, scan, ended, asked>>

(***************************************************************************)
(* The end of a run.                                                       *)
(***************************************************************************)

\* The end of Agent::run_turn for a root: back to the engine's queue.
RootReports(t) ==
    /\ Root(t) /\ pc[t] = "report"
    /\ ended' = [ended EXCEPT ![t] = "open"]
    /\ Goto(t, "idle")
    /\ UNCHANGED <<table, child, after, pick, batch, scan, asked>>

\* The state a turn's ending comes to.
Outcome(how) == IF how = "cancelled" THEN "cancelled"
                ELSE IF how = "failed" THEN "stopped" ELSE "done"


\* turn, after the loop: the report is stored, the conversation put back, and
\* the outcome settled; a cancel that landed by now wins over everything.
Report(t) ==
    /\ ~Root(t) /\ pc[t] = "report"
    /\ report' = [report EXCEPT ![Id(t)] = t[2]]
    /\ ended' = IF cancel[Id(t)] THEN [ended EXCEPT ![t] = "cancelled"] ELSE ended
    /\ Goto(t, "finish")
    /\ UNCHANGED <<table, state, parent, depth, cancel, heard, inbox, runs, news,
                   after, pick, batch, scan, asked>>

\* Child::finish, under the child's own lock and not the table's; announce_finish
\* wakes whoever waits, and the slot is offered to the queue.
Finish(t) ==
    /\ ~Root(t) /\ pc[t] = "finish"
    /\ state' = [state EXCEPT ![Id(t)] = Outcome(ended[t])]
    /\ news' = [news EXCEPT ![Id(t)] = @ + 1]
    /\ after' = [after EXCEPT ![t] = "gone"]
    /\ ended' = [ended EXCEPT ![t] = "open"]
    /\ asked' = [asked EXCEPT ![t] = 0]
    /\ Goto(t, "claim")
    /\ UNCHANGED <<table, parent, depth, cancel, heard, inbox, report, runs,
                   pick, batch, scan>>

(***************************************************************************)
(* The screen.                                                             *)
(***************************************************************************)

\* Typing at a child that is still going.
ScreenSay(c) ==
    /\ c \in kids /\ lock = Free /\ Going(c) /\ inbox[c] < MaxSaid
    /\ inbox' = [inbox EXCEPT ![c] = @ + 1]
    /\ UNCHANGED <<table, state, parent, depth, cancel, heard, report, runs, news, local>>

\* Ctrl-K on a child's row, or Esc during a root's turn.
ScreenStop(a) ==
    /\ \/ a \in kids /\ lock = Free
       \/ a \in Roots /\ pc[<<a, 1>>] # "idle"
    /\ ~cancel[a] /\ MayStop
    /\ cancel' = [cancel EXCEPT ![a] = TRUE]
    /\ UNCHANGED <<table, state, parent, depth, heard, inbox, report, runs, news, local>>

Loop(t)  == BeginTurn(t) \/ StopAsking(t) \/ Ask(t) \/ EndTurn(t)
            \/ GetCalls(t) \/ EndCalls(t)
Tools(t) == \/ CheckSpawn(t) \/ Spawn(t) \/ Leave(t) \/ Await(t)
            \/ Watch(t) \/ Collect(t) \/ GiveUp(t) \/ TimeOut(t)
            \/ Kill(t) \/ Say(t) \/ FollowUp(t) \/ Requeue(t) \/ Forget(t)
Slots(t) == Scan(t) \/ Mark(t) \/ Launch(t) \/ LaunchFails(t) \/ Excuse(t)
End(t)   == RootReports(t) \/ Report(t) \/ Finish(t)

Step(t)  == Loop(t) \/ Tools(t) \/ Slots(t) \/ End(t)
Next     == (\E t \in Thread : Step(t)) \/ (\E c \in Kids : ScreenSay(c))
            \/ (\E a \in Agents : ScreenStop(a))

Spec == Init /\ [][Next]_vars

\* Every thread gets on, a mutex asked for is got in the end however often others
\* take it, the provider answers, and a child's answer has finitely many calls.
Fairness == /\ \A t \in Thread : SF_vars(Step(t))
            /\ \A t \in Thread : ~Root(t) => SF_vars(EndCalls(t))

FairSpec == Spec /\ Fairness

(***************************************************************************)
(* Properties.                                                             *)
(***************************************************************************)

\* A thread that is in a child's turn, from its start to the finish.
Working(t) ==
    /\ ~Root(t)
    /\ pc[t] \notin {"off", "gone"}
    /\ ~(pc[t] \in {"claim", "mark", "launch", "excuse"} /\ after[t] = "gone")

\* Never more children at once than max_concurrent, however many threads start
\* what is queued while others finish (the claim in claim_queued).
SlotLimit == Cardinality({c \in Kids : state[c] = "running"}) <= Limit

\* A child is on at most one thread, and only while it is running: one
\* conversation is never run twice at once (claim_queued, follow_up).
OneThread ==
    \A t \in Thread : Working(t) =>
        /\ state[Id(t)] = "running"
        /\ \A u \in Thread : Working(u) /\ Id(u) = Id(t) => u = t

\* A queued child is one the table can still start: the work handed to it, or
\* handed back to it by a follow-up, is not forgotten (evict, follow_up).
QueuedIsFiled == \A c \in Kids : state[c] = "queued" => c \in kids

\* The model a child belongs to hears of each finish once, never twice and never
\* of one that did not happen (claim, follow_up).
ToldOnce == \A c \in Kids : news[c] \in {0, 1}

\* A child is only dropped once the model it belongs to has heard about it
\* (evict).
HeardBeforeDropped == \A c \in Kids : news[c] = 1 => c \in kids

\* A thread has yet to write why this child was given none.
Unwritten(c) == \E t \in Thread : pc[t] = "excuse" /\ pick[t] = c

\* The report of a run is there before anyone can see that the run is over
\* (turn stores it, finish tells): a child that is over never shows the report of
\* an earlier run.  One that was refused a thread is over first (run), so there
\* the reason is what is read, or is still being written.
ReportFirst ==
    \A c \in Kids : Over(c) => report[c] \in {runs[c], NoThread} \/ Unwritten(c)

\* No more children than max_total (the counter checked in spawn).
TotalCap == started <= MaxTotal

\* A finish is told of once, after its report is there (a refused thread aside), a
\* child is not dropped before and one that waits is in its directory; and no conversation
\* starts more children than it may (ah-core/src/agents.rs).
FinishIsTold == ToldOnce /\ HeardBeforeDropped /\ ReportFirst /\ QueuedIsFiled /\ TotalCap

\* The table of threads and mutex is the pool of slots it is meant to be.
Life(c) == IF Over(c) THEN "over" ELSE state[c]
Pool == INSTANCE AgentPool WITH life <- [c \in Kids |-> Life(c)]
ImplementsPool == Pool!Spec

\* Work handed over is over in the end, also when every slot is held by a child
\* that waits for the very one that is queued: the wait times out.
WorkEnds == \A c \in Kids : Going(c) ~> Over(c)
=============================================================================
