-------------------------------- MODULE Jobs --------------------------------
(***************************************************************************)
(* The table of background jobs (ah-core/src/jobs.rs) and the tools that   *)
(* work it (ah-core/src/tools/bash.rs and jobs.rs).  A job is a process    *)
(* group with two pipes, a thread reading each; the thread that closes the *)
(* last of them reaps the process.  An agent runs a command in the         *)
(* foreground until it ends or its time is up, or in the background from   *)
(* the start.  What is left running when an agent ends goes to its parent. *)
(***************************************************************************)
EXTENDS Naturals, FiniteSets

CONSTANTS
    Agents,       \* the agents of one session
    Root,         \* the one of them nobody started
    Parent,       \* the parent of each of the others
    MaxJobs,      \* bound: jobs started
    Keep,         \* Jobs::keep: finished jobs kept
    EarlyClose    \* TRUE where a process may close its output and go on

ASSUME AgentsAssumption ==
    /\ Root \in Agents
    /\ Parent \in [Agents \ {Root} -> Agents]
    /\ \A a \in Agents \ {Root} : Parent[a] # a
ASSUME BoundsAssumption == MaxJobs \in Nat /\ Keep \in Nat /\ EarlyClose \in BOOLEAN

Ids   == 1..MaxJobs
NoJob == 0

VARIABLES
    jobs,       \* the table: the jobs in it
    next_id,
    owner,      \* Job::owner
    state,      \* Job::state
    announce,   \* Job::announce
    reported,   \* the model's bit of Job::reported
    reaped,     \* Job::reaped
    pipes,      \* Job::open_pipes
    proc,       \* the process: alive, a zombie, or its id given back
    pump,       \* the thread that saw the last pipe close
    kill,       \* where a kill of this job is
    pc, job,    \* where each agent is in a tool call, and with which job
    asked,      \* history: jobs somebody asked to stop while they ran
    told        \* history: how often the end of each job was told

job_vars == <<owner, state, announce, reported, reaped, pipes, proc, pump, kill>>
vars == <<jobs, next_id, job_vars, pc, job, asked, told>>

Init ==
    /\ jobs = {} /\ next_id = 1
    /\ owner = [j \in Ids |-> Root]
    /\ state = [j \in Ids |-> "running"]
    /\ announce = [j \in Ids |-> FALSE] /\ reported = [j \in Ids |-> FALSE]
    /\ reaped = [j \in Ids |-> FALSE] /\ pipes = [j \in Ids |-> 2]
    /\ proc = [j \in Ids |-> "none"]
    /\ pump = [j \in Ids |-> "reading"] /\ kill = [j \in Ids |-> "none"]
    /\ pc = [a \in Agents |-> "free"] /\ job = [a \in Agents |-> NoJob]
    /\ asked = {} /\ told = [j \in Ids |-> 0]

Running(j) == state[j] = "running"
Owned(a) == {j \in jobs : owner[j] = a}

-----------------------------------------------------------------------------
(* The process and the threads that read its pipes. *)

\* It exits, or dies of a signal it does not ignore.
Exit(j) ==
    /\ proc[j] = "alive"
    /\ proc' = [proc EXCEPT ![j] = "zombie"]
    /\ UNCHANGED <<jobs, next_id, owner, state, announce, reported, reaped, pipes,
                   pump, kill, pc, job, asked, told>>


\* pump: one pipe is at its end.  Whoever closes the last goes on to reap, and
\* says so before it waits.
Eof(j) ==
    /\ pipes[j] > 0
    /\ proc[j] = "zombie" \/ (EarlyClose /\ proc[j] = "alive")
    /\ pipes' = [pipes EXCEPT ![j] = @ - 1]
    /\ IF pipes[j] = 1
       THEN /\ pump' = [pump EXCEPT ![j] = "waiting"]
            /\ reaped' = [reaped EXCEPT ![j] = TRUE]
       ELSE UNCHANGED <<pump, reaped>>
    /\ UNCHANGED <<jobs, next_id, owner, state, announce, reported, proc, kill, pc,
                   job, asked, told>>

\* The wait returns: from here the id is the system's.
Wait(j) ==
    /\ pump[j] = "waiting" /\ proc[j] = "zombie"
    /\ proc' = [proc EXCEPT ![j] = "gone"]
    /\ pump' = [pump EXCEPT ![j] = "waited"]
    /\ UNCHANGED <<jobs, next_id, owner, state, announce, reported, reaped, pipes,
                   kill, pc, job, asked, told>>

\* A mutant: the job is finished before it is waited for.
FinishEarly(j) ==
    /\ pump[j] = "waiting"
    /\ state' = [state EXCEPT ![j] = "done"]
    /\ UNCHANGED <<jobs, next_id, owner, announce, reported, reaped, pipes, proc,
                   pump, kill, pc, job, asked, told>>

\* Job::finish.
Finish(j) ==
    /\ pump[j] = "waited"
    /\ state' = [state EXCEPT ![j] = "done"]
    /\ pump' = [pump EXCEPT ![j] = "over"]
    /\ UNCHANGED <<jobs, next_id, owner, announce, reported, reaped, pipes, proc,
                   kill, pc, job, asked, told>>

Process(j) == Eof(j) \/ Wait(j) \/ Finish(j)

-----------------------------------------------------------------------------
(* Job::kill: look whether the id is still the job's, ask; after the grace  *)
(* period, on a thread of its own, look again and insist.                   *)

Killable(j) == Running(j) /\ ~reaped[j]

\* Somebody asks: a tool call, Esc during a command, or the list of jobs.
Ask(j) ==
    /\ asked' = asked \cup {j}
    /\ kill' = IF Killable(j) /\ kill[j] \in {"none", "over"}
               THEN [kill EXCEPT ![j] = "asking"] ELSE kill

Term(j) ==
    /\ kill[j] = "asking"
    /\ kill' = [kill EXCEPT ![j] = "grace"]
    /\ UNCHANGED <<jobs, next_id, owner, state, announce, reported, reaped, pipes,
                   proc, pump, pc, job, asked, told>>

\* A mutant: nobody insists.
LookAgainGivenUp(j) ==
    /\ kill[j] = "grace"
    /\ kill' = [kill EXCEPT ![j] = "over"]
    /\ UNCHANGED <<jobs, next_id, owner, state, announce, reported, reaped, pipes,
                   proc, pump, pc, job, asked, told>>

LookAgain(j) ==
    /\ kill[j] = "grace"
    /\ kill' = [kill EXCEPT ![j] = IF Killable(j) THEN "insisting" ELSE "over"]
    /\ UNCHANGED <<jobs, next_id, owner, state, announce, reported, reaped, pipes,
                   proc, pump, pc, job, asked, told>>

Insist(j) ==
    /\ kill[j] = "insisting"
    /\ proc' = [proc EXCEPT ![j] = IF @ = "alive" THEN "zombie" ELSE @]
    /\ kill' = [kill EXCEPT ![j] = "over"]
    /\ UNCHANGED <<jobs, next_id, owner, state, announce, reported, reaped, pipes,
                   pump, pc, job, asked, told>>

Killer(j) == Term(j) \/ LookAgain(j) \/ Insist(j)

-----------------------------------------------------------------------------
(* The tools. *)

\* Jobs::spawn, up to the threads that read the pipes.
Spawn(a) ==
    /\ pc[a] = "free" /\ next_id <= MaxJobs
    /\ next_id' = next_id + 1
    /\ owner' = [owner EXCEPT ![next_id] = a]
    /\ proc' = [proc EXCEPT ![next_id] = "alive"]
    /\ job' = [job EXCEPT ![a] = next_id]
    /\ pc' = [pc EXCEPT ![a] = "spawned"]
    /\ UNCHANGED <<jobs, state, announce, reported, reaped, pipes, pump, kill,
                   asked, told>>

\* A mutant: the oldest finished jobs go, heard of or not.
EvictUnheard(filed) ==
    LET done == {j \in filed : ~Running(j)}
        excess == Cardinality(done) - Keep
    IN  filed \ {j \in done : Cardinality({k \in done : k <= j}) <= excess}

\* evict: beyond Keep finished ones, the oldest that were heard of go.
Evict(filed) ==
    LET done == {j \in filed : ~Running(j)}
        heard == {j \in done : reported[j]}
        excess == Cardinality(done) - Keep
    IN  filed \ {j \in heard : Cardinality({k \in heard : k <= j}) <= excess}

\* The rest of Jobs::spawn, under the table's mutex.
File(a) ==
    /\ pc[a] = "spawned"
    /\ jobs' = Evict(jobs \cup {job[a]})
    /\ \E where \in {"foreground", "background"} : pc' = [pc EXCEPT ![a] = where]
    /\ UNCHANGED <<next_id, job_vars, job, asked, told>>

\* In the background from the start, or moved there when its time is up.
Announce(a) ==
    /\ pc[a] \in {"foreground", "background"}
    /\ announce' = [announce EXCEPT ![job[a]] = TRUE]
    /\ pc' = [pc EXCEPT ![a] = "free"] /\ job' = [job EXCEPT ![a] = NoJob]
    /\ UNCHANGED <<jobs, next_id, owner, state, reported, reaped, pipes, proc, pump,
                   kill, asked, told>>

\* Jobs::remove, when the call has the output it waited for,
Collect(a) ==
    /\ pc[a] = "foreground" /\ ~Running(job[a])
    /\ jobs' = jobs \ {job[a]}
    /\ pc' = [pc EXCEPT ![a] = "free"] /\ job' = [job EXCEPT ![a] = NoJob]
    /\ UNCHANGED <<next_id, job_vars, asked, told>>

\* or is cancelled, or out of time with background_on_timeout off: the command
\* is stopped,
Stop(a) ==
    /\ pc[a] = "foreground" /\ Running(job[a])
    /\ Ask(job[a])
    /\ pc' = [pc EXCEPT ![a] = "stopping"]
    /\ UNCHANGED <<jobs, next_id, owner, state, announce, reported, reaped, pipes,
                   proc, pump, job, told>>

\* and forgotten once it has ended or the wait for that runs out.
Forget(a) ==
    /\ pc[a] = "stopping"
    /\ jobs' = jobs \ {job[a]}
    /\ pc' = [pc EXCEPT ![a] = "free"] /\ job' = [job EXCEPT ![a] = NoJob]
    /\ UNCHANGED <<next_id, job_vars, asked, told>>

\* The `kill` of the jobs tool; the wait that follows changes nothing.
Kill(a) ==
    /\ pc[a] = "free"
    /\ \E j \in Owned(a) : Running(j) /\ Ask(j)
    /\ UNCHANGED <<jobs, next_id, owner, state, announce, reported, reaped, pipes,
                   proc, pump, pc, job, told>>

\* notices, at the top of an agent's loop: each job is claimed once.
Notices(a) ==
    /\ pc[a] = "free"
    /\ LET news == {j \in Owned(a) : ~Running(j) /\ announce[j] /\ ~reported[j]}
       IN /\ news # {}
          /\ reported' = [j \in Ids |-> reported[j] \/ j \in news]
          /\ told' = [j \in Ids |-> IF j \in news THEN told[j] + 1 ELSE told[j]]
    /\ UNCHANGED <<jobs, next_id, owner, state, announce, reaped, pipes, proc, pump,
                   kill, pc, job, asked>>

\* A mutant: an agent's finished jobs are handed up with the others.
HandUpAll(a) ==
    /\ a # Root /\ pc[a] = "free"
    /\ owner' = [j \in Ids |-> IF j \in Owned(a) THEN Parent[a] ELSE owner[j]]
    /\ reported' = [j \in Ids |-> reported[j] /\ j \notin Owned(a)]
    /\ pc' = [pc EXCEPT ![a] = "over"]
    /\ UNCHANGED <<jobs, next_id, state, announce, reaped, pipes, proc, pump, kill,
                   job, asked, told>>

\* A mutant: nobody is handed what still runs.
HandUpDropped(a) ==
    /\ a # Root /\ pc[a] = "free"
    /\ jobs' = {j \in jobs : owner[j] # a \/ Running(j)}
    /\ pc' = [pc EXCEPT ![a] = "over"]
    /\ UNCHANGED <<next_id, job_vars, job, asked, told>>

\* reparent_all, when a subagent has ended: its finished jobs are dropped and
\* the others go to its parent, which has not heard of them.
HandUp(a) ==
    /\ a # Root /\ pc[a] = "free"
    /\ jobs' = {j \in jobs : owner[j] # a \/ Running(j)}
    /\ owner' = [j \in Ids |-> IF j \in Owned(a) /\ Running(j) THEN Parent[a] ELSE owner[j]]
    /\ reported' = [j \in Ids |-> reported[j] /\ ~(j \in Owned(a) /\ Running(j))]
    /\ pc' = [pc EXCEPT ![a] = "over"]
    /\ UNCHANGED <<next_id, state, announce, reaped, pipes, proc, pump, kill, job,
                   asked, told>>

Tools(a) == Spawn(a) \/ File(a) \/ Announce(a) \/ Collect(a) \/ Stop(a)
            \/ Forget(a) \/ Kill(a) \/ Notices(a) \/ HandUp(a)

Next ==
    \/ \E j \in Ids : Exit(j) \/ Process(j) \/ Killer(j)
    \/ \E a \in Agents : Tools(a)

(* The threads of the pipes and of a kill keep running, and SIGKILL kills; *)
(* a process need not end by itself.                                       *)
Fairness == \A j \in Ids : WF_vars(Process(j)) /\ WF_vars(Killer(j))

Spec == Init /\ [][Next]_vars /\ Fairness

-----------------------------------------------------------------------------
Stages == {"free", "spawned", "foreground", "background", "stopping", "over"}

TypeOK ==
    /\ jobs \subseteq Ids /\ next_id \in 1..(MaxJobs + 1)
    /\ owner \in [Ids -> Agents] /\ state \in [Ids -> {"running", "done"}]
    /\ announce \in [Ids -> BOOLEAN] /\ reported \in [Ids -> BOOLEAN]
    /\ reaped \in [Ids -> BOOLEAN] /\ pipes \in [Ids -> 0..2]
    /\ proc \in [Ids -> {"none", "alive", "zombie", "gone"}]
    /\ pump \in [Ids -> {"reading", "waiting", "waited", "over"}]
    /\ kill \in [Ids -> {"none", "asking", "grace", "insisting", "over"}]
    /\ pc \in [Agents -> Stages] /\ job \in [Agents -> Ids \cup {NoJob}]
    /\ asked \subseteq Ids /\ told \in [Ids -> Nat]

(* A job that is done has been waited for: its output is whole, its        *)
(* process is gone, and nothing reads for it any more (pump).              *)
DoneIsOver ==
    \A j \in Ids : ~Running(j) => proc[j] = "gone" /\ reaped[j] /\ pipes[j] = 0

(* The end of a job is told to one model, once, though the job changes     *)
(* hands while it runs (claim, reparent).                                  *)
ToldOnce == \A j \in Ids : told[j] <= 1

(* A job whose end is news leaves the table only when the news was told,   *)
(* or with the agent it belonged to (evict, remove, reparent_all).         *)
NewsIsKept ==
    [][\A j \in jobs \ jobs' :
          announce[j] => reported[j] \/ pc'[owner[j]] = "over"]_vars

(* A job somebody asked to stop while it ran ends.                         *)
KilledEnds == \A j \in Ids : j \in asked ~> state[j] = "done"

(* An agent that ends leaves no job behind: what runs goes to the one above *)
(* (reparent_all), and no later job is its own.  So a job is with an agent *)
(* that is over only where a child of that agent ended after it did.       *)
OwnerListens ==
    [][\A j \in jobs' : pc'[owner'[j]] = "over" => j \in jobs /\ pc[owner'[j]] = "over"]_vars
=============================================================================
