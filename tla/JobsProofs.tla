----------------------------- MODULE JobsProofs -----------------------------
(***************************************************************************)
(* Proofs about the table of background jobs, for any number of agents and *)
(* of jobs, whatever the table keeps and whether or not a process closes   *)
(* its output before it ends.                                              *)
(*                                                                         *)
(* None of the properties is inductive.  A job is done last of all         *)
(* (DoneIsOver), because the thread that says so goes through the stages   *)
(* of Reaping in order.  Its end is told once (ToldOnce), because it is    *)
(* claimed only when it is done (ClaimedOnce) and a job that is done does  *)
(* not change hands.  News is not lost (NewsIsKept), because what a call   *)
(* in the foreground takes out of the table was never announced: it is     *)
(* that call's alone (Private) until the call lets go of it.  An agent    *)
(* that ends leaves nothing behind (OwnerListens), because what a call    *)
(* files is the caller's (Callers) and an agent that is over calls no tool. *)
(***************************************************************************)
EXTENDS Jobs, TLAPS

InCall == {"spawned", "foreground", "background", "stopping"}

\* How far a job's last reader has got says what became of the job.
Reaping == \A j \in Ids :
    /\ reaped[j] <=> pump[j] # "reading"
    /\ pump[j] # "reading" => pipes[j] = 0
    /\ pump[j] \in {"waited", "over"} => proc[j] = "gone"
    /\ ~Running(j) => pump[j] = "over"

\* Nobody has started what has no number yet.
Unborn == \A j \in Ids : j >= next_id =>
    proc[j] = "none" /\ pump[j] = "reading" /\ ~announce[j]

\* Claimed is done, and told exactly then.
ClaimedOnce == \A j \in Ids :
    /\ reported[j] => ~Running(j)
    /\ told[j] = IF reported[j] THEN 1 ELSE 0

\* The job of a call that is under way was started, is announced by nobody,
\* and is the job of no other call.
Private == \A a \in Agents : pc[a] \in InCall =>
    /\ job[a] \in Ids /\ job[a] < next_id
    /\ ~announce[job[a]]
    /\ \A b \in Agents : pc[b] \in InCall /\ job[b] = job[a] => b = a

JobInv == TypeOK /\ Reaping /\ Unborn /\ ClaimedOnce /\ Private

-----------------------------------------------------------------------------
(***************************************************************************)
(* Types.                                                                  *)
(***************************************************************************)

LEMMA TypeInit == Init => TypeOK
BY AgentsAssumption, BoundsAssumption DEF Init, TypeOK, Ids, NoJob, Stages

\* Every variable keeps its type; what is filed is the job of a call.
LEMMA TypeStep == TypeOK /\ Private /\ [Next]_vars => TypeOK'
<1> SUFFICES ASSUME TypeOK, Private, [Next]_vars PROVE TypeOK'
  OBVIOUS
<1> USE AgentsAssumption, BoundsAssumption DEF TypeOK, Stages
<1>1. ASSUME NEW j \in Ids, Exit(j) \/ Process(j) \/ Killer(j) PROVE TypeOK'
  <2>1. CASE Exit(j)       BY <2>1 DEF Exit
  <2>2. CASE Eof(j)
    <3>1. pipes[j] - 1 \in 0..2  BY <2>2 DEF Eof
    <3> QED BY <2>2, <3>1 DEF Eof
  <2>3. CASE Wait(j)       BY <2>3 DEF Wait
  <2>4. CASE Finish(j)     BY <2>4 DEF Finish
  <2>5. CASE Term(j)       BY <2>5 DEF Term
  <2>6. CASE LookAgain(j)  BY <2>6 DEF LookAgain
  <2>7. CASE Insist(j)     BY <2>7 DEF Insist
  <2> QED BY <1>1, <2>1, <2>2, <2>3, <2>4, <2>5, <2>6, <2>7 DEF Process, Killer
<1>2. ASSUME NEW a \in Agents, Tools(a) PROVE TypeOK'
  <2>1. CASE Spawn(a)
    <3>1. next_id \in Ids /\ next_id' \in 1..(MaxJobs + 1)  BY <2>1 DEF Spawn, Ids
    <3> QED BY <2>1, <3>1 DEF Spawn
  <2>2. CASE File(a)
    <3>1. job[a] \in Ids  BY <2>2 DEF File, Private, InCall
    <3> QED BY <2>2, <3>1 DEF File, Evict, job_vars
  <2>3. CASE Announce(a)   BY <2>3 DEF Announce
  <2>4. CASE Collect(a)    BY <2>4 DEF Collect, job_vars
  <2>5. CASE Stop(a)
    <3>1. job[a] \in Ids  BY <2>5 DEF Stop, Private, InCall
    <3> QED BY <2>5, <3>1 DEF Stop, Ask
  <2>6. CASE Forget(a)     BY <2>6 DEF Forget, job_vars
  <2>7. CASE Kill(a)       BY <2>7 DEF Kill, Ask, Owned
  <2>8. CASE Notices(a)    BY <2>8 DEF Notices
  <2>9. CASE HandUp(a)     BY <2>9 DEF HandUp
  <2> QED BY <1>2, <2>1, <2>2, <2>3, <2>4, <2>5, <2>6, <2>7, <2>8, <2>9 DEF Tools
<1>3. CASE UNCHANGED vars  BY <1>3 DEF vars, job_vars
<1> QED BY <1>1, <1>2, <1>3 DEF Next

-----------------------------------------------------------------------------
(***************************************************************************)
(* The strengthening is inductive.                                         *)
(***************************************************************************)

LEMMA InvInit == Init => JobInv
<1> SUFFICES ASSUME Init PROVE JobInv
  OBVIOUS
<1>1. TypeOK  BY TypeInit
<1>2. Reaping /\ Unborn /\ ClaimedOnce
  BY DEF Init, Reaping, Unborn, ClaimedOnce, Running
<1>3. Private  BY DEF Init, Private, InCall
<1> QED BY <1>1, <1>2, <1>3 DEF JobInv

\* What is read of the process and its reader changes in five steps only.
LEMMA ReapingStep == JobInv /\ [Next]_vars => Reaping'
<1> SUFFICES ASSUME JobInv, [Next]_vars PROVE Reaping'
  OBVIOUS
<1> USE DEF JobInv, TypeOK, Reaping, Running
<1>1. ASSUME UNCHANGED <<reaped, pump, pipes, proc, state>> PROVE Reaping'
  BY <1>1
<1>2. ASSUME NEW j \in Ids, Exit(j) \/ Process(j) \/ Killer(j) PROVE Reaping'
  <2>1. CASE Exit(j)       BY <2>1 DEF Exit
  <2>2. CASE Eof(j)        BY <2>2 DEF Eof
  <2>3. CASE Wait(j)       BY <2>3 DEF Wait
  <2>4. CASE Finish(j)     BY <2>4 DEF Finish
  <2>5. CASE Term(j)       BY <2>5, <1>1 DEF Term
  <2>6. CASE LookAgain(j)  BY <2>6, <1>1 DEF LookAgain
  <2>7. CASE Insist(j)     BY <2>7 DEF Insist
  <2> QED BY <1>2, <2>1, <2>2, <2>3, <2>4, <2>5, <2>6, <2>7 DEF Process, Killer
<1>3. ASSUME NEW a \in Agents, Tools(a) PROVE Reaping'
  <2>1. CASE Spawn(a)
    \* A job that has no number yet is read by nobody.
    <3>1. next_id \in Ids  BY <2>1, BoundsAssumption DEF Spawn, Ids
    <3>2. pump[next_id] = "reading"  BY <3>1 DEF Unborn
    <3> QED BY <2>1, <3>1, <3>2 DEF Spawn
  <2>2. CASE ~Spawn(a)
    BY <1>3, <2>2, <1>1 DEF Tools, File, Announce, Collect, Stop, Forget, Kill,
       Notices, HandUp, job_vars
  <2> QED BY <2>1, <2>2
<1>4. CASE UNCHANGED vars  BY <1>4, <1>1 DEF vars, job_vars
<1> QED BY <1>2, <1>3, <1>4 DEF Next

\* A number is given out once; until then nothing happens to its job.
LEMMA UnbornStep == JobInv /\ [Next]_vars => Unborn'
<1> SUFFICES ASSUME JobInv, [Next]_vars PROVE Unborn'
  OBVIOUS
<1> USE DEF JobInv, TypeOK, Unborn
<1>1. ASSUME UNCHANGED <<next_id, proc, pump, announce>> PROVE Unborn'
  BY <1>1
<1>2. ASSUME NEW j \in Ids, Exit(j) \/ Process(j) \/ Killer(j) PROVE Unborn'
  <2>1. CASE Exit(j)       BY <2>1 DEF Exit
  <2>2. CASE Eof(j)        BY <2>2 DEF Eof
  <2>3. CASE Wait(j)       BY <2>3 DEF Wait
  <2>4. CASE Finish(j)     BY <2>4 DEF Finish
  <2>5. CASE Term(j)       BY <2>5, <1>1 DEF Term
  <2>6. CASE LookAgain(j)  BY <2>6, <1>1 DEF LookAgain
  <2>7. CASE Insist(j)     BY <2>7 DEF Insist
  <2> QED BY <1>2, <2>1, <2>2, <2>3, <2>4, <2>5, <2>6, <2>7 DEF Process, Killer
<1>3. ASSUME NEW a \in Agents, Tools(a) PROVE Unborn'
  <2>1. CASE Spawn(a)
    <3>1. next_id \in Nat /\ next_id' = next_id + 1 /\ announce' = announce
          /\ pump' = pump /\ \A j \in Ids : j # next_id => proc'[j] = proc[j]
      BY <2>1 DEF Spawn
    <3>2. \A j \in Ids : j >= next_id + 1 => j >= next_id /\ j # next_id
      BY <3>1 DEF Ids
    <3> QED BY <3>1, <3>2
  <2>2. CASE Announce(a)
    <3>1. job[a] \in Ids /\ job[a] < next_id  BY <2>2 DEF Announce, Private, InCall
    <3> QED BY <2>2, <3>1 DEF Announce, Ids
  <2>3. CASE ~Spawn(a) /\ ~Announce(a)
    BY <1>3, <2>3, <1>1 DEF Tools, File, Collect, Stop, Forget, Kill, Notices,
       HandUp, job_vars
  <2> QED BY <2>1, <2>2, <2>3
<1>4. CASE UNCHANGED vars  BY <1>4, <1>1 DEF vars, job_vars
<1> QED BY <1>2, <1>3, <1>4 DEF Next

\* An end is claimed when there is one, and a job that is done stays so and
\* keeps its owner.
LEMMA ClaimedStep == JobInv /\ [Next]_vars => ClaimedOnce'
<1> SUFFICES ASSUME JobInv, [Next]_vars PROVE ClaimedOnce'
  OBVIOUS
<1> USE DEF JobInv, TypeOK, ClaimedOnce, Running
<1>1. ASSUME UNCHANGED <<reported, told, state>> PROVE ClaimedOnce'
  BY <1>1
<1>2. ASSUME NEW j \in Ids, Exit(j) \/ Process(j) \/ Killer(j) PROVE ClaimedOnce'
  <2>1. CASE Finish(j)  BY <2>1 DEF Finish
  <2>2. CASE ~Finish(j)
    BY <1>2, <2>2, <1>1 DEF Process, Killer, Exit, Eof, Wait, Term, LookAgain, Insist
  <2> QED BY <2>1, <2>2
<1>3. ASSUME NEW a \in Agents, Tools(a) PROVE ClaimedOnce'
  <2>1. CASE Notices(a)  BY <2>1 DEF Notices
  <2>2. CASE HandUp(a)   BY <2>2 DEF HandUp
  <2>3. CASE ~Notices(a) /\ ~HandUp(a)
    BY <1>3, <2>3, <1>1 DEF Tools, Spawn, File, Announce, Collect, Stop, Forget,
       Kill, job_vars
  <2> QED BY <2>1, <2>2, <2>3
<1>4. CASE UNCHANGED vars  BY <1>4, <1>1 DEF vars, job_vars
<1> QED BY <1>2, <1>3, <1>4 DEF Next

\* A call that starts a job has one that nobody else has; a call that lets go
\* of its job has none.
LEMMA PrivateStep == JobInv /\ [Next]_vars => Private'
<1> SUFFICES ASSUME JobInv, [Next]_vars PROVE Private'
  OBVIOUS
<1> USE DEF JobInv, TypeOK, Private, InCall
<1>1. ASSUME UNCHANGED <<pc, job, announce, next_id>> PROVE Private'
  BY <1>1
<1>2. ASSUME NEW j \in Ids, Exit(j) \/ Process(j) \/ Killer(j) PROVE Private'
  BY <1>2, <1>1 DEF Process, Killer, Exit, Eof, Wait, Finish, Term, LookAgain, Insist
<1>3. ASSUME NEW a \in Agents, Tools(a) PROVE Private'
  <2>1. CASE Spawn(a)
    <3>1. next_id \in Ids /\ ~announce[next_id]
      BY <2>1, BoundsAssumption DEF Spawn, Unborn, Ids
    <3>2. \A b \in Agents : b # a => pc'[b] = pc[b] /\ job'[b] = job[b]
      BY <2>1 DEF Spawn
    <3>3. pc'[a] = "spawned" /\ job'[a] = next_id /\ announce' = announce
          /\ next_id' = next_id + 1
      BY <2>1 DEF Spawn
    <3>4. \A b \in Agents : b # a /\ pc[b] \in InCall => job[b] # next_id
      BY <3>1 DEF Ids
    <3> QED BY <3>1, <3>2, <3>3, <3>4 DEF Ids
  <2>2. CASE File(a)
    BY <2>2 DEF File, job_vars
  <2>3. CASE Announce(a)  BY <2>3 DEF Announce
  <2>4. CASE Collect(a)   BY <2>4 DEF Collect, job_vars
  <2>5. CASE Stop(a)      BY <2>5 DEF Stop
  <2>6. CASE Forget(a)    BY <2>6 DEF Forget, job_vars
  <2>7. CASE Kill(a)      BY <2>7, <1>1 DEF Kill
  <2>8. CASE Notices(a)   BY <2>8, <1>1 DEF Notices
  <2>9. CASE HandUp(a)    BY <2>9 DEF HandUp
  <2> QED BY <1>3, <2>1, <2>2, <2>3, <2>4, <2>5, <2>6, <2>7, <2>8, <2>9 DEF Tools
<1>4. CASE UNCHANGED vars  BY <1>4, <1>1 DEF vars, job_vars
<1> QED BY <1>2, <1>3, <1>4 DEF Next

LEMMA InvStep == JobInv /\ [Next]_vars => JobInv'
BY TypeStep, ReapingStep, UnbornStep, ClaimedStep, PrivateStep DEF JobInv

LEMMA InvHolds == Spec => []JobInv
BY InvInit, InvStep, PTL DEF Spec

-----------------------------------------------------------------------------
(***************************************************************************)
(* The theorems.                                                           *)
(***************************************************************************)

\* A job that is done has been waited for, and nothing reads for it any more
\* (pump, Job::finish).
THEOREM DoneHolds == Spec => []DoneIsOver
<1>1. JobInv => DoneIsOver
  BY DEF JobInv, Reaping, DoneIsOver, TypeOK
<1> QED BY <1>1, InvHolds, PTL

\* The end of a job is told once, however often the job changes hands while it
\* runs (Job::claim, Jobs::reparent_all).
THEOREM ToldOnceHolds == Spec => []ToldOnce
<1>1. JobInv => ToldOnce
  <2> SUFFICES ASSUME JobInv, NEW j \in Ids PROVE told[j] <= 1
    BY DEF ToldOnce
  <2>1. told[j] = 0 \/ told[j] = 1  BY DEF JobInv, ClaimedOnce
  <2> QED BY <2>1
<1> QED BY <1>1, InvHolds, PTL

\* No step takes a job out of the table whose end is news to an agent that is
\* still there (Jobs::evict, Jobs::remove, Jobs::reparent_all).
THEOREM NewsKept == Spec => NewsIsKept
<1> DEFINE Kept == \A j \in jobs \ jobs' :
                      announce[j] => reported[j] \/ pc'[owner[j]] = "over"
<1>1. JobInv /\ [Next]_vars => [Kept]_vars
  <2> SUFFICES ASSUME JobInv, Next, NEW j \in jobs \ jobs', announce[j]
               PROVE  reported[j] \/ pc'[owner[j]] = "over"
    OBVIOUS
  <2> USE DEF JobInv, TypeOK
  <2>1. ASSUME NEW i \in Ids, Exit(i) \/ Process(i) \/ Killer(i) PROVE FALSE
    BY <2>1 DEF Process, Killer, Exit, Eof, Wait, Finish, Term, LookAgain, Insist
  <2>2. PICK a \in Agents : Tools(a)
    BY <2>1 DEF Next
  <2>3. CASE File(a)
    BY <2>3 DEF File, Evict
  <2>4. CASE Collect(a)
    <3>1. j = job[a] /\ pc[a] = "foreground"  BY <2>4 DEF Collect
    <3> QED BY <3>1 DEF Private, InCall
  <2>5. CASE Forget(a)
    <3>1. j = job[a] /\ pc[a] = "stopping"  BY <2>5 DEF Forget
    <3> QED BY <3>1 DEF Private, InCall
  <2>6. CASE HandUp(a)
    <3>1. owner[j] = a /\ pc'[a] = "over"  BY <2>6 DEF HandUp
    <3> QED BY <3>1
  <2> QED BY <2>2, <2>3, <2>4, <2>5, <2>6
       DEF Tools, Spawn, Announce, Stop, Kill, Notices
<1>2. [][Kept]_vars <=> NewsIsKept  BY PTL DEF NewsIsKept
<1> QED BY <1>1, <1>2, InvHolds, PTL DEF Spec

-----------------------------------------------------------------------------
(***************************************************************************)
(* Who hears of a job, in any tree of agents.  An agent that ends leaves   *)
(* no job of its own behind, and files none afterwards: what a call files  *)
(* is the caller's (Callers).  What is handed up goes to the parent even   *)
(* where the parent is over, which is the one way OwnerListens leaves.     *)
(***************************************************************************)

\* The job of a call that is under way is the caller's.
Callers == \A a \in Agents : pc[a] \in InCall => owner[job[a]] = a

LEMMA CallersStep == JobInv /\ Callers /\ [Next]_vars => Callers'
<1> SUFFICES ASSUME JobInv, Callers, [Next]_vars PROVE Callers'
  OBVIOUS
<1> USE DEF JobInv, TypeOK
<1>1. ASSUME UNCHANGED owner,
             \A b \in Agents : pc'[b] \in InCall => pc[b] \in InCall /\ job'[b] = job[b]
      PROVE  Callers'
  BY <1>1 DEF Callers
<1>2. ASSUME NEW a \in Agents, Tools(a) PROVE Callers'
  <2>1. CASE Spawn(a)
    <3>1. next_id \in Ids  BY <2>1, BoundsAssumption DEF Spawn, Ids
    <3>2. ASSUME NEW b \in Agents, pc'[b] \in InCall PROVE owner'[job'[b]] = b
      <4>1. CASE b = a  BY <2>1, <3>1, <4>1 DEF Spawn
      <4>2. CASE b # a
        <5>1. pc[b] \in InCall /\ job'[b] = job[b]  BY <2>1, <3>2, <4>2 DEF Spawn
        <5>2. job[b] \in Ids /\ job[b] # next_id  BY <3>1, <5>1 DEF Private, Ids
        <5> QED BY <2>1, <5>1, <5>2 DEF Spawn, Callers
      <4> QED BY <4>1, <4>2
    <3> QED BY <3>2 DEF Callers
  <2>2. CASE HandUp(a)
    <3>1. ASSUME NEW b \in Agents, pc'[b] \in InCall PROVE owner'[job'[b]] = b
      <4>1. b # a /\ pc[b] \in InCall /\ job'[b] = job[b]
        BY <2>2, <3>1 DEF HandUp, InCall
      <4>2. job[b] \in Ids /\ owner[job[b]] = b  BY <4>1 DEF Callers, Private
      <4> QED BY <2>2, <4>1, <4>2 DEF HandUp, Owned
    <3> QED BY <3>1 DEF Callers
  <2>3. CASE File(a)
    <3>1. pc[a] \in InCall /\ UNCHANGED <<owner, job>>
          /\ \E where \in {"foreground", "background"} : pc' = [pc EXCEPT ![a] = where]
      BY <2>3 DEF File, job_vars, InCall
    <3> QED BY <3>1, <1>1
  <2>4. CASE Announce(a) \/ Collect(a) \/ Stop(a) \/ Forget(a)
    <3>1. /\ UNCHANGED owner /\ pc[a] \in InCall
          /\ \/ pc' = [pc EXCEPT ![a] = "free"] /\ job' = [job EXCEPT ![a] = NoJob]
             \/ pc' = [pc EXCEPT ![a] = "stopping"] /\ job' = job
      BY <2>4 DEF Announce, Collect, Stop, Forget, job_vars, InCall
    <3> QED BY <3>1, <1>1 DEF InCall
  <2>5. CASE Kill(a) \/ Notices(a)
    BY <2>5, <1>1 DEF Kill, Notices
  <2> QED BY <1>2, <2>1, <2>2, <2>3, <2>4, <2>5 DEF Tools
<1>3. ASSUME NEW j \in Ids, Exit(j) \/ Process(j) \/ Killer(j) PROVE Callers'
  BY <1>3, <1>1 DEF Process, Killer, Exit, Eof, Wait, Finish, Term, LookAgain, Insist
<1>4. CASE UNCHANGED vars  BY <1>4, <1>1 DEF vars, job_vars
<1> QED BY <1>2, <1>3, <1>4 DEF Next

\* An agent that ends leaves no job of its own, and after its end it gets one
\* only where a child of it ends (Jobs::reparent_all, Jobs::spawn).
THEOREM OwnerListensHolds == Spec => OwnerListens
<1> DEFINE Listens == \A j \in jobs' : pc'[owner'[j]] = "over" =>
                         j \in jobs /\ pc[owner'[j]] = "over"
<1>1. JobInv /\ Callers /\ [Next]_vars => [Listens]_vars
  <2> SUFFICES ASSUME JobInv, Callers, Next, NEW j \in jobs', pc'[owner'[j]] = "over"
               PROVE  j \in jobs /\ pc[owner'[j]] = "over"
    OBVIOUS
  <2> USE DEF JobInv, TypeOK
  <2>1. ASSUME NEW i \in Ids, Exit(i) \/ Process(i) \/ Killer(i)
        PROVE  UNCHANGED <<jobs, owner, pc>>
    BY <2>1 DEF Process, Killer, Exit, Eof, Wait, Finish, Term, LookAgain, Insist
  <2>2. ASSUME NEW a \in Agents, Tools(a) PROVE j \in jobs /\ pc[owner'[j]] = "over"
    <3>1. CASE Spawn(a)
      <4>1. jobs' = jobs /\ pc' = [pc EXCEPT ![a] = "spawned"]  BY <3>1 DEF Spawn
      <4>2. j \in Ids /\ owner' \in [Ids -> Agents]  BY <4>1, <3>1 DEF Spawn
      <4> QED BY <4>1, <4>2
    <3>2. CASE File(a)
      <4>1. /\ jobs' \subseteq jobs \cup {job[a]} /\ owner' = owner /\ pc[a] \in InCall
            /\ \E where \in {"foreground", "background"} : pc' = [pc EXCEPT ![a] = where]
        BY <3>2 DEF File, Evict, job_vars, InCall
      <4>2. owner[job[a]] = a  BY <4>1 DEF Callers
      <4>3. j \in Ids /\ owner[j] \in Agents
        BY <4>1 DEF Private
      <4> QED BY <4>1, <4>2, <4>3
    <3>3. CASE Announce(a) \/ Collect(a) \/ Stop(a) \/ Forget(a)
      <4>1. /\ jobs' \subseteq jobs /\ owner' = owner
            /\ \E where \in {"free", "stopping"} : pc' = [pc EXCEPT ![a] = where]
        BY <3>3 DEF Announce, Collect, Stop, Forget, job_vars
      <4> QED BY <4>1
    <3>4. CASE Kill(a) \/ Notices(a)
      BY <3>4 DEF Kill, Notices
    <3>5. CASE HandUp(a)
      <4>1. /\ a # Root /\ j \in jobs /\ j \in Ids /\ (owner[j] # a \/ Running(j))
            /\ owner'[j] = IF j \in Owned(a) /\ Running(j) THEN Parent[a] ELSE owner[j]
            /\ pc' = [pc EXCEPT ![a] = "over"]
        BY <3>5 DEF HandUp
      \* What runs is the parent's now, who is another agent; the rest was no job of a's.
      <4>2. owner'[j] \in Agents /\ owner'[j] # a
        BY <4>1, AgentsAssumption DEF Owned
      <4> QED BY <4>1, <4>2
    <3> QED BY <2>2, <3>1, <3>2, <3>3, <3>4, <3>5 DEF Tools
  <2> QED BY <2>1, <2>2 DEF Next
<1>2. [][Listens]_vars <=> OwnerListens  BY PTL DEF OwnerListens
<1>3. Init => Callers  BY DEF Init, Callers, InCall
<1> QED BY <1>1, <1>2, <1>3, CallersStep, InvHolds, PTL DEF Spec
=============================================================================
