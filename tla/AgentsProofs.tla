---------------------------- MODULE AgentsProofs ----------------------------
(***************************************************************************)
(* Proofs about the table of subagents, for any number of conversations,   *)
(* children, slots and follow-ups.                                         *)
(*                                                                         *)
(* SlotLimit is not inductive: a thread that has counted what runs marks   *)
(* its pick later, when the count is old.  What makes it safe is that only *)
(* the holder of the mutex starts anything, so between the two the running *)
(* set can only have shrunk (ScanHolds).  OneThread needs, besides, that a *)
(* claimed child belongs to its claimer alone (Claimed), and that a child  *)
(* asked to carry on is over, and is its caller's own, until the moment it *)
(* is queued (Resumed).                                                    *)
(*                                                                         *)
(* FinishIsTold holds where one conversation starts children that start    *)
(* none; with two conversations a spawn of one evicts a child another is   *)
(* about to queue again.  It rests on what `news` and `report` are in      *)
(* every state (News, Reports), between the steps of a follow-up too.      *)
(***************************************************************************)
EXTENDS Agents, FiniteSetTheorems, TLAPS

AllRunning == {c \in Kids : state[c] = "running"}

\* The one thread between the two passes of claim_queued holds the mutex.
LockHeld == \A t \in Thread : pc[t] = "mark" => lock = t

\* What it counted covers what runs now, leaves a slot free, and its pick is
\* still in the table.
ScanHolds == \A t \in Thread : pc[t] = "mark" =>
    /\ AllRunning \subseteq scan[t]
    /\ Cardinality(scan[t]) < Limit
    /\ pick[t] \in kids

\* What runs is in the table, so the count sees it.
Filed == AllRunning \subseteq kids

\* An id not handed out has no child, a run not launched no thread.
Unborn     == \A c \in Kids : c >= next_id => state[c] = "none"
Unlaunched == \A c \in Kids, n \in 1..MaxRuns : n > runs[c] => pc[<<c, n>>] = "off"

\* A claimed child is running, on no thread yet, and claimed once.
Claimed == \A t \in Thread : pc[t] = "launch" =>
    /\ pick[t] \in Kids
    /\ state[pick[t]] = "running"
    /\ \A u \in Thread : Working(u) => Id(u) # pick[t]
    /\ \A u \in Thread : pc[u] = "launch" /\ pick[u] = pick[t] => u = t

\* A child about to be queued again is over, and its caller's own.
Resumed == \A t \in Thread : pc[t] = "requeue" =>
    /\ pick[t] \in Kids
    /\ Over(pick[t])
    /\ parent[pick[t]] = Id(t)

SlotInv  == LockHeld /\ ScanHolds /\ Filed /\ SlotLimit
OwnerInv == Unborn /\ Unlaunched /\ Claimed /\ Resumed /\ OneThread

-----------------------------------------------------------------------------
(***************************************************************************)
(* Types.                                                                  *)
(***************************************************************************)

\* Setting one value of a function to one of its range keeps its type, and so
\* does adding one to a value of a function into the integers, or into an
\* interval it is not yet at the top of.
LEMMA Put == ASSUME NEW S, NEW T, NEW f \in [S -> T], NEW x, NEW v \in T
             PROVE  [f EXCEPT ![x] = v] \in [S -> T]
OBVIOUS

LEMMA Raise == ASSUME NEW S, NEW f \in [S -> Int], NEW x
               PROVE  [f EXCEPT ![x] = f[x] + 1] \in [S -> Int]
<1>1. CASE x \in S
  <2>1. f[x] + 1 \in Int  BY <1>1
  <2> QED BY <2>1, Put
<1>2. CASE x \notin S
  <2>1. [f EXCEPT ![x] = f[x] + 1] = f  BY <1>2
  <2> QED BY <2>1
<1> QED BY <1>1, <1>2

LEMMA RaiseBelow ==
    ASSUME NEW S, NEW m \in Nat, NEW f \in [S -> 0..m], NEW x, f[x] < m
    PROVE  [f EXCEPT ![x] = f[x] + 1] \in [S -> 0..m]
<1>1. CASE x \in S
  <2>1. f[x] + 1 \in 0..m  BY <1>1
  <2> QED BY <2>1, Put
<1>2. CASE x \notin S
  <2>1. [f EXCEPT ![x] = f[x] + 1] = f  BY <1>2
  <2> QED BY <2>1
<1> QED BY <1>1, <1>2

\* Every variable keeps its type, whatever the bounds.
LEMMA TypeInit == Init => TypeOK
BY ConstantsAssumption
   DEF Init, TypeOK, Thread, Kids, Agents, NoKid, Free, State, PC, Ended, Root, Id

LEMMA TypeStep == TypeOK /\ [Next]_vars => TypeOK'
<1> SUFFICES ASSUME TypeOK, [Next]_vars PROVE TypeOK'
  OBVIOUS
<1> USE ConstantsAssumption DEF TypeOK, table, child, local, Goto, PC, State, Ended
<1>1. ASSUME NEW t \in Thread, Loop(t) PROVE TypeOK'
  <2>1. CASE BeginTurn(t)   BY <2>1 DEF BeginTurn
  <2>2. CASE StopAsking(t)  BY <2>2 DEF StopAsking
  <2>3. CASE Ask(t)
    <3>1. news' \in [Kids -> Int] /\ heard' \in [Kids -> BOOLEAN]
      BY <2>3 DEF Ask
    <3>2. asked' \in [Thread -> 0..MaxRequests] /\ inbox' \in [Kids -> 0..MaxSaid]
      BY <2>3 DEF Ask, Spent
    <3> QED BY <2>3, <3>1, <3>2 DEF Ask
  <2>4. CASE EndTurn(t)     BY <2>4 DEF EndTurn
  <2>5. CASE GetCalls(t)    BY <2>5 DEF GetCalls
  <2>6. CASE EndCalls(t)    BY <2>6 DEF EndCalls
  <2> QED BY <1>1, <2>1, <2>2, <2>3, <2>4, <2>5, <2>6 DEF Loop
<1>2. ASSUME NEW t \in Thread, Tools(t) PROVE TypeOK'
  <2>1. CASE CheckSpawn(t)  BY <2>1 DEF CheckSpawn
  <2>2. CASE Spawn(t)
    <3>1. next_id \in Kids  BY <2>2 DEF Spawn, Kids
    <3>2. Id(t) \in Agents  BY DEF Thread, Id, Agents
    <3>3. kids' \subseteq Kids BY <2>2, <3>1 DEF Spawn, Evict
    <3>4. next_id' \in 1..(MaxKids + 1) /\ started' \in Nat
      BY <2>2 DEF Spawn
    <3>5. state' \in [Kids -> State] /\ parent' \in [Kids -> Agents \cup {NoKid}]
      BY <2>2, <3>2 DEF Spawn
    <3>6. depth' \in [Agents -> Nat]
      <4>1. depth[Id(t)] + 1 \in Nat  BY <3>2
      <4> QED BY <2>2, <4>1, Put DEF Spawn
    <3>7. batch' \in [Thread -> SUBSET Kids]
      BY <2>2, <3>1 DEF Spawn
    <3>8. pc' \in [Thread -> PC] /\ after' \in [Thread -> {"spawned", "call", "gone"}]
      BY <2>2 DEF Spawn
    <3> QED BY <2>2, <3>3, <3>4, <3>5, <3>6, <3>7, <3>8 DEF Spawn
  <2>3. CASE Leave(t)       BY <2>3 DEF Leave
  <2>4. CASE Await(t)       BY <2>4 DEF Await
  <2>5. CASE Watch(t)       BY <2>5 DEF Watch, Mine
  <2>6. CASE EndWait(t)     BY <2>6 DEF EndWait
  <2>7. CASE Kill(t)        BY <2>7 DEF Kill
  <2>8. CASE Say(t)         BY <2>8 DEF Say, Mine
  <2>9. CASE FollowUp(t)    BY <2>9 DEF FollowUp, Mine
  <2>10. CASE Requeue(t)
    <3>1. cancel' \in [Agents -> BOOLEAN]   BY <2>10 DEF Requeue
    <3>2. state' \in [Kids -> State]        BY <2>10, Put DEF Requeue
    <3>3. news' \in [Kids -> Int]           BY <2>10, Put DEF Requeue
    <3> QED BY <2>10, <3>1, <3>2, <3>3 DEF Requeue
  <2>11. CASE Forget(t)     BY <2>11 DEF Forget, NoKid
  <2> QED BY <1>2, <2>1, <2>2, <2>3, <2>4, <2>5, <2>6, <2>7, <2>8, <2>9, <2>10, <2>11
       DEF Tools, Collect, GiveUp, TimeOut
<1>3. ASSUME NEW t \in Thread, Slots(t) PROVE TypeOK'
  <2>1. CASE Scan(t)        BY <2>1 DEF Scan, Running
  <2>2. CASE Mark(t)        BY <2>2 DEF Mark, Free, NoKid
  <2>3. CASE Launch(t)
    <3>1. runs' \in [Kids -> 0..MaxRuns]        BY <2>3, RaiseBelow DEF Launch
    <3>2. pc' \in [Thread -> PC]                BY <2>3 DEF Launch
    <3> QED BY <2>3, <3>1, <3>2 DEF Launch, NoKid
  <2>4. CASE LaunchFails(t)
    <3>1. state' \in [Kids -> State]            BY <2>4 DEF LaunchFails
    <3>2. news' \in [Kids -> Int]               BY <2>4, Raise DEF LaunchFails
    <3>3. runs' \in [Kids -> 0..MaxRuns]        BY <2>4, RaiseBelow DEF LaunchFails
    <3> QED BY <2>4, <3>1, <3>2, <3>3 DEF LaunchFails
  <2>5. CASE Excuse(t)
    <3>1. report' \in [Kids -> {NoThread} \cup (0..MaxRuns)]  BY <2>5, Put DEF Excuse
    <3> QED BY <2>5, <3>1 DEF Excuse, NoKid
  <2> QED BY <1>3, <2>1, <2>2, <2>3, <2>4, <2>5 DEF Slots
<1>4. ASSUME NEW t \in Thread, End(t) PROVE TypeOK'
  <2>1. CASE RootReports(t) BY <2>1 DEF RootReports
  <2>2. CASE Report(t)      BY <2>2 DEF Report, Thread, Root, Id
  <2>3. CASE Finish(t)
    <3>1. state' \in [Kids -> State]            BY <2>3 DEF Finish, Outcome
    <3>2. news' \in [Kids -> Int]               BY <2>3, Raise DEF Finish
    <3>3. asked' \in [Thread -> 0..MaxRequests] BY <2>3 DEF Finish
    <3> QED BY <2>3, <3>1, <3>2, <3>3 DEF Finish
  <2> QED BY <1>4, <2>1, <2>2, <2>3 DEF End
<1>5. ASSUME NEW c \in Kids, ScreenSay(c) PROVE TypeOK'
  BY <1>5 DEF ScreenSay
<1>6. ASSUME NEW a \in Agents, ScreenStop(a) PROVE TypeOK'
  BY <1>6 DEF ScreenStop
<1>7. CASE UNCHANGED vars
  BY <1>7 DEF vars
<1> QED BY <1>1, <1>2, <1>3, <1>4, <1>5, <1>6, <1>7 DEF Next, Step

\* The table, the children and the threads hold what they are declared to hold.
THEOREM TypeCorrect == Spec => []TypeOK
BY TypeInit, TypeStep, PTL DEF Spec

-----------------------------------------------------------------------------
(***************************************************************************)
(* Never more children than slots.                                         *)
(***************************************************************************)

LEMMA KidsFinite == /\ IsFiniteSet(Kids)
                    /\ IsFiniteSet(AllRunning)
                    /\ Cardinality(AllRunning) \in Nat
<1>1. IsFiniteSet(Kids)     BY ConstantsAssumption, FS_Interval DEF Kids
<1>2. AllRunning \subseteq Kids  BY DEF AllRunning
<1> QED BY <1>1, <1>2, FS_Subset, FS_CardinalityType

\* What keeps the invariant without touching the mutex: nothing new runs, and no
\* thread gets between the two passes of the claim.
Calm == /\ UNCHANGED <<lock, kids, scan>>
        /\ AllRunning' \subseteq AllRunning
        /\ \A u \in Thread : pc'[u] = "mark" => pc[u] = "mark" /\ pick'[u] = pick[u]

LEMMA CalmKeepsSlots == TypeOK /\ SlotInv /\ Calm => SlotInv'
<1> SUFFICES ASSUME TypeOK, SlotInv, Calm PROVE SlotInv'
  OBVIOUS
<1>1. LockHeld'   BY DEF Calm, SlotInv, LockHeld
<1>2. ScanHolds'  BY DEF Calm, SlotInv, ScanHolds
<1>3. Filed'      BY DEF Calm, SlotInv, Filed
<1>4. SlotLimit'
  <2>1. Cardinality(AllRunning') <= Cardinality(AllRunning) /\ Cardinality(AllRunning') \in Nat
    BY KidsFinite, FS_Subset, FS_CardinalityType DEF Calm
  <2>2. Cardinality(AllRunning) <= Limit  BY DEF SlotInv, SlotLimit, AllRunning
  <2> QED BY <2>1, <2>2, KidsFinite, ConstantsAssumption DEF SlotLimit, AllRunning, Limit
<1> QED BY <1>1, <1>2, <1>3, <1>4 DEF SlotInv

LEMMA SlotInit == Init => SlotInv
<1> SUFFICES ASSUME Init PROVE SlotInv
  OBVIOUS
<1>1. AllRunning = {}  BY DEF Init, AllRunning
<1>2. LockHeld /\ ScanHolds  BY DEF Init, LockHeld, ScanHolds
<1>3. Filed            BY <1>1 DEF Filed
<1>4. SlotLimit        BY <1>1, FS_EmptySet, ConstantsAssumption DEF SlotLimit, AllRunning, Limit
<1> QED BY <1>2, <1>3, <1>4 DEF SlotInv

\* The first pass: the count is taken while nobody else holds the mutex.
LEMMA ScanKeepsSlots == ASSUME NEW t \in Thread, TypeOK, SlotInv, Scan(t) PROVE SlotInv'
<1> USE DEF SlotInv
<1>0. AllRunning = Running
  BY DEF AllRunning, Running, Filed, TypeOK
<1>1. CASE Calm
  BY <1>1, CalmKeepsSlots
<1>2. CASE /\ lock = Free /\ lock' = t
           /\ Cardinality(Running) < Limit
           /\ scan' = [scan EXCEPT ![t] = Running]
           /\ \E c \in kids : pick' = [pick EXCEPT ![t] = c]
           /\ pc' = [pc EXCEPT ![t] = "mark"]
           /\ UNCHANGED <<state, kids>>
  <2>1. \A u \in Thread : pc[u] # "mark"
    BY <1>2 DEF LockHeld, Thread, Free, Kids
  <2>2. \A u \in Thread : pc'[u] = "mark" => u = t
    BY <1>2, <2>1 DEF TypeOK
  <2>3. LockHeld'   BY <1>2, <2>2 DEF LockHeld
  <2>4. ScanHolds'
    <3>1. AllRunning' = Running  BY <1>0, <1>2 DEF AllRunning
    <3>2. scan'[t] = Running     BY <1>2 DEF TypeOK
    <3>3. pick'[t] \in kids'     BY <1>2 DEF TypeOK
    <3> QED BY <1>2, <2>2, <3>1, <3>2, <3>3 DEF ScanHolds
  <2>5. Filed' /\ SlotLimit'  BY <1>2 DEF Filed, SlotLimit, AllRunning
  <2> QED BY <2>3, <2>4, <2>5
<1>3. Cardinality(Running) \in Nat /\ Limit \in Nat
  BY <1>0, KidsFinite, ConstantsAssumption DEF Limit
<1>4. CASE Cardinality(Running) >= Limit \/ {c \in kids : state[c] = "queued"} = {}
  <2>1. pc' = [pc EXCEPT ![t] = after[t]] /\ UNCHANGED <<lock, pick, scan, kids, state>>
    BY <1>4 DEF Scan, Goto, table, child
  <2>2. after[t] # "mark"  BY DEF TypeOK
  <2> QED BY <1>1, <2>1, <2>2 DEF Calm, AllRunning, TypeOK
<1>5. CASE ~(Cardinality(Running) >= Limit \/ {c \in kids : state[c] = "queued"} = {})
  BY <1>2, <1>3, <1>5 DEF Scan, Goto, child
<1> QED BY <1>4, <1>5

\* The second pass: what runs can only be less than what was counted.
LEMMA MarkKeepsSlots == ASSUME NEW t \in Thread, TypeOK, SlotInv, Mark(t) PROVE SlotInv'
<1> USE DEF SlotInv
<1>1. lock = t /\ AllRunning \subseteq scan[t] /\ Cardinality(scan[t]) < Limit
      /\ pick[t] \in kids /\ pick[t] \in Kids
  BY DEF Mark, LockHeld, ScanHolds, TypeOK
<1>2. \A u \in Thread : pc'[u] # "mark"
  BY <1>1 DEF Mark, Goto, LockHeld, TypeOK
<1>3. AllRunning' \subseteq AllRunning \cup {pick[t]}
  BY <1>1 DEF Mark, AllRunning, TypeOK
<1>4. LockHeld' /\ ScanHolds'  BY <1>2 DEF LockHeld, ScanHolds
<1>5. Filed'      BY <1>1, <1>3 DEF Mark, Filed
<1>6. SlotLimit'
  <2> DEFINE room == scan[t] \cup {pick[t]}
  <2>1. scan[t] \in SUBSET Kids /\ IsFiniteSet(scan[t])
    BY KidsFinite, FS_Subset DEF TypeOK
  <2>2. Cardinality(room) <= Cardinality(scan[t]) + 1 /\ IsFiniteSet(room)
        /\ Cardinality(scan[t]) \in Nat /\ Cardinality(room) \in Nat
    <3>1. IsFiniteSet(room) /\ (Cardinality(room) = Cardinality(scan[t])
                                 \/ Cardinality(room) = Cardinality(scan[t]) + 1)
      BY <2>1, FS_AddElement
    <3>2. Cardinality(scan[t]) \in Nat /\ Cardinality(room) \in Nat
      BY <2>1, <3>1, FS_CardinalityType
    <3> QED BY <3>1, <3>2
  <2>3. Cardinality(AllRunning') <= Cardinality(room) /\ Cardinality(AllRunning') \in Nat
    BY <1>1, <1>3, <2>2, FS_Subset, FS_CardinalityType
  <2> QED BY <1>1, <2>2, <2>3, ConstantsAssumption DEF SlotLimit, AllRunning, Limit
<1> QED BY <1>4, <1>5, <1>6

\* A spawn: eviction only drops what is over.
LEMMA SpawnKeepsSlots == ASSUME NEW t \in Thread, TypeOK, SlotInv, Spawn(t) PROVE SlotInv'
<1> USE DEF SlotInv
<1>1. AllRunning' \subseteq AllRunning  BY DEF Spawn, AllRunning, TypeOK
<1>2. \A u \in Thread : pc'[u] = "mark" => pc[u] = "mark"
  BY DEF Spawn, Goto, TypeOK
<1>3. \A u \in Thread : pc[u] # "mark"
  BY DEF Spawn, LockHeld, Thread, Free, Kids
<1>4. LockHeld' /\ ScanHolds'  BY <1>2, <1>3 DEF LockHeld, ScanHolds
<1>5. Filed'
  <2>1. \A c \in AllRunning : c \in kids /\ ~Over(c)
    BY DEF Filed, Over, OverStates, AllRunning
  <2>2. ASSUME NEW c \in kids, ~Over(c) PROVE c \in Evict(kids)
    <3> DEFINE over == {k \in kids : Over(k)}
               told == {k \in over : heard[k]}
               excess == Cardinality(over) - Keep
               gone == {k \in told : Cardinality({d \in told : d <= k}) <= excess}
    <3>1. Evict(kids) = kids \ gone  BY DEF Evict
    <3>2. c \notin over              BY <2>2
    <3>3. c \notin gone              BY <3>2
    <3> QED BY <3>1, <3>3
  <2> QED BY <1>1, <2>1, <2>2 DEF Filed, Spawn
<1>6. SlotLimit'
  <2>1. Cardinality(AllRunning') <= Cardinality(AllRunning) /\ Cardinality(AllRunning') \in Nat
    BY <1>1, KidsFinite, FS_Subset, FS_CardinalityType
  <2> QED BY <2>1, KidsFinite, ConstantsAssumption DEF SlotLimit, AllRunning, Limit
<1> QED BY <1>4, <1>5, <1>6

\* Everything else is calm.
LEMMA SlotStep == TypeOK /\ SlotInv /\ [Next]_vars => SlotInv'
<1> SUFFICES ASSUME TypeOK, SlotInv, [Next]_vars PROVE SlotInv'
  OBVIOUS
<1> USE DEF table, child, local, Goto, Calm, AllRunning
<1>1. ASSUME NEW t \in Thread, Loop(t) PROVE Calm
  <2> USE DEF TypeOK
  <2>1. CASE BeginTurn(t)   BY <2>1 DEF BeginTurn
  <2>2. CASE StopAsking(t)  BY <2>2 DEF StopAsking
  <2>3. CASE Ask(t)         BY <2>3 DEF Ask
  <2>4. CASE EndTurn(t)     BY <2>4 DEF EndTurn
  <2>5. CASE GetCalls(t)    BY <2>5 DEF GetCalls
  <2>6. CASE EndCalls(t)    BY <2>6 DEF EndCalls
  <2> QED BY <1>1, <2>1, <2>2, <2>3, <2>4, <2>5, <2>6 DEF Loop
<1>2. ASSUME NEW t \in Thread, Tools(t), ~Spawn(t) PROVE Calm
  <2> USE DEF TypeOK
  <2>1. CASE CheckSpawn(t)  BY <2>1 DEF CheckSpawn
  <2>3. CASE Leave(t)       BY <2>3 DEF Leave
  <2>4. CASE Await(t)       BY <2>4 DEF Await
  <2>5. CASE Watch(t)       BY <2>5 DEF Watch
  <2>6. CASE EndWait(t)     BY <2>6 DEF EndWait
  <2>7. CASE Kill(t)        BY <2>7 DEF Kill
  <2>8. CASE Say(t)         BY <2>8 DEF Say
  <2>9. CASE FollowUp(t)    BY <2>9 DEF FollowUp
  <2>10. CASE Requeue(t)    BY <2>10 DEF Requeue
  <2>11. CASE Forget(t)     BY <2>11 DEF Forget
  <2> QED BY <1>2, <2>1, <2>3, <2>4, <2>5, <2>6, <2>7, <2>8, <2>9, <2>10, <2>11
       DEF Tools, Collect, GiveUp, TimeOut
<1>3. ASSUME NEW t \in Thread, Launch(t) \/ LaunchFails(t) \/ Excuse(t) PROVE Calm
  <2>1. CASE Launch(t)      BY <2>1 DEF Launch, TypeOK
  <2>2. CASE LaunchFails(t) BY <2>2 DEF LaunchFails, TypeOK
  <2>3. CASE Excuse(t)      BY <2>3 DEF Excuse, TypeOK
  <2> QED BY <1>3, <2>1, <2>2, <2>3
<1>4. ASSUME NEW t \in Thread, End(t) PROVE Calm
  <2>1. CASE RootReports(t) BY <2>1 DEF RootReports, TypeOK
  <2>2. CASE Report(t)      BY <2>2 DEF Report, TypeOK
  <2>3. CASE Finish(t)      BY <2>3 DEF Finish, Outcome, TypeOK
  <2> QED BY <1>4, <2>1, <2>2, <2>3 DEF End
<1>5. ASSUME NEW c \in Kids, ScreenSay(c) PROVE Calm
  BY <1>5 DEF ScreenSay
<1>6. ASSUME NEW a \in Agents, ScreenStop(a) PROVE Calm
  BY <1>6 DEF ScreenStop
<1>7. CASE UNCHANGED vars
  <2>1. Calm  BY <1>7 DEF vars
  <2> QED BY <2>1, CalmKeepsSlots
<1>8. ASSUME NEW t \in Thread, Step(t) PROVE SlotInv'
  <2>1. CASE Scan(t)   BY <2>1, ScanKeepsSlots
  <2>2. CASE Mark(t)   BY <2>2, MarkKeepsSlots
  <2>3. CASE Spawn(t)  BY <2>3, SpawnKeepsSlots
  <2>4. CASE ~Scan(t) /\ ~Mark(t) /\ ~Spawn(t)
    <3>1. Calm  BY <1>1, <1>2, <1>3, <1>4, <1>8, <2>4 DEF Step, Slots
    <3> QED BY <3>1, CalmKeepsSlots
  <2> QED BY <2>1, <2>2, <2>3, <2>4
<1> QED BY <1>5, <1>6, <1>7, <1>8, CalmKeepsSlots DEF Next

\* No more than max_concurrent children run at once, whichever threads start what
\* is queued and however they interleave with finishes and follow-ups.
THEOREM SlotsHold == Spec => []SlotLimit
<1>1. TypeOK /\ SlotInv /\ [Next]_vars => (TypeOK /\ SlotInv)'
  BY TypeStep, SlotStep
<1>2. Init => TypeOK /\ SlotInv
  BY TypeInit, SlotInit
<1>3. SlotInv => SlotLimit
  BY DEF SlotInv
<1> QED BY <1>1, <1>2, <1>3, PTL DEF Spec

-----------------------------------------------------------------------------
(***************************************************************************)
(* One child, one thread.                                                  *)
(***************************************************************************)

\* What keeps the owners apart because it hands no child to anybody: no child
\* changes, no thread sets out with one, and none enters a turn.
Quiet == /\ UNCHANGED <<state, parent, runs, next_id>>
         /\ \A u \in Thread :
               /\ Working(u)' => Working(u)
               /\ pc[u] = "off" => pc'[u] = "off"
               /\ pc'[u] \in {"launch", "requeue"} => pc'[u] = pc[u] /\ pick'[u] = pick[u]

LEMMA QuietKeepsOwners == TypeOK /\ OwnerInv /\ Quiet => OwnerInv'
<1> SUFFICES ASSUME TypeOK, OwnerInv, Quiet PROVE OwnerInv'
  OBVIOUS
<1> USE DEF OwnerInv
<1>1. Unborn'      BY DEF Quiet, Unborn
<1>2. Unlaunched'
  <2>1. \A c \in Kids, n \in 1..MaxRuns : <<c, n>> \in Thread  BY DEF Thread
  <2> QED BY <2>1 DEF Quiet, Unlaunched
<1>3. Claimed'     BY DEF Quiet, Claimed
<1>4. Resumed'     BY DEF Quiet, Resumed, Over
<1>5. OneThread'   BY DEF Quiet, OneThread
<1> QED BY <1>1, <1>2, <1>3, <1>4, <1>5

LEMMA OwnerInit == Init => OwnerInv
<1> SUFFICES ASSUME Init PROVE OwnerInv
  OBVIOUS
<1>1. \A t \in Thread : pc[t] \in {"idle", "off"} /\ ~Working(t)
  BY DEF Init, Working
<1>2. \A c \in Kids, n \in 1..MaxRuns : <<c, n>> \in Thread /\ ~Root(<<c, n>>)
  BY ConstantsAssumption DEF Thread, Root, Id
<1>3. Unborn /\ Unlaunched  BY <1>2 DEF Init, Unborn, Unlaunched
<1>4. Claimed /\ Resumed /\ OneThread  BY <1>1 DEF Claimed, Resumed, OneThread
<1> QED BY <1>3, <1>4 DEF OwnerInv

\* Only a root's thread or one that is in a turn uses a tool.
LEMMA BusyThread == ASSUME NEW t \in Thread,
                           pc[t] \in {"turn", "request", "call", "spawn", "spawned", "await",
                                      "waitall", "waitany", "requeue", "forget", "report", "finish"}
                    PROVE  Root(t) \/ Working(t)
BY DEF Working

\* Two threads of one agent that are both a root's, or both in a turn, are one.
LEMMA SameThread == ASSUME OneThread, NEW t \in Thread, NEW u \in Thread,
                           Root(t) \/ Working(t), Root(u) \/ Working(u), Id(t) = Id(u)
                    PROVE  t = u
<1>1. CASE Root(t)
  <2>1. \A v \in Thread : Root(v) => v = <<Id(v), 1>>
    BY ConstantsAssumption DEF Thread, Root, Id
  <2> QED BY <1>1, <2>1 DEF Root
<1>2. CASE ~Root(t)
  BY <1>2 DEF OneThread, Root
<1> QED BY <1>1, <1>2

LEMMA SpawnKeepsOwners == ASSUME NEW t \in Thread, TypeOK, OwnerInv, Spawn(t) PROVE OwnerInv'
<1> USE DEF OwnerInv, Goto
<1>1. next_id \in Kids /\ state[next_id] = "none" /\ next_id' = next_id + 1
  BY DEF Spawn, TypeOK, Unborn, Kids
<1>2. state' = [state EXCEPT ![next_id] = "queued"] /\ runs' = runs /\ pick' = pick
      /\ \A c \in Kids : c # next_id => parent'[c] = parent[c]
  BY DEF Spawn, TypeOK
<1>3. pc' = [pc EXCEPT ![t] = "claim"] /\ after' = [after EXCEPT ![t] = "spawned"]
      /\ pc[t] = "spawn"
  BY DEF Spawn
<1>4. \A u \in Thread : Working(u)' => Working(u)
  BY <1>3 DEF Working, TypeOK
<1>5. Unborn'
  <2> SUFFICES ASSUME NEW c \in Kids, c >= next_id' PROVE state'[c] = "none"
    BY DEF Unborn
  <2>1. c # next_id /\ c >= next_id  BY <1>1 DEF Kids, TypeOK
  <2> QED BY <2>1, <1>2 DEF Unborn
<1>6. Unlaunched'
  BY <1>2, <1>3 DEF Unlaunched, TypeOK, Thread
<1>7. Claimed'
  BY <1>1, <1>2, <1>3, <1>4 DEF Claimed, TypeOK
<1>8. Resumed'
  BY <1>1, <1>2, <1>3 DEF Resumed, Over, OverStates, TypeOK
<1>9. OneThread'
  <2>1. \A u \in Thread : Working(u) => Id(u) # next_id  BY <1>1 DEF OneThread
  <2> QED BY <1>1, <1>2, <1>4, <2>1 DEF OneThread, TypeOK
<1> QED BY <1>5, <1>6, <1>7, <1>8, <1>9

LEMMA MarkKeepsOwners ==
    ASSUME NEW t \in Thread, TypeOK, SlotInv, OwnerInv, Mark(t) PROVE OwnerInv'
<1> USE DEF OwnerInv, Goto
<1>1. CASE state[pick[t]] # "queued"
  <2>1. pc' = [pc EXCEPT ![t] = after[t]] /\ pc[t] = "mark" /\ after' = after
        /\ pick' = [pick EXCEPT ![t] = NoKid] /\ UNCHANGED <<state, parent, runs, next_id>>
    BY <1>1 DEF Mark
  <2>2. Quiet  BY <2>1 DEF Quiet, Working, TypeOK
  <2> QED BY <2>2, QuietKeepsOwners
<1>2. CASE state[pick[t]] = "queued"
  <2>0. pick[t] \in Kids  BY DEF Mark, SlotInv, ScanHolds, TypeOK
  <2>1. state' = [state EXCEPT ![pick[t]] = "running"] /\ pc' = [pc EXCEPT ![t] = "launch"]
        /\ pc[t] = "mark" /\ UNCHANGED <<after, pick, parent, runs, next_id>>
    BY <1>2 DEF Mark
  <2>2. \A u \in Thread : Working(u)' <=> Working(u)
    BY <2>1 DEF Working, TypeOK
  <2>3. Unborn'      BY <1>2, <2>0, <2>1 DEF Unborn, TypeOK
  <2>4. Unlaunched'  BY <2>1 DEF Unlaunched, TypeOK, Thread
  <2>5. \A u \in Thread : Working(u) => Id(u) # pick[t]
    BY <1>2 DEF OneThread
  <2>6. \A u \in Thread : pc[u] = "launch" => pick[u] # pick[t]
    BY <1>2 DEF Claimed
  <2>7. Claimed'
    BY <1>2, <2>0, <2>1, <2>2, <2>5, <2>6 DEF Claimed, TypeOK
  <2>8. Resumed'     BY <1>2, <2>0, <2>1 DEF Resumed, Over, OverStates, TypeOK
  <2>9. OneThread'   BY <2>0, <2>1, <2>2, <2>5 DEF OneThread, TypeOK
  <2> QED BY <2>3, <2>4, <2>7, <2>8, <2>9
<1> QED BY <1>1, <1>2

\* The thread that is launched is the child's only one.
LEMMA LaunchKeepsOwners == ASSUME NEW t \in Thread, TypeOK, OwnerInv, Launch(t) PROVE OwnerInv'
<1> USE DEF OwnerInv, Goto
<1> DEFINE c == pick[t]
           new == <<c, runs[c] + 1>>
<1>1. /\ c \in Kids /\ state[c] = "running" /\ runs[c] < MaxRuns /\ runs[c] \in Nat
      /\ \A u \in Thread : Working(u) => Id(u) # c
      /\ \A u \in Thread : pc[u] = "launch" /\ pick[u] = c => u = t
  BY DEF Launch, Claimed, TypeOK
<1>2. new \in Thread /\ pc[new] = "off" /\ Id(new) = c /\ new # t
  BY <1>1, ConstantsAssumption DEF Thread, Id, Unlaunched, Launch
<1>3. /\ pc' = [pc EXCEPT ![t] = "claim", ![new] = "turn"]
      /\ runs' = [runs EXCEPT ![c] = runs[c] + 1]
      /\ pick' = [pick EXCEPT ![t] = NoKid]
      /\ pc[t] = "launch"
      /\ UNCHANGED <<state, parent, next_id, after>>
  BY DEF Launch, child, table
<1>4. \A u \in Thread : u # new => (Working(u)' => Working(u))
  BY <1>2, <1>3 DEF Working, TypeOK
<1>5. Unborn'  BY <1>3 DEF Unborn
<1>6. Unlaunched'
  <2>0. t # <<c, runs[c] + 1>> /\ \A k \in Kids, n \in 1..MaxRuns : <<k, n>> \in Thread
    BY <1>2 DEF Thread
  <2> SUFFICES ASSUME NEW k \in Kids, NEW n \in 1..MaxRuns, n > runs'[k]
               PROVE  pc'[<<k, n>>] = "off"
    BY DEF Unlaunched
  <2>1. n > runs[k] /\ (k = c => n > runs[c] + 1)
    BY <1>1, <1>3 DEF TypeOK
  <2>2. pc[<<k, n>>] = "off"  BY <2>1 DEF Unlaunched
  <2>3. <<k, n>> # new        BY <2>1
  <2>4. <<k, n>> # t          BY <2>2, <1>3
  <2> QED BY <2>0, <2>2, <2>3, <2>4, <1>3 DEF TypeOK
<1>7. \A u \in Thread : pc'[u] = "launch" => pc[u] = "launch" /\ u # t /\ pick'[u] = pick[u]
                                               /\ pick[u] # c
  BY <1>1, <1>2, <1>3 DEF TypeOK
<1>8. Claimed'
  <2> SUFFICES ASSUME NEW v \in Thread, pc'[v] = "launch"
               PROVE  /\ pick'[v] \in Kids
                      /\ state'[pick'[v]] = "running"
                      /\ \A u \in Thread : Working(u)' => Id(u) # pick'[v]
                      /\ \A u \in Thread : pc'[u] = "launch" /\ pick'[u] = pick'[v] => u = v
    BY DEF Claimed
  <2>1. pc[v] = "launch" /\ pick'[v] = pick[v] /\ pick[v] # c  BY <1>7
  <2>2. pick[v] \in Kids /\ state[pick[v]] = "running"        BY <2>1 DEF Claimed
  <2>3. \A u \in Thread : Working(u)' => Id(u) # pick[v]
    BY <1>2, <1>4, <2>1 DEF Claimed
  <2>4. \A u \in Thread : pc'[u] = "launch" /\ pick'[u] = pick[v] => u = v
    BY <1>7, <2>1 DEF Claimed
  <2> QED BY <1>3, <2>1, <2>2, <2>3, <2>4
<1>9. Resumed'
  BY <1>2, <1>3 DEF Resumed, Over, TypeOK
<1>10. OneThread'
  <2> SUFFICES ASSUME NEW v \in Thread, Working(v)'
               PROVE  /\ state'[Id(v)] = "running"
                      /\ \A u \in Thread : Working(u)' /\ Id(u) = Id(v) => u = v
    BY DEF OneThread
  <2>1. CASE v = new
    BY <1>1, <1>2, <1>3, <1>4, <2>1
  <2>2. CASE v # new
    <3>1. Working(v) /\ Id(v) # c  BY <1>1, <1>4, <2>2
    <3> QED BY <1>2, <1>3, <1>4, <3>1 DEF OneThread
  <2> QED BY <2>1, <2>2
<1> QED BY <1>5, <1>6, <1>8, <1>9, <1>10

\* A child whose thread could not be had was its claimer's alone.
LEMMA LaunchFailsKeepsOwners ==
    ASSUME NEW t \in Thread, TypeOK, OwnerInv, LaunchFails(t) PROVE OwnerInv'
<1> USE DEF OwnerInv, Goto
<1>1. /\ pick[t] \in Kids /\ state[pick[t]] = "running"
      /\ \A u \in Thread : Working(u) => Id(u) # pick[t]
      /\ \A u \in Thread : pc[u] = "launch" /\ pick[u] = pick[t] => u = t
  BY DEF LaunchFails, Claimed
<1>2. /\ pc' = [pc EXCEPT ![t] = "excuse"] /\ pc[t] = "launch"
      /\ state' = [state EXCEPT ![pick[t]] = "stopped"]
      /\ runs' = [runs EXCEPT ![pick[t]] = runs[pick[t]] + 1]
      /\ UNCHANGED <<parent, pick, next_id, after>>
  BY DEF LaunchFails, table
<1>3. \A u \in Thread : Working(u)' => Working(u)
  BY <1>2 DEF Working, TypeOK
<1>4. Unborn'      BY <1>1, <1>2 DEF Unborn, TypeOK
<1>5. Unlaunched'
  <2> SUFFICES ASSUME NEW k \in Kids, NEW n \in 1..MaxRuns, n > runs'[k]
               PROVE  pc'[<<k, n>>] = "off"
    BY DEF Unlaunched
  <2>1. n > runs[k]             BY <1>1, <1>2 DEF TypeOK
  <2>2. pc[<<k, n>>] = "off"    BY <2>1 DEF Unlaunched
  <2>3. <<k, n>> \in Thread     BY DEF Thread
  <2> QED BY <1>2, <2>2, <2>3 DEF TypeOK
<1>6. Claimed'     BY <1>1, <1>2, <1>3 DEF Claimed, TypeOK
<1>7. Resumed'     BY <1>1, <1>2 DEF Resumed, Over, OverStates, TypeOK
<1>8. OneThread'   BY <1>1, <1>2, <1>3 DEF OneThread, TypeOK
<1> QED BY <1>4, <1>5, <1>6, <1>7, <1>8

\* A follow-up starts from a child that is over, and the caller's own.
LEMMA FollowUpKeepsOwners ==
    ASSUME NEW t \in Thread, TypeOK, OwnerInv, FollowUp(t) PROVE OwnerInv'
<1> USE DEF OwnerInv, Goto
<1>1. /\ pc' = [pc EXCEPT ![t] = "requeue"] /\ pc[t] = "call"
      /\ UNCHANGED <<state, parent, runs, next_id, after>>
  BY DEF FollowUp, Look, MayCall, table, child
<1>2. PICK c \in Kids : /\ pick' = [pick EXCEPT ![t] = c]
                        /\ Over(c) /\ parent[c] = Id(t)
  BY DEF FollowUp, Mine, TypeOK
<1>3. \A u \in Thread : Working(u)' => Working(u)
  BY <1>1 DEF Working, TypeOK
<1>4. Unborn'      BY <1>1 DEF Unborn
<1>5. Unlaunched'  BY <1>1 DEF Unlaunched, TypeOK, Thread
<1>6. Claimed'     BY <1>1, <1>2, <1>3 DEF Claimed, TypeOK
<1>7. Resumed'     BY <1>1, <1>2 DEF Resumed, Over, TypeOK
<1>8. OneThread'   BY <1>1, <1>3 DEF OneThread
<1> QED BY <1>4, <1>5, <1>6, <1>7, <1>8

\* A child that is queued again was over, and nobody else is asking it again.
LEMMA RequeueKeepsOwners ==
    ASSUME NEW t \in Thread, TypeOK, OwnerInv, Requeue(t) PROVE OwnerInv'
<1> USE DEF OwnerInv, Goto
<1>1. /\ pc' = [pc EXCEPT ![t] = "forget"] /\ pc[t] = "requeue"
      /\ state' = [state EXCEPT ![pick[t]] = "queued"]
      /\ UNCHANGED <<parent, runs, next_id, after, pick>>
  BY DEF Requeue, table
<1>2. pick[t] \in Kids /\ Over(pick[t]) /\ parent[pick[t]] = Id(t)
  BY <1>1 DEF Resumed
<1>3. \A u \in Thread : Working(u)' => Working(u)
  BY <1>1 DEF Working, TypeOK
<1>4. \A u \in Thread : pc[u] = "requeue" /\ pick[u] = pick[t] => u = t
  <2> SUFFICES ASSUME NEW u \in Thread, pc[u] = "requeue", pick[u] = pick[t] PROVE u = t
    OBVIOUS
  <2>1. Id(u) = Id(t)  BY <1>2 DEF Resumed
  <2>2. (Root(u) \/ Working(u)) /\ (Root(t) \/ Working(t))  BY <1>1, BusyThread
  <2> QED BY <2>1, <2>2, SameThread
<1>5. Unborn'      BY <1>1, <1>2 DEF Unborn, Over, OverStates, TypeOK
<1>6. Unlaunched'  BY <1>1 DEF Unlaunched, TypeOK, Thread
<1>7. Claimed'
  <2>1. \A u \in Thread : pc[u] = "launch" => pick[u] # pick[t]
    BY <1>2 DEF Claimed, Over, OverStates
  <2> QED BY <1>1, <1>3, <2>1 DEF Claimed, TypeOK
<1>8. Resumed'     BY <1>1, <1>4 DEF Resumed, Over, TypeOK
<1>9. OneThread'
  <2>1. \A u \in Thread : Working(u) => Id(u) # pick[t]
    BY <1>2 DEF OneThread, Over, OverStates
  <2> QED BY <1>1, <1>3, <2>1 DEF OneThread, TypeOK
<1> QED BY <1>5, <1>6, <1>7, <1>8, <1>9

\* The thread that finishes leaves the turn in the step in which the child is over.
LEMMA FinishKeepsOwners ==
    ASSUME NEW t \in Thread, TypeOK, OwnerInv, Finish(t) PROVE OwnerInv'
<1> USE DEF OwnerInv, Goto
<1>1. /\ pc' = [pc EXCEPT ![t] = "claim"] /\ pc[t] = "finish" /\ ~Root(t)
      /\ state' = [state EXCEPT ![Id(t)] = Outcome(ended[t])]
      /\ after' = [after EXCEPT ![t] = "gone"]
      /\ UNCHANGED <<parent, runs, next_id, pick>>
  BY DEF Finish, table
<1>2. Outcome(ended[t]) \in OverStates  BY DEF Outcome, OverStates
<1>3. Working(t) /\ state[Id(t)] = "running" /\ Id(t) \in Kids
  BY <1>1, BusyThread DEF OneThread, Thread, Root, Id
<1>4. /\ \A u \in Thread : Working(u)' => Working(u) /\ u # t
      /\ \A u \in Thread : Working(u) /\ Id(u) = Id(t) => u = t
  BY <1>1, <1>3 DEF Working, TypeOK, OneThread
<1>5. Unborn'      BY <1>1, <1>3 DEF Unborn, TypeOK
<1>6. Unlaunched'  BY <1>1 DEF Unlaunched, TypeOK, Thread
<1>7. Claimed'     BY <1>1, <1>3, <1>4 DEF Claimed, TypeOK
<1>8. Resumed'     BY <1>1, <1>2, <1>3 DEF Resumed, Over, TypeOK
<1>9. OneThread'   BY <1>1, <1>3, <1>4 DEF OneThread, TypeOK
<1> QED BY <1>5, <1>6, <1>7, <1>8, <1>9

LEMMA OwnerStep == TypeOK /\ SlotInv /\ OwnerInv /\ [Next]_vars => OwnerInv'
<1> SUFFICES ASSUME TypeOK, SlotInv, OwnerInv, [Next]_vars PROVE OwnerInv'
  OBVIOUS
<1> USE DEF table, child, local, Goto, Quiet, Working
<1>1. ASSUME NEW t \in Thread, Loop(t) PROVE Quiet
  <2> USE DEF TypeOK
  <2>1. CASE BeginTurn(t)   BY <2>1 DEF BeginTurn, Root, Id
  <2>2. CASE StopAsking(t)  BY <2>2 DEF StopAsking
  <2>3. CASE Ask(t)         BY <2>3 DEF Ask
  <2>4. CASE EndTurn(t)     BY <2>4 DEF EndTurn
  <2>5. CASE GetCalls(t)    BY <2>5 DEF GetCalls
  <2>6. CASE EndCalls(t)    BY <2>6 DEF EndCalls
  <2> QED BY <1>1, <2>1, <2>2, <2>3, <2>4, <2>5, <2>6 DEF Loop
<1>2. ASSUME NEW t \in Thread, Tools(t), ~Spawn(t), ~FollowUp(t), ~Requeue(t) PROVE Quiet
  <2> USE DEF TypeOK
  <2>1. CASE CheckSpawn(t)  BY <2>1 DEF CheckSpawn, MayCall
  <2>2. CASE Leave(t)       BY <2>2 DEF Leave
  <2>3. CASE Await(t)       BY <2>3 DEF Await
  <2>4. CASE Watch(t)       BY <2>4 DEF Watch, Look, MayCall
  <2>5. CASE Waiting(t) /\ EndWait(t)  BY <2>5 DEF EndWait, Waiting
  <2>6. CASE Kill(t)        BY <2>6 DEF Kill, Look, MayCall
  <2>7. CASE Say(t)         BY <2>7 DEF Say, Look, MayCall
  <2>8. CASE Forget(t)      BY <2>8 DEF Forget
  <2> QED BY <1>2, <2>1, <2>2, <2>3, <2>4, <2>5, <2>6, <2>7, <2>8
       DEF Tools, Collect, GiveUp, TimeOut
<1>3. ASSUME NEW t \in Thread, Scan(t) \/ Excuse(t) PROVE Quiet
  <2>1. CASE Scan(t)        BY <2>1 DEF Scan, TypeOK
  <2>2. CASE Excuse(t)      BY <2>2 DEF Excuse, TypeOK
  <2> QED BY <1>3, <2>1, <2>2
<1>4. ASSUME NEW t \in Thread, RootReports(t) \/ Report(t) PROVE Quiet
  <2>1. CASE RootReports(t) BY <2>1 DEF RootReports, Root, Id, TypeOK
  <2>2. CASE Report(t)      BY <2>2 DEF Report, TypeOK
  <2> QED BY <1>4, <2>1, <2>2
<1>5. ASSUME NEW c \in Kids, ScreenSay(c) PROVE Quiet
  BY <1>5 DEF ScreenSay
<1>6. ASSUME NEW a \in Agents, ScreenStop(a) PROVE Quiet
  BY <1>6 DEF ScreenStop
<1>7. CASE UNCHANGED vars
  BY <1>7, QuietKeepsOwners DEF vars
<1>8. ASSUME NEW t \in Thread, Step(t) PROVE OwnerInv'
  <2>1. CASE Spawn(t)        BY <2>1, SpawnKeepsOwners
  <2>2. CASE Mark(t)         BY <2>2, MarkKeepsOwners
  <2>3. CASE Launch(t)       BY <2>3, LaunchKeepsOwners
  <2>4. CASE LaunchFails(t)  BY <2>4, LaunchFailsKeepsOwners
  <2>5. CASE FollowUp(t)     BY <2>5, FollowUpKeepsOwners
  <2>6. CASE Requeue(t)      BY <2>6, RequeueKeepsOwners
  <2>7. CASE Finish(t)       BY <2>7, FinishKeepsOwners
  <2>8. CASE Quiet           BY <2>8, QuietKeepsOwners
  <2> QED BY <1>1, <1>2, <1>3, <1>4, <1>8, <2>1, <2>2, <2>3, <2>4, <2>5, <2>6, <2>7, <2>8
       DEF Step, Slots, End
<1> QED BY <1>5, <1>6, <1>7, <1>8, QuietKeepsOwners DEF Next

Inv == TypeOK /\ SlotInv /\ OwnerInv

LEMMA InvHolds == Spec => []Inv
<1>1. Init => Inv
  BY TypeInit, SlotInit, OwnerInit DEF Inv
<1>2. Inv /\ [Next]_vars => Inv'
  BY TypeStep, SlotStep, OwnerStep DEF Inv
<1> QED BY <1>1, <1>2, PTL DEF Spec

\* A child is on one thread at most, and only while it is running, however many
\* callers race to start it and whenever it is asked to carry on.
THEOREM OneThreadHolds == Spec => []OneThread
<1>1. Inv => OneThread  BY DEF Inv, OwnerInv
<1> QED BY <1>1, InvHolds, PTL

-----------------------------------------------------------------------------
(***************************************************************************)
(* The table implements the pool of slots.                                 *)
(***************************************************************************)

\* A step that changes one child's state changes its life and nobody else's.
LEMMA OneLife == ASSUME TypeOK, NEW c \in Kids, NEW s \in State,
                        state' = [state EXCEPT ![c] = s]
                 PROVE  [k \in Kids |-> Life(k)]'
                          = [[k \in Kids |-> Life(k)] EXCEPT
                               ![c] = IF s \in OverStates THEN "over" ELSE s]
BY DEF TypeOK, Life, Over

LEMMA SameLife == ASSUME state' = state
                  PROVE  [k \in Kids |-> Life(k)]' = [k \in Kids |-> Life(k)]
BY DEF Life, Over

\* The pool counts as the table does.
LEMMA SameCount == \A S : Pool!Cardinality(S) = Cardinality(S)
BY Zenon DEF Pool!Cardinality, Cardinality

LEMMA PoolStep == Inv /\ [Next]_vars => [Pool!Next]_([c \in Kids |-> Life(c)])
<1> SUFFICES ASSUME Inv, [Next]_vars PROVE [Pool!Next]_([c \in Kids |-> Life(c)])
  OBVIOUS
<1> USE DEF Inv, Pool!Become
<1>1. ASSUME NEW t \in Thread, Spawn(t) PROVE Pool!Next
  <2>1. next_id \in Kids /\ state[next_id] = "none"
        /\ state' = [state EXCEPT ![next_id] = "queued"]
    BY <1>1 DEF Spawn, TypeOK, OwnerInv, Unborn, Kids
  <2>2. Pool!Submit(next_id)
    BY <2>1, OneLife DEF Pool!Submit, Life, Over, OverStates, State
  <2> QED BY <2>1, <2>2 DEF Pool!Next
<1>2. ASSUME NEW t \in Thread, Mark(t), state[pick[t]] = "queued" PROVE Pool!Next
  <2>1. pick[t] \in Kids /\ AllRunning \subseteq scan[t] /\ Cardinality(scan[t]) < Limit
        /\ state' = [state EXCEPT ![pick[t]] = "running"]
    BY <1>2 DEF Mark, SlotInv, ScanHolds, TypeOK
  <2>2. Pool!Slots = AllRunning
    BY DEF Pool!Slots, AllRunning, Life, Over, OverStates
  <2>3. IsFiniteSet(scan[t])
    BY KidsFinite, FS_Subset DEF TypeOK
  <2>4. Cardinality(Pool!Slots) < Limit
    <3>1. Cardinality(AllRunning) <= Cardinality(scan[t])
      BY <2>1, <2>3, FS_Subset
    <3>2. Cardinality(scan[t]) \in Nat /\ Limit \in Nat
      BY <2>3, FS_CardinalityType, ConstantsAssumption DEF Limit
    <3> QED BY <2>1, <2>2, <3>1, <3>2, KidsFinite
  <2>5. Pool!Start(pick[t])
    <3>1. Pool!Become(pick[t], "queued", "running")
      BY <1>2, <2>1, OneLife DEF Life, Over, OverStates, State
    <3> QED BY <2>4, <3>1, SameCount DEF Pool!Start
  <2> QED BY <2>1, <2>5 DEF Pool!Next
<1>3. ASSUME NEW t \in Thread, LaunchFails(t) PROVE Pool!Next
  <2>1. pick[t] \in Kids /\ state[pick[t]] = "running"
        /\ state' = [state EXCEPT ![pick[t]] = "stopped"]
    BY <1>3 DEF LaunchFails, OwnerInv, Claimed
  <2>2. Pool!Finish(pick[t])
    BY <2>1, OneLife DEF Pool!Finish, Life, Over, OverStates, State
  <2> QED BY <2>1, <2>2 DEF Pool!Next
<1>4. ASSUME NEW t \in Thread, Finish(t) PROVE Pool!Next
  <2>1. Working(t) /\ ~Root(t)  BY <1>4, BusyThread DEF Finish
  <2>2. Id(t) \in Kids /\ state[Id(t)] = "running"
        /\ state' = [state EXCEPT ![Id(t)] = Outcome(ended[t])]
        /\ Outcome(ended[t]) \in OverStates
    BY <1>4, <2>1 DEF Finish, OwnerInv, OneThread, Thread, Root, Id, Outcome, OverStates
  <2>3. Pool!Finish(Id(t))
    BY <2>2, OneLife DEF Pool!Finish, Life, Over, OverStates, State
  <2> QED BY <2>2, <2>3 DEF Pool!Next
<1>5. ASSUME NEW t \in Thread, Requeue(t) PROVE Pool!Next
  <2>1. pick[t] \in Kids /\ Over(pick[t])
        /\ state' = [state EXCEPT ![pick[t]] = "queued"]
    BY <1>5 DEF Requeue, OwnerInv, Resumed
  <2>2. Pool!Resume(pick[t])
    BY <2>1, OneLife DEF Pool!Resume, Life, Over, OverStates, State
  <2> QED BY <2>1, <2>2 DEF Pool!Next
<1>6. ASSUME NEW t \in Thread, Loop(t) PROVE state' = state
  BY <1>6 DEF Loop, BeginTurn, StopAsking, Ask, EndTurn, GetCalls, EndCalls, child
<1>7. ASSUME NEW t \in Thread, Tools(t), ~Spawn(t), ~Requeue(t) PROVE state' = state
  BY <1>7 DEF Tools, CheckSpawn, Leave, Await, Watch, Collect, GiveUp, TimeOut, EndWait,
              Kill, Say, FollowUp, Forget, child
<1>8. ASSUME NEW t \in Thread, Scan(t) \/ Launch(t) \/ Excuse(t) \/ RootReports(t) \/ Report(t)
                               \/ (Mark(t) /\ state[pick[t]] # "queued")
      PROVE state' = state
  BY <1>8 DEF Scan, Launch, Excuse, RootReports, Report, Mark, child
<1>9. ASSUME NEW t \in Thread, Step(t) PROVE Pool!Next \/ state' = state
  BY <1>1, <1>2, <1>3, <1>4, <1>5, <1>6, <1>7, <1>8, <1>9 DEF Step, Slots, End
<1>10. CASE Next
  <2>1. Pool!Next \/ state' = state
    BY <1>9, <1>10 DEF Next, ScreenSay, ScreenStop
  <2> QED BY <2>1, SameLife
<1>11. CASE UNCHANGED vars
  BY <1>11, SameLife DEF vars, child
<1> QED BY <1>10, <1>11

\* Seen from outside, the table is the abstract pool: every child queues, gets a
\* slot when one is free, is over, and may be queued again.
THEOREM TableIsPool == Spec => ImplementsPool
<1>1. Init => Pool!Init
  BY DEF Init, Pool!Init, Life, Over, OverStates
<1> QED BY <1>1, PoolStep, InvHolds, PTL DEF Spec, ImplementsPool, Pool!Spec

-----------------------------------------------------------------------------
(***************************************************************************)
(* With one conversation whose children start none (max_depth is 1 unless  *)
(* set), each finish is told of once, and no queued child is lost.         *)
(***************************************************************************)

\* Only the root's own thread starts children, waits for them or asks them to
\* carry on; every child is the root's.
Busy == {"spawn", "spawned", "await", "waitall", "waitany", "requeue", "forget"}
Flat(r) ==
    /\ depth[r] = 0
    /\ \A c \in Kids : parent[c] \in {r, NoKid} /\ (state[c] # "none" => depth[c] = 1)
    /\ \A t \in Thread : ~Root(t) => pc[t] \notin Busy /\ after[t] # "spawned"

\* The root is between the two steps of a follow-up: the child is queued, and
\* what is known of its last finish not yet forgotten.
Asking(r, c) == pc[<<r, 1>>] = "forget" /\ pick[<<r, 1>>] = c

\* There is news of a child when it is over and that is not known; what is known
\* of one that is not over is about to be forgotten.
News(r) == \A c \in Kids :
    /\ news[c] = IF Over(c) /\ (~heard[c] \/ Asking(r, c)) THEN 1 ELSE 0
    /\ ~Over(c) /\ heard[c] => Asking(r, c)

\* A child asked to carry on has not been dropped since it was looked up.
Held(r) == pc[<<r, 1>>] = "requeue" => pick[<<r, 1>>] \in kids

\* The report stored is of the last run, or the reason there was none, or that is
\* about to be written.
Fits(c) == report[c] \in {runs[c], NoThread} \/ Unwritten(c)

\* So it is but for the run that is going on; and a thread at work is on the last
\* run, with its report stored when it finishes, unless an older reason came late.
Reports ==
    /\ \A c \in Kids : state[c] # "running" => Fits(c)
    /\ \A t \in Thread : Working(t) =>
          /\ t[2] = runs[Id(t)]
          /\ pc[t] = "finish" => report[Id(t)] \in {t[2], NoThread}

\* No reason that is about to be written is forgotten.
Pending == \A u \in Thread : pc[u] = "excuse" => pc'[u] = "excuse" /\ pick'[u] = pick[u]

LEMMA FitsStays ==
    ASSUME NEW c, Fits(c), report'[c] = report[c], runs'[c] = runs[c], Pending PROVE Fits(c)'
BY DEF Fits, Unwritten, Pending

\* The count of children is not past the limit, and below it when one is started.
Counted(r) == TotalCap /\ (pc[<<r, 1>>] = "spawn" => started < MaxTotal)

ToldInv(r) == Flat(r) /\ News(r) /\ HeardBeforeDropped /\ QueuedIsFiled /\ Held(r)
              /\ Reports /\ Counted(r)

\* There is one conversation, and a child may not start children.
Alone(r) == Roots = {r} /\ MaxDepth <= 1

LEMMA RootThread ==
    ASSUME NEW r, Alone(r)
    PROVE  /\ <<r, 1>> \in Thread /\ Id(<<r, 1>>) = r /\ r \in Agents /\ r \notin Kids
           /\ \A t \in Thread : Root(t) <=> t = <<r, 1>>
           /\ \A t \in Thread : ~Root(t) => Id(t) \in Kids /\ t[2] \in 1..MaxRuns
BY ConstantsAssumption DEF Alone, Thread, Root, Id, Agents, Kids

\* A child has no children, and may start none.
LEMMA Childless ==
    ASSUME NEW r, Alone(r), Flat(r), Inv, NEW t \in Thread, ~Root(t)
    PROVE  Mine(t) = {} /\ (Working(t) => depth[Id(t)] = 1)
<1>0. NoKid \notin Kids
  BY ConstantsAssumption DEF Kids, NoKid
<1>1. Id(t) \in Kids /\ Id(t) # r /\ Id(t) # NoKid
  BY <1>0, RootThread
<1>2. Mine(t) = {}
  BY <1>1 DEF Mine, Flat, Inv, TypeOK
<1>3. Working(t) => depth[Id(t)] = 1
  BY <1>1 DEF Flat, Inv, OwnerInv, OneThread
<1> QED BY <1>2, <1>3

\* What keeps the invariant because no child changes and nobody is told anything,
\* and no thread begins or ends what the invariant speaks of.
Still == /\ UNCHANGED <<kids, started, state, parent, depth, heard, news, report, runs>>
         /\ \A u \in Thread :
               /\ Working(u)' => Working(u)
               /\ pc'[u] \in {"launch", "requeue", "forget", "finish"} \/ pc[u] = "forget"
                     => pc'[u] = pc[u] /\ pick'[u] = pick[u]
               /\ pc[u] = "excuse" => pc'[u] = "excuse" /\ pick'[u] = pick[u]
               /\ pc'[u] = "spawn" => pc[u] = "spawn" \/ started < MaxTotal
               /\ ~Root(u) => /\ pc'[u] \in Busy => pc[u] \in Busy
                              /\ after'[u] = "spawned" => after[u] = "spawned"

LEMMA StillKeepsTold ==
    ASSUME NEW r, Alone(r), ToldInv(r), Still PROVE ToldInv(r)'
<1> USE DEF ToldInv, Still
<1>1. Flat(r)'                 BY DEF Flat
<1>2. News(r)'                 BY RootThread DEF News, Asking, Over
<1>3. HeardBeforeDropped' /\ QueuedIsFiled'  BY DEF HeardBeforeDropped, QueuedIsFiled
<1>4. Held(r)'                 BY RootThread DEF Held
<1>5. Reports'                 BY FitsStays DEF Reports, Pending
<1>6. Counted(r)'              BY RootThread DEF Counted, TotalCap
<1> QED BY <1>1, <1>2, <1>3, <1>4, <1>5, <1>6

LEMMA ToldInit == ASSUME NEW r, Alone(r), Init PROVE ToldInv(r)
<1> USE RootThread, ConstantsAssumption
<1>1. Flat(r)      BY DEF Init, Flat, Busy
<1>2. News(r)      BY DEF Init, News, Over, OverStates, Asking
<1>3. HeardBeforeDropped /\ QueuedIsFiled /\ Held(r)
  BY DEF Init, HeardBeforeDropped, QueuedIsFiled, Held
<1>4. Reports      BY DEF Init, Reports, Fits, Working
<1>5. Counted(r)   BY DEF Init, Counted, TotalCap
<1> QED BY <1>1, <1>2, <1>3, <1>4, <1>5 DEF ToldInv

\* The loop's question: the root's claims the news of what is over; a child has
\* none to claim.
LEMMA AskKeepsTold ==
    ASSUME NEW r, Alone(r), Inv, ToldInv(r), NEW t \in Thread, Ask(t) PROVE ToldInv(r)'
<1> USE DEF Inv, ToldInv, Goto
<1>1. /\ pc' = [pc EXCEPT ![t] = "request"] /\ pc[t] = "turn"
      /\ heard' = [c \in Kids |-> heard[c] \/ c \in Notices(t)]
      /\ news' = [c \in Kids |-> IF c \in Notices(t) THEN news[c] - 1 ELSE news[c]]
      /\ UNCHANGED <<kids, started, state, parent, depth, report, runs, after, pick>>
  BY DEF Ask, table
<1>2. \A u \in Thread : Working(u)' <=> Working(u)
  BY <1>1 DEF Working, TypeOK
<1>3. Flat(r)'     BY <1>1 DEF Flat, Busy, TypeOK
<1>4. \A c \in Kids : Asking(r, c)' <=> Asking(r, c)
  BY <1>1, RootThread DEF Asking, TypeOK
<1>5. \A c \in Notices(t) : Over(c) /\ ~heard[c] /\ ~Asking(r, c)
  <2>1. CASE Root(t)
    BY <1>1, <2>1, RootThread DEF Notices, Asking
  <2>2. CASE ~Root(t)
    BY <2>2, Childless DEF Notices
  <2> QED BY <2>1, <2>2
<1>6. News(r)'
  <2> SUFFICES ASSUME NEW c \in Kids
               PROVE  /\ news'[c] = IF Over(c)' /\ (~heard'[c] \/ Asking(r, c)') THEN 1 ELSE 0
                      /\ ~Over(c)' /\ heard'[c] => Asking(r, c)'
    BY DEF News
  <2>1. Over(c)' <=> Over(c)  BY <1>1 DEF Over
  <2>2. CASE c \in Notices(t)
    <3>1. Over(c) /\ ~heard[c] /\ news[c] = 1 /\ heard'[c]
      BY <1>1, <1>5, <2>2 DEF News
    <3>2. news'[c] = 0   BY <1>1, <2>2, <3>1
    <3> QED BY <1>4, <1>5, <2>1, <2>2, <3>1, <3>2
  <2>3. CASE c \notin Notices(t)
    <3>1. news'[c] = news[c] /\ heard'[c] = heard[c]  BY <1>1, <2>3 DEF TypeOK
    <3> QED BY <1>4, <2>1, <3>1 DEF News
  <2> QED BY <2>2, <2>3
<1>7. HeardBeforeDropped'
  <2>1. \A c \in Notices(t) : news[c] = 1 /\ news'[c] = 0  BY <1>1, <1>5 DEF News, Notices, Mine, TypeOK
  <2> QED BY <1>1, <2>1 DEF HeardBeforeDropped
<1>8. QueuedIsFiled'  BY <1>1 DEF QueuedIsFiled
<1>9. Held(r)'        BY <1>1, RootThread DEF Held, TypeOK
<1>10. Reports'
  <2>1. Pending  BY <1>1 DEF Pending, TypeOK
  <2> QED BY <1>1, <1>2, <2>1, FitsStays DEF Reports, TypeOK
<1>11. Counted(r)'    BY <1>1, RootThread DEF Counted, TotalCap, TypeOK
<1> QED BY <1>3, <1>6, <1>7, <1>8, <1>9, <1>10, <1>11

\* Eviction drops nothing that goes on, and nothing the root has not heard of.
LEMMA EvictDrops ==
    ASSUME NEW c \in kids, ~Over(c) \/ ~heard[c] PROVE c \in Evict(kids)
<1> DEFINE over == {k \in kids : Over(k)}
           told == {k \in over : heard[k]}
           excess == Cardinality(over) - Keep
           gone == {k \in told : Cardinality({d \in told : d <= k}) <= excess}
<1>1. Evict(kids) = kids \ gone  BY DEF Evict
<1>2. c \notin told              OBVIOUS
<1>3. c \notin gone              BY <1>2
<1> QED BY <1>1, <1>3

LEMMA SpawnKeepsTold ==
    ASSUME NEW r, Alone(r), Inv, ToldInv(r), NEW t \in Thread, Spawn(t) PROVE ToldInv(r)'
<1> USE DEF Inv, ToldInv, Goto
<1> DEFINE c == next_id
<1>0. pc[t] = "spawn"  BY DEF Spawn
<1>1. t = <<r, 1>> /\ Id(t) = r
  <2>1. Root(t)  BY <1>0 DEF Flat, Busy
  <2> QED BY <2>1, RootThread
<1>2. c \in Kids /\ state[c] = "none"
  BY DEF Spawn, TypeOK, OwnerInv, Unborn, Kids
<1>3. /\ pc' = [pc EXCEPT ![t] = "claim"]
      /\ after' = [after EXCEPT ![t] = "spawned"]
      /\ started' = started + 1
      /\ state' = [state EXCEPT ![c] = "queued"]
      /\ parent' = [parent EXCEPT ![c] = r]
      /\ depth' = [depth EXCEPT ![c] = depth[r] + 1]
      /\ kids' = Evict(kids) \cup {c}
      /\ UNCHANGED <<heard, report, runs, news, pick>>
  BY <1>1 DEF Spawn
<1>4. \A u \in Thread : Working(u)' => Working(u) /\ u # t
  BY <1>1, <1>3, RootThread DEF Working, TypeOK
<1>5. \A k \in Kids : ~Asking(r, k) /\ ~Asking(r, k)'
  BY <1>0, <1>1, <1>3 DEF Asking, TypeOK
<1>6. \A k \in Kids : Over(k)' <=> Over(k)
  BY <1>2, <1>3 DEF Over, OverStates, TypeOK
<1>7. Flat(r)'
  <2>1. depth'[r] = 0
    BY <1>2, <1>3, RootThread DEF Flat, TypeOK
  <2>2. \A k \in Kids : parent'[k] \in {r, NoKid} /\ (state'[k] # "none" => depth'[k] = 1)
    BY <1>2, <1>3, RootThread DEF Flat, TypeOK, Agents
  <2>3. \A u \in Thread : ~Root(u) => u # t
    BY <1>1, RootThread
  <2>4. \A u \in Thread : ~Root(u) => pc'[u] \notin Busy /\ after'[u] # "spawned"
    BY <1>3, <2>3 DEF Flat, TypeOK
  <2> QED BY <2>1, <2>2, <2>4 DEF Flat
<1>8. News(r)'       BY <1>3, <1>5, <1>6 DEF News
<1>9. HeardBeforeDropped'
  <2> SUFFICES ASSUME NEW k \in Kids, news'[k] = 1 PROVE k \in kids'
    BY DEF HeardBeforeDropped
  <2>1. k \in kids /\ ~heard[k]  BY <1>3, <1>5 DEF News, HeardBeforeDropped
  <2> QED BY <1>3, <2>1, EvictDrops
<1>10. QueuedIsFiled'
  <2> SUFFICES ASSUME NEW k \in Kids, state'[k] = "queued", k # c PROVE k \in kids'
    BY <1>3 DEF QueuedIsFiled
  <2>1. state[k] = "queued" /\ k \in kids  BY <1>3 DEF QueuedIsFiled, TypeOK
  <2>2. ~Over(k)  BY <2>1 DEF Over, OverStates
  <2> QED BY <1>3, <2>1, <2>2, EvictDrops
<1>11. Held(r)'      BY <1>1, <1>3 DEF Held, TypeOK
<1>12. Reports'
  <2>1. \A k \in Kids : state'[k] # "running" => state[k] # "running"
    BY <1>2, <1>3 DEF TypeOK
  <2>2. Pending /\ \A u \in Thread : pc'[u] = "finish" => pc'[u] = pc[u]
    BY <1>0, <1>3 DEF Pending, TypeOK
  <2> QED BY <1>3, <1>4, <2>1, <2>2, FitsStays DEF Reports
<1>13. Counted(r)'
  <2>1. started < MaxTotal /\ pc'[t] # "spawn"  BY <1>0, <1>1, <1>3 DEF Counted, TypeOK
  <2> QED BY <1>1, <1>3, <2>1, ConstantsAssumption DEF Counted, TotalCap, TypeOK
<1> QED BY <1>7, <1>8, <1>9, <1>10, <1>11, <1>12, <1>13

\* A child that is over for some reason, with the news of it: nothing changes for
\* the others, and it was filed while it ran.
Ends(c) == /\ state[c] = "running" /\ Over(c)'
           /\ \A k \in Kids : k # c => state'[k] = state[k]
           /\ news' = [news EXCEPT ![c] = news[c] + 1]
           /\ UNCHANGED <<kids, started, parent, depth, heard, report>>

LEMMA EndsKeepsNews ==
    ASSUME NEW r, Alone(r), Inv, ToldInv(r), NEW c \in Kids, Ends(c),
           \A k \in Kids : Asking(r, k)' <=> Asking(r, k)
    PROVE  News(r)' /\ HeardBeforeDropped' /\ QueuedIsFiled'
<1> USE DEF Inv, ToldInv, Ends
<1>1. ~Over(c) /\ news[c] = 0 /\ c \in kids
  BY DEF News, Over, OverStates, SlotInv, Filed, AllRunning
<1>2. news'[c] = 1 /\ \A k \in Kids : k # c => news'[k] = news[k]
  BY <1>1 DEF TypeOK
<1>3. \A k \in Kids : k # c => (Over(k)' <=> Over(k))
  BY DEF Over
<1>4. News(r)'
  <2> SUFFICES ASSUME NEW k \in Kids
               PROVE  /\ news'[k] = IF Over(k)' /\ (~heard'[k] \/ Asking(r, k)') THEN 1 ELSE 0
                      /\ ~Over(k)' /\ heard'[k] => Asking(r, k)'
    BY DEF News
  <2>1. CASE k = c   BY <1>1, <1>2, <2>1 DEF News
  <2>2. CASE k # c   BY <1>2, <1>3, <2>2 DEF News
  <2> QED BY <2>1, <2>2
<1>5. HeardBeforeDropped'  BY <1>1, <1>2 DEF HeardBeforeDropped
<1>6. QueuedIsFiled'
  <2>1. state'[c] # "queued"  BY DEF Over, OverStates
  <2> QED BY <2>1 DEF QueuedIsFiled
<1> QED BY <1>4, <1>5, <1>6

LEMMA FinishKeepsTold ==
    ASSUME NEW r, Alone(r), Inv, ToldInv(r), NEW t \in Thread, Finish(t) PROVE ToldInv(r)'
<1> USE DEF Inv, ToldInv, Goto
<1> DEFINE c == Id(t)
<1>1. /\ pc' = [pc EXCEPT ![t] = "claim"] /\ pc[t] = "finish" /\ ~Root(t)
      /\ state' = [state EXCEPT ![c] = Outcome(ended[t])]
      /\ news' = [news EXCEPT ![c] = news[c] + 1]
      /\ after' = [after EXCEPT ![t] = "gone"]
      /\ UNCHANGED <<kids, started, parent, depth, heard, report, runs, pick>>
  BY DEF Finish, table
<1>2. Outcome(ended[t]) \in OverStates /\ Outcome(ended[t]) # "none"
  BY DEF Outcome, OverStates
<1>3. c \in Kids /\ t # <<r, 1>>  BY <1>1, RootThread
<1>4. Working(t) /\ state[c] = "running"
  BY <1>1, BusyThread DEF OwnerInv, OneThread
<1>5. /\ \A u \in Thread : Working(u)' => Working(u) /\ u # t
      /\ \A u \in Thread : Working(u) /\ Id(u) = c => u = t
  BY <1>1, <1>4 DEF Working, TypeOK, OwnerInv, OneThread
<1>6. \A k \in Kids : Asking(r, k)' <=> Asking(r, k)
  BY <1>1, <1>3, RootThread DEF Asking, TypeOK
<1>7. Ends(c)          BY <1>1, <1>2, <1>3, <1>4 DEF Ends, Over, TypeOK
<1>8. News(r)' /\ HeardBeforeDropped' /\ QueuedIsFiled'  BY <1>3, <1>6, <1>7, EndsKeepsNews
<1>9. Flat(r)'
  <2>1. \A k \in Kids : state'[k] # "none" => state[k] # "none"
    BY <1>1, <1>3, <1>4 DEF TypeOK
  <2> QED BY <1>1, <2>1 DEF Flat, Busy, TypeOK
<1>10. Held(r)'        BY <1>1, <1>3, RootThread DEF Held, TypeOK
<1>11. Reports'
  <2>1. Fits(c)  BY <1>1, <1>4 DEF Reports, Fits
  <2>2. Pending /\ \A u \in Thread : pc'[u] = "finish" => pc'[u] = pc[u]
    BY <1>1 DEF Pending, TypeOK
  <2>3. \A k \in Kids : state'[k] # "running" => Fits(k)
    BY <1>1, <2>1 DEF Reports, TypeOK
  <2> QED BY <1>1, <1>5, <2>2, <2>3, FitsStays DEF Reports
<1>12. Counted(r)'     BY <1>1, <1>3, RootThread DEF Counted, TotalCap, TypeOK
<1> QED BY <1>8, <1>9, <1>10, <1>11, <1>12

\* A refused thread is a run that is over; why is written in a later step.
LEMMA LaunchFailsKeepsTold ==
    ASSUME NEW r, Alone(r), Inv, ToldInv(r), NEW t \in Thread, LaunchFails(t) PROVE ToldInv(r)'
<1> USE DEF Inv, ToldInv, Goto
<1>0. PICK c \in Kids : c = pick[t]
  BY DEF LaunchFails, OwnerInv, Claimed
<1>1. /\ pc' = [pc EXCEPT ![t] = "excuse"] /\ pc[t] = "launch"
      /\ state' = [state EXCEPT ![c] = "stopped"]
      /\ news' = [news EXCEPT ![c] = news[c] + 1]
      /\ runs' = [runs EXCEPT ![c] = runs[c] + 1]
      /\ UNCHANGED <<kids, started, parent, depth, heard, report, pick, after>>
  BY <1>0 DEF LaunchFails, table
<1>2. c = pick[t] /\ c \in Kids /\ state[c] = "running"
      /\ \A u \in Thread : Working(u) => Id(u) # c
  BY <1>0, <1>1 DEF OwnerInv, Claimed
<1>3. \A u \in Thread : Working(u)' => Working(u)
  BY <1>1 DEF Working, TypeOK
<1>4. \A k \in Kids : Asking(r, k)' <=> Asking(r, k)
  BY <1>1, RootThread DEF Asking, TypeOK
<1>5. Ends(c)
  <2>1. state'[c] = "stopped" /\ \A k \in Kids : k # c => state'[k] = state[k]
    BY <1>1, <1>2 DEF TypeOK
  <2> QED BY <1>1, <1>2, <2>1 DEF Ends, Over, OverStates
<1>6. News(r)' /\ HeardBeforeDropped' /\ QueuedIsFiled'  BY <1>2, <1>4, <1>5, EndsKeepsNews
<1>7. Flat(r)'
  <2>1. \A k \in Kids : state'[k] # "none" => state[k] # "none"
    BY <1>1, <1>2 DEF TypeOK
  <2> QED BY <1>1, <2>1 DEF Flat, Busy, TypeOK
<1>8. Held(r)'
  <2>1. pc'[<<r, 1>>] = "requeue" => pc[<<r, 1>>] = "requeue" /\ pick'[<<r, 1>>] = pick[<<r, 1>>]
    BY <1>1, RootThread DEF TypeOK
  <2> QED BY <1>1, <2>1 DEF Held
<1>9. Reports'
  <2>1. Fits(c)'  BY <1>1, <1>2 DEF Fits, Unwritten, TypeOK
  <2>2. Pending /\ \A u \in Thread : pc'[u] = "finish" => pc'[u] = pc[u]
    BY <1>1 DEF Pending, TypeOK
  <2>3. \A k \in Kids : k # c => runs'[k] = runs[k] /\ state'[k] = state[k]
    BY <1>1 DEF TypeOK
  <2>4. \A k \in Kids : state'[k] # "running" => Fits(k)'
    BY <1>1, <2>1, <2>2, <2>3, FitsStays DEF Reports
  <2>5. \A u \in Thread : Working(u)' => Working(u) /\ Id(u) # c /\ Id(u) \in Kids
    BY <1>2, <1>3, RootThread DEF Working
  <2> QED BY <1>1, <2>2, <2>3, <2>4, <2>5 DEF Reports
<1>10. Counted(r)'     BY <1>1, RootThread DEF Counted, TotalCap, TypeOK
<1> QED BY <1>6, <1>7, <1>8, <1>9, <1>10

\* The reason may come late, over a later run's report: it is a reason still.
LEMMA ExcuseKeepsTold ==
    ASSUME NEW r, Alone(r), Inv, ToldInv(r), NEW t \in Thread, Excuse(t) PROVE ToldInv(r)'
<1> USE DEF Inv, ToldInv, Goto
<1> DEFINE c == pick[t]
<1>1. /\ pc' = [pc EXCEPT ![t] = "claim"] /\ pc[t] = "excuse"
      /\ report' = [report EXCEPT ![c] = NoThread]
      /\ pick' = [pick EXCEPT ![t] = NoKid]
      /\ UNCHANGED <<kids, started, state, parent, depth, heard, runs, news, after>>
  BY DEF Excuse, table
<1>2. \A u \in Thread : Working(u)' => Working(u)
  BY <1>1 DEF Working, TypeOK
<1>3. \A u \in Thread : pc'[u] \in Busy \cup {"finish"}
         => pc'[u] = pc[u] /\ pick'[u] = pick[u]
  BY <1>1 DEF Busy, TypeOK
<1>4. \A k \in Kids : Asking(r, k)' <=> Asking(r, k)
  BY <1>1, RootThread DEF Asking, TypeOK
<1>5. Flat(r)'        BY <1>1, <1>3 DEF Flat
<1>6. News(r)'        BY <1>1, <1>4 DEF News, Over
<1>7. HeardBeforeDropped' /\ QueuedIsFiled'
  BY <1>1 DEF HeardBeforeDropped, QueuedIsFiled
<1>8. Held(r)'        BY <1>1, <1>3, RootThread DEF Held, Busy
<1>9. Reports'
  <2>1. \A k \in Kids : report'[k] = IF k = c THEN NoThread ELSE report[k]
    BY <1>1 DEF TypeOK
  <2>2. \A k \in Kids : k # c /\ Unwritten(k) => Unwritten(k)'
    BY <1>1 DEF Unwritten, TypeOK
  <2>3. \A k \in Kids : Fits(k) => Fits(k)'
    BY <1>1, <2>1, <2>2 DEF Fits
  <2>4. \A u \in Thread : Working(u) => Id(u) \in Kids  BY RootThread DEF Working
  <2> QED BY <1>1, <1>2, <1>3, <2>1, <2>3, <2>4 DEF Reports
<1>10. Counted(r)'    BY <1>1, <1>3, RootThread DEF Counted, TotalCap, Busy
<1> QED BY <1>5, <1>6, <1>7, <1>8, <1>9, <1>10

\* A child marked for a start was queued, so it is not news and its report is
\* that of its last run.
LEMMA MarkKeepsTold ==
    ASSUME NEW r, Alone(r), Inv, ToldInv(r), NEW t \in Thread, Mark(t), state[pick[t]] = "queued"
    PROVE  ToldInv(r)'
<1> USE DEF Inv, ToldInv, Goto
<1> DEFINE c == pick[t]
<1>1. /\ pc' = [pc EXCEPT ![t] = "launch"] /\ pc[t] = "mark"
      /\ state' = [state EXCEPT ![c] = "running"]
      /\ UNCHANGED <<kids, started, parent, depth, heard, report, runs, news, after, pick>>
  BY DEF Mark
<1>2. c \in Kids  BY <1>1 DEF SlotInv, ScanHolds, TypeOK
<1>3. \A u \in Thread : Working(u)' => Working(u)
  BY <1>1 DEF Working, TypeOK
<1>4. \A k \in Kids : Asking(r, k)' <=> Asking(r, k)
  BY <1>1, RootThread DEF Asking, TypeOK
<1>5. \A k \in Kids : Over(k)' <=> Over(k)
  BY <1>1, <1>2 DEF Over, OverStates, TypeOK
<1>6. Flat(r)'        BY <1>1, <1>2 DEF Flat, Busy, TypeOK
<1>7. News(r)'        BY <1>1, <1>4, <1>5 DEF News
<1>8. HeardBeforeDropped'  BY <1>1 DEF HeardBeforeDropped
<1>9. QueuedIsFiled'  BY <1>1, <1>2 DEF QueuedIsFiled, TypeOK
<1>10. Held(r)'       BY <1>1, RootThread DEF Held, TypeOK
<1>11. Reports'
  <2>1. \A k \in Kids : state'[k] # "running" => state[k] # "running"
    BY <1>1, <1>2 DEF TypeOK
  <2>2. Pending /\ \A u \in Thread : pc'[u] = "finish" => pc[u] = "finish"
    BY <1>1 DEF Pending, TypeOK
  <2> QED BY <1>1, <1>3, <2>1, <2>2, FitsStays DEF Reports
<1>12. Counted(r)'    BY <1>1, RootThread DEF Counted, TotalCap, TypeOK
<1> QED BY <1>6, <1>7, <1>8, <1>9, <1>10, <1>11, <1>12

\* The thread launched is on the run it was launched for.
LEMMA LaunchKeepsTold ==
    ASSUME NEW r, Alone(r), Inv, ToldInv(r), NEW t \in Thread, Launch(t) PROVE ToldInv(r)'
<1> USE DEF Inv, ToldInv
<1> DEFINE c == pick[t]
           new == <<c, runs[c] + 1>>
<1>1. /\ c \in Kids /\ state[c] = "running" /\ runs[c] < MaxRuns /\ runs[c] \in Nat
      /\ \A u \in Thread : Working(u) => Id(u) # c
      /\ \A u \in Thread : pc[u] = "launch" /\ pick[u] = c => u = t
  BY DEF Launch, OwnerInv, Claimed, TypeOK
<1>2. new \in Thread /\ pc[new] = "off" /\ Id(new) = c /\ new[2] = runs[c] + 1
      /\ new # t /\ new # <<r, 1>>
  BY <1>1, RootThread, ConstantsAssumption DEF Thread, Id, OwnerInv, Unlaunched, Launch
<1>3. /\ pc' = [pc EXCEPT ![t] = "claim", ![new] = "turn"]
      /\ runs' = [runs EXCEPT ![c] = runs[c] + 1]
      /\ pick' = [pick EXCEPT ![t] = NoKid]
      /\ pc[t] = "launch"
      /\ UNCHANGED <<kids, started, state, parent, depth, heard, report, news, after>>
  BY DEF Launch, table
<1>4. \A u \in Thread : u # new => (Working(u)' => Working(u))
  BY <1>2, <1>3 DEF Working, TypeOK
<1>5. \A u \in Thread : pc'[u] \in Busy \cup {"launch", "finish"}
         => pc'[u] = pc[u] /\ pick'[u] = pick[u] /\ u # new /\ u # t
  BY <1>2, <1>3 DEF Busy, TypeOK
<1>6. \A k \in Kids : Asking(r, k)' <=> Asking(r, k)
  <2>1. pc[<<r, 1>>] = "forget" => <<r, 1>> # t /\ <<r, 1>> # new
    BY <1>2, <1>3
  <2> QED BY <1>2, <1>3, <2>1, RootThread DEF Asking, TypeOK
<1>7. Flat(r)'        BY <1>3, <1>5 DEF Flat
<1>8. News(r)'        BY <1>3, <1>6 DEF News, Over
<1>9. HeardBeforeDropped' /\ QueuedIsFiled'
  BY <1>3 DEF HeardBeforeDropped, QueuedIsFiled
<1>10. Held(r)'       BY <1>3, <1>5, RootThread DEF Held, Busy
<1>11. Reports'
  <2>1. \A k \in Kids : k # c => runs'[k] = runs[k]   BY <1>3 DEF TypeOK
  <2>2. runs'[c] = runs[c] + 1                        BY <1>1, <1>3 DEF TypeOK
  <2>3. Pending  BY <1>2, <1>3 DEF Pending, TypeOK
  <2>4. \A k \in Kids : state'[k] # "running" => Fits(k)'
    BY <1>1, <1>3, <2>1, <2>3, FitsStays DEF Reports
  <2>5. ASSUME NEW u \in Thread, Working(u)'
        PROVE  u[2] = runs'[Id(u)] /\ (pc'[u] = "finish" => report'[Id(u)] \in {u[2], NoThread})
    <3>1. CASE u = new
      BY <1>2, <1>5, <2>2, <3>1
    <3>2. CASE u # new
      <4>1. Working(u) /\ Id(u) # c /\ Id(u) \in Kids
        BY <1>1, <1>4, <2>5, <3>2, RootThread DEF Working
      <4> QED BY <1>3, <1>5, <2>1, <4>1 DEF Reports
    <3> QED BY <3>1, <3>2
  <2> QED BY <2>4, <2>5 DEF Reports
<1>12. Counted(r)'    BY <1>3, <1>5, RootThread DEF Counted, TotalCap, Busy
<1> QED BY <1>7, <1>8, <1>9, <1>10, <1>11, <1>12

\* The report is stored by the one thread that is on the child.
LEMMA ReportKeepsTold ==
    ASSUME NEW r, Alone(r), Inv, ToldInv(r), NEW t \in Thread, Report(t) PROVE ToldInv(r)'
<1> USE DEF Inv, ToldInv, Goto
<1>1. /\ pc' = [pc EXCEPT ![t] = "finish"] /\ pc[t] = "report" /\ ~Root(t)
      /\ report' = [report EXCEPT ![Id(t)] = t[2]]
      /\ UNCHANGED <<kids, started, state, parent, depth, heard, runs, news, after, pick>>
  BY DEF Report, table
<1>2. /\ Working(t) /\ state[Id(t)] = "running" /\ Id(t) \in Kids /\ t # <<r, 1>>
      /\ \A u \in Thread : Working(u) /\ Id(u) = Id(t) => u = t
  BY <1>1, BusyThread, RootThread DEF OwnerInv, OneThread
<1>3. \A u \in Thread : Working(u)' => Working(u)
  BY <1>1, <1>2 DEF Working, TypeOK
<1>4. \A u \in Thread : pc'[u] \in Busy \cup {"launch"} => pc'[u] = pc[u]
  BY <1>1 DEF Busy, TypeOK
<1>5. \A k \in Kids : Asking(r, k)' <=> Asking(r, k)
  BY <1>1, <1>2, RootThread DEF Asking, TypeOK
<1>6. Flat(r)'        BY <1>1, <1>4 DEF Flat
<1>7. News(r)'        BY <1>1, <1>5 DEF News, Over
<1>8. HeardBeforeDropped' /\ QueuedIsFiled'
  BY <1>1 DEF HeardBeforeDropped, QueuedIsFiled
<1>9. Held(r)'        BY <1>1, <1>4, RootThread DEF Held, Busy
<1>10. Reports'
  <2>1. \A k \in Kids : k # Id(t) => report'[k] = report[k]  BY <1>1 DEF TypeOK
  <2>2. report'[Id(t)] = t[2]  BY <1>1, <1>2 DEF TypeOK
  <2>3. Pending  BY <1>1 DEF Pending, TypeOK
  <2>4. \A k \in Kids : state'[k] # "running" => Fits(k)'
    BY <1>1, <1>2, <2>1, <2>3, FitsStays DEF Reports
  <2>5. ASSUME NEW u \in Thread, Working(u)'
        PROVE  u[2] = runs'[Id(u)] /\ (pc'[u] = "finish" => report'[Id(u)] \in {u[2], NoThread})
    <3>1. CASE u = t   BY <1>1, <1>2, <2>2, <3>1 DEF Reports
    <3>2. CASE u # t
      <4>1. Working(u) /\ Id(u) # Id(t) /\ Id(u) \in Kids /\ pc'[u] = pc[u]
        BY <1>1, <1>2, <1>3, <2>5, <3>2, RootThread DEF Working, TypeOK
      <4> QED BY <1>1, <2>1, <4>1 DEF Reports
    <3> QED BY <3>1, <3>2
  <2> QED BY <2>4, <2>5 DEF Reports
<1>11. Counted(r)'    BY <1>1, <1>4, RootThread DEF Counted, TotalCap, Busy
<1> QED BY <1>6, <1>7, <1>8, <1>9, <1>10, <1>11

\* A follow-up is the root's, and what it picks is in the table.
LEMMA FollowUpKeepsTold ==
    ASSUME NEW r, Alone(r), Inv, ToldInv(r), NEW t \in Thread, FollowUp(t) PROVE ToldInv(r)'
<1> USE DEF Inv, ToldInv, Goto
<1>1. /\ pc' = [pc EXCEPT ![t] = "requeue"] /\ pc[t] = "call"
      /\ UNCHANGED <<kids, started, state, parent, depth, heard, report, runs, news, after>>
  BY DEF FollowUp, Look, MayCall, table, child
<1>2. PICK c \in Mine(t) : pick' = [pick EXCEPT ![t] = c]
  BY DEF FollowUp
<1>3. t = <<r, 1>> /\ Root(t)
  BY <1>2, Childless, RootThread
<1>4. \A u \in Thread : Working(u)' => Working(u)
  BY <1>1 DEF Working, TypeOK
<1>5. \A k \in Kids : ~Asking(r, k) /\ ~Asking(r, k)'
  BY <1>1, <1>3, RootThread DEF Asking, TypeOK
<1>6. Flat(r)'        BY <1>1, <1>3 DEF Flat, TypeOK
<1>7. News(r)'        BY <1>1, <1>5 DEF News, Over
<1>8. HeardBeforeDropped' /\ QueuedIsFiled'
  BY <1>1 DEF HeardBeforeDropped, QueuedIsFiled
<1>9. Held(r)'        BY <1>1, <1>2, <1>3 DEF Held, Mine, TypeOK
<1>10. Reports'
  <2>1. Pending /\ \A u \in Thread : pc'[u] = "finish" => pc'[u] = pc[u]
    BY <1>1, <1>2 DEF Pending, TypeOK
  <2> QED BY <1>1, <1>4, <2>1, FitsStays DEF Reports
<1>11. Counted(r)'    BY <1>1, RootThread DEF Counted, TotalCap, TypeOK
<1> QED BY <1>6, <1>7, <1>8, <1>9, <1>10, <1>11

\* A child queued again is no news any more, heard of or not.
LEMMA RequeueKeepsTold ==
    ASSUME NEW r, Alone(r), Inv, ToldInv(r), NEW t \in Thread, Requeue(t) PROVE ToldInv(r)'
<1> USE DEF Inv, ToldInv, Goto
<1>0. PICK c \in Kids : c = pick[t]
  BY DEF Requeue, OwnerInv, Resumed
<1>1. /\ pc' = [pc EXCEPT ![t] = "forget"] /\ pc[t] = "requeue"
      /\ state' = [state EXCEPT ![c] = "queued"]
      /\ news' = [news EXCEPT ![c] = 0]
      /\ UNCHANGED <<kids, started, parent, depth, heard, report, runs, after, pick>>
  BY <1>0 DEF Requeue, table
<1>2. t = <<r, 1>> /\ Root(t)
  BY <1>1, RootThread DEF Flat, Busy
<1>3. c \in Kids /\ Over(c) /\ c \in kids /\ c = pick[t]
  BY <1>0, <1>1, <1>2 DEF OwnerInv, Resumed, Held
<1>4. state[c] \notin {"none", "running"}  BY <1>3 DEF Over, OverStates
<1>5. \A u \in Thread : Working(u)' => Working(u)
  BY <1>1 DEF Working, TypeOK
<1>6. \A k \in Kids : ~Asking(r, k) /\ (Asking(r, k)' <=> k = c)
  BY <1>0, <1>1, <1>2, RootThread DEF Asking, TypeOK
<1>7. ~Over(c)' /\ \A k \in Kids : k # c => (Over(k)' <=> Over(k))
  BY <1>1, <1>3 DEF Over, OverStates, TypeOK
<1>8. Flat(r)'        BY <1>1, <1>2, <1>4 DEF Flat, TypeOK
<1>9. News(r)'
  <2> SUFFICES ASSUME NEW k \in Kids
               PROVE  /\ news'[k] = IF Over(k)' /\ (~heard'[k] \/ Asking(r, k)') THEN 1 ELSE 0
                      /\ ~Over(k)' /\ heard'[k] => Asking(r, k)'
    BY DEF News
  <2>1. CASE k = c
    <3>1. news'[k] = 0  BY <1>1, <1>3, <2>1 DEF TypeOK
    <3> QED BY <1>6, <1>7, <2>1, <3>1
  <2>2. CASE k # c
    <3>1. news'[k] = news[k]  BY <1>1, <2>2 DEF TypeOK
    <3> QED BY <1>1, <1>6, <1>7, <2>2, <3>1 DEF News
  <2> QED BY <2>1, <2>2
<1>10. HeardBeforeDropped'
  <2>1. news'[c] = 0 /\ \A k \in Kids : k # c => news'[k] = news[k]  BY <1>1, <1>3 DEF TypeOK
  <2> QED BY <1>1, <2>1 DEF HeardBeforeDropped
<1>11. QueuedIsFiled'
  <2>1. \A k \in Kids : k # c => state'[k] = state[k]  BY <1>1 DEF TypeOK
  <2> QED BY <1>1, <1>3, <2>1 DEF QueuedIsFiled
<1>12. Held(r)'       BY <1>1, <1>2 DEF Held, TypeOK
<1>13. Reports'
  <2>1. \A k \in Kids : state'[k] # "running" => state[k] # "running"
    BY <1>1, <1>3, <1>4 DEF TypeOK
  <2>2. Pending /\ \A u \in Thread : pc'[u] = "finish" => pc'[u] = pc[u]
    BY <1>1 DEF Pending, TypeOK
  <2> QED BY <1>1, <1>5, <2>1, <2>2, FitsStays DEF Reports
<1>14. Counted(r)'    BY <1>1, RootThread DEF Counted, TotalCap, TypeOK
<1> QED BY <1>8, <1>9, <1>10, <1>11, <1>12, <1>13, <1>14

\* Once the flag is down, a finish that came meanwhile is news like any other.
LEMMA ForgetKeepsTold ==
    ASSUME NEW r, Alone(r), Inv, ToldInv(r), NEW t \in Thread, Forget(t) PROVE ToldInv(r)'
<1> USE DEF Inv, ToldInv, Goto
<1> DEFINE c == pick[t]
<1>1. /\ pc' = [pc EXCEPT ![t] = "claim"] /\ pc[t] = "forget"
      /\ heard' = [heard EXCEPT ![c] = FALSE]
      /\ pick' = [pick EXCEPT ![t] = NoKid]
      /\ after' = [after EXCEPT ![t] = "call"]
      /\ UNCHANGED <<kids, started, state, parent, depth, report, runs, news>>
  BY DEF Forget, table
<1>2. t = <<r, 1>> /\ Root(t)
  BY <1>1, RootThread DEF Flat, Busy
<1>3. \A u \in Thread : Working(u)' => Working(u)
  BY <1>1, <1>2 DEF Working, TypeOK
<1>4. \A k \in Kids : (Asking(r, k) <=> k = c) /\ ~Asking(r, k)'
  BY <1>1, <1>2, RootThread DEF Asking, TypeOK
<1>5. Flat(r)'        BY <1>1, <1>2 DEF Flat, Busy, TypeOK
<1>6. News(r)'
  <2>1. \A k \in Kids : heard'[k] = IF k = c THEN FALSE ELSE heard[k]
    BY <1>1 DEF TypeOK
  <2> QED BY <1>1, <1>4, <2>1 DEF News, Over
<1>7. HeardBeforeDropped' /\ QueuedIsFiled'
  BY <1>1 DEF HeardBeforeDropped, QueuedIsFiled
<1>8. Held(r)'        BY <1>1, <1>2 DEF Held, TypeOK
<1>9. Reports'
  <2>1. Pending /\ \A u \in Thread : pc'[u] = "finish" => pc'[u] = pc[u]
    BY <1>1 DEF Pending, TypeOK
  <2> QED BY <1>1, <1>3, <2>1, FitsStays DEF Reports
<1>10. Counted(r)'    BY <1>1, RootThread DEF Counted, TotalCap, TypeOK
<1> QED BY <1>5, <1>6, <1>7, <1>8, <1>9, <1>10

LEMMA ToldStep ==
    ASSUME NEW r, Alone(r), Inv, ToldInv(r), [Next]_vars PROVE ToldInv(r)'
<1> USE DEF table, child, local, Goto, Still, Working, Busy
<1>1. ASSUME NEW t \in Thread, Loop(t), ~Ask(t) PROVE Still
  <2> USE DEF Inv, TypeOK
  <2>1. CASE BeginTurn(t)   BY <2>1 DEF BeginTurn
  <2>2. CASE StopAsking(t)  BY <2>2 DEF StopAsking
  <2>3. CASE EndTurn(t)     BY <2>3 DEF EndTurn
  <2>4. CASE GetCalls(t)    BY <2>4 DEF GetCalls
  <2>5. CASE EndCalls(t)    BY <2>5 DEF EndCalls
  <2> QED BY <1>1, <2>1, <2>2, <2>3, <2>4, <2>5 DEF Loop
<1>2. ASSUME NEW t \in Thread, Tools(t), ~Spawn(t), ~FollowUp(t), ~Requeue(t), ~Forget(t)
      PROVE  Still
  <2>0. ~Root(t) => pc[t] \notin Busy  BY DEF ToldInv, Flat
  <2> USE DEF Inv, TypeOK
  <2>1. CASE CheckSpawn(t)
    <3>1. CASE Root(t)  BY <2>1, <3>1 DEF CheckSpawn, MayCall
    <3>2. CASE ~Root(t)
      <4>1. Working(t)  BY <2>0, <2>1, <3>2 DEF CheckSpawn, MayCall
      <4>2. depth[Id(t)] = 1  BY <3>2, <4>1, Childless DEF ToldInv
      <4> QED BY <2>1, <4>2, ConstantsAssumption DEF CheckSpawn, Alone
    <3> QED BY <3>1, <3>2
  <2>2. CASE Leave(t)       BY <2>2 DEF Leave
  <2>3. CASE Await(t)       BY <2>0, <2>3 DEF Await
  <2>4. CASE Watch(t)
    <3>1. ASSUME ~Root(t) PROVE FALSE
      <4>1. Mine(t) = {}  BY <3>1, Childless DEF ToldInv
      <4>2. PICK some \in (SUBSET Mine(t)) \ {{}} : TRUE  BY <2>4 DEF Watch
      <4>3. some = {}  BY <4>1, <4>2
      <4> QED BY <4>2, <4>3
    <3>2. PICK how \in {"waitall", "waitany"} : pc' = [pc EXCEPT ![t] = how]
      BY <2>4 DEF Watch
    <3>3. pc[t] = "call" /\ Root(t)  BY <2>4, <3>1 DEF Watch, Look, MayCall
    <3>4. UNCHANGED <<kids, started, state, parent, depth, heard, news, report, runs, after, pick>>
      BY <2>4 DEF Watch
    <3>5. pc'[t] = how /\ \A u \in Thread : u # t => pc'[u] = pc[u]  BY <3>2
    <3> QED BY <3>3, <3>4, <3>5
  <2>5. CASE Waiting(t) /\ EndWait(t)  BY <2>5 DEF EndWait, Waiting
  <2>6. CASE Kill(t)        BY <2>6 DEF Kill, Look, MayCall
  <2>7. CASE Say(t)         BY <2>7 DEF Say, Look, MayCall
  <2> QED BY <1>2, <2>1, <2>2, <2>3, <2>4, <2>5, <2>6, <2>7
       DEF Tools, Collect, GiveUp, TimeOut
<1>3. ASSUME NEW t \in Thread, Scan(t) PROVE Still
  <2>1. ~Root(t) => after[t] # "spawned"  BY DEF ToldInv, Flat
  <2> QED BY <1>3, <2>1 DEF Scan, Inv, TypeOK
<1>4. ASSUME NEW t \in Thread, Mark(t), state[pick[t]] # "queued" PROVE Still
  <2>1. ~Root(t) => after[t] # "spawned"  BY DEF ToldInv, Flat
  <2> QED BY <1>4, <2>1 DEF Mark, Inv, TypeOK
<1>5. ASSUME NEW t \in Thread, RootReports(t) PROVE Still
  BY <1>5 DEF RootReports, Inv, TypeOK
<1>6. ASSUME NEW c \in Kids, ScreenSay(c) PROVE Still
  BY <1>6 DEF ScreenSay
<1>7. ASSUME NEW a \in Agents, ScreenStop(a) PROVE Still
  BY <1>7 DEF ScreenStop
<1>8. CASE UNCHANGED vars
  <2>1. Still  BY <1>8 DEF vars
  <2> QED BY <2>1, StillKeepsTold
<1>9. ASSUME NEW t \in Thread, Step(t) PROVE ToldInv(r)'
  <2>1. CASE Ask(t)          BY <2>1, AskKeepsTold
  <2>2. CASE Spawn(t)        BY <2>2, SpawnKeepsTold
  <2>3. CASE Mark(t) /\ state[pick[t]] = "queued"  BY <2>3, MarkKeepsTold
  <2>4. CASE Launch(t)       BY <2>4, LaunchKeepsTold
  <2>5. CASE LaunchFails(t)  BY <2>5, LaunchFailsKeepsTold
  <2>12. CASE Excuse(t)      BY <2>12, ExcuseKeepsTold
  <2>6. CASE FollowUp(t)     BY <2>6, FollowUpKeepsTold
  <2>7. CASE Requeue(t)      BY <2>7, RequeueKeepsTold
  <2>8. CASE Forget(t)       BY <2>8, ForgetKeepsTold
  <2>9. CASE Report(t)       BY <2>9, ReportKeepsTold
  <2>10. CASE Finish(t)      BY <2>10, FinishKeepsTold
  <2>11. CASE Still          BY <2>11, StillKeepsTold
  <2> QED BY <1>1, <1>2, <1>3, <1>4, <1>5, <1>9, <2>1, <2>2, <2>3, <2>4, <2>5, <2>6, <2>7,
             <2>8, <2>9, <2>10, <2>11, <2>12 DEF Step, Slots, End
<1> QED BY <1>6, <1>7, <1>8, <1>9, StillKeepsTold DEF Next

\* In a window's process, where one conversation starts children that start none:
\* its model is told of each finish once, after the report is there (or with the
\* reason that there is none still to come), no child is
\* dropped before it was heard of or while it waits for a slot, and there are never
\* more than max_total.
THEOREM FinishIsToldHolds ==
    ASSUME NEW r, Roots = {r}, MaxDepth <= 1 PROVE Spec => []FinishIsTold
<1>1. Init => Inv /\ ToldInv(r)
  BY TypeInit, SlotInit, OwnerInit, ToldInit DEF Inv, Alone
<1>2. (Inv /\ ToldInv(r)) /\ [Next]_vars => (Inv /\ ToldInv(r))'
  <2>1. Inv /\ [Next]_vars => Inv'  BY TypeStep, SlotStep, OwnerStep DEF Inv
  <2>2. Alone(r)  BY DEF Alone
  <2> QED BY <2>1, <2>2, ToldStep
<1>3. Inv /\ ToldInv(r) => FinishIsTold
  <2> SUFFICES ASSUME Inv, ToldInv(r) PROVE FinishIsTold
    OBVIOUS
  <2>1. ToldOnce     BY DEF ToldInv, News, ToldOnce
  <2>2. ReportFirst  BY DEF ToldInv, Reports, Fits, ReportFirst, Over, OverStates
  <2> QED BY <2>1, <2>2 DEF ToldInv, Counted, FinishIsTold
<1> QED BY <1>1, <1>2, <1>3, PTL DEF Spec
=============================================================================
