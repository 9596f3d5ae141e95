------------------------------ MODULE PairLock ------------------------------
(***************************************************************************)
(* Which process of a machine publishes (ah/src/remote/lock.rs): a lock    *)
(* held by whoever does, and a claim held by whoever waits for it.  Both   *)
(* go with the process.  A window asks when it opens (publisher.rs,        *)
(* ask_for_it); a daemon takes what is free (start_when_free) and, as a    *)
(* window does, stands down when its thread sees a claim.                  *)
(***************************************************************************)
EXTENDS Naturals, TLAPS

CONSTANTS
    PairWindows,   \* the windows
    PairDaemon,    \* the daemon
    PairNobody,    \* no process
    PairHangs      \* bound: windows stopped while they ask, or killed

ASSUME PairAssumption ==
    /\ PairDaemon \notin PairWindows /\ PairNobody \notin PairWindows \cup {PairDaemon}
    /\ PairHangs \in Nat

PairProcs == PairWindows \cup {PairDaemon}

VARIABLES
    pair_pc,      \* where each process is
    pair_lock,    \* who has remote.lock
    pair_claim,   \* who has remote.claim
    pair_stale,   \* whether it was claimed longer than CLAIM_LASTS ago
    pair_thread,  \* Shared::done of each: the thread of its publisher runs
    pair_refs,    \* who holds the Publisher of each, and its lock with it
    pair_hangs

pair_vars == <<pair_pc, pair_lock, pair_claim, pair_stale, pair_thread, pair_refs, pair_hangs>>

PairInit ==
    /\ pair_pc = [p \in PairProcs |-> "off"]
    /\ pair_lock = PairNobody /\ pair_claim = PairNobody /\ pair_stale = FALSE
    /\ pair_thread = [p \in PairProcs |-> FALSE]
    /\ pair_refs = [p \in PairProcs |-> {}]
    /\ pair_hangs = 0

PairGo(p, pc) == pair_pc' = [pair_pc EXCEPT ![p] = pc]

\* A mutant: a claim is honoured for as long as it is held.
OutstandingForEver == pair_claim # PairNobody
\* Claim::outstanding.
Outstanding == pair_claim # PairNobody /\ ~pair_stale

\* A process comes up, and looks first whether anybody waits (Lock::take).
PairStart(p) ==
    /\ pair_pc[p] = "off"
    /\ PairGo(p, "look")
    /\ UNCHANGED <<pair_lock, pair_claim, pair_stale, pair_thread, pair_refs, pair_hangs>>

NoLock(p) == IF p = PairDaemon THEN "off" ELSE "ask"


Look(p) ==
    /\ pair_pc[p] = "look"
    /\ PairGo(p, IF Outstanding THEN NoLock(p) ELSE "grab")
    /\ UNCHANGED <<pair_lock, pair_claim, pair_stale, pair_thread, pair_refs, pair_hangs>>

\* Publisher::start.  In a window the thread that forwards events has one too.
Publishes(p) ==
    /\ pair_lock' = p
    /\ pair_thread' = [pair_thread EXCEPT ![p] = TRUE]
    /\ pair_refs' = [pair_refs EXCEPT ![p] = IF p = PairDaemon THEN {"main"}
                                                               ELSE {"main", "forwarder"}]
    /\ PairGo(p, "up")

\* Lock::grab.
Grab(p) ==
    /\ pair_pc[p] = "grab"
    /\ IF pair_lock = PairNobody THEN Publishes(p)
       ELSE PairGo(p, NoLock(p)) /\ UNCHANGED <<pair_lock, pair_thread, pair_refs>>
    /\ UNCHANGED <<pair_claim, pair_stale, pair_hangs>>

\* Claim::make, which is tried until it works.
MakeClaim(p) ==
    /\ pair_pc[p] = "ask" /\ pair_claim = PairNobody
    /\ pair_claim' = p /\ pair_stale' = FALSE
    /\ PairGo(p, "asking")
    /\ UNCHANGED <<pair_lock, pair_thread, pair_refs, pair_hangs>>

\* Lock::take_as_asked; the claim goes as the wait ends.
GrabAsAsked(p) ==
    /\ pair_pc[p] = "asking" /\ pair_lock = PairNobody
    /\ Publishes(p)
    /\ pair_claim' = PairNobody
    /\ UNCHANGED <<pair_stale, pair_hangs>>

\* One that is stopped holds the claim, and no other can be made.
Squatted == pair_claim # PairNobody /\ pair_pc[pair_claim] = "hung"

\* Nothing a holder does on its own gives the pairing up any more.
Stuck == /\ pair_lock # PairNobody
         /\ \/ pair_pc[pair_lock] = "hung"
            \/ ~pair_thread[pair_lock] /\ "main" \notin pair_refs[pair_lock]

\* HANDOVER is over, which is longer than standing down takes.
GiveUp(p) ==
    /\ pair_pc[p] \in {"ask", "asking"}
    /\ Stuck \/ Squatted
    /\ PairGo(p, "without")
    /\ pair_claim' = IF pair_claim = p THEN PairNobody ELSE pair_claim
    /\ UNCHANGED <<pair_lock, pair_stale, pair_thread, pair_refs, pair_hangs>>

\* run, YIELD_CHECK: a claim ends the thread.
YieldCheck(p) ==
    /\ pair_thread[p] /\ pair_pc[p] # "hung" /\ Outstanding
    /\ pair_thread' = [pair_thread EXCEPT ![p] = FALSE]
    /\ UNCHANGED <<pair_pc, pair_lock, pair_claim, pair_stale, pair_refs, pair_hangs>>

Drops(p, refs) ==
    /\ pair_refs' = [pair_refs EXCEPT ![p] = @ \ refs]
    /\ pair_lock' = IF pair_lock = p /\ pair_refs'[p] = {} THEN PairNobody ELSE pair_lock

\* The owner sees its thread over: Note::Yield in a window, finished() in a
\* daemon, which will try again.
LetGo(p) ==
    /\ pair_pc[p] = "up" /\ ~pair_thread[p] /\ "main" \in pair_refs[p]
    /\ Drops(p, {"main"})
    /\ PairGo(p, IF p = PairDaemon THEN "off" ELSE "up")
    /\ UNCHANGED <<pair_claim, pair_stale, pair_thread, pair_hangs>>

\* A window closes, or a process is killed wherever it is.
Gone(p) ==
    /\ pair_pc' = [pair_pc EXCEPT ![p] = "gone"]
    /\ pair_thread' = [pair_thread EXCEPT ![p] = FALSE]
    /\ Drops(p, {"main", "forwarder"})
    /\ pair_claim' = IF pair_claim = p THEN PairNobody ELSE pair_claim
    /\ UNCHANGED pair_stale
CloseWindow(p) ==
    /\ p # PairDaemon /\ pair_pc[p] \in {"up", "without"}
    /\ Gone(p) /\ UNCHANGED pair_hangs
PairKill(p) ==
    /\ p # PairDaemon /\ pair_pc[p] \notin {"off", "gone"} /\ pair_hangs < PairHangs
    /\ pair_hangs' = pair_hangs + 1
    /\ Gone(p)

\* A window is stopped while it asks; its claim grows old, held.
Hang(p) ==
    /\ pair_pc[p] = "asking" /\ pair_hangs < PairHangs
    /\ PairGo(p, "hung") /\ pair_hangs' = pair_hangs + 1
    /\ UNCHANGED <<pair_lock, pair_claim, pair_stale, pair_thread, pair_refs>>
GrowsOld ==
    /\ pair_claim # PairNobody /\ ~pair_stale /\ pair_pc[pair_claim] = "hung"
    /\ pair_stale' = TRUE
    /\ UNCHANGED <<pair_pc, pair_lock, pair_claim, pair_thread, pair_refs, pair_hangs>>

PairRuns(p) == \/ Look(p) \/ Grab(p) \/ MakeClaim(p) \/ GrabAsAsked(p) \/ LetGo(p)
               \/ YieldCheck(p) \/ GiveUp(p) \/ (p = PairDaemon /\ PairStart(p))
PairNext == GrowsOld \/ \E p \in PairProcs :
    PairRuns(p) \/ PairStart(p) \/ CloseWindow(p) \/ PairKill(p) \/ Hang(p)
PairFairness ==
    WF_pair_vars(GrowsOld) /\ \A p \in PairProcs : /\ WF_pair_vars(Look(p)) /\ WF_pair_vars(Grab(p))
       /\ WF_pair_vars(MakeClaim(p)) /\ WF_pair_vars(GrabAsAsked(p)) /\ WF_pair_vars(LetGo(p))
       /\ WF_pair_vars(YieldCheck(p)) /\ WF_pair_vars(GiveUp(p))
       /\ WF_pair_vars(p = PairDaemon /\ PairStart(p))
PairSpec == PairInit /\ [][PairNext]_pair_vars /\ PairFairness

-----------------------------------------------------------------------------
(* Properties. *)

PairTypeOK ==
    /\ pair_pc \in [PairProcs -> {"off", "look", "grab", "ask", "asking", "without", "up", "hung", "gone"}]
    /\ pair_lock \in PairProcs \cup {PairNobody} /\ pair_claim \in PairWindows \cup {PairNobody}
    /\ pair_stale \in BOOLEAN /\ pair_hangs \in 0..PairHangs
    /\ pair_thread \in [PairProcs -> BOOLEAN]
    /\ pair_refs \in [PairProcs -> SUBSET {"main", "forwarder"}]

\* Of all the processes of a machine one publishes at most, and the lock is its own
\* for as long as a handle of its publisher is left; and a claim is held by
\* just the one that asks, until it is given the lock, gives up or dies.
OnePublishes ==
    /\ \A p, q \in PairProcs : pair_thread[p] /\ pair_thread[q] => p = q
    /\ \A p \in PairProcs : pair_refs[p] # {} <=> pair_lock = p
    /\ \A p \in PairProcs : pair_pc[p] \in {"asking", "hung"} <=> pair_claim = p

\* A window that asks what a daemon has is given it, or is gone.
AskedIsGiven == \A w \in PairWindows :
    pair_pc[w] \in {"ask", "asking"} ~>
        pair_pc[w] \in {"up", "gone", "hung"} \/ Squatted \/ pair_lock \in PairWindows

\* When the windows are closed the daemon publishes, whoever was killed, or is
\* stopped still, while it asked.
DaemonComesBack ==
    <>[](\A w \in PairWindows : pair_pc[w] \in {"off", "gone", "hung"})
        => <>[]pair_thread[PairDaemon]

\* A window that handed the pairing over has let it go.
YieldedIsFree == \A w \in PairWindows :
    pair_pc[w] = "up" /\ "main" \notin pair_refs[w] => pair_lock # w

-----------------------------------------------------------------------------
(* Proofs. *)

\* A thread runs only while its owner keeps the publisher, and the lock with it.
PairInv ==
    /\ PairTypeOK
    /\ \A p \in PairProcs : pair_thread[p] => "main" \in pair_refs[p]
    /\ \A p \in PairProcs : pair_refs[p] # {} <=> pair_lock = p
    /\ \A p \in PairProcs : pair_pc[p] \in {"asking", "hung"} <=> pair_claim = p
    /\ pair_pc[PairDaemon] \notin {"ask", "asking", "hung"}

LEMMA PairFirst == ASSUME PairInit PROVE PairInv
<1> USE PairAssumption DEF PairInit, PairProcs
<1>1. PairTypeOK
  <2>1. pair_hangs \in 0..PairHangs
    OBVIOUS
  <2>2. pair_stale \in BOOLEAN
    OBVIOUS
  <2>3. pair_refs \in [PairProcs -> SUBSET {"main", "forwarder"}]
    OBVIOUS
  <2>4. pair_thread \in [PairProcs -> BOOLEAN]
    OBVIOUS
  <2> QED BY <2>1, <2>2, <2>3, <2>4 DEF PairTypeOK
<1>2. PairNobody \notin PairProcs /\ PairDaemon \in PairProcs
  OBVIOUS
<1>3. \A p \in PairProcs : ~pair_thread[p] /\ pair_refs[p] = {} /\ pair_pc[p] = "off"
  OBVIOUS
<1> QED BY <1>1, <1>2, <1>3 DEF PairInv

\* Where a process gets to on its own, the lock and the claim are what they were.
LEMMA PairMoves ==
    ASSUME PairInv, NEW p \in PairProcs,
           PairStart(p) \/ Look(p) \/ MakeClaim(p) \/ YieldCheck(p) \/ GiveUp(p) \/ Hang(p)
    PROVE  PairInv'
<1> USE PairAssumption DEF PairInv, PairTypeOK, PairProcs, PairGo
<1>1. CASE PairStart(p)  BY <1>1 DEF PairStart
<1>2. CASE Look(p)  BY <1>2 DEF Look, NoLock
<1>3. CASE MakeClaim(p)  BY <1>3 DEF MakeClaim
<1>4. CASE YieldCheck(p)  BY <1>4 DEF YieldCheck
<1>5. CASE GiveUp(p)  BY <1>5 DEF GiveUp
<1>6. CASE Hang(p)  BY <1>6 DEF Hang
<1> QED BY <1>1, <1>2, <1>3, <1>4, <1>5, <1>6

\* A lock that is free is had by one, with a publisher of its own.
LEMMA PairTakes ==
    ASSUME PairInv, NEW p \in PairProcs, Grab(p) \/ GrabAsAsked(p)
    PROVE  PairInv'
<1> USE PairAssumption DEF PairInv, PairTypeOK, PairProcs, PairGo
<1>1. CASE Grab(p) /\ pair_lock = PairNobody
  <2>1. pair_lock' = p /\ pair_claim' = pair_claim /\ pair_stale' = pair_stale /\ pair_hangs' = pair_hangs
    BY <1>1 DEF Grab, Publishes
  <2>2. /\ pair_pc' = [pair_pc EXCEPT ![p] = "up"] /\ pair_pc[p] = "grab"
        /\ pair_thread' = [pair_thread EXCEPT ![p] = TRUE]
    BY <1>1 DEF Grab, Publishes
  <2>3. PICK r \in {{"main"}, {"main", "forwarder"}} : pair_refs' = [pair_refs EXCEPT ![p] = r]
    BY <1>1 DEF Grab, Publishes
  <2>4. \A q \in PairProcs : pair_refs[q] = {} /\ ~pair_thread[q]
    BY <1>1
  <2> HIDE <1>1
  <2> QED BY <2>1, <2>2, <2>3, <2>4
<1>2. CASE Grab(p) /\ pair_lock # PairNobody  BY <1>2 DEF Grab, NoLock
<1>3. CASE GrabAsAsked(p)  BY <1>3 DEF GrabAsAsked, Publishes
<1> QED BY <1>1, <1>2, <1>3

\* The lock goes with the last handle, however a process comes to lose it.
LEMMA PairLeaves ==
    ASSUME PairInv, NEW p \in PairProcs, LetGo(p) \/ CloseWindow(p) \/ PairKill(p)
    PROVE  PairInv'
<1> USE PairAssumption DEF PairInv, PairTypeOK, PairProcs, PairGo, Drops
<1>1. CASE LetGo(p)  BY <1>1 DEF LetGo
<1>2. CASE CloseWindow(p)  BY <1>2 DEF CloseWindow, Gone
<1>3. CASE PairKill(p)  BY <1>3 DEF PairKill, Gone
<1> QED BY <1>1, <1>2, <1>3

\* For any number of windows, and of those that hang or die: one process publishes
\* at most, and lock and claim are held by those whose they are.
THEOREM OnePublishesHolds == PairSpec => []OnePublishes
<1>1. PairInit => PairInv
  BY PairFirst
<1>2. PairInv /\ [PairNext]_pair_vars => PairInv'
  <2> SUFFICES ASSUME PairInv, [PairNext]_pair_vars PROVE PairInv'
    OBVIOUS
  <2>1. CASE GrowsOld
    BY <2>1 DEF GrowsOld, PairInv, PairTypeOK
  <2>2. ASSUME NEW p \in PairProcs,
               PairRuns(p) \/ PairStart(p) \/ CloseWindow(p) \/ PairKill(p) \/ Hang(p)
        PROVE  PairInv'
    BY <2>2, PairMoves, PairTakes, PairLeaves DEF PairRuns
  <2>3. CASE UNCHANGED pair_vars
    BY <2>3 DEF pair_vars, PairInv, PairTypeOK
  <2> QED BY <2>1, <2>2, <2>3 DEF PairNext
<1>3. PairInv => OnePublishes
  BY DEF PairInv, OnePublishes
<1> QED BY <1>1, <1>2, <1>3, PTL DEF PairSpec
=============================================================================
