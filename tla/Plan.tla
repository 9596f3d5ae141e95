-------------------------------- MODULE Plan --------------------------------
(***************************************************************************)
(* The task list of a session (ah-core/src/plan.rs) under the actions of   *)
(* the plan tool (ah-core/src/tools/plan.rs).  Tasks are numbered in order *)
(* and never leave the list, so a task is its place in it.                 *)
(***************************************************************************)
EXTENDS Naturals, Sequences, FiniteSets, SequencesExt

CONSTANT MaxTasks   \* bound: tasks in the list

Settled  == {"done", "dropped"}

VARIABLES plan   \* Plan::tasks

plan_vars == <<plan>>
PlanInit == plan = <<>>

\* What is reached from some tasks along edges, eight levels on.
Reached(p, edges(_, _), from) ==
    LET Further(ts) == ts \cup UNION {edges(p, t) : t \in ts}
        level[k \in 0..8] == IF k = 0 THEN from ELSE Further(level[k - 1])
    IN level[8]
Children(p, id) == {c \in DOMAIN p : p[c].parent = id}
Parents(p, id)  == {p[id].parent} \ {0}
Needs(p, id)    == p[id].needs
Descendants(p, id) == Reached(p, Children, Children(p, id)) \ {id}

Open(p, ids)      == {t \in ids : p[t].status \notin Settled}
WaitingFor(p, id) == Open(p, p[id].needs)
Ready(p) == {id \in DOMAIN p : p[id].status = "todo" /\ WaitingFor(p, id) = {}}
Doing(p) == {id \in DOMAIN p : p[id].status = "doing"}

\* Plan::cycle_from.
Loops(p, edges(_, _)) == \E id \in DOMAIN p : id \in Reached(p, edges, edges(p, id))
\* Plan::check: of edges that all lead to another task of the list.
Checked(p) ==
    /\ \A id \in DOMAIN p : Parents(p, id) \cup Needs(p, id) \subseteq DOMAIN p \ {id}
    /\ ~Loops(p, Parents) /\ ~Loops(p, Needs)

-----------------------------------------------------------------------------
(* The tool.  A refusal changes nothing.                                    *)

\* A new task is in the state it is said to be in (build), and none is refused for it.
Items == [parent : 0..2, needs : {{}, {1}}, status : {"todo", "doing"} \cup Settled]

\* The lists of one or two tasks that `set` does not refuse.
Lists == {items \in UNION {[1..n -> {i \in Items : i.parent < n}] : n \in 1..2} : Checked(items)}

PlanSet(items) == plan' = items
PlanAdd(item) ==
    /\ Len(plan) < MaxTasks
    /\ Checked(Append(plan, item))
    /\ plan' = Append(plan, item)

\* Plan::set_status: each task on the list as it was before any of them moved.
MayStart(ids) == \A id \in ids : WaitingFor(plan, id) = {}
MayFinish(ids) == \A id \in ids : Open(plan, Children(plan, id) \ ids) = {}
Moved(ids, status) == [id \in DOMAIN plan |-> IF id \in ids THEN [plan[id] EXCEPT !.status = status] ELSE plan[id]]
PlanStart(ids) == MayStart(ids) /\ plan' = Moved(ids, "doing")
PlanDone(ids) == MayFinish(ids) /\ plan' = Moved(ids, "done")
\* A mutant: what was dropped before leaves what is below it alone.
PlanDropOpen(ids) ==
    plan' = Moved(ids \cup Open(plan, UNION {Children(plan, id) : id \in Open(plan, ids)}), "dropped")
PlanDrop(ids) ==
    plan' = Moved(ids \cup Open(plan, UNION {Descendants(plan, id) : id \in ids}), "dropped")

PlanUpdate(id, task) ==
    /\ Checked([plan EXCEPT ![id] = task])
    /\ plan' = [plan EXCEPT ![id] = task]

AllSettled == Open(plan, DOMAIN plan) = {}

PlanNext ==
    \/ \E items \in Lists : PlanSet(items)
    \/ \E item \in Items : PlanAdd(item)
    \/ \E ids \in SUBSET DOMAIN plan \ {{}} : PlanStart(ids) \/ PlanDone(ids) \/ PlanDrop(ids)
    \/ \E id \in DOMAIN plan :
          \/ \E up \in 0..MaxTasks : PlanUpdate(id, [plan[id] EXCEPT !.parent = up])
          \/ \E ns \in SUBSET (1..MaxTasks) : PlanUpdate(id, [plan[id] EXCEPT !.needs = ns])
PlanSpec == PlanInit /\ [][PlanNext]_plan_vars

\* Plan::ordered: the tasks in reading order, the subtasks of each after it, nine levels of them.
Ordered(p) ==
    LET inOrder(ids) == SetToSortSeq(ids, <)
        walk[left \in 0..9] == [id \in DOMAIN p |->
            IF left = 0 THEN <<>>
            ELSE LET under == inOrder(Children(p, id))
                 IN <<id>> \o FlattenSeq([k \in DOMAIN under |-> walk[left - 1][under[k]]])]
        tops == inOrder({id \in DOMAIN p : Parents(p, id) \cap DOMAIN p = {}})
    IN FlattenSeq([k \in DOMAIN tops |-> walk[9][tops[k]]])
Depth(p, id) == Cardinality(Reached(p, Parents, Parents(p, id)))

\* Plan::summary, and what Plan::line says of a task that waits.
SumsUp(p) ==
    CASE p = <<>>                -> "empty"
      [] Open(p, DOMAIN p) = {}  -> "complete"
      [] Doing(p) # {}           -> "doing"
      [] Ready(p) # {}           -> "next"
      [] OTHER                   -> "nothing ready"
HeldUpBy(p, id) == IF p[id].status = "todo" THEN WaitingFor(p, id) ELSE {}

-----------------------------------------------------------------------------
(* Properties. *)

\* While work is left some task is in hand or may be started, whatever was
\* moved under what: the summary's "nothing ready: every task waits for
\* another" is never said.
WorkIsReady == AllSettled \/ SumsUp(plan) \in {"doing", "next"}

\* The model reads the plan as it is: every task is listed once, in the block of
\* its parent and one step further in, whatever was moved under what, and a task
\* said to wait waits for one that is open and is itself on the list.
ListedWhole ==
    LET order == Ordered(plan)
        at(id) == SelectInSeq(order, LAMBDA x : x = id)
    IN /\ Len(order) = Len(plan) /\ ToSet(order) = DOMAIN plan
       /\ \A id \in DOMAIN plan : plan[id].parent # 0 =>
            LET up == plan[id].parent
            IN /\ at(up) < at(id) /\ Depth(plan, id) = Depth(plan, up) + 1
               /\ \A k \in at(up) + 1..at(id) : order[k] \in Descendants(plan, up)
       /\ \A id \in DOMAIN plan : HeldUpBy(plan, id) \subseteq ToSet(order) \ {id}
SomethingReady == WorkIsReady /\ ListedWhole

\* A step closes a task over one below it that is open.
ClosesOver ==
    \E id \in DOMAIN plan \cap DOMAIN plan' :
        /\ plan'[id].status \in Settled /\ plan'[id].status # plan[id].status
        /\ Open(plan', Children(plan', id)) # {}

\* Saying that tasks are done, or dropping them, alone or with others, leaves
\* nothing open below any task it closes: what the plan refuses, and what a drop
\* takes with it.  (A list written anew may say of any task that it is closed.)
ClosesWhole == [][
    ClosesOver => ~\E ids \in SUBSET DOMAIN plan : PlanDone(ids) \/ PlanDrop(ids)]_plan_vars
=============================================================================
