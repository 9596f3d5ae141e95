----------------------------- MODULE AgentPool -----------------------------
(***************************************************************************)
(* What the table of subagents promises whoever hands work to it: a child  *)
(* is queued, runs when one of the `max_concurrent` slots is free, is over, *)
(* and may be queued again.  Nothing else happens to it, no child runs     *)
(* without a slot, and none goes from queued to over without having held   *)
(* one.  Agents.tla, with its threads and its mutex, implements this.      *)
(***************************************************************************)
EXTENDS Naturals, FiniteSets

CONSTANTS Kids, Limit

VARIABLE life  \* each child's life, as its owner may see it

Life == {"none", "queued", "running", "over"}

TypeOK == life \in [Kids -> Life]

Slots == {c \in Kids : life[c] = "running"}

Init == life = [c \in Kids |-> "none"]

Become(c, from, to) == life[c] = from /\ life' = [life EXCEPT ![c] = to]

Submit(c) == Become(c, "none", "queued")
Start(c)  == Become(c, "queued", "running") /\ Cardinality(Slots) < Limit
Finish(c) == Become(c, "running", "over")
Resume(c) == Become(c, "over", "queued")

Next == \E c \in Kids : Submit(c) \/ Start(c) \/ Finish(c) \/ Resume(c)

Spec == Init /\ [][Next]_life
=============================================================================
