------------------------------ MODULE ToolGate ------------------------------
(***************************************************************************)
(* What stands between a call the model makes and the tool that runs       *)
(* (gate_tool and run_batch in ah-core/src/agent.rs, Chain and before_tool *)
(* in ah-core/src/plugins.rs): the plugins in their order, the deny rules, *)
(* the files that govern the program, and the person.  Arguments are model *)
(* values: those a rule denies and those that write such a file are sets.  *)
(***************************************************************************)
EXTENDS Naturals, Sequences, FiniteSets, TLAPS

CONSTANTS
    GatePlugins,   \* how many plugins handle before_tool and after_tool
    GateCalls,     \* bound: calls of one batch
    GateArgs,      \* arguments a call can have
    GateDenied,    \* those a deny rule or the rule about sudo matches
    GateOwn        \* those that write a file which governs the program

ASSUME GateAssumption == GatePlugins \in Nat /\ GateCalls \in Nat

VARIABLES
    gate_mode,     \* permissions.mode is Ask, and ask_for names the tool
    gate_always,   \* the person said yes to every call of the tool
    gate_off,      \* plugins whose after_tool is disabled
    gate_chain,    \* before_tool: Chain, the plugin to come, and what was said
    gate_gates,    \* run_batch: the gates decided; history: how
    gate_ended,    \* run_batch: what each tool run came to
    gate_out       \* the answers, in the order they are pushed

gate_run == <<gate_ended, gate_out>>
gate_vars == <<gate_mode, gate_always, gate_off, gate_chain, gate_gates, gate_run>>

\* judged: that a plugin answered about the arguments as they are; saw: history,
\* the arguments answered about; asks: history, that a plugin put a question.
NewCall(args) == [plugin |-> 1, args |-> args, ask |-> FALSE, judged |-> FALSE, saw |-> {}, asks |-> FALSE]
GateInit ==
    /\ gate_mode \in BOOLEAN /\ gate_always = FALSE /\ gate_off = {}
    /\ \E a \in GateArgs : gate_chain = NewCall(a)
    /\ gate_gates = <<>> /\ gate_ended = [i \in {} |-> "ok"] /\ gate_out = <<>>

Gating == Len(gate_gates) < GateCalls
\* The next call of the batch, or the batch is gated.
Gated(run, person) ==
    /\ gate_gates' = Append(gate_gates,
           IF run THEN [run |-> TRUE, person |-> person, args |-> gate_chain.args, asks |-> gate_chain.asks,
                        stale |-> \E s \in gate_chain.saw : s # gate_chain.args]
           ELSE [run |-> FALSE])
    /\ \E a \in GateArgs : gate_chain' = NewCall(a)

-----------------------------------------------------------------------------
(* before_tool: each plugin in turn, on arguments the ones before it may    *)
(* have rewritten.                                                          *)

Judge(c, p, args) == [c EXCEPT !.plugin = p + 1, !.args = args, !.saw = @ \cup {args}]
\* A mutant: a rewrite that lands after a verdict is a rewrite and no more.
RewriteSilently(c, p, args) == [Judge(c, p, args) EXCEPT !.judged = TRUE]
\* Chain::step of a rewrite: what was judged is not what would run.
Rewrite(c, p, args) == [Judge(c, p, args) EXCEPT !.judged = TRUE, !.ask = @ \/ c.judged]
Allow(c, p) == [Judge(c, p, c.args) EXCEPT !.judged = TRUE]
AskPerson(c, p) == [Allow(c, p) EXCEPT !.ask = TRUE, !.asks = TRUE]

Consult ==
    /\ Gating /\ gate_chain.plugin <= GatePlugins
    /\ LET c == gate_chain
           p == gate_chain.plugin
       IN \/ /\ \/ gate_chain' = [c EXCEPT !.plugin = p + 1]     \* no answer: "no change"
                \/ gate_chain' = Allow(c, p)
                \/ gate_chain' = AskPerson(c, p)
                \/ \E a \in GateArgs : gate_chain' = Rewrite(c, p, a)
             /\ UNCHANGED gate_gates
          \* A refusal; or a failure, which is one: the hook stays on.
          \/ Gated(FALSE, FALSE)
    /\ UNCHANGED <<gate_mode, gate_always, gate_off, gate_run>>

\* gate_tool, after the plugins.  A blanket yes answers a standing question
\* only: one that is not about this call in particular.
Decide ==
    /\ Gating /\ gate_chain.plugin > GatePlugins
    /\ LET args     == gate_chain.args
           standing == ~gate_chain.ask /\ args \notin GateOwn
           must     == gate_mode \/ ~standing
       IN IF args \in GateDenied THEN Gated(FALSE, FALSE) /\ UNCHANGED gate_always
          ELSE IF ~must \/ (standing /\ gate_always) THEN Gated(TRUE, FALSE) /\ UNCHANGED gate_always
          ELSE /\ \E yes \in BOOLEAN : Gated(yes, TRUE)
               /\ gate_always' \in IF standing THEN {gate_always, TRUE} ELSE {gate_always}
    /\ UNCHANGED <<gate_mode, gate_off, gate_run>>

-----------------------------------------------------------------------------
(* run_batch: what may run runs at once, and the answers are put back in    *)
(* order.                                                                   *)

ToRun == {i \in DOMAIN gate_gates : gate_gates[i].run}
\* A tool ends, in no order; on a thread of its own it may also panic.
RunOne ==
    /\ ~Gating
    /\ \E i \in ToRun \ DOMAIN gate_ended :
          \E how \in IF Cardinality(ToRun) = 1 THEN {"ok"} ELSE {"ok", "lost"} :
             gate_ended' = [j \in DOMAIN gate_ended \cup {i} |-> IF j = i THEN how ELSE gate_ended[j]]
    /\ UNCHANGED <<gate_mode, gate_always, gate_off, gate_chain, gate_gates, gate_out>>
\* after_tool: a plugin may change the answer; one that fails is disabled.
Answer ==
    /\ ~Gating /\ ToRun = DOMAIN gate_ended /\ Len(gate_out) < GateCalls
    /\ LET i == Len(gate_out) + 1 IN
          IF i \notin ToRun
          THEN gate_out' = Append(gate_out, "refused") /\ UNCHANGED gate_off
          ELSE \E failed \in SUBSET ((1..GatePlugins) \ gate_off) :
                  /\ gate_off' = gate_off \cup failed
                  /\ \/ gate_out' = Append(gate_out, gate_ended[i])
                     \/ gate_off' # 1..GatePlugins /\ gate_out' = Append(gate_out, "changed")
    /\ UNCHANGED <<gate_mode, gate_always, gate_chain, gate_gates, gate_ended>>

GateNext == Consult \/ Decide \/ RunOne \/ Answer
GateSpec == GateInit /\ [][GateNext]_gate_vars

-----------------------------------------------------------------------------
(* Properties. *)

\* What runs is what was judged: no rule denies it; and where a plugin answered
\* about other arguments than those that run, where a plugin put a question, or
\* where a file is written that governs the program, the person said yes to this
\* very call, and not by a yes to all of them (Chain, gate_tool).
WhatRunsWasJudged ==
    \A i \in DOMAIN gate_gates : LET g == gate_gates[i] IN g.run =>
        /\ g.args \notin GateDenied
        /\ \/ g.person
           \/ ~g.asks /\ ~g.stale /\ g.args \notin GateOwn
    /\ \A j \in DOMAIN gate_out : (gate_out[j] = "refused") <=> ~gate_gates[j].run

-----------------------------------------------------------------------------
(***************************************************************************)
(* Why it holds for any plugins, rules and arguments.  What the chain      *)
(* remembers in two bits is enough: arguments somebody saw that are not    *)
(* those that would run, or a question put, have set `ask` (Chained).      *)
(***************************************************************************)

Gates == [run : {TRUE}, person : BOOLEAN, args : GateArgs, asks : BOOLEAN, stale : BOOLEAN]
         \cup [run : {FALSE}]

Chains == [plugin : Nat, args : GateArgs, ask : BOOLEAN, judged : BOOLEAN, saw : SUBSET GateArgs,
           asks : BOOLEAN]

Chained ==
    /\ gate_chain \in Chains
    /\ gate_chain.saw # {} => gate_chain.judged
    /\ gate_chain.asks \/ (\E s \in gate_chain.saw : s # gate_chain.args) => gate_chain.ask

\* A gate that let a call through: see WhatRunsWasJudged.
Judged(g) == g.run => /\ g.args \notin GateDenied
                      /\ g.person \/ (~g.asks /\ ~g.stale /\ g.args \notin GateOwn)

\* The answers stand for the calls one by one, once all are gated.
Stand ==
    /\ gate_out \in Seq({"refused", "ok", "lost", "changed"})
    /\ gate_out # <<>> => Len(gate_gates) = GateCalls
    /\ Len(gate_out) <= GateCalls
    /\ \A j \in DOMAIN gate_out : (gate_out[j] = "refused") <=> ~gate_gates[j].run

GateInv ==
    /\ Chained
    /\ gate_gates \in Seq(Gates) /\ Len(gate_gates) <= GateCalls
    /\ \A i \in DOMAIN gate_gates : Judged(gate_gates[i])
    /\ \A i \in DOMAIN gate_ended : gate_ended[i] \in {"ok", "lost"}
    /\ Stand

\* A call is gated, on a chain that keeps its word, by a gate that does.
LEMMA GatedKeeps ==
    ASSUME GateInv, Gating, NEW run \in BOOLEAN, NEW person \in BOOLEAN, Gated(run, person),
           UNCHANGED gate_run,
           run => /\ gate_chain.args \notin GateDenied
                  /\ person \/ (~gate_chain.ask /\ gate_chain.args \notin GateOwn)
    PROVE  GateInv'
<1> USE DEF GateInv
<1> DEFINE g == IF run THEN [run |-> TRUE, person |-> person, args |-> gate_chain.args, asks |-> gate_chain.asks,
                             stale |-> \E s \in gate_chain.saw : s # gate_chain.args]
                ELSE [run |-> FALSE]
<1>1. gate_gates' = Append(gate_gates, g)
  BY DEF Gated
<1>2. PICK a \in GateArgs : gate_chain' = NewCall(a)
  BY DEF Gated
<1>3. Chained'
  BY <1>2 DEF Chained, Chains, NewCall
<1>4. g \in Gates
  BY DEF Gates, Chained, Chains
<1>5. Judged(g)
  BY DEF Judged, Chained, Chains
<1>6. gate_gates' \in Seq(Gates) /\ Len(gate_gates') = Len(gate_gates) + 1
      /\ Len(gate_gates) < GateCalls
  BY <1>1, <1>4 DEF Gating
<1>7. \A i \in DOMAIN gate_gates' : Judged(gate_gates'[i])
  <2> SUFFICES ASSUME NEW i \in DOMAIN gate_gates' PROVE Judged(gate_gates'[i])
    OBVIOUS
  <2>1. CASE i = Len(gate_gates) + 1  BY <1>1, <1>4, <1>5, <2>1
  <2>2. CASE i # Len(gate_gates) + 1  BY <1>1, <1>4, <1>6, <2>2
  <2> QED BY <2>1, <2>2
<1>8. gate_out = <<>>  BY <1>6 DEF Stand
<1>9. Stand'        BY <1>8 DEF gate_run, Stand
<1> QED BY <1>3, <1>6, <1>7, <1>9, GateAssumption DEF gate_run

\* A plugin that says something of the call leaves the chain as good as it was.
LEMMA ConsultKeeps == ASSUME GateInv, Consult PROVE GateInv'
<1> USE GateAssumption DEF GateInv
<1> DEFINE c == gate_chain
           p == gate_chain.plugin
           Told(n, args, ask, asks) ==
               [plugin |-> n + 1, args |-> args, ask |-> ask, judged |-> TRUE,
                saw |-> c.saw \cup {args}, asks |-> asks]
<1>0. c \in Chains /\ p \in Nat
  BY DEF Chained, Chains
<1>1. CASE Gated(FALSE, FALSE)
  BY <1>1, GatedKeeps DEF Consult
<1>2. CASE UNCHANGED gate_gates
  <2>1. Chained' => GateInv'
    BY <1>2 DEF Consult, Stand, gate_run
  <2>2. CASE gate_chain' = [c EXCEPT !.plugin = p + 1]
    <3>1. Chained'  BY <1>0, <2>2 DEF Chained, Chains
    <3> QED BY <2>1, <3>1
  <2>3. CASE gate_chain' = Allow(c, p) \/ gate_chain' = AskPerson(c, p)
    <3>1. PICK q \in BOOLEAN : gate_chain' = Told(p, c.args, c.ask \/ q, c.asks \/ q)
      BY <1>0, <2>3 DEF Chains, Allow, AskPerson, Judge
    <3>2. q => gate_chain'.ask  BY <3>1
    <3>3. Chained'  BY <1>0, <3>1, <3>2 DEF Chained, Chains
    <3> QED BY <2>1, <3>3
  <2>4. ASSUME NEW a \in GateArgs, gate_chain' = Rewrite(c, p, a) PROVE Chained'
    <3>1. gate_chain' = Told(p, a, c.ask \/ c.judged, c.asks)
      BY <1>0, <2>4 DEF Chains, Rewrite, Judge
    <3> QED BY <1>0, <3>1 DEF Chained, Chains
  <2>5. \/ gate_chain' = [c EXCEPT !.plugin = p + 1]
        \/ gate_chain' = Allow(c, p)
        \/ gate_chain' = AskPerson(c, p)
        \/ \E a \in GateArgs : gate_chain' = Rewrite(c, p, a)
        \/ Gated(FALSE, FALSE)
    BY DEF Consult
  <2> QED BY <1>1, <2>1, <2>2, <2>3, <2>4, <2>5
<1>3. Gated(FALSE, FALSE) \/ UNCHANGED gate_gates
  BY DEF Consult
<1> QED BY <1>1, <1>2, <1>3

\* Without the person only a standing question passes, which none of what the
\* person would be asked about is.
LEMMA DecideKeeps == ASSUME GateInv, Decide PROVE GateInv'
<1>1. CASE Gated(FALSE, FALSE)
  BY <1>1, GatedKeeps DEF Decide
<1>2. CASE Gated(TRUE, FALSE) /\ gate_chain.args \notin GateDenied
           /\ ~gate_chain.ask /\ gate_chain.args \notin GateOwn
  BY <1>2, GatedKeeps DEF Decide
<1>3. CASE gate_chain.args \notin GateDenied /\ \E yes \in BOOLEAN : Gated(yes, TRUE)
  BY <1>3, GatedKeeps DEF Decide
<1> QED BY <1>1, <1>2, <1>3 DEF Decide

LEMMA AnswerKeeps == ASSUME GateInv, Answer PROVE GateInv'
<1> USE GateAssumption DEF GateInv
<1> DEFINE i == Len(gate_out) + 1
           Out == {"refused", "ok", "lost", "changed"}
<1>1. Len(gate_gates) = GateCalls /\ i \in DOMAIN gate_gates /\ gate_out \in Seq(Out)
      /\ i \in 1 .. GateCalls
  BY DEF Answer, Gating, Stand
<1>2. PICK o \in Out : /\ gate_out' = Append(gate_out, o)
                       /\ o = "refused" <=> ~gate_gates[i].run
  <2>1. gate_gates[i] \in Gates  BY <1>1
  <2>2. CASE i \notin ToRun
    <3>1. ~gate_gates[i].run  BY <1>1, <2>1, <2>2 DEF ToRun
    <3>2. gate_out' = Append(gate_out, "refused")  BY <2>2 DEF Answer
    <3> WITNESS "refused" \in Out
    <3> QED BY <3>1, <3>2
  <2>3. CASE i \in ToRun
    <3>0. DOMAIN gate_ended = ToRun  BY DEF Answer
    <3>1. gate_ended[i] \in {"ok", "lost"} /\ gate_gates[i].run
      BY <2>3, <3>0 DEF ToRun
    <3>2. gate_out' = Append(gate_out, gate_ended[i]) \/ gate_out' = Append(gate_out, "changed")
      BY <2>3 DEF Answer
    <3> QED BY <3>1, <3>2
  <2> QED BY <2>2, <2>3
<1>3. UNCHANGED <<gate_gates, gate_chain, gate_ended>>
  BY DEF Answer
<1>4. gate_out' \in Seq(Out) /\ Len(gate_out') = i
  BY <1>1, <1>2
<1>5. \A j \in DOMAIN gate_out' : (gate_out'[j] = "refused") <=> ~gate_gates'[j].run
  <2> SUFFICES ASSUME NEW j \in DOMAIN gate_out' PROVE (gate_out'[j] = "refused") <=> ~gate_gates[j].run
    BY <1>3
  <2>1. CASE j = i  BY <1>1, <1>2, <2>1
  <2>2. CASE j # i
    <3>1. j \in DOMAIN gate_out /\ gate_out'[j] = gate_out[j]  BY <1>1, <1>2, <1>4, <2>2
    <3> QED BY <3>1 DEF Stand
  <2> QED BY <2>1, <2>2
<1>6. Stand'
  BY <1>1, <1>3, <1>4, <1>5 DEF Stand
<1> QED BY <1>3, <1>6 DEF Chained

LEMMA GateStep == ASSUME GateInv, [GateNext]_gate_vars PROVE GateInv'
<1>1. CASE RunOne
  BY <1>1 DEF RunOne, GateInv, Chained, Stand
<1>2. CASE UNCHANGED gate_vars
  BY <1>2 DEF gate_vars, gate_run, GateInv, Chained, Stand
<1> QED BY <1>1, <1>2, ConsultKeeps, DecideKeeps, AnswerKeeps DEF GateNext

\* However many plugins rewrite a call after it was judged, whatever they answer
\* and whatever the person is asked: what runs was judged as it runs.
THEOREM WhatRunsWasJudgedHolds == GateSpec => []WhatRunsWasJudged
<1>1. ASSUME GateInit PROVE GateInv
  <2>1. Chained
    BY <1>1 DEF GateInit, Chained, Chains, NewCall
  <2>2. gate_gates = <<>> /\ gate_out = <<>> /\ DOMAIN gate_ended = {}
    BY <1>1 DEF GateInit
  <2> QED BY <2>1, <2>2, GateAssumption DEF GateInv, Stand
<1>2. GateInv => WhatRunsWasJudged
  <2> SUFFICES ASSUME GateInv PROVE WhatRunsWasJudged
    OBVIOUS
  <2>1. \A i \in DOMAIN gate_gates : Judged(gate_gates[i])  BY DEF GateInv
  <2>2. \A j \in DOMAIN gate_out : (gate_out[j] = "refused") <=> ~gate_gates[j].run
    BY DEF GateInv, Stand
  <2> QED BY <2>1, <2>2 DEF WhatRunsWasJudged, Judged
<1>3. GateInv /\ [GateNext]_gate_vars => GateInv'
  BY GateStep
<1> QED BY <1>1, <1>2, <1>3, PTL DEF GateSpec
=============================================================================
