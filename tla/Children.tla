------------------------------ MODULE Children ------------------------------
(***************************************************************************)
(* What a subagent may do, settled as it is started (child_settings and    *)
(* AgentSpawner in ah-core/src/agents.rs): the settings of the agent above *)
(* it, its type's choices over them, its own patch without what is guarded,*)
(* and once more the choices.  A child starts children of its own the same *)
(* way, so what holds of one step must hold down any chain of them.        *)
(***************************************************************************)
EXTENDS Integers, Sequences, SequencesExt, FiniteSets

CONSTANTS
    KidMost,        \* bound: agents of a behaviour, the first the conversation
    KidDepth,       \* agents.max_depth
    KidChanges      \* bound: changes a person makes to the settings meanwhile

VARIABLES
    kid_tree,       \* the conversation and the agents started, in order
    kid_cfg,        \* the agents table of the settings: the types and what goes for all of them
    kid_changes

kid_vars == <<kid_tree, kid_cfg, kid_changes>>

ForParents == {"plan", "ask_user"}
ForAgents  == {"agent", "agents"}
\* Directories, as they are once every link in them is followed.
Work == <<"work">>
Places == {Work, <<"work", "a">>, <<"other">>}
OutputCap == 2      \* 16 KiB

\* A settings patch is what it says of some keys; NULL takes a key away.
NULL == "null"
Patched(s, patch) == [k \in DOMAIN s |-> IF k \in DOMAIN patch THEN patch[k] ELSE s[k]]
Says1(k, v) == [x \in {k} |-> v]
Both(first, then) == [k \in DOMAIN first \cup DOMAIN then |-> IF k \in DOMAIN then THEN then[k] ELSE first[k]]
NoPatch == [k \in {} |-> NULL]
GuardedKeys == {"base_url", "shell", "enabled", "disabled", "mode", "ask_for", "system", "compact", "agents"}
Unguarded(patch) == [k \in DOMAIN patch \ GuardedKeys |-> patch[k]]

\* parent_offers; and what is in the registry of an agent with these settings.
KidOffered(s) == s.enabled \ s.disabled
Registry(s) == {t \in KidOffered(s) : t \in ForAgents => s.agents}

-----------------------------------------------------------------------------
KidFavorites == Says1("quick", [id |-> "m2", effort |-> "low"])
\* resolve_model, effort_patch
ModelOf(name) == IF name \in DOMAIN KidFavorites THEN KidFavorites[name].id ELSE name
EffortOf(name) == IF name \in DOMAIN KidFavorites THEN KidFavorites[name].effort ELSE ""
FirstSaid(words) == LET i == SelectInSeq(words, LAMBDA w : w # "") IN IF i = 0 THEN "" ELSE words[i]
AsEffort(level) == IF level = "off" THEN NULL ELSE level

Choice(def, parent, depth, asked) ==
    LET wanted == FirstSaid(<<asked, def.model, kid_cfg.model>>)
        said == FirstSaid(<<def.effort, kid_cfg.effort>>)
        effort == FirstSaid(IF wanted # "" THEN <<said, EffortOf(wanted)>> ELSE <<said>>)
        barred == ForParents \cup (IF depth >= KidDepth THEN ForAgents ELSE {})
                             \cup (IF parent.mode = "ask" THEN parent.ask_for ELSE {})
        wish == IF def.tools = {} THEN kid_cfg.tools ELSE def.tools
    IN FoldLeft(Both, Says1("compact", FALSE),
          << Says1("agents", depth < KidDepth),
             Says1("enabled", (wish \cap KidOffered(parent)) \ barred),
             Says1("output", IF parent.output < OutputCap THEN parent.output ELSE OutputCap),
             IF wanted # "" THEN Says1("id", ModelOf(wanted)) ELSE NoPatch,
             IF effort # "" THEN Says1("reasoning", AsEffort(effort)) ELSE NoPatch,
             IF def.prompt # "" THEN Says1("system", def.prompt) ELSE NoPatch >>)
\* A mutant: what a type's patch says is the last word, whoever asked for what.
SettledByPatch(def, parent, depth, asked) ==
    Patched(Patched(parent, Choice(def, parent, depth, asked)), Unguarded(def.settings))
\* child_settings
SettledKid(def, parent, depth, asked) ==
    LET choice == Choice(def, parent, depth, asked)
    IN Patched(Patched(Patched(parent, choice), Unguarded(def.settings)), choice)

-----------------------------------------------------------------------------
DefOf(tools, model, effort, prompt, settings) ==
    [tools |-> tools, model |-> model, effort |-> effort, prompt |-> prompt, settings |-> settings]
Fallback == DefOf({}, "", "", "", NoPatch)
AllTools == {"read", "bash", "plan", "ask_user", "agent"}
\* What the types' own patches say: of a cap, a model and an effort; and of what they may not.
TypePatches ==
    {NoPatch, Both(Says1("output", 9), Both(Says1("id", "m3"), Says1("reasoning", "high"))),
     Both(Says1("enabled", AllTools), Both(Says1("disabled", {}), Both(Says1("mode", "auto"), Says1("agents", TRUE)))),
     Both(Says1("shell", "theirs"), Both(Says1("base_url", "theirs"), Both(Says1("compact", TRUE), Says1("system", "theirs"))))}
RootSettings ==
    [enabled : {AllTools, {"read", "agent"}}, disabled : {{"bash"}}, mode : {"ask", "auto"}, ask_for : {{"bash"}},
     shell : {"sh"}, base_url : {"ours"}, system : {"session's"}, compact : {TRUE},
     id : {"m1"}, reasoning : {"high"}, output : {1, 3}, agents : {TRUE}]
KidInit ==
    /\ \E s \in RootSettings : kid_tree = <<[of |-> 0, depth |-> 0, settings |-> s, cwd |-> Work, root |-> s, was |-> s, asked |-> ""]>>
    /\ \E tools \in {{"read"}, AllTools}, effort \in {"", "off"}, arg \in BOOLEAN,
          own \in {{}, {"bash", "agent", "plan"}}, patch \in TypePatches :
          kid_cfg = [tools |-> tools, model |-> "", effort |-> effort, allow |-> arg,
                     defs |-> Says1("worker", DefOf(own, IF own = {} THEN "m5" ELSE "", "", IF patch = NoPatch THEN "" ELSE "worker's", patch))]
    /\ kid_changes = 0

\* AgentSpawner::child_cwd: where the name leads once links are followed, or nowhere.
Starts(cwd, asked) == IF asked = <<>> THEN cwd ELSE asked
\* AgentSpawner::spawn, of the agent i.
SpawnKid(i) ==
    /\ Len(kid_tree) < KidMost
    /\ kid_tree[i].settings.agents /\ kid_tree[i].depth < KidDepth
    /\ ForAgents \cap Registry(kid_tree[i].settings) # {}
    /\ \E kind \in {"default", "worker"}, model \in {"", "quick"}, place \in {<<>>} \cup Places :
          LET me == kid_tree[i]
              def == IF kind \in DOMAIN kid_cfg.defs THEN kid_cfg.defs[kind] ELSE Fallback
              asked == IF kid_cfg.allow THEN model ELSE ""
          IN /\ IsPrefix(me.cwd, Starts(me.cwd, place))
             /\ kid_tree' = Append(kid_tree,
                   [of |-> i, depth |-> me.depth + 1, settings |-> SettledKid(def, me.settings, me.depth + 1, asked),
                    cwd |-> Starts(me.cwd, place), root |-> me.root, was |-> me.settings, asked |-> asked])
    /\ UNCHANGED <<kid_cfg, kid_changes>>
\* A person changes the session's settings: the conversation's next turn has
\* them, agents that were started keep what they were started with.
PersonSets ==
    /\ kid_changes < KidChanges /\ kid_changes' = kid_changes + 1
    /\ \E mode \in {"ask", "auto"} \ {kid_tree[1].settings.mode} :
          LET s == [kid_tree[1].settings EXCEPT !.mode = mode]
          IN kid_tree' = [kid_tree EXCEPT ![1].settings = s, ![1].root = s, ![1].was = s]
    /\ UNCHANGED kid_cfg
KidNext == (\E i \in DOMAIN kid_tree : SpawnKid(i)) \/ PersonSets

-----------------------------------------------------------------------------
\* Down any chain of agents nothing widens: no agent has a tool that one above
\* it was not offered when it was started, none has a tool that a person is to
\* be asked about or one that only the conversation may have, the last that may
\* be has none to start more with, and none is started outside of the directory
\* of the one above it; what is guarded is as the conversation had it.
KidsNarrow ==
    \A i \in 2 .. Len(kid_tree) :
       LET s == kid_tree[i].settings
           root == kid_tree[i].root
           above == kid_tree[i].was
       IN /\ Registry(s) \subseteq (Registry(above) \cap Registry(root)) \ ForParents
          /\ root.mode = "ask" => Registry(s) \cap root.ask_for = {}
          /\ kid_tree[i].depth <= KidDepth /\ (kid_tree[i].depth = KidDepth => Registry(s) \cap ForAgents = {})
          /\ s.output <= above.output /\ s.output <= OutputCap
          /\ \A k \in {"shell", "base_url", "disabled", "mode", "ask_for"} : s[k] = root[k]
          /\ ~s.compact
          /\ s.system \in {root.system, "worker's"}
          /\ IsPrefix(kid_tree[kid_tree[i].of].cwd, kid_tree[i].cwd)
\* A model that was named, in the call where that is allowed, is the model, with
\* the effort that goes with its name unless the type or the table has its own.
ModelIsNamed ==
    \A i \in 2 .. Len(kid_tree) :
       LET k == kid_tree[i]
       IN /\ k.asked = "quick" => k.settings.id = "m2" /\ k.settings.reasoning = (IF kid_cfg.effort = "off" THEN NULL ELSE "low")
          /\ k.settings.id = "m3" => \E d \in DOMAIN kid_cfg.defs : kid_cfg.defs[d].settings # NoPatch
KidsHold == KidsNarrow /\ ModelIsNamed
=============================================================================
