----------------------------- MODULE MCSession -----------------------------
(***************************************************************************)
(* The table of subagents, and with it small models of what else goes on   *)
(* in a window's process.  They share no state: a behaviour is of one      *)
(* part, drawn from Parts at its start, and leaves the others alone.       *)
(***************************************************************************)
EXTENDS Agents, Settings, Screen, Board, AskForm, Choices, Plugins, Children, Focus, Pictures

CONSTANT Parts     \* the parts a run checks
VARIABLE part

OneWindow == {0}

session_vars == <<part, vars, set_vars, scr_vars, board_vars, form_vars, ch_vars, plug_vars,
                  kid_vars, fo_vars, pic_vars>>

SessionInit ==
    /\ part \in Parts
    \* A part not drawn has one initial state.
    /\ part = "focus" \/ fo_job = "none"
    /\ part = "pictures" \/ pic_echo = "user"
    /\ IF part = "children" THEN KidInit ELSE kid_tree = <<>> /\ kid_cfg = <<>> /\ kid_changes = 0
    /\ part = "form" \/ form_call = <<>>
    /\ part = "choices" \/ (ch_cache = None /\ ch_tab = "all" /\ ch_favs = "g" :> Fav("m1", ""))
    /\ IF part = "settings" THEN SetInit
       ELSE /\ set_stack = <<>> /\ set_engine = <<>> /\ set_session = 0 /\ set_file = <<>>
            /\ set_cmds = <<>> /\ set_events = <<>> /\ set_picker = "none" /\ set_acts = 0 /\ set_hooks = 0
    /\ Init /\ ScrInit /\ BoardInit /\ FormInit /\ ChInit /\ PlugInit
    /\ FoInit /\ PicInit

\* A step is of the part drawn, and every other part stays as it is.
SessionNext ==
    /\ UNCHANGED part
    /\ IF part = "agents" THEN Next ELSE UNCHANGED vars
    /\ IF part = "settings" THEN SetNext ELSE UNCHANGED set_vars
    /\ IF part = "screen" THEN ScrNext ELSE UNCHANGED scr_vars
    /\ IF part = "board" THEN BoardNext ELSE UNCHANGED board_vars
    /\ IF part = "form" THEN FormNext ELSE UNCHANGED form_vars
    /\ IF part = "choices" THEN ChNext ELSE UNCHANGED ch_vars
    /\ IF part = "plugins" THEN PlugNext ELSE UNCHANGED plug_vars
    /\ IF part = "children" THEN KidNext ELSE UNCHANGED kid_vars
    /\ IF part = "focus" THEN FoNext ELSE UNCHANGED fo_vars
    /\ IF part = "pictures" THEN PicNext ELSE UNCHANGED pic_vars
SessionSpec == SessionInit /\ [][SessionNext]_session_vars

-----------------------------------------------------------------------------
\* What a child runs with, what is shown of it and said to it, and which
\* pictures a request carries (ah-core/src/agents.rs, agent.rs, ah/src/tui/mod.rs).
ChildrenHold ==
    /\ part = "children" => KidsHold
    /\ part = "focus" => FocusHolds
    /\ part = "pictures" => PicturesHold
\* What is answered in a box is what was on it: the answers the model reads,
\* and the model, effort and favorite that are chosen (ah/src/tui/ask.rs,
\* ah/src/tui/mod.rs).
BoxesHold == (part = "form" => FormHolds) /\ (part = "choices" => ChoicesHold)
\* What the settings come to, from the person, the files and the plugins; and
\* what plugins are on the machine (ah-core/src/settings.rs, plugins.rs).
LayersHold == (part = "settings" => SettingsHold) /\ (part = "plugins" => PluginsHold)
=============================================================================
