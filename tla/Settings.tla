------------------------------ MODULE Settings ------------------------------
(***************************************************************************)
(* The layers settings are merged from, and the two threads that hold what *)
(* they come to (SettingsStack in ah-core/src/settings.rs, the window in   *)
(* ah/src/tui/mod.rs, the engine in ah/src/app.rs).  The window owns the   *)
(* layers and sends the engine what they resolve to; plugins, run by the   *)
(* engine, send patches back; a conversation taken up again brings its     *)
(* model.  Three settings stand for all: one only the person may set, one  *)
(* with a type a value can miss, and the model.                            *)
(***************************************************************************)
EXTENDS Naturals, Sequences, SequencesExt, FiniteSets, TLC

CONSTANTS
    SetSessions,    \* conversations on disk
    SetActs,        \* bound: what the person does
    SetHooks        \* bound: patches from hooks during turns

VARIABLES
    set_stack,      \* SettingsStack::layers
    set_engine,     \* Engine::settings
    set_session,    \* Engine::session
    set_file,       \* the model each conversation's file remembers, or ""
    set_cmds,       \* EngineCmd, window to engine
    set_events,     \* UiEvent, engine to window
    set_picker,     \* App::picker: "none", "plain" or "preview"
    set_acts, set_hooks

set_ui   == <<set_stack, set_picker>>
set_eng  == <<set_engine, set_session, set_file>>
set_vars == <<set_ui, set_eng, set_cmds, set_events, set_acts, set_hooks>>

-----------------------------------------------------------------------------
(* The stack.                                                               *)

Layer(of, patch) == [of |-> of, patch |-> patch]
Trusted(of) == of \in {"defaults", "user", "cli", "slash", "session"}
Guarded == {"shell"}
Only(f, S) == [k \in DOMAIN f \cap S |-> f[k]]
\* resolve: the last layer that has a key says what it is.
Resolve(stack) ==
    [k \in {"shell", "theme", "model"} |->
        LET i == SelectLastInSeq(stack, LAMBDA l : k \in DOMAIN l.patch) IN stack[i].patch[k]]
Fits(stack) == Resolve(stack).theme # "misfit"
\* push: an untrusted layer is stripped of what it may not set, and one that
\* does not fit is taken off again.
Pushed(stack, of, patch) ==
    LET taken == IF Trusted(of) THEN patch ELSE Only(patch, DOMAIN patch \ Guarded)
        more  == Append(stack, Layer(of, taken))
    IN IF Fits(more) THEN more ELSE stack
PushedAll(stack, of, patches) == FoldLeft(LAMBDA s, p : Pushed(s, of, p), stack, patches)
Without(stack, of) == SelectSeq(stack, LAMBDA l : l.of # of)

\* What a plugin may ask for, and what the person may type after /set.
Theirs == {("shell" :> "theirs") @@ ("model" :> "b"), "theme" :> "misfit"}
Typed  == {"model" :> "b", "theme" :> "misfit"}
FromFiles(project, cli) ==
    PushedAll(PushedAll(PushedAll(
        <<Layer("defaults", ("shell" :> "sh") @@ ("theme" :> "light") @@ ("model" :> "a"))>>,
        "user", <<"shell" :> "mine">>), "project", project), "cli", cli)
\* load_settings: what the files and the command line say never changes here.
Loads == {FromFiles(<<("shell" :> "theirs") @@ ("theme" :> "dark")>>, c) : c \in {<<>>, <<"model" :> "b">>}}
Reloaded == SelectSeq(set_stack, LAMBDA l : l.of \in {"defaults", "user", "project", "cli"})

\* run_inner and Engine::new: what last launch's plugins said, whole or not at
\* all; and a conversation taken up again brings its model unless one is pinned.
SetInit ==
    /\ \E stack \in Loads, cached \in {<<>>} \cup {<<p>> : p \in Theirs}, resumed \in BOOLEAN :
          LET guess  == PushedAll(stack, "plugin", cached)
              pinned == \E l \in ToSet(guess) : l.of = "cli"
              all    == IF resumed /\ ~pinned THEN Pushed(guess, "session", "model" :> "c") ELSE guess
          IN /\ set_stack = all /\ set_engine = Resolve(all)
             /\ set_session = CHOOSE s \in SetSessions : TRUE
             \* The other conversations have a model on file, or none.
             /\ set_file = [s \in SetSessions |-> IF s = set_session THEN Resolve(all).model
                                                 ELSE IF resumed /\ ~pinned THEN "c" ELSE ""]
    /\ set_cmds = <<[cmd |-> "load"]>> /\ set_events = <<>> /\ set_picker = "none"
    /\ set_acts = 0 /\ set_hooks = 0

-----------------------------------------------------------------------------
(* The window.                                                              *)

Send(cmds) == set_cmds' = set_cmds \o cmds
\* refresh_from_settings.
Refresh(stack) == <<[cmd |-> "settings", to |-> Resolve(stack)]>>
\* apply_patch.
ApplyPatch(of, patch, more) ==
    LET stack == Pushed(set_stack, of, patch) IN
    /\ set_stack' = stack
    /\ Send((IF stack = set_stack THEN <<>> ELSE Refresh(stack)) \o more)
\* drop_previews.
DropPreviews(stack) ==
    /\ set_stack' = Without(stack, "preview")
    /\ Send(Refresh(set_stack'))
AskPlugin(stage) == <<[cmd |-> "slash", stage |-> stage]>>

\* adopt_session_model.
Adopt(model) ==
    IF model = "" \/ model = Resolve(set_stack).model THEN UNCHANGED <<set_stack, set_cmds>>
    ELSE /\ set_stack' = Pushed(Without(set_stack, "session"), "session", "model" :> model)
         /\ Send(Refresh(set_stack'))
\* A mutant: an answer to a preview is taken whatever is open by then.
LateAnswerTaken(e) == ApplyPatch("preview", e.patch, <<>>) /\ UNCHANGED set_picker
\* slash_result of a preview: one that comes late is dropped.
PreviewAnswer(e) ==
    /\ IF set_picker = "preview" THEN ApplyPatch("preview", e.patch, <<>>) ELSE UNCHANGED <<set_stack, set_cmds>>
    /\ UNCHANGED set_picker
\* slash_result.  A picker that opens asks for a preview of its first row.
SlashResult(e) ==
    CASE e.stage = "preview" -> PreviewAnswer(e)
      [] e.stage = "pick" -> DropPreviews(Pushed(set_stack, "plugin", e.patch)) /\ UNCHANGED set_picker
      [] e.stage = "run" ->
            /\ ApplyPatch("plugin", e.patch, IF e.opens = "preview" THEN AskPlugin("preview") ELSE <<>>)
            /\ set_picker' = IF e.opens = "none" THEN set_picker ELSE e.opens
SetHandle ==
    /\ set_events # <<>> /\ set_events' = Tail(set_events)
    /\ LET e == Head(set_events) IN
          CASE e.event = "loaded" ->
                 /\ set_stack' = PushedAll(Without(set_stack, "plugin"), "plugin", e.patches)
                 /\ Send(Refresh(set_stack')) /\ UNCHANGED set_picker
            [] e.event = "hook" -> ApplyPatch("plugin", e.patch, <<>>) /\ UNCHANGED set_picker
            [] e.event = "slash" -> SlashResult(e)
            [] e.event = "resumed" -> Adopt(e.model) /\ UNCHANGED set_picker
    /\ UNCHANGED <<set_eng, set_acts, set_hooks>>

\* At the keyboard; an open picker has the keys.
Act == set_acts < SetActs /\ set_acts' = set_acts + 1 /\ UNCHANGED <<set_eng, set_events, set_hooks>>
SetSlash ==
    /\ Act /\ set_picker = "none" /\ UNCHANGED set_picker
    /\ \/ \E p \in Typed : ApplyPatch("slash", p, <<>>)
       \/ Send(AskPlugin("run")) /\ UNCHANGED set_stack
       \/ \E s \in SetSessions : Send(<<[cmd |-> "resume", id |-> s]>>) /\ UNCHANGED set_stack
       \/ set_stack' = Reloaded /\ Send(Append(Refresh(set_stack'), [cmd |-> "load"]))
PickerMove   == Act /\ set_picker = "preview" /\ Send(AskPlugin("preview")) /\ UNCHANGED set_ui
PickerAccept == Act /\ set_picker # "none" /\ set_picker' = "none" /\ Send(AskPlugin("pick")) /\ UNCHANGED set_stack
\* close_picker.
PickerClose ==
    /\ Act /\ set_picker # "none" /\ set_picker' = "none"
    /\ IF set_picker = "preview" THEN DropPreviews(set_stack) ELSE UNCHANGED <<set_stack, set_cmds>>

-----------------------------------------------------------------------------
(* The engine.                                                              *)

Tell(e) == set_events' = Append(set_events, e)
\* apply_settings: the conversation is held with this model from here on.
EngineSettings(to) ==
    /\ set_engine' = to
    /\ set_file' = IF to.model = set_engine.model THEN set_file ELSE [set_file EXCEPT ![set_session] = to.model]
    /\ UNCHANGED <<set_session, set_events>>
\* Nothing a plugin answers is trusted, and it may answer nothing at all.
Answers == Theirs \cup {<<>>}
SetEngineStep ==
    /\ set_cmds # <<>> /\ set_cmds' = Tail(set_cmds)
    /\ LET c == Head(set_cmds) IN
          CASE c.cmd = "settings" -> EngineSettings(c.to)
            [] c.cmd = "load" -> /\ \E ps \in {<<>>} \cup {<<p>> : p \in Theirs} : Tell([event |-> "loaded", patches |-> ps])
                                 /\ UNCHANGED set_eng
            [] c.cmd = "slash" -> /\ \E p \in Answers, o \in IF c.stage = "run" THEN {"none", "plain", "preview"} ELSE {"none"} :
                                        Tell([event |-> "slash", stage |-> c.stage, patch |-> p, opens |-> o])
                                  /\ UNCHANGED set_eng
            [] c.cmd = "resume" -> /\ set_session' = c.id /\ Tell([event |-> "resumed", model |-> set_file[c.id]])
                                   /\ UNCHANGED <<set_engine, set_file>>
    /\ UNCHANGED <<set_ui, set_acts, set_hooks>>
\* A hook of a plugin asks for a setting in the middle of a turn.
SetHook ==
    /\ set_hooks < SetHooks /\ set_hooks' = set_hooks + 1
    /\ \E p \in Theirs : Tell([event |-> "hook", patch |-> p])
    /\ UNCHANGED <<set_ui, set_eng, set_cmds, set_acts>>

SetNext == SetHandle \/ SetSlash \/ PickerMove \/ PickerAccept \/ PickerClose \/ SetEngineStep \/ SetHook
SetSpec == SetInit /\ [][SetNext]_set_vars

-----------------------------------------------------------------------------
(* Property. *)

\* Whoever patches what, in whatever order it arrives: what only the person may
\* set is as the person set it, and no layer that does not fit stays; the engine
\* has, or is about to be told, what the window's layers come to; a preview is
\* gone once its picker is closed and answered; at most one layer says which
\* model the conversation brought; and when all is said, the file of the
\* conversation in hand remembers the model that is in use.
SettingsHold ==
    LET told     == SelectSeq(set_cmds, LAMBDA c : c.cmd = "settings")
        latest   == IF told = <<>> THEN set_engine ELSE Last(told).to
        picked   == \E x \in ToSet(set_cmds) \cup ToSet(set_events) : "stage" \in DOMAIN x /\ x.stage = "pick"
        count(o) == Len(SelectSeq(set_stack, LAMBDA l : l.of = o))
    IN /\ Resolve(set_stack).shell = "mine" /\ Fits(set_stack)
       /\ latest = Resolve(set_stack)
       /\ set_picker # "preview" /\ ~picked => count("preview") = 0
       /\ count("session") <= 1
       /\ set_cmds = <<>> /\ set_events = <<>> => set_file[set_session] \in {"", set_engine.model}
=============================================================================
