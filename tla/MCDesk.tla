------------------------------- MODULE MCDesk -------------------------------
(***************************************************************************)
(* The table of subagents with children of children, and with it small     *)
(* models of what is on a desk beside it: the input box, a picker's rows,   *)
(* the voice kept ready, the files the tools change, the pairing.  They     *)
(* share no state: a behaviour is of one part, drawn from Parts at its      *)
(* start, and leaves the others alone.                                      *)
(***************************************************************************)
EXTENDS Agents, Arming, Editor, Files, Pairing, Matching

CONSTANT Parts     \* the parts a run checks
VARIABLE part

OneWindow == {0}

desk_vars == <<part, vars, arm_vars, ed_vars, edit_vars, file_vars, diff_vars, pair_vars, mt_vars>>

\* A part not drawn has one initial state.
DeskInit ==
    /\ part \in Parts
    /\ part = "arming" \/ (arm_conf = Nothing /\ arm_key = TRUE /\ arm_api = TRUE /\ arm_cat = "none")
    /\ part = "pairing" \/ (pair_file = NoFile /\ pair_skewed = FALSE)
    /\ part = "files" \/ (file_body = [f \in RealFiles |-> Gone] /\ file_link = "outside")
    /\ Init /\ ArmInit /\ EdInit /\ FileInit /\ PairInit
    /\ IF part = "edits" THEN EditInit ELSE edit_text = <<>> /\ edit_call = <<>> /\ edit_out = <<>>
    /\ IF part = "diff" THEN DiffInit ELSE diff_old = <<>> /\ diff_new = <<>> /\ diff_context = 0 /\ diff_out = <<>>
    /\ IF part = "matching" THEN MatchInit ELSE mt_query = <<>> /\ mt_names = <<>> /\ mt_rows = <<>>

\* A step is of the part drawn, and every other part stays as it is.
DeskNext ==
    /\ UNCHANGED part
    /\ IF part = "agents" THEN Next ELSE UNCHANGED vars
    /\ IF part = "arming" THEN ArmNext ELSE UNCHANGED arm_vars
    /\ IF part = "editor" THEN EdNext ELSE UNCHANGED ed_vars
    /\ IF part = "edits" THEN EditNext ELSE UNCHANGED edit_vars
    /\ IF part = "files" THEN FileNext ELSE UNCHANGED file_vars
    /\ IF part = "diff" THEN DiffNext ELSE UNCHANGED diff_vars
    /\ IF part = "pairing" THEN PairNext ELSE UNCHANGED pair_vars
    /\ IF part = "matching" THEN MatchNext ELSE UNCHANGED mt_vars
DeskSpec == DeskInit /\ [][DeskNext]_desk_vars

\* The fairness of the subagents' threads, as Agents states it.
DeskFairness ==
    /\ \A t \in Thread : SF_vars(part = "agents" /\ Step(t))
    /\ \A t \in Thread : ~Root(t) => SF_vars(part = "agents" /\ EndCalls(t))
DeskFair == DeskSpec /\ DeskFairness

-----------------------------------------------------------------------------
\* What is typed and armed: a chip stands for what was pasted, a picker shows
\* what can be read in its rows, the socket kept warm is the one asked for, and
\* the pairing is on both sides or on neither (ah/src/tui/input.rs, tui/mod.rs,
\* ah-core/src/models.rs, ah/src/remote/cli.rs, ah-core/src/auth.rs).
DeskHolds ==
    /\ part = "editor" => EditorHolds
    /\ part = "matching" => MatchHolds
    /\ part = "arming" => ArmHolds
    /\ part = "pairing" => PairingHolds
\* What the file tools do to files and show of it (ah-core/src/edit.rs, fs.rs, diff.rs).
FileToolsHold ==
    /\ part = "edits" => EditsHold
    /\ part = "diff" => ShowsTheChange
    /\ part = "files" => FilesAreKept
=============================================================================
