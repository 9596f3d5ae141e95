------------------------------- MODULE Arming -------------------------------
(***************************************************************************)
(* Dictation switched on and off: what /voice and its pickers ask and      *)
(* remember, the socket dialled before anybody speaks, and what the next   *)
(* window comes up with (ah/src/tui/mod.rs, ah/src/tui/voice.rs).  The     *)
(* settings are of three layers: what the person chose in this window, the *)
(* project's config, and the file of remembered choices (state.toml).      *)
(***************************************************************************)
EXTENDS Integers, Sequences, SequencesExt, FiniteSets, Functions

CONSTANT ArmSteps    \* bound: commands and picks of a behaviour

VARIABLES
    arm_run, arm_conf, arm_file,    \* the layers: what each says of the voice settings
    arm_key, arm_api,               \* a Deepgram key, and an OpenRouter key, are there
    arm_cat,                        \* models.json and App::catalogue: "none", "file", "loaded"
    arm_up,                         \* a window is open
    arm_session,                    \* App::voice
    arm_warm,                       \* App::warm
    arm_pick,                       \* the voice picker that is open, or ""
    arm_open,                       \* the sockets that are open, by what they were dialled for
    arm_net,                        \* App::fetching_models
    arm_for,                        \* history: what a socket was to be dialled for as dictation was armed
    arm_steps

arm_layers == <<arm_run, arm_conf, arm_file>>
arm_voice  == <<arm_session, arm_warm, arm_open>>
arm_vars == <<arm_layers, arm_key, arm_api, arm_cat, arm_up, arm_voice, arm_pick, arm_net, arm_for, arm_steps>>

NoVoice == [none |-> TRUE]
Nothing == [k \in {} |-> ""]
ArmOver(upper, lower) == [k \in DOMAIN upper \cup DOMAIN lower |-> IF k \in DOMAIN upper THEN upper[k] ELSE lower[k]]
\* The settings: a layer says of a key what it says, or leaves it to the next.
SaysOf(run, file, k) ==
    LET all == ArmOver(run, ArmOver(arm_conf, file)) IN IF k \in DOMAIN all THEN all[k] ELSE IF k = "armed" THEN "no" ELSE ""
ArmSays(k) == SaysOf(arm_run, arm_file, k)

\* The catalogue's: one that transcribes, one that hears nothing.
Hears == {"a/stt"}
ArmListed == {"a/stt", "a/text"}
HasSlash(id) == id \in ArmListed \cup {"a/gone"}
\* VoiceSettings::model_for: a model of the other provider is not one.
ModelFor(run, file) ==
    LET id == SaysOf(run, file, "model")
    IN IF SaysOf(run, file, "prov") = "deepgram" /\ (id = "" \/ HasSlash(id)) THEN "nova-3" ELSE id
\* What a socket is dialled for; Warm::fits compares it.
DialledFor(run, file) == [model |-> ModelFor(run, file), lang |-> SaysOf(run, file, "lang")]

ArmInit ==
    /\ arm_run = Nothing /\ arm_file = Nothing
    /\ arm_conf \in {Nothing, "prov" :> "openrouter"}
    /\ arm_key \in BOOLEAN /\ arm_api \in BOOLEAN /\ arm_cat \in {"none", "file"}
    /\ arm_up = FALSE /\ arm_session = NoVoice /\ arm_warm = NoVoice /\ arm_pick = ""
    /\ arm_open = <<>> /\ arm_for = NoVoice /\ arm_net = FALSE /\ arm_steps = 0

-----------------------------------------------------------------------------
(* Arming, once the layers are `run` and `file`, and with the session and   *)
(* the warm socket that are there then.                                     *)

Remember(layer, patch) == ArmOver(patch, layer)
\* `remember` of what has been chosen, and nothing else of it.
Remembers(run, file) == arm_run' = run /\ arm_file' = file
Stays(session, warm) ==
    arm_session' = session /\ arm_warm' = warm
    /\ arm_open' = SelectSeq(<<warm, session>>, LAMBDA s : s # NoVoice /\ "model" \in DOMAIN s)
\* Not armed: a picker asks for what is missing, or a line says why.
Asks(kind, run, file, warm) ==
    Remembers(run, file) /\ Stays(NoVoice, warm) /\ arm_pick' = kind /\ UNCHANGED arm_for
AsksProvider(run, file, warm) == Asks("provider", run, file, warm)
CatLoaded == IF arm_cat = "file" THEN "loaded" ELSE arm_cat
\* model_info: a model the list on disk does not have is looked for in a new
\* one, where that may be waited for.
CatAfter(id, may_block) ==
    IF CatLoaded = "loaded" /\ id \in ArmListed THEN {"loaded"}
    ELSE IF may_block THEN {"loaded", CatLoaded} ELSE {CatLoaded}
\* open_voice_model_picker: the list on disk, or a thread asks for it.
ListWanted == arm_cat' = CatLoaded /\ arm_net' = (arm_net \/ arm_cat = "none")

\* start_voice and Session::arm: a warm socket that fits is taken, another is
\* dropped; a phrase-wise session has none.
ArmStarts(run, file, warm) ==
    LET on == "armed" :> "yes"
        live == SaysOf(run, file, "prov") = "deepgram"
        dial == DialledFor(run, file)
    IN /\ Stays(IF live THEN (IF warm = dial THEN warm ELSE dial) ELSE "phrases" :> TRUE, NoVoice)
       /\ arm_for' = (IF live THEN dial ELSE NoVoice)
       /\ Remembers(Remember(run, on), Remember(file, on)) /\ arm_pick' = ""
\* arm_voice_inner.  At launch the list of models is not waited for.
Arms(run, file, key, warm, model, may_block) ==
    LET prov == SaysOf(run, file, "prov")
        id == IF model # "" THEN model ELSE SaysOf(run, file, "model")
        NoList == UNCHANGED <<arm_cat, arm_net>>
    IN CASE prov = "" -> AsksProvider(run, file, warm) /\ NoList
         [] prov = "deepgram" /\ ~key -> Asks("key", run, file, warm) /\ NoList
         [] prov = "deepgram" /\ key -> ArmStarts(run, file, warm) /\ NoList
         [] prov = "openrouter" /\ id = "" -> Asks("model", run, file, warm) /\ ListWanted
         [] prov = "openrouter" /\ id # "" /\ ~arm_api -> Asks("", run, file, warm) /\ NoList
         [] OTHER -> \E cat \in CatAfter(id, may_block) :
              /\ arm_cat' = cat /\ UNCHANGED arm_net
              /\ IF cat = "loaded" /\ id \in Hears THEN ArmStarts(run, file, warm) ELSE Asks("", run, file, warm)

\* disarm_voice, of the layers it writes to: said even of a window that is not armed.
Disarmed(layer) == Remember(layer, "armed" :> "no")
-----------------------------------------------------------------------------
(* The window.                                                              *)

\* run_inner, and warm_voice once the first frame is drawn.
ArmLaunch ==
    /\ ~arm_up /\ arm_steps < ArmSteps /\ arm_up' = TRUE
    /\ \/ ArmSays("armed") = "yes" /\ Arms(arm_run, arm_file, arm_key, NoVoice, "", FALSE)
       \/ /\ ArmSays("armed") = "no"
          /\ Stays(NoVoice, IF ArmSays("prov") = "deepgram" /\ arm_key THEN DialledFor(arm_run, arm_file) ELSE NoVoice)
          /\ UNCHANGED <<arm_run, arm_file, arm_for, arm_pick, arm_cat, arm_net>>
    /\ UNCHANGED <<arm_conf, arm_key, arm_api, arm_steps>>
\* shutdown_voice: neither is waited for, and what was remembered stays.
ArmLeave ==
    /\ arm_up /\ arm_up' = FALSE
    /\ Stays(NoVoice, NoVoice)
    /\ arm_run' = Nothing /\ arm_pick' = "" /\ arm_net' = FALSE
    /\ arm_cat' = IF arm_cat = "loaded" THEN "file" ELSE arm_cat
    /\ UNCHANGED <<arm_conf, arm_file, arm_key, arm_api, arm_for, arm_steps>>

ArmStep == arm_up /\ arm_steps < ArmSteps /\ arm_steps' = arm_steps + 1 /\ UNCHANGED <<arm_conf, arm_api, arm_up>>
\* `remember`, and dictation off and on again; a device that is chosen does not turn it on.
Chooses(key, patch, model) ==
    LET run == Remember(arm_run, patch)   file == Remember(arm_file, patch)
    IN \/ arm_session = NoVoice /\ "device" \notin DOMAIN patch /\ Arms(run, file, key, arm_warm, model, TRUE)
       \/ arm_session # NoVoice /\ Arms(Disarmed(run), Disarmed(file), key, arm_warm, model, TRUE)
       \/ /\ arm_session = NoVoice /\ "device" \in DOMAIN patch
          /\ Asks("", run, file, arm_warm) /\ UNCHANGED <<arm_cat, arm_net>>

\* /voice and alt-v, /voice off, /voice model and devices; /set voice.language.
SlashVoice ==
    /\ ArmStep /\ arm_pick = "" /\ UNCHANGED arm_key
    /\ \/ arm_session = NoVoice /\ Arms(arm_run, arm_file, arm_key, arm_warm, "", TRUE)
       \/ Asks("", Disarmed(arm_run), Disarmed(arm_file), arm_warm) /\ UNCHANGED <<arm_cat, arm_net>>
       \/ \E id \in {"a/stt", "a/gone", "nova-2"} : Chooses(arm_key, "model" :> id, id)
       \/ /\ \/ ArmSays("prov") = "deepgram" /\ arm_pick' = "dmodel" /\ UNCHANGED <<arm_cat, arm_net>>
             \/ ArmSays("prov") # "deepgram" /\ arm_pick' = "model" /\ ListWanted
             \/ arm_pick' = "device" /\ UNCHANGED <<arm_cat, arm_net>>
          /\ UNCHANGED <<arm_run, arm_file, arm_voice, arm_for>>
       \/ /\ arm_run' = Remember(arm_run, "lang" :> "fr")
          /\ UNCHANGED <<arm_file, arm_voice, arm_for, arm_pick, arm_cat, arm_net>>
\* picker_key: who transcribes, a model, a device.
PickVoice ==
    /\ ArmStep /\ UNCHANGED arm_key
    /\ \/ arm_pick = "provider" /\ \E p \in {"deepgram", "openrouter"} : Chooses(arm_key, "prov" :> p, "")
       \/ arm_pick = "model" /\ arm_cat = "loaded" /\ Chooses(arm_key, "model" :> "a/stt", "a/stt")
       \/ arm_pick = "dmodel" /\ Chooses(arm_key, "model" :> "nova-2", "nova-2")
       \/ arm_pick = "device" /\ Chooses(arm_key, "device" :> "usb", "")
\* The key that is typed goes to the credentials and nowhere else.
TypeKey ==
    /\ ArmStep /\ arm_pick = "key" /\ arm_key' = TRUE
    /\ Arms(arm_run, arm_file, TRUE, arm_warm, "", TRUE)
\* Esc; and the list of models that was asked for, when it comes.
CloseVoicePick ==
    /\ ArmStep /\ arm_pick # "" /\ arm_pick' = ""
    /\ UNCHANGED <<arm_key, arm_run, arm_file, arm_voice, arm_for, arm_cat, arm_net>>
ListComes ==
    /\ arm_up /\ arm_net /\ arm_net' = FALSE /\ arm_cat' \in {"loaded", arm_cat}
    /\ UNCHANGED <<arm_layers, arm_key, arm_api, arm_up, arm_voice, arm_pick, arm_for, arm_steps>>

ArmNext == ArmLaunch \/ ArmLeave \/ SlashVoice \/ PickVoice \/ TypeKey \/ CloseVoicePick \/ ListComes

-----------------------------------------------------------------------------
\* Dictation that is on is remembered as on, and is off in the file as soon as
\* a window turned it off or could not turn it on again: the next window comes
\* up as the last was left (disarm_voice, start_voice and warm_voice in
\* ah/src/tui/mod.rs).
ArmedAsLeft ==
    /\ arm_session # NoVoice => arm_file["armed"] = "yes"
    /\ arm_session = NoVoice /\ "armed" \in DOMAIN arm_run =>
          "armed" \in DOMAIN arm_file /\ arm_file["armed"] = "no"
\* The socket that is listened to was dialled for what the settings said as
\* dictation was armed, and none is left open beside it (Warm::fits and
\* Session::arm in ah/src/tui/voice.rs).
SocketFits ==
    arm_session # NoVoice => arm_open = (IF arm_for = NoVoice THEN <<>> ELSE <<arm_for>>)
ArmHolds == ArmedAsLeft /\ SocketFits
=============================================================================
