------------------------------ MODULE MCParts ------------------------------
(***************************************************************************)
(* Small models of parts that share no state, checked by one run of TLC: a *)
(* behaviour is of one part, drawn from Parts at its start, and leaves the *)
(* state of the others alone.                                              *)
(***************************************************************************)
EXTENDS Jobs, PairLock, HubDoor, Conversation, Plan, Sessions, TalkKey, Dictation, KeptOutput,
        ToolGate, DenyRules, Stream, Microphone, Grants, Prompt

CONSTANTS
    Parts,                              \* the parts a run checks
    Desk, Phone, NoMsg, WindowJobs, Kids, Keys, MaxRequests, MaxCompacts, QueueMax, NoPhone,
    DaemonPhone, DaemonOwner, DaemonRequests, DaemonCompacts,
    LogKeep, PruneEvery, Limit, MaxFaults, AgesOut, MaxPay, MaxCmd, MaxSaid, OutboxKeep, Burst

VARIABLES
    part,
    cmds, out, inbox, cancel, key, turn_pc, msg, requests, work, heard, fate, stops, compacts,
    ui, busy, queue, woke, mid, live, phone, pending, ringing, quiet,
    running,
    rm_log, rm_oldest, rm_att, rm_sock, rm_out, rm_evs, rm_faults, rm_carried, rm_skipped, rm_torn,
    rm_late, rm_desk, rm_links, rm_says, rm_phone, rm_asks, rm_sealed, rm_shown, rm_acted, rm_got,
    rm_told

Win == INSTANCE Window WITH Owner <- 0, pc <- turn_pc, Jobs <- WindowJobs
Dmn == INSTANCE Daemon WITH Desk <- {}, Phone <- DaemonPhone, pc <- turn_pc, Jobs <- WindowJobs,
           Owner <- DaemonOwner, MaxRequests <- DaemonRequests, MaxCompacts <- DaemonCompacts
Rem == INSTANCE Remote WITH
           log <- rm_log, oldest <- rm_oldest, att <- rm_att, sock <- rm_sock, out <- rm_out,
           evs <- rm_evs, faults <- rm_faults, carried <- rm_carried, skipped <- rm_skipped,
           torn <- rm_torn, late <- rm_late, desk <- rm_desk, links <- rm_links, says <- rm_says,
           phone <- rm_phone, asks <- rm_asks, sealed <- rm_sealed, shown <- rm_shown,
           acted <- rm_acted, got <- rm_got, told <- rm_told

turn_vars   == <<cmds, out, inbox, cancel, key, turn_pc, msg, requests, work, heard, fate, stops, compacts>>
window_vars == <<ui, busy, queue, mid, live, phone, pending, ringing, quiet>>
windowed == <<turn_vars, window_vars, woke>>
daemoned == <<turn_vars, woke, running>>
rm_vars == <<rm_log, rm_oldest, rm_att, rm_sock, rm_out, rm_evs, rm_faults, rm_carried, rm_skipped,
             rm_torn, rm_late, rm_desk, rm_links, rm_says, rm_phone, rm_asks, rm_sealed, rm_shown,
             rm_acted, rm_got, rm_told>>
session_vars == <<windowed, running>>
parts_vars == <<part, session_vars, prompt_vars, vars, pair_vars, door_vars,
                talk_vars, plan_vars, sess_vars, key_vars, dict_vars, live_vars, kept_vars,
                gate_vars, deny_vars, stream_vars, mic_vars, gr_vars, rm_vars>>

\* One child of the root, and another of that child.
OneChild == [a \in {1} |-> 0]
TwoDeep == [a \in {1, 2} |-> a - 1]
\* "rm -rf root" and "ls root".
TwoRules == {<<Word("prog", <<"rm">>), Word("flags", <<"r", "f">>), Word("op", <<"root">>)>>,
             <<Word("prog", <<"ls">>), Word("op", <<"root">>)>>}

PartsInit ==
    /\ part \in Parts
    /\ IF part = "daemon" THEN Dmn!TurnInit ELSE Win!TurnInit
    /\ part \in {"window", "daemon"} \/ key
    /\ ui = <<>> /\ busy = FALSE /\ queue = <<>> /\ woke = FALSE /\ mid = {} /\ live = FALSE
    /\ phone = NoPhone /\ pending = [t \in Win!Tables |-> FALSE] /\ ringing = {} /\ quiet = {}
    /\ running = FALSE
    /\ PromptInit /\ Init /\ PairInit /\ DoorInit /\ TalkInit /\ PlanInit /\ SessInit
    /\ DictInit /\ LiveInit /\ KeptInit /\ GateInit /\ DenyInit /\ StreamInit /\ MicInit /\ GrantInit
    /\ Rem!Init
    \* A part not drawn has one initial state.
    /\ KeyInit /\ (part = "key" \/ (key_reports /\ key_hold = "Toggle"))
    /\ part = "gate" \/ (gate_mode /\ gate_chain = NewCall(CHOOSE a \in GateArgs : TRUE))
    /\ part = "microphone" \/ mic_stays = FALSE
    /\ part = "grants" \/ (gr_conf = (CHOOSE c \in Confs : TRUE) /\ gr_link = <<"srv">>)

\* A step is of the part drawn, and every other part stays as it is.
PartsNext ==
    /\ UNCHANGED part
    /\ CASE part = "window" -> Win!Next /\ UNCHANGED running
         [] part = "daemon" -> Dmn!Next /\ UNCHANGED window_vars
         [] OTHER -> UNCHANGED session_vars
    /\ IF part = "prompt" THEN PromptNext ELSE UNCHANGED prompt_vars
    /\ IF part = "jobs" THEN Next ELSE UNCHANGED vars
    /\ IF part = "pair" THEN PairNext ELSE UNCHANGED pair_vars
    /\ IF part = "door" THEN DoorNext ELSE UNCHANGED door_vars
    /\ IF part = "talk" THEN TalkNext ELSE UNCHANGED talk_vars
    /\ IF part = "plan" THEN PlanNext ELSE UNCHANGED plan_vars
    /\ IF part = "sessions" THEN SessNext ELSE UNCHANGED sess_vars
    /\ IF part = "key" THEN KeyNext ELSE UNCHANGED key_vars
    /\ IF part = "dictation" THEN DictNext ELSE UNCHANGED dict_vars
    /\ IF part = "live" THEN LiveNext ELSE UNCHANGED live_vars
    /\ IF part = "kept" THEN KeptNext ELSE UNCHANGED kept_vars
    /\ IF part = "gate" THEN GateNext ELSE UNCHANGED gate_vars
    /\ IF part = "deny" THEN DenyNext ELSE UNCHANGED deny_vars
    /\ IF part = "stream" THEN StreamNext ELSE UNCHANGED stream_vars
    /\ IF part = "microphone" THEN MicNext ELSE UNCHANGED mic_vars
    /\ IF part = "grants" THEN GrantNext ELSE UNCHANGED gr_vars
    /\ IF part = "relay" THEN Rem!Next ELSE UNCHANGED rm_vars
PartsSpec == PartsInit /\ [][PartsNext]_parts_vars

\* The fairness of the parts whose progress is checked, as their modules state
\* it: a process of one part owes nothing to the others.
PartsFairness ==
    /\ \A j \in Ids : WF_vars(part = "jobs" /\ Process(j)) /\ WF_vars(part = "jobs" /\ Killer(j))
    /\ WF_windowed(part = "window" /\ Win!EngineStep) /\ WF_windowed(part = "window" /\ Win!Forward)
    /\ WF_windowed(part = "window" /\ Win!UI) /\ WF_windowed(part = "window" /\ Win!Ring)
    /\ WF_windowed(part = "window" /\ Win!PhonePut)
    /\ WF_daemoned(part = "daemon" /\ Dmn!EngineStep) /\ WF_daemoned(part = "daemon" /\ Dmn!Note)
    /\ WF_pair_vars(part = "pair" /\ GrowsOld)
    /\ WF_pair_vars(part = "pair" /\ PairStart(PairDaemon))
    /\ \A p \in PairProcs :
          /\ WF_pair_vars(part = "pair" /\ Look(p)) /\ WF_pair_vars(part = "pair" /\ Grab(p))
          /\ WF_pair_vars(part = "pair" /\ MakeClaim(p)) /\ WF_pair_vars(part = "pair" /\ GrabAsAsked(p))
          /\ WF_pair_vars(part = "pair" /\ LetGo(p)) /\ WF_pair_vars(part = "pair" /\ YieldCheck(p))
          /\ WF_pair_vars(part = "pair" /\ GiveUp(p))
    /\ WF_key_vars(part = "key" /\ KeyUp) /\ WF_key_vars(part = "key" /\ KeyTime)
    /\ WF_key_vars(part = "key" /\ KeyTick) /\ WF_key_vars(part = "key" /\ KeyLimit)
    /\ WF_dict_vars(part = "dictation" /\ DictMicOff) /\ WF_dict_vars(part = "dictation" /\ DictFlush)
    /\ WF_dict_vars(part = "dictation" /\ DictHear)
    /\ WF_dict_vars(part = "dictation" /\ \E s \in DOMAIN dict_wire : DictWire(s))
    /\ WF_live_vars(part = "live" /\ LiveOff) /\ WF_live_vars(part = "live" /\ LiveHear)
    /\ WF_live_vars(part = "live" /\ live_released = "now" /\ LiveLater /\ live_released' = "no")
    /\ WF_rm_vars(part = "relay" /\ Rem!DeskStep) /\ WF_rm_vars(part = "relay" /\ Rem!PhoneStep)
    /\ WF_rm_vars(part = "relay" /\ Rem!HubServes)
    /\ \A e \in Rem!Ends : WF_rm_vars(part = "relay" /\ Rem!Dials(e))
FairSpec == PartsSpec /\ PartsFairness

-----------------------------------------------------------------------------
(* The properties of the parts that are instances; their modules say what   *)
(* they are about.                                                          *)

\* The types of the parts of one run that state them (see TypeOK of Window, Prompt,
\* HubDoor and PairLock); those of the daemon are in SaidIsRead, as its run is another.
PartsTypeOK ==
    /\ part = "window" => Win!TypeOK
    /\ part = "prompt" => PromptTypeOK
    /\ part = "pair" => PairTypeOK
    /\ part = "door" => DoorTypeOK

\* Once everything said has arrived, a window is busy exactly while its engine
\* is; and what it shows as waiting is, in order, what was typed and not read.
ScreenIsTrue == part = "window" => Win!BusyIsTrue /\ Win!QueueIsUnread
\* What is said, in a window or to the daemon, is read, given back or turned
\* away; and mail at rest in the daemon has had its wake.  The window's screen
\* is true also where a wake finds its news told (ScreenIsTrue has no jobs).
SaidIsRead ==
    /\ part = "window" => Win!MailSettles
    /\ part = "daemon" => Dmn!MailIsRead
    /\ [](/\ part = "window" => Win!BusyIsTrue /\ Win!QueueIsUnread
          /\ part = "daemon" => Dmn!TypeOK /\ Dmn!RestingMailWasWoken)
\* Work that ends in a window with nothing running is told to the model.
QuietEndIsTold == part = "window" => Win!QuietEndIsTold
\* No engine is woken again and again, in a window or in the daemon.
ComesToRest == part \in {"window", "daemon"} => Win!ComesToRest
\* A window that asks for the pairing gets it, and the daemon publishes again
\* once the windows are closed.
LockGoesRound == AskedIsGiven /\ (part = "pair" => DaemonComesBack)
\* When the sockets of a pairing stop breaking a phone ends up with the newest of it.
CatchesUp == part = "relay" => Rem!CatchesUp
\* Samples are of a microphone that is open only while it should be, and of the
\* press they were spoken at (ah-voice/src/capture.rs); a phone's sessions run
\* where the person meant, and as freely as the person said
\* (ah/src/remote/daemon.rs); one process of the machine publishes at most
\* (ah/src/remote/lock.rs); and a rule denies a command however it is spelled
\* (ah-core/src/policy.rs).
OutsideHolds ==
    /\ part = "microphone" => MicHolds
    /\ part = "grants" => GrantsHold
    /\ part = "pair" => OnePublishes
    /\ part = "deny" => DeniedAsMeant
\* Dictated words that are shown grey are committed or dropped, whichever way
\* they were transcribed.
GreyTurnsWhite == GreyIsSettled /\ GreyIsCommitted
\* The talk key: a release belongs to the press it ends, and a microphone that
\* is on goes off.
KeyIsHeard == []TakesItsOwn /\ MicShuts
\* What comes in pieces is kept as it came: the output of a job, phrases that are
\* transcribed side by side, the words of a request in the conversation, and what
\* is written of a session, its name, model and plan, wherever a crash fell.
KeptInOrder ==
    /\ part = "kept" => OutputHolds
    /\ part = "dictation" => SaidInOrder
    /\ part = "stream" => ShownIsKept
    /\ part = "sessions" => ReadsAsHeld
\* The plan never strands the model, and closes a task with what is below it.
PlanHolds == []SomethingReady /\ ClosesWhole
=============================================================================
