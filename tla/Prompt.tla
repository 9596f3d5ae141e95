------------------------------- MODULE Prompt -------------------------------
(***************************************************************************)
(* A question put to whoever is watching a session in a window             *)
(* (ChannelIo::ask_permission and ask_user, ah/src/app.rs).  The engine    *)
(* sends it out as an event with a number and waits on a channel for an    *)
(* answer that carries none.  The event passes the forwarder, which tells  *)
(* the publisher (ah/src/remote/publisher.rs), and then the UI thread      *)
(* (ah/src/tui/mod.rs); either screen may answer.                          *)
(***************************************************************************)
EXTENDS Naturals, Sequences, FiniteSets

CONSTANTS
    MaxPrompts,    \* bound: questions asked
    MaxTurns,      \* bound: turns started
    MaxStops,      \* bound: times the cancel flag is raised
    MaxPhone,      \* bound: answers sent from a phone
    Phones         \* TRUE when a phone is attached

ASSUME PromptAssumption == MaxPrompts \in Nat

\* A permission any yes to this tool answers, one about this call in
\* particular, and a question of the model's own (ask_user).
Kinds == {"standing", "special", "ask"}
Channel(k) == IF k = "ask" THEN "ask" ELSE "perm"
Channels == {"perm", "ask"}
Prompts == 1..MaxPrompts

VARIABLES
    at,              \* where the engine thread is
    prompt_cancel,   \* Engine::cancel
    next,            \* ChannelIo::next_prompt, the last number given
    kind,            \* what each question is
    chan,            \* perm_rx and ask_rx: the question each answer was meant for
    got,             \* for which question the answer to each was given; 0 for none
    prompt_out,      \* events, engine to forwarder
    prompt_ui,       \* events, forwarder to UI
    box,             \* App::pending_perm and App::ask: the number on screen, 0 for none
    always,          \* App::always_allow
    prompt_pending,  \* Shared::pending, one slot for the session, 0 for none
    accepted,        \* a phone's answer the publisher let in and has not acted on
    prompt_stops, turns, phoned  \* the budgets spent

engine    == <<at, next, kind, got>>
publisher == <<prompt_pending, accepted, phoned>>
screen    == <<box, always>>
prompt_vars == <<engine, prompt_cancel, chan, prompt_out, prompt_ui, screen, publisher, prompt_stops, turns>>

PromptInit ==
    /\ at = "idle" /\ prompt_cancel = FALSE /\ next = 0
    /\ kind = [i \in Prompts |-> "none"] /\ got = [i \in Prompts |-> 0]
    /\ chan = [c \in Channels |-> <<>>]
    /\ prompt_out = <<>> /\ prompt_ui = <<>>
    /\ box = [c \in Channels |-> 0] /\ always = FALSE
    /\ prompt_pending = 0 /\ accepted = 0
    /\ prompt_stops = 0 /\ turns = 0 /\ phoned = 0

Asked(i)    == [is |-> "asked", id |-> i]
Answered(i) == [is |-> "answered", id |-> i]
TurnOver    == [is |-> "over", id |-> 0]
AnswerWith(c, i) == chan' = [chan EXCEPT ![c] = Append(@, i)]
Now == Channel(kind[next])

-----------------------------------------------------------------------------
(* The engine thread. *)

StartTurn ==
    /\ at = "idle" /\ turns < MaxTurns
    /\ turns' = turns + 1
    /\ prompt_cancel' = FALSE
    /\ at' = "turn"
    /\ UNCHANGED <<next, kind, got, chan, prompt_out, prompt_ui, screen, publisher, prompt_stops>>

\* ask_permission and ask_user: take a number and throw away what is left in
\* the channel.  The flag is not looked at, so the calls of one batch are all
\* asked about.
Number ==
    /\ at = "turn" /\ next < MaxPrompts
    /\ next' = next + 1
    /\ \E k \in Kinds :
         /\ kind' = [kind EXCEPT ![next + 1] = k]
         /\ chan' = [chan EXCEPT ![Channel(k)] = <<>>]
    /\ at' = "ready"
    /\ UNCHANGED <<prompt_cancel, got, prompt_out, prompt_ui, screen, publisher, prompt_stops, turns>>

\* A mutant: the channel is emptied when the question is already out.
PutThenDrain ==
    /\ \/ /\ at = "ready"
          /\ prompt_out' = Append(prompt_out, Asked(next))
          /\ at' = "waiting"
          /\ UNCHANGED chan
       \/ /\ at = "waiting" /\ chan[Now] # <<>>
          /\ chan' = [chan EXCEPT ![Now] = <<>>]
          /\ UNCHANGED <<at, prompt_out>>
    /\ UNCHANGED <<next, kind, got, prompt_cancel, prompt_ui, screen, publisher, prompt_stops, turns>>

\* The question goes out.
PutOut ==
    /\ at = "ready"
    /\ prompt_out' = Append(prompt_out, Asked(next))
    /\ at' = "waiting"
    /\ UNCHANGED <<next, kind, got, prompt_cancel, chan, prompt_ui, screen, publisher, prompt_stops, turns>>

\* The first thing in the channel is the answer.
Receive ==
    /\ at = "waiting" /\ chan[Now] # <<>>
    /\ got' = [got EXCEPT ![next] = Head(chan[Now])]
    /\ chan' = [chan EXCEPT ![Now] = Tail(@)]
    /\ at' = "answered"
    /\ UNCHANGED <<next, kind, prompt_cancel, prompt_out, prompt_ui, screen, publisher, prompt_stops, turns>>

\* Whoever is still holding the question can put it down.
PutDown ==
    /\ at = "answered"
    /\ prompt_out' = Append(prompt_out, Answered(next))
    /\ at' = "turn"
    /\ UNCHANGED <<next, kind, got, prompt_cancel, chan, prompt_ui, screen, publisher, prompt_stops, turns>>

EndTurn ==
    /\ at = "turn"
    /\ prompt_out' = Append(prompt_out, TurnOver)
    /\ at' = "idle"
    /\ UNCHANGED <<next, kind, got, prompt_cancel, chan, prompt_ui, screen, publisher, prompt_stops, turns>>

Engine == StartTurn \/ Number \/ PutOut \/ Receive \/ PutDown \/ EndTurn

-----------------------------------------------------------------------------
(* The forwarder: Publisher::observe, then the UI's queue. *)

Forward ==
    /\ prompt_out # <<>>
    /\ LET e == Head(prompt_out) IN
       /\ prompt_pending' = IF e.is = "asked" THEN e.id
                            ELSE IF e.is = "answered" THEN 0 ELSE prompt_pending
       /\ prompt_ui' = Append(prompt_ui, e)
    /\ prompt_out' = Tail(prompt_out)
    /\ UNCHANGED <<engine, prompt_cancel, chan, screen, accepted, phoned, prompt_stops, turns>>

-----------------------------------------------------------------------------
(* The UI thread. *)

Handling(e) ==
    /\ prompt_ui # <<>> /\ e = Head(prompt_ui)
    /\ prompt_ui' = Tail(prompt_ui)
    /\ UNCHANGED <<engine, prompt_cancel, prompt_out, always, publisher, prompt_stops, turns>>

\* AskPermission that "always" has answered already.
HandleAlways ==
    \E i \in Prompts :
        /\ kind[i] = "standing" /\ always
        /\ Handling(Asked(i))
        /\ AnswerWith("perm", i)
        /\ UNCHANGED box

\* AskPermission, AskUser: the box goes up.
HandleAsked ==
    \E i \in Prompts :
        /\ ~(kind[i] = "standing" /\ always)
        /\ Handling(Asked(i))
        /\ box' = [box EXCEPT ![Channel(kind[i])] = i]
        /\ UNCHANGED chan


\* Answered: the box with this number comes down.
HandleAnswered ==
    \E i \in Prompts :
        /\ Handling(Answered(i))
        /\ box' = [c \in Channels |-> IF box[c] = i THEN 0 ELSE box[c]]
        /\ UNCHANGED chan

\* Busy(false): both boxes come down, a question with Dismissed.
HandleOver ==
    /\ Handling(TurnOver)
    /\ box' = [c \in Channels |-> 0]
    /\ IF box["ask"] # 0 THEN AnswerWith("ask", box["ask"]) ELSE UNCHANGED chan

\* An answer at the keyboard: y, a, n, Esc, or the question's own keys.
\* AskUser holds the keyboard before a permission does.
PressKey ==
    \E c \in Channels :
        /\ box[c] # 0 /\ (c = "perm" => box["ask"] = 0)
        /\ AnswerWith(c, box[c])
        /\ box' = [box EXCEPT ![c] = 0]
        /\ always' \in IF c = "perm" /\ kind[box[c]] = "standing"
                       THEN {always, TRUE} ELSE {always}
        /\ UNCHANGED <<engine, prompt_cancel, prompt_out, prompt_ui, publisher, prompt_stops, turns>>

\* cancel_turn: the flag goes up and what is on screen is answered no.
CancelTurn ==
    /\ prompt_stops < MaxStops /\ at # "idle"
    /\ prompt_stops' = prompt_stops + 1
    /\ prompt_cancel' = TRUE
    /\ chan' = [c \in Channels |->
                  IF box[c] = 0 THEN chan[c] ELSE Append(chan[c], box[c])]
    /\ box' = [c \in Channels |-> 0]
    /\ UNCHANGED <<engine, prompt_out, prompt_ui, always, publisher, turns>>

UI == HandleAlways \/ HandleAsked \/ HandleAnswered \/ HandleOver

-----------------------------------------------------------------------------
(* The publisher's thread. *)

\* AnswerPermission, AnswerAsk: `asking` looks whether this question is the
\* one that is up,
PhoneAnswer ==
    /\ Phones /\ accepted = 0 /\ prompt_pending # 0
    /\ phoned < MaxPhone
    /\ phoned' = phoned + 1
    /\ accepted' = prompt_pending
    /\ UNCHANGED <<engine, prompt_cancel, chan, prompt_out, prompt_ui, screen, prompt_pending, prompt_stops, turns>>


\* then Window::act puts the answer in the channel.
PhoneAct ==
    /\ accepted # 0
    /\ AnswerWith(Channel(kind[accepted]), accepted)
    /\ accepted' = 0
    /\ UNCHANGED <<engine, prompt_cancel, prompt_out, prompt_ui, screen, prompt_pending, phoned, prompt_stops, turns>>

\* Act::Interrupt: the flag and nothing else.
PhoneInterrupt ==
    /\ Phones /\ accepted = 0
    /\ prompt_stops < MaxStops /\ at # "idle"
    /\ prompt_stops' = prompt_stops + 1
    /\ prompt_cancel' = TRUE
    /\ UNCHANGED <<engine, chan, prompt_out, prompt_ui, screen, publisher, turns>>

PromptNext == Engine \/ Forward \/ UI \/ PressKey \/ CancelTurn
        \/ PhoneAnswer \/ PhoneAct \/ PhoneInterrupt

(* Every thread keeps running; nobody at either screen owes an answer. *)
PromptFairness ==
    /\ WF_prompt_vars(Engine) /\ WF_prompt_vars(Forward)
    /\ WF_prompt_vars(UI) /\ WF_prompt_vars(PhoneAct)

PromptSpec == PromptInit /\ [][PromptNext]_prompt_vars /\ PromptFairness

-----------------------------------------------------------------------------
Events == [is : {"asked", "answered", "over"}, id : 0..MaxPrompts]

\* With the types: an answer is in the channel, and a question in the box, of
\* its own kind.
PromptTypeOK ==
    /\ at \in {"idle", "turn", "ready", "waiting", "answered"}
    /\ prompt_cancel \in BOOLEAN /\ next \in 0..MaxPrompts
    /\ kind \in [Prompts -> Kinds \cup {"none"}] /\ got \in [Prompts -> 0..MaxPrompts]
    /\ chan \in [Channels -> Seq(Prompts)]
    /\ prompt_out \in Seq(Events) /\ prompt_ui \in Seq(Events)
    /\ box \in [Channels -> 0..MaxPrompts] /\ always \in BOOLEAN
    /\ \A c \in Channels : \A i \in {box[c]} \cup {chan[c][j] : j \in DOMAIN chan[c]} :
          i # 0 => Channel(kind[i]) = c
    /\ prompt_pending \in 0..MaxPrompts /\ accepted \in 0..MaxPrompts
    /\ prompt_stops \in 0..MaxStops /\ turns \in 0..MaxTurns /\ phoned \in 0..MaxPhone

(* While the engine waits and everything sent has arrived, the question is *)
(* on the desk's screen and a phone may answer it: nobody waits for an     *)
(* answer that can no longer be given (the order of drain and send).       *)
CanBeAnswered ==
    at = "waiting" /\ prompt_out = <<>> /\ prompt_ui = <<>> /\ chan[Now] = <<>>
        => box[Now] = next /\ prompt_pending = next

(* Once every event has arrived, a question that is over is on no screen:  *)
(* the box on the losing screen comes down by itself.                      *)
BoxComesDown ==
    prompt_out = <<>> /\ prompt_ui = <<>> /\ at \in {"turn", "idle"}
        => prompt_pending = 0 /\ box["perm"] = 0 /\ box["ask"] = 0

(* The answer a question gets was given to it: the first answer wins and   *)
(* a later one is dropped, never applied to the question after.            *)
AnswerFits == \A i \in Prompts : got[i] \in {0, i}

(* A question that waits is where it can be answered, and one that is over *)
(* is on no screen.                                                        *)
QuestionsHold == CanBeAnswered /\ BoxComesDown
=============================================================================
