------------------------------ MODULE TalkKey ------------------------------
(***************************************************************************)
(* The talk key of dictation (Talk in ah/src/tui/voice.rs, and talk_key in *)
(* ah/src/tui/mod.rs): one key that types a space when it is tapped and    *)
(* opens the microphone while it is held, on terminals that report its     *)
(* release and on terminals that do not.  Time is counted in steps of      *)
(* about a tenth of a second, from the last event of the key.              *)
(***************************************************************************)
EXTENDS Integers, Sequences, SequencesExt

CONSTANTS
    KeyModes,      \* what voice.hotkey_mode may say: "Probing" is auto
    KeyReports,    \* whether the terminal reports releases: a set of BOOLEAN
    KeyBoxes,      \* whether a box may come up over the input
    KeyStrokes     \* bound: keys struck, and characters in the input

RepeatMax == 1     \* REPEAT_MAX
Dwell     == 2     \* voice.dwell_ms
FirstGap  == 4     \* voice.release_grace_ms
MinGap    == 1     \* MIN_GAP
GapFactor == 3     \* GAP_FACTOR
TapOver   == 5     \* TAP_OVER
Delay     == 3     \* external: a keyboard starts repeating after this
Never     == 9     \* Talk::last is None; any time longer than all of the above is one

VARIABLES
    key_reports, key_finger, key_repeats,       \* the terminal, the finger and whether the
                                                \* keyboard repeats the key; external
    key_hold, key_saw, key_since, key_gap, key_pending, key_down,    \* Talk
    key_listening, key_box,                     \* Session::listen_since; a box is up
    key_text,      \* the input: spaces of taps, letters, and what came in since the talk
                   \* key went down: its own spaces ("held") and letters ("rolled")
    key_struck, key_eaten                       \* histories: keys struck; what else was taken back

key_finger_vars == <<key_reports, key_finger, key_repeats>>
key_talk == <<key_hold, key_saw, key_since, key_gap, key_pending, key_down>>
key_vars == <<key_finger_vars, key_talk, key_listening, key_box, key_text, key_struck, key_eaten>>

KeyInit ==
    /\ key_reports \in KeyReports /\ key_finger = FALSE /\ key_repeats = "off"
    /\ key_hold \in KeyModes /\ key_saw = FALSE /\ key_since = Never /\ key_gap = FirstGap
    /\ key_pending = 0 /\ key_down = FALSE
    /\ key_listening = FALSE /\ key_box = FALSE
    /\ key_text = <<>> /\ key_struck = 0 /\ key_eaten = 0

\* voice_act: the keystrokes of the hold come back out, by backspace.
Start(undo) ==
    LET kept == SubSeq(key_text, 1, Len(key_text) - undo)
        taken == SubSeq(key_text, Len(kept) + 1, Len(key_text))
    IN /\ key_listening' = TRUE
       /\ key_text' = kept
       /\ key_eaten' = key_eaten + Len(SelectSeq(taken, LAMBDA c : c \notin {"held", "rolled"}))
       /\ key_gap' = FirstGap
StopListening == key_listening' = FALSE /\ key_since' = Never

Typed(c) == /\ Len(key_text) < KeyStrokes
            /\ key_text' = Append(key_text, c)
            /\ UNCHANGED <<key_listening, key_eaten, key_gap>>
ClampGap(g) == IF g < MinGap THEN MinGap ELSE IF g > FirstGap THEN FirstGap ELSE g

\* Talk::press, for a press and for a repeat, and what the session and the
\* input make of it.
Press ==
    /\ key_down' = TRUE
    /\ \/ /\ key_hold = "Toggle" /\ key_listening
          /\ StopListening
          /\ UNCHANGED <<key_gap, key_pending, key_text, key_eaten>>
       \/ /\ key_hold = "Toggle" /\ ~key_listening
          /\ key_since' = 0 /\ Start(0) /\ UNCHANGED key_pending
       \/ /\ key_hold # "Toggle" /\ key_listening
          /\ key_since' = 0
          /\ key_gap' = IF key_since < key_gap THEN ClampGap(key_since * GapFactor) ELSE key_gap
          /\ UNCHANGED <<key_listening, key_pending, key_text, key_eaten>>
       \/ /\ key_hold # "Toggle" /\ ~key_listening /\ key_since <= RepeatMax
          /\ key_since' = 0 /\ key_pending' = 0 /\ Start(key_pending)
       \/ /\ key_hold # "Toggle" /\ ~key_listening /\ key_since > RepeatMax
          /\ key_since' = 0
          /\ key_pending' = IF key_since > TapOver THEN 1 ELSE key_pending + 1
          /\ Typed("held")
    /\ UNCHANGED <<key_hold, key_saw>>

\* What the stroke that is over has typed is a space that was meant, and what was
\* typed meanwhile a letter like others.
Meant == [i \in DOMAIN key_text |->
            CASE key_text[i] = "held" -> "space" [] key_text[i] = "rolled" -> "letter"
              [] OTHER -> key_text[i]]

\* Talk::release.
Release ==
    /\ key_saw' = TRUE /\ key_down' = FALSE
    /\ key_hold' = IF key_hold \in {"Probing", "Gap"} THEN "Push" ELSE key_hold
    /\ IF key_listening /\ key_hold # "Toggle"
       THEN StopListening /\ UNCHANGED key_pending
       ELSE key_pending' = 0 /\ UNCHANGED <<key_listening, key_since>>
    /\ UNCHANGED key_gap

-----------------------------------------------------------------------------
(* The finger, and what the terminal makes of it.  An event that comes while *)
(* a box has the keyboard is not the talk key's.                             *)

Elsewhere == UNCHANGED <<key_talk, key_listening, key_text, key_eaten>>

KeyDown ==
    /\ ~key_finger /\ key_struck < KeyStrokes
    /\ key_finger' = TRUE /\ key_repeats' = "soon" /\ key_struck' = key_struck + 1
    /\ IF key_box THEN Elsewhere ELSE Press
    /\ UNCHANGED <<key_reports, key_box>>
KeyAgain ==
    /\ \/ key_repeats = "on" /\ key_since <= RepeatMax
       \/ key_repeats = "soon" /\ key_since = Delay
    /\ key_repeats' = "on"
    /\ IF key_box THEN Elsewhere ELSE Press
    /\ UNCHANGED <<key_reports, key_finger, key_box, key_struck>>
KeyUp ==
    /\ key_finger /\ key_finger' = FALSE /\ key_repeats' = "off"
    /\ key_text' = Meant
    /\ IF key_reports /\ ~key_box THEN Release
       ELSE UNCHANGED <<key_talk, key_listening>>
    /\ UNCHANGED <<key_reports, key_box, key_struck, key_eaten>>
\* Another key: what it types.  Struck while the talk key is down it may end that
\* one's repeats, as most keyboards repeat the last key only.
KeyLetter ==
    /\ ~key_box /\ Typed(IF key_finger THEN "rolled" ELSE "letter")
    /\ key_repeats' \in {key_repeats, "off"}
    /\ UNCHANGED <<key_reports, key_finger, key_talk, key_box, key_struck>>

\* Time passes: not past the next repeat of a key that is down, nor, as the
\* event loop looks in several times a dwell and a gap, past what Talk::tick
\* decides on a clock.
HeldLong == ~key_listening /\ key_hold # "Toggle" /\ key_saw /\ key_down /\ key_pending > 0
            /\ key_since >= Dwell
\* A mutant: in push mode only a release ends a hold.
GapOverHeld == key_listening /\ key_hold \in {"Probing", "Gap"} /\ key_since > key_gap
GapOver  == key_listening /\ key_hold # "Toggle" /\ ~(key_hold = "Push" /\ key_saw)
            /\ key_since > key_gap
RepeatDue == \/ key_repeats = "on" /\ key_since >= RepeatMax
             \/ key_repeats = "soon" /\ key_since >= Delay
KeyTime ==
    /\ key_since < Never /\ ~RepeatDue /\ ~HeldLong /\ ~GapOver
    /\ key_since' = key_since + 1
    /\ UNCHANGED <<key_finger_vars, key_hold, key_saw, key_gap, key_pending, key_down, key_listening,
                   key_box, key_text, key_struck, key_eaten>>
\* Talk::tick.  (Talk::last None counts as no silence at all.)
KeyTick ==
    /\ \/ HeldLong /\ Start(key_pending) /\ key_pending' = 0 /\ UNCHANGED <<key_hold, key_since>>
       \/ /\ GapOver /\ key_since < Never /\ StopListening
          /\ key_hold' = IF key_hold = "Probing" THEN "Gap" ELSE key_hold
          /\ UNCHANGED <<key_gap, key_pending, key_text, key_eaten>>
    /\ UNCHANGED <<key_finger_vars, key_saw, key_down, key_box, key_struck>>
\* Session::tick: a toggled microphone is on for voice.max_listen_secs at most.
KeyLimit ==
    /\ key_hold = "Toggle" /\ key_listening /\ StopListening
    /\ UNCHANGED <<key_finger_vars, key_hold, key_saw, key_gap, key_pending, key_down, key_box, key_text,
                   key_struck, key_eaten>>
\* A question, a picker or a list comes up over the input, and goes.
KeyBox ==
    /\ KeyBoxes /\ key_box' = ~key_box
    /\ UNCHANGED <<key_finger_vars, key_talk, key_listening, key_text, key_struck, key_eaten>>

KeyNext == KeyDown \/ KeyAgain \/ KeyUp \/ KeyLetter \/ KeyTime \/ KeyTick \/ KeyLimit \/ KeyBox

\* The finger comes up, time passes, and the event loop looks in (wake_in).
KeyFairness == WF_key_vars(KeyUp) /\ WF_key_vars(KeyTime) /\ WF_key_vars(KeyTick) /\ WF_key_vars(KeyLimit)
KeySpec == KeyInit /\ [][KeyNext]_key_vars /\ KeyFairness

-----------------------------------------------------------------------------
(* Properties. *)

\* Where releases are reported, what a hold takes back out of the input came in
\* since its key went down: the spaces of earlier taps and what was typed before
\* stay.  (A letter struck over the key while it was down goes in its place.)
TakesItsOwn == key_reports => key_eaten = 0

\* A microphone that is on goes off: nobody has to press again for it.
MicShuts == key_listening ~> ~key_listening
=============================================================================
