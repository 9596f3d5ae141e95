----------------------------- MODULE Dictation -----------------------------
(***************************************************************************)
(* Dictation once the microphone is on (Session in ah/src/tui/voice.rs,    *)
(* run in ah-voice/src/lib.rs), by one of two routes.  A worker cuts what  *)
(* is said into phrases, each phrase is a request of its own, and the      *)
(* answers come back in any order to a window that shows them grey and     *)
(* commits them together.  Or (ah-voice/src/deepgram.rs, ring.rs, Spoken)  *)
(* what is heard is passed from ring to ring to a server that answers with *)
(* guesses and with words that are settled, over a socket that may break.  *)
(* A word is a number, in the order of saying.                             *)
(***************************************************************************)
EXTENDS Naturals, Sequences, SequencesExt, FiniteSets

CONSTANTS
    DictWords,      \* bound: words said
    DictParallel,   \* voice.max_inflight
    DictBudget,     \* voice.budget_usd, in phrases; 0 is none
    DictDrops,      \* bound: times dictation is dropped
    LiveSays,       \* bound: words said
    LivePresses,    \* bound: times the key is pressed
    LiveBreaks,     \* bound: times the socket breaks or cannot be dialled
    LiveIdle,       \* whether voice.idle_secs is set
    LiveChan        \* bound: guesses under way to the window

VARIABLES
    dict_on,        \* Session::listen_since, and the flag the worker reads
    dict_said,      \* words said so far
    dict_open,      \* Chunker::open
    dict_seq,       \* phrases handed over by the worker
    dict_chan,      \* Msg::Voice events on their way to the window
    dict_wire,      \* transcribe: a thread for each request out
    dict_chunks, dict_waiting, dict_inflight, dict_spent,    \* Session
    dict_input,     \* what was committed to the editor
    dict_drops,
    live_on, live_flush,      \* Live::listening and flush
    live_mic, live_ring,      \* the microphone's ring, and the one to the socket
    live_up,                  \* the socket
    live_heard,               \* external: what Deepgram has heard and not settled
    live_chan,                \* Event::Live on their way to the window
    live_said, live_guess, live_released,    \* Spoken: "no", "now" or "past" SETTLE
    live_input,               \* the words committed to the editor
    live_words, live_breaks, live_presses   \* bounds

dict_talk == <<dict_on, dict_said, dict_open, dict_seq>>
dict_session == <<dict_chunks, dict_waiting, dict_inflight, dict_spent>>
dict_vars == <<dict_talk, dict_chan, dict_wire, dict_session, dict_input, dict_drops>>

DictNothing == [s \in {} |-> <<>>]
DictInit ==
    /\ dict_on = FALSE /\ dict_said = 0 /\ dict_open = <<>> /\ dict_seq = 0
    /\ dict_chan = <<>> /\ dict_wire = DictNothing
    /\ dict_chunks = DictNothing /\ dict_waiting = <<>> /\ dict_inflight = 0 /\ dict_spent = 0
    /\ dict_input = <<>> /\ dict_drops = 0

-----------------------------------------------------------------------------
(* The worker.  A phrase with too little speech in it is dropped.           *)

DictHandOver(words) ==
    \/ /\ dict_seq' = dict_seq + 1
       /\ dict_chan' = Append(dict_chan, [kind |-> "phrase", seq |-> dict_seq', words |-> words])
    \/ UNCHANGED <<dict_seq, dict_chan>>

DictSay ==
    /\ dict_on /\ dict_said < DictWords
    /\ dict_said' = dict_said + 1 /\ dict_open' = Append(dict_open, dict_said')
    /\ UNCHANGED <<dict_on, dict_seq, dict_chan, dict_wire, dict_session, dict_input, dict_drops>>
\* Chunker::close at a pause, with nothing left open; Chunker::cut of a phrase
\* that has run on, at its quietest place.
DictCut ==
    /\ dict_on
    /\ \E k \in 1..Len(dict_open) :
          /\ DictHandOver(SubSeq(dict_open, 1, k))
          /\ dict_open' = SubSeq(dict_open, k + 1, Len(dict_open))
    /\ UNCHANGED <<dict_on, dict_said, dict_wire, dict_session, dict_input, dict_drops>>
\* The worker sees that the key is up, a moment after the window.
DictFlush ==
    /\ ~dict_on /\ dict_open # <<>>
    /\ DictHandOver(dict_open) /\ dict_open' = <<>>
    /\ UNCHANGED <<dict_on, dict_said, dict_wire, dict_session, dict_input, dict_drops>>

-----------------------------------------------------------------------------
(* A request.  Its words come one by one; it is tried again once, and only  *)
(* if none came.  (An endpoint that takes whole clips is not tried again.)  *)

DictTell(ev) == dict_chan' = Append(dict_chan, ev)
DictEnded(s) == dict_wire' = [t \in DOMAIN dict_wire \ {s} |-> dict_wire[t]]
DictWire(s) ==
    LET r == dict_wire[s] IN
    /\ \/ /\ r.sent < Len(r.words)
          /\ DictTell([kind |-> "delta", seq |-> s, words |-> <<r.words[r.sent + 1]>>])
          /\ dict_wire' = [dict_wire EXCEPT ![s].sent = @ + 1]
       \/ /\ r.sent = Len(r.words)
          /\ DictTell([kind |-> "done", seq |-> s, words |-> <<>>]) /\ DictEnded(s)
       \/ /\ r.sent = 0 /\ ~r.again
          /\ dict_wire' = [dict_wire EXCEPT ![s].again = TRUE] /\ UNCHANGED dict_chan
       \/ DictTell([kind |-> "failed", seq |-> s, words |-> <<>>]) /\ DictEnded(s)
    /\ UNCHANGED <<dict_talk, dict_session, dict_input, dict_drops>>

-----------------------------------------------------------------------------
(* The window.  Every step of it ends by looking whether all is settled.    *)

\* Session::pending: the chunks in the order they were spoken.
DictPending(chunks) == FlattenSeq([i \in 1..dict_seq |-> IF i \in DOMAIN chunks THEN chunks[i].text ELSE <<>>])
\* A mutant: what is still on the wire is not waited for.
DictSettledEarly(on, chunks, waiting, inflight) == ~on /\ waiting = <<>> /\ \E s \in DOMAIN chunks : chunks[s].done
\* Session::settled.
DictSettled(on, chunks, waiting, inflight) ==
    ~on /\ waiting = <<>> /\ inflight = 0 /\ \A s \in DOMAIN chunks : chunks[s].done
\* voice_settle.
DictSettle(on, chunks, waiting, inflight) ==
    /\ dict_on' = on /\ dict_waiting' = waiting /\ dict_inflight' = inflight
    /\ IF DictSettled(on, chunks, waiting, inflight)
       THEN dict_input' = dict_input \o DictPending(chunks) /\ dict_chunks' = DictNothing
       ELSE dict_chunks' = chunks /\ UNCHANGED dict_input

\* Session::pump, then voice_settle.
DictDispatched(ps) == [s \in {p.seq : p \in ToSet(ps)} |->
    [words |-> (CHOOSE p \in ToSet(ps) : p.seq = s).words, sent |-> 0, again |-> FALSE]]
DictPumpThenSettle(on, chunks, waiting, inflight) ==
    LET n == IF inflight >= DictParallel THEN 0
             ELSE IF Len(waiting) < DictParallel - inflight THEN Len(waiting) ELSE DictParallel - inflight
        out == DictDispatched(SubSeq(waiting, 1, n))
    IN /\ dict_wire' = [s \in DOMAIN dict_wire \cup DOMAIN out |->
                           IF s \in DOMAIN out THEN out[s] ELSE dict_wire[s]]
       /\ DictSettle(on, chunks, SubSeq(waiting, n + 1, Len(waiting)), inflight + n)

DictOverBudget(spent) == DictBudget > 0 /\ spent >= DictBudget
DictLess(n) == IF n = 0 THEN 0 ELSE n - 1

\* Session::phrase.
TakePhrase(ev) ==
    /\ IF DictOverBudget(dict_spent)
       THEN DictSettle(FALSE, dict_chunks, dict_waiting, dict_inflight) /\ UNCHANGED dict_wire
       ELSE DictPumpThenSettle(dict_on,
                [s \in DOMAIN dict_chunks \cup {ev.seq} |->
                    IF s = ev.seq THEN [text |-> <<>>, done |-> FALSE] ELSE dict_chunks[s]],
                Append(dict_waiting, ev), dict_inflight)
    /\ UNCHANGED dict_spent
DictChunk(s, c) == IF s \in DOMAIN dict_chunks THEN [dict_chunks EXCEPT ![s] = c] ELSE dict_chunks
DictTextOf(s) == IF s \in DOMAIN dict_chunks THEN dict_chunks[s].text ELSE <<>>
\* Session::delta.
TakeDelta(ev) ==
    /\ DictSettle(dict_on, DictChunk(ev.seq, [text |-> DictTextOf(ev.seq) \o ev.words, done |-> FALSE]),
              dict_waiting, dict_inflight)
    /\ UNCHANGED <<dict_wire, dict_spent>>
\* Session::done.  What the filter takes for noise becomes nothing.
TakeDone(ev) ==
    /\ dict_spent' = dict_spent + 1
    /\ \E text \in {DictTextOf(ev.seq), <<>>} :
          DictPumpThenSettle(dict_on /\ ~DictOverBudget(dict_spent'), DictChunk(ev.seq, [text |-> text, done |-> TRUE]),
                         dict_waiting, DictLess(dict_inflight))
\* A mutant: a phrase that never came back does not resolve.
TakeFailedOpen(ev) ==
    /\ DictPumpThenSettle(dict_on, DictChunk(ev.seq, [text |-> <<>>, done |-> FALSE]), dict_waiting, DictLess(dict_inflight))
    /\ UNCHANGED dict_spent
\* Session::failed.
TakeFailed(ev) ==
    /\ DictPumpThenSettle(dict_on, DictChunk(ev.seq, [text |-> <<>>, done |-> TRUE]), dict_waiting, DictLess(dict_inflight))
    /\ UNCHANGED dict_spent

\* handle_voice.
DictHear ==
    /\ dict_chan # <<>> /\ dict_chan' = Tail(dict_chan)
    /\ LET ev == Head(dict_chan) IN
          CASE ev.kind = "phrase" -> TakePhrase(ev)
            [] ev.kind = "delta"  -> TakeDelta(ev)
            [] ev.kind = "done"   -> TakeDone(ev)
            [] ev.kind = "failed" -> TakeFailed(ev)
    /\ UNCHANGED <<dict_said, dict_open, dict_seq, dict_drops>>
\* talk_key and Session::tick: the microphone goes on, and off.
DictMicOn ==
    /\ ~dict_on /\ dict_said < DictWords /\ dict_on' = TRUE
    /\ UNCHANGED <<dict_said, dict_open, dict_seq, dict_chan, dict_wire, dict_session, dict_input, dict_drops>>
DictMicOff ==
    /\ dict_on /\ DictSettle(FALSE, dict_chunks, dict_waiting, dict_inflight)
    /\ UNCHANGED <<dict_said, dict_open, dict_seq, dict_chan, dict_wire, dict_spent, dict_drops>>
\* Session::discard, by the cancel key: what is on the wire comes back to nothing.
DictDiscard ==
    /\ dict_on \/ dict_waiting # <<>> \/ DOMAIN dict_chunks # {}
    /\ dict_drops < DictDrops /\ dict_drops' = dict_drops + 1
    /\ dict_on' = FALSE /\ dict_chunks' = DictNothing /\ dict_waiting' = <<>>
    /\ UNCHANGED <<dict_said, dict_open, dict_seq, dict_chan, dict_wire, dict_inflight, dict_spent, dict_input>>

DictNext == DictSay \/ DictCut \/ DictFlush \/ (\E s \in DOMAIN dict_wire : DictWire(s)) \/ DictHear \/ DictMicOn \/ DictMicOff \/ DictDiscard

\* The key comes up or the time for listening is over, the worker and the event
\* loop run, and a request ends in an answer, an error or its timeout.
DictFairness ==
    /\ WF_dict_vars(DictMicOff) /\ WF_dict_vars(DictFlush) /\ WF_dict_vars(DictHear)
    /\ WF_dict_vars(\E s \in DOMAIN dict_wire : DictWire(s))

-----------------------------------------------------------------------------
(* The socket.                                                              *)

live_key == <<live_on, live_flush, live_presses>>
live_sound == <<live_mic, live_ring, live_words>>
live_socket == <<live_up, live_breaks>>
live_spoken == <<live_said, live_guess, live_released>>
live_vars == <<live_key, live_sound, live_socket, live_heard, live_chan, live_spoken, live_input>>

LiveInit ==
    /\ live_on = FALSE /\ live_flush = FALSE /\ live_mic = <<>> /\ live_ring = <<>>
    /\ live_up = FALSE /\ live_heard = <<>> /\ live_chan = <<>>
    /\ live_said = <<>> /\ live_guess = <<>> /\ live_released = "no"
    /\ live_input = {} /\ live_words = 0 /\ live_breaks = 0 /\ live_presses = 0

-----------------------------------------------------------------------------
(* The microphone's worker: what it took before it saw the key come up goes *)
(* on to the other ring.                                                    *)

LiveSay ==
    /\ live_on /\ live_words < LiveSays
    /\ live_words' = live_words + 1 /\ live_mic' = Append(live_mic, live_words')
    /\ UNCHANGED <<live_key, live_ring, live_socket, live_heard, live_chan, live_spoken, live_input>>
LiveWorker ==
    /\ live_mic # <<>>
    /\ live_ring' = live_ring \o live_mic /\ live_mic' = <<>>
    /\ UNCHANGED <<live_key, live_words, live_socket, live_heard, live_chan, live_spoken, live_input>>

-----------------------------------------------------------------------------
(* A tick of the socket's thread.                                           *)

\* It holds an idle socket, or drops it after a while.
IdleOut == live_up /\ ~live_on /\ LiveIdle /\ ~live_flush
\* It dials whenever it has no socket; what was said before it is up is stale.
LiveDial ==
    /\ ~live_up /\ live_ring' = <<>>
    /\ \/ live_up' = TRUE /\ UNCHANGED live_breaks
       \/ live_breaks < LiveBreaks /\ live_breaks' = live_breaks + 1 /\ UNCHANGED live_up
    /\ UNCHANGED <<live_key, live_mic, live_words, live_heard, live_chan, live_spoken, live_input>>
LiveIdleOut ==
    /\ IdleOut /\ live_up' = FALSE /\ live_heard' = <<>>
    /\ UNCHANGED <<live_key, live_sound, live_breaks, live_chan, live_spoken, live_input>>
\* Audio out: the tail at key-up, and nothing while idle.
LiveSend ==
    /\ live_up /\ (live_ring # <<>> \/ (~live_on /\ live_flush))
    /\ live_ring' = <<>>
    /\ live_heard' = IF live_on \/ live_flush THEN live_heard \o live_ring ELSE live_heard
    /\ live_flush' = (live_on /\ live_flush)
    /\ UNCHANGED <<live_on, live_presses, live_mic, live_words, live_socket, live_chan, live_spoken, live_input>>
LiveBreak ==
    /\ live_up /\ live_breaks < LiveBreaks
    /\ live_up' = FALSE /\ live_breaks' = live_breaks + 1 /\ live_heard' = <<>>
    /\ UNCHANGED <<live_key, live_sound, live_chan, live_spoken, live_input>>

\* External: Deepgram guesses at what is not settled, settles the first of it,
\* or hears the speaker stop.
LiveAnswers ==
    /\ live_up /\ Len(live_chan) < LiveChan
    /\ \/ \E k \in 1..Len(live_heard) :
             \/ /\ live_chan' = Append(live_chan, [kind |-> "final", words |-> SubSeq(live_heard, 1, k)])
                /\ live_heard' = SubSeq(live_heard, k + 1, Len(live_heard))
             \/ /\ live_chan' = Append(live_chan, [kind |-> "interim", words |-> SubSeq(live_heard, 1, k)])
                /\ UNCHANGED live_heard
       \/ /\ live_heard = <<>> /\ live_words > 0
          /\ live_chan' = Append(live_chan, [kind |-> "end", words |-> <<>>]) /\ UNCHANGED live_heard
    /\ UNCHANGED <<live_key, live_sound, live_socket, live_spoken, live_input>>

-----------------------------------------------------------------------------
(* The window.                                                              *)

Empty(said, guess) == said = <<>> /\ guess = <<>>
\* Spoken::done.
SpokenDone(on, said, guess, released) ==
    /\ ~on
    /\ CASE released = "no"   -> ~Empty(said, guess)
         [] released = "now"  -> said # <<>> /\ guess = <<>>
         [] released = "past" -> TRUE
\* voice_settle, with Spoken::take.
LiveSettle(on, said, guess, released) ==
    IF SpokenDone(on, said, guess, released)
    THEN /\ live_input' = live_input \cup ToSet(said) \cup ToSet(guess)
         /\ live_said' = <<>> /\ live_guess' = <<>> /\ live_released' = "no"
    ELSE /\ live_said' = said /\ live_guess' = guess /\ live_released' = released
         /\ UNCHANGED live_input

\* handle_voice and Session::live_event.
LiveHear ==
    /\ live_chan # <<>> /\ live_chan' = Tail(live_chan)
    /\ LET ev == Head(live_chan) IN
          CASE ev.kind = "interim" -> LiveSettle(live_on, live_said, ev.words, live_released)
            [] ev.kind = "final"   -> LiveSettle(live_on, live_said \o ev.words, <<>>, live_released)
            [] ev.kind = "end"     -> LiveSettle(live_on, live_said, <<>>, live_released)
    /\ UNCHANGED <<live_key, live_sound, live_socket, live_heard>>
\* Session::start_listening and stop_listening, with Live::listen.
LiveOn ==
    /\ ~live_on /\ live_presses < LivePresses /\ live_presses' = live_presses + 1
    /\ live_on' = TRUE /\ live_flush' = FALSE /\ live_released' = "no"
    /\ UNCHANGED <<live_sound, live_socket, live_heard, live_chan, live_said, live_guess, live_input>>
LiveOff ==
    /\ live_on /\ live_on' = FALSE /\ live_flush' = TRUE
    /\ LiveSettle(FALSE, live_said, live_guess, "now")
    /\ UNCHANGED <<live_presses, live_sound, live_socket, live_heard, live_chan>>
\* The event loop looks in while words are waited for, and SETTLE passes.
LiveLater ==
    /\ live_released = "now" \/ ~Empty(live_said, live_guess)
    /\ ~live_on /\ \E r \in {live_released, IF live_released = "now" THEN "past" ELSE live_released} :
          LiveSettle(FALSE, live_said, live_guess, r)
    /\ UNCHANGED <<live_key, live_sound, live_socket, live_heard, live_chan>>

LiveNext ==
    \/ LiveSay \/ LiveWorker \/ LiveDial \/ LiveIdleOut \/ LiveSend \/ LiveBreak
    \/ LiveAnswers \/ LiveHear \/ LiveOn \/ LiveOff \/ LiveLater

\* The key comes up, the event loop runs, and the clock of SETTLE with it.
LiveFairness ==
    /\ WF_live_vars(LiveOff) /\ WF_live_vars(LiveHear)
    /\ WF_live_vars(live_released = "now" /\ LiveLater /\ live_released' = "no")

\* A window dictates by one route or by the other.
DictationNext ==
    \/ DictNext /\ UNCHANGED live_vars
    \/ LiveNext /\ UNCHANGED dict_vars
DictationSpec ==
    /\ DictInit /\ LiveInit /\ [][DictationNext]_<<dict_vars, live_vars>>
    /\ DictFairness /\ LiveFairness

-----------------------------------------------------------------------------
(* Properties. *)

\* Words are committed in the order they were said and never twice, whatever
\* order the answers came in; the count of requests out is that of those whose
\* end the window has not seen; and, unless dictation was dropped, every phrase
\* that is still to be answered has its place among the grey words, so that
\* nothing is committed without it.
SaidInOrder ==
    /\ \A i \in 1..Len(dict_input) - 1 : dict_input[i] < dict_input[i + 1]
    /\ dict_inflight = Cardinality(DOMAIN dict_wire)
                       + Len(SelectSeq(dict_chan, LAMBDA ev : ev.kind \in {"done", "failed"}))
    /\ dict_drops = 0 =>
          DOMAIN dict_wire \cup {p.seq : p \in ToSet(dict_waiting)} \subseteq DOMAIN dict_chunks

\* Grey text does not stay grey: it is committed or dropped, also when requests
\* fail, the money is up or part of it was dropped.
GreyIsSettled == (DOMAIN dict_chunks # {}) ~> (DOMAIN dict_chunks = {})

\* What is grey is committed once the key is up, also if the socket breaks and
\* nothing more is settled, and if words come after the rest was committed; and
\* words that were settled are among what is committed.
GreyIsCommitted ==
    /\ ~Empty(live_said, live_guess) ~> Empty(live_said, live_guess)
    /\ \A w \in 1..LiveSays : (\E i \in DOMAIN live_said : live_said[i] = w) ~> w \in live_input
=============================================================================
