----------------------------- MODULE Microphone -----------------------------
(***************************************************************************)
(* The microphone of dictation: the worker that opens and shuts it as the  *)
(* talk key goes down and comes up (run in ah-voice/src/lib.rs), the       *)
(* recorder and the thread that reads it (ah-voice/src/capture.rs), and    *)
(* the ring between the two (ah-voice/src/ring.rs), whose halves share     *)
(* only the two counts of samples written and read.  A device built in     *)
(* (cpal) is a recorder that prints whole samples.                         *)
(***************************************************************************)
EXTENDS Integers, Sequences, SequencesExt

CONSTANTS
    MicRing,        \* samples the ring holds
    MicSamples,     \* bound: samples recorded
    MicPresses      \* bound: presses of the talk key

VARIABLES
    mic_armed,      \* Dictation: armed, being dropped, gone
    mic_on,         \* listening, shared by the window and the worker
    mic_stays,      \* voice.keep_open
    mic_pc, mic_seen,                           \* the worker, and what it read of `listening`
    mic_dev,        \* Mic: what is open, "none", "process" or "thread"
    mic_child, mic_pipe,                        \* the recorder and what it printed, in bytes; external
    mic_pump, mic_odd, mic_pcm,                 \* the reader: where it is or none, half a sample, samples to write
    mic_slots, mic_head, mic_tail, mic_upto,    \* the ring, and how far a drain goes
    mic_dropped,    \* samples that did not fit
    mic_got,        \* what the worker handed on
    mic_said, mic_taken, mic_from, mic_due, mic_presses    \* histories, of samples and of presses

mic_reader == <<mic_pump, mic_odd, mic_pcm>>
mic_ring   == <<mic_slots, mic_head, mic_tail, mic_upto, mic_dropped>>
mic_device == <<mic_child, mic_pipe, mic_said>>
mic_worker == <<mic_pc, mic_seen, mic_dev>>
mic_window == <<mic_armed, mic_on, mic_stays, mic_presses>>
mic_hist   == <<mic_taken, mic_from, mic_due>>
mic_vars == <<mic_window, mic_worker, mic_device, mic_reader, mic_ring, mic_got, mic_hist>>

MicInit ==
    /\ mic_armed = "armed" /\ mic_on = FALSE /\ mic_stays \in BOOLEAN
    /\ mic_pc = "look" /\ mic_seen = FALSE /\ mic_dev = "none"
    /\ mic_child = "none" /\ mic_pipe = <<>>
    /\ mic_pump = "none" /\ mic_odd = <<>> /\ mic_pcm = <<>>
    /\ mic_slots = [i \in 0 .. MicRing - 1 |-> <<0, 0>>]
    /\ mic_head = 0 /\ mic_tail = 0 /\ mic_upto = 0 /\ mic_dropped = 0
    /\ mic_got = <<>> /\ mic_said = 0 /\ mic_taken = 0 /\ mic_from = 0 /\ mic_due = {} /\ mic_presses = 0

InRing == {mic_slots[i % MicRing] : i \in mic_tail .. mic_head - 1}

-----------------------------------------------------------------------------
(* The window.                                                              *)

MicKeyDown ==
    /\ mic_armed = "armed" /\ ~mic_on /\ mic_presses < MicPresses
    /\ mic_on' = TRUE /\ mic_presses' = mic_presses + 1
    /\ UNCHANGED <<mic_armed, mic_stays, mic_worker, mic_device, mic_reader, mic_ring, mic_got, mic_hist>>
MicKeyUp ==
    /\ mic_armed = "armed" /\ mic_on
    /\ mic_on' = FALSE
    /\ mic_due' = IF mic_seen /\ mic_dev # "none" THEN mic_due \cup InRing ELSE mic_due
    /\ UNCHANGED <<mic_armed, mic_stays, mic_presses, mic_worker, mic_device, mic_reader, mic_ring, mic_got, mic_taken, mic_from>>
\* Dictation is dropped: the worker is told, and waited for.
MicDrop ==
    /\ \/ mic_armed = "armed" /\ mic_armed' = "dropping" /\ mic_on' = FALSE
       \/ mic_armed = "dropping" /\ mic_pc = "over" /\ mic_armed' = "gone" /\ UNCHANGED mic_on
    /\ UNCHANGED <<mic_stays, mic_presses, mic_worker, mic_device, mic_reader, mic_ring, mic_got, mic_hist>>

-----------------------------------------------------------------------------
(* The recorder: a process, killed with what it started, or a stream.       *)

Half(k, h) == <<k, h>>
MicPrint ==
    /\ mic_child = "runs" /\ mic_said < 2 * MicSamples
    /\ LET byte(n) == Half((n + 1) \div 2, n % 2)
           n == IF mic_dev = "process" THEN 1 ELSE 2
       IN /\ mic_said' = mic_said + n
          /\ mic_pipe' = mic_pipe \o [i \in 1 .. n |-> byte(mic_said + i)]
    /\ UNCHANGED <<mic_child, mic_window, mic_worker, mic_reader, mic_ring, mic_got, mic_hist>>
\* It ends by itself: unplugged, or a command that prints so much and no more.
MicEnds ==
    /\ mic_child = "runs" /\ mic_child' = "ended"
    /\ UNCHANGED <<mic_pipe, mic_said, mic_window, mic_worker, mic_reader, mic_ring, mic_got, mic_hist>>

-----------------------------------------------------------------------------
(* pump: bytes come in pieces, and a sample's two may be in two of them.    *)

Samples(bytes) == [i \in 1 .. Len(bytes) \div 2 |-> <<bytes[2 * i - 1], bytes[2 * i]>>]
LeftOver(bytes) == IF Len(bytes) % 2 = 1 THEN <<Last(bytes)>> ELSE <<>>
PumpRead ==
    /\ mic_pump = "reads"
    /\ \/ \E n \in 1 .. Len(mic_pipe) :
             LET bytes == mic_odd \o SubSeq(mic_pipe, 1, n)
             IN /\ mic_dev = "thread" => n = Len(mic_pipe)
                /\ mic_pipe' = SubSeq(mic_pipe, n + 1, Len(mic_pipe))
                /\ mic_pcm' = Samples(bytes) /\ mic_odd' = LeftOver(bytes)
                /\ mic_taken' = mic_taken + Len(bytes) \div 2
                /\ mic_pump' = "writes"
       \/ /\ mic_pipe = <<>> /\ mic_child # "runs"
          /\ mic_pump' = "none" /\ UNCHANGED <<mic_pipe, mic_pcm, mic_odd, mic_taken>>
    /\ UNCHANGED <<mic_child, mic_said, mic_window, mic_worker, mic_ring, mic_got, mic_from, mic_due>>
\* Producer::write: look at the other half's count, fill the slots, then tell.
RingWrite ==
    /\ mic_pump = "writes"
    /\ LET free == MicRing - (mic_head - mic_tail)
           n == IF Len(mic_pcm) < free THEN Len(mic_pcm) ELSE free
       IN /\ mic_pcm' = SubSeq(mic_pcm, 1, n)
          /\ mic_dropped' = mic_dropped + Len(mic_pcm) - n
    /\ mic_pump' = "fills"
    /\ UNCHANGED <<mic_odd, mic_slots, mic_head, mic_tail, mic_upto, mic_device, mic_window, mic_worker, mic_got, mic_hist>>
RingFill ==
    /\ mic_pump = "fills" /\ mic_pump' = "tells"
    /\ mic_slots' = [i \in DOMAIN mic_slots |->
          IF \E k \in DOMAIN mic_pcm : (mic_head + k - 1) % MicRing = i
          THEN mic_pcm[CHOOSE k \in DOMAIN mic_pcm : (mic_head + k - 1) % MicRing = i] ELSE mic_slots[i]]
    /\ UNCHANGED <<mic_odd, mic_pcm, mic_head, mic_tail, mic_upto, mic_dropped, mic_device, mic_window, mic_worker, mic_got, mic_hist>>
RingTell ==
    /\ mic_pump = "tells" /\ mic_pump' = "reads"
    /\ mic_head' = mic_head + Len(mic_pcm) /\ mic_pcm' = <<>>
    /\ UNCHANGED <<mic_odd, mic_slots, mic_tail, mic_upto, mic_dropped, mic_device, mic_window, mic_worker, mic_got, mic_hist>>

-----------------------------------------------------------------------------
(* The worker.                                                              *)

WorkerGoes(from, to) == mic_pc = from /\ mic_pc' = to
WorkerLooks ==
    /\ WorkerGoes("look", IF mic_on /\ mic_dev = "none" THEN "open" ELSE "drain")
    /\ mic_seen' = mic_on
    /\ UNCHANGED <<mic_dev, mic_device, mic_reader, mic_ring, mic_window, mic_got, mic_hist>>
\* capture::open: the command of the settings, the device built in, or the
\* first recorder that is installed.  What could not be opened is not tried
\* again before the next press.
WorkerOpens ==
    \/ /\ WorkerGoes("open", "drain") /\ mic_dev' \in {"process", "thread"}
       /\ mic_child' = "runs" /\ mic_pipe' = <<>> /\ mic_pump' = "reads" /\ mic_odd' = <<>> /\ mic_pcm' = <<>>
       /\ mic_head' = 0 /\ mic_tail' = 0 /\ mic_upto' = 0 /\ mic_dropped' = 0
       /\ mic_taken' = 0 /\ mic_from' = Len(mic_got)
       /\ mic_said' = 2 * ((mic_said + 1) \div 2)
       /\ UNCHANGED <<mic_seen, mic_slots, mic_window, mic_got, mic_due>>
    \/ /\ WorkerGoes("open", "rest") /\ mic_on' = FALSE
       /\ UNCHANGED <<mic_seen, mic_dev, mic_armed, mic_stays, mic_presses, mic_device, mic_reader, mic_ring, mic_got, mic_hist>>
\* Consumer::drain: look at the other half's count, copy, then tell.
WorkerDrains ==
    /\ WorkerGoes("drain", IF mic_dev = "none" THEN "after" ELSE "copy")
    /\ mic_upto' = mic_head
    /\ UNCHANGED <<mic_seen, mic_dev, mic_slots, mic_head, mic_tail, mic_dropped, mic_device, mic_reader, mic_window, mic_got, mic_hist>>
WorkerCopies ==
    /\ WorkerGoes("copy", "tell")
    /\ mic_got' = mic_got \o [i \in 1 .. mic_upto - mic_tail |-> mic_slots[(mic_tail + i - 1) % MicRing]]
    /\ UNCHANGED <<mic_seen, mic_dev, mic_ring, mic_device, mic_reader, mic_window, mic_hist>>
WorkerTells ==
    /\ WorkerGoes("tell", "after") /\ mic_tail' = mic_upto
    /\ UNCHANGED <<mic_seen, mic_dev, mic_slots, mic_head, mic_upto, mic_dropped, mic_device, mic_reader, mic_window, mic_got, mic_hist>>
WorkerAfter ==
    /\ WorkerGoes("after", IF ~mic_seen /\ ~mic_stays /\ mic_dev # "none" THEN "shut" ELSE "rest")
    /\ UNCHANGED <<mic_seen, mic_dev, mic_device, mic_reader, mic_ring, mic_window, mic_got, mic_hist>>
\* Stop::close: the recorder's whole group is killed, or the stream is dropped.
WorkerShuts ==
    /\ WorkerGoes("shut", "join") /\ mic_child' = "ended"
    /\ UNCHANGED <<mic_seen, mic_dev, mic_pipe, mic_said, mic_reader, mic_ring, mic_window, mic_got, mic_hist>>
\* The thread that reads is waited for.
WorkerJoins ==
    /\ mic_pump = "none"
    /\ WorkerGoes("join", "rest")
    /\ mic_dev' = "none" /\ mic_due' = {}
    /\ UNCHANGED <<mic_seen, mic_reader, mic_device, mic_ring, mic_window, mic_got, mic_taken, mic_from>>
\* Between two looks; told to stop, it shuts what is open and ends.
WorkerRests ==
    /\ WorkerGoes("rest", IF mic_armed = "armed" THEN "look" ELSE IF mic_dev # "none" THEN "shut" ELSE "over")
    /\ UNCHANGED <<mic_seen, mic_dev, mic_device, mic_reader, mic_ring, mic_window, mic_got, mic_hist>>

MicNext ==
    \/ MicKeyDown \/ MicKeyUp \/ MicDrop \/ MicPrint \/ MicEnds
    \/ PumpRead \/ RingWrite \/ RingFill \/ RingTell
    \/ WorkerLooks \/ WorkerOpens \/ WorkerDrains \/ WorkerCopies \/ WorkerTells \/ WorkerAfter
    \/ WorkerShuts \/ WorkerJoins \/ WorkerRests

-----------------------------------------------------------------------------
\* What is handed on is whole samples in the order they were spoken, however
\* the bytes were cut; and of what was read, all is handed on, waits, or is
\* counted as dropped (pump in ah-voice/src/capture.rs, ring.rs).
SamplesAreWhole ==
    /\ \A i \in DOMAIN mic_got : mic_got[i] = <<Half(mic_got[i][1][1], 1), Half(mic_got[i][1][1], 0)>>
    /\ \A i \in 2 .. Len(mic_got) : mic_got[i - 1][1][1] < mic_got[i][1][1]
    /\ mic_pc \notin {"tell"} =>
          Len(mic_got) - mic_from + (mic_head - mic_tail) + Len(mic_pcm) + mic_dropped = mic_taken
    /\ mic_head - mic_tail \in 0 .. MicRing
\* With the key up and nothing to keep it open no recorder runs and nothing
\* reads one, and none outlives the dictation (Stop::close in capture.rs).
MicIsShut ==
    /\ mic_pc = "rest" /\ ~mic_seen /\ ~mic_stays => mic_dev = "none"
    /\ mic_dev = "none" \/ mic_pc = "over" => mic_child # "runs" /\ mic_pump = "none"
    /\ mic_armed = "gone" => mic_dev = "none"
\* What lay in the ring as the key came up is handed on before the microphone
\* is shut, if the worker had seen the key go down (run in ah-voice/src/lib.rs).
HeardToTheEnd ==
    mic_pc \in {"shut", "join"} /\ mic_armed = "armed" => \A s \in mic_due : Contains(mic_got, s)
MicHolds == SamplesAreWhole /\ MicIsShut /\ HeardToTheEnd
=============================================================================
