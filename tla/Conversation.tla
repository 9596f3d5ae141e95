---------------------------- MODULE Conversation ----------------------------
(***************************************************************************)
(* What a turn adds to a conversation and what of it reaches the disk:     *)
(* AgentLoop::run_turn (ah-core/src/agent.rs) with its retries, cut-off    *)
(* replies, batches of tool calls and compactions; Engine::turn, compact,  *)
(* clear and resume (ah/src/app.rs); and the session file they append to   *)
(* (ah-core/src/session.rs), which a process can leave half written.       *)
(***************************************************************************)
EXTENDS Naturals, Sequences, FiniteSets, SequencesExt

CONSTANTS
    TalkCalls,     \* bound: calls in one reply
    TalkParallel,  \* tools.max_parallel
    TalkRequests,  \* max_requests
    TalkTries,     \* times a request is tried again
    TalkCuts,      \* MAX_CUT_OFF
    TalkTurns,     \* bound: turns, compactions and clears
    TalkCrashes    \* bound: crashes

ASSUME TalkAssumption == TalkCalls \in Nat /\ TalkParallel \in Nat

VARIABLES
    talk_pc,       \* where the engine thread is
    talk_conv,     \* messages: the conversation of the turn that runs
    talk_reset,    \* agent.compactions > 0
    talk_sess,     \* Session::messages, at rest
    talk_file,     \* the lines of the file after its header
    talk_asked,    \* summary.requests
    talk_tries,    \* attempt
    talk_words,    \* history: the tries of this request that said something
    talk_cut,      \* cut_off
    talk_cancel,   \* the cancel flag
    talk_batch,    \* the calls that run now, each with what came of it
    talk_next,     \* number of the next message
    talk_turns, talk_crashes,                                \* the budgets spent
    talk_tears     \* history: lines a crash left without their end

talk_run  == <<talk_asked, talk_tries, talk_words, talk_cut, talk_batch>>
talk_disk == <<talk_sess, talk_file, talk_turns, talk_crashes, talk_tears>>
talk_vars == <<talk_pc, talk_conv, talk_reset, talk_cancel, talk_next, talk_run, talk_disk>>

User(n)      == [role |-> "user", n |-> n, call |-> 0, calls |-> 0]
Summary(n)   == [role |-> "summary", n |-> n, call |-> 0, calls |-> 0]
Reply(n, k)  == [role |-> "assistant", n |-> n, call |-> 0, calls |-> k]
Result(n, c) == [role |-> "tool", n |-> n, call |-> c, calls |-> 0]
Reset        == [role |-> "reset", n |-> 0, call |-> 0, calls |-> 0]

\* A line holds one entry, or two when the first of them was never ended, or
\* half of one.
Whole(m) == [of |-> <<m>>, half |-> FALSE, ended |-> TRUE]

TalkInit ==
    /\ talk_pc = "idle" /\ talk_conv = <<>> /\ talk_reset = FALSE /\ talk_cancel = FALSE
    /\ talk_sess = <<>> /\ talk_file = <<>> /\ talk_next = 1
    /\ talk_asked = 0 /\ talk_tries = 0 /\ talk_words = {} /\ talk_cut = 0 /\ talk_batch = <<>>
    /\ talk_turns = 0 /\ talk_crashes = 0 /\ talk_tears = 0

-----------------------------------------------------------------------------
(* The file. *)

\* Session::push and write_marker: an entry and then the end of its line.
Put(file, m) ==
    IF file # <<>> /\ ~Last(file).ended
    THEN Append(Front(file), [Last(file) EXCEPT !.of = Append(@, m), !.ended = TRUE])
    ELSE Append(file, Whole(m))
\* Once a line is ended, each entry that follows has a line to itself.
PutAll(file, ms) ==
    IF ms = <<>> THEN file
    ELSE Put(file, ms[1]) \o [i \in 1..Len(ms) - 1 |-> Whole(ms[i + 1])]

\* Session::open: a line that is not one message is skipped with a warning, a
\* marker drops what was read before it.
Readable(line) == ~line.half /\ Len(line.of) = 1
Marks(line) == Readable(line) /\ line.of[1] = Reset
Kept(file) == {i \in DOMAIN file :
    /\ Readable(file[i]) /\ ~Marks(file[i])
    /\ \A j \in DOMAIN file : j > i => ~Marks(file[j])}
Loaded(file) ==
    LET line(k) == CHOOSE i \in Kept(file) : Cardinality({j \in Kept(file) : j <= i}) = k
    IN  [k \in 1..Cardinality(Kept(file)) |-> file[line(k)].of[1]]

\* A mutant: after a compaction only what came since is written.
ToSaveAppended(conv) == SubSeq(conv, Len(talk_sess) + 1, Len(conv))
\* Engine::turn: a turn that compacted is written from its start.
ToSave(conv) ==
    IF talk_reset THEN <<Reset>> \o conv ELSE SubSeq(conv, Len(talk_sess) + 1, Len(conv))

-----------------------------------------------------------------------------
(* A turn.  talk_sess keeps what the session held when it began.            *)

Begins ==
    /\ talk_pc = "idle" /\ talk_turns < TalkTurns
    /\ talk_turns' = talk_turns + 1
    /\ UNCHANGED talk_cancel
    /\ UNCHANGED <<talk_run, talk_sess, talk_file, talk_crashes, talk_tears>>

\* Engine::turn: a conversation near the limit is compacted first, so that the
\* message stays as it was typed; a wake has none.
TalkTurn ==
    /\ Begins
    /\ talk_pc' = "top"
    /\ \E full \in {FALSE, talk_sess # <<>>} :
          /\ \E said \in {<<>>, <<User(talk_next + 1)>>} :
                talk_conv' = (IF full THEN <<Summary(talk_next)>> ELSE talk_sess) \o said
          /\ talk_reset' = full
          /\ talk_next' = talk_next + 2

\* The top of the loop: cancelled, at the limit, or on to a request.  A full
\* conversation is compacted, which can fail, or be cancelled and end the turn;
\* then news and mail are taken in.
TalkTop ==
    /\ talk_pc = "top"
    /\ IF talk_cancel \/ talk_asked >= TalkRequests
       THEN talk_pc' = "save" /\ UNCHANGED <<talk_conv, talk_reset, talk_next, talk_run>>
       ELSE /\ talk_asked' = talk_asked + 1
            /\ talk_tries' = 0 /\ talk_words' = {}
            /\ \E full, mail \in BOOLEAN :
                  /\ talk_reset' = (talk_reset \/ full)
                  /\ LET conv == IF full THEN <<Summary(talk_next)>> ELSE talk_conv IN
                     talk_conv' = IF mail THEN Append(conv, User(talk_next + 1)) ELSE conv
                  /\ talk_next' = talk_next + 2
            /\ talk_pc' = "stream"
            /\ UNCHANGED <<talk_cut, talk_batch>>
    /\ UNCHANGED <<talk_cancel, talk_disk>>
TalkCompactionCancelled ==
    /\ talk_pc = "top" /\ talk_cancel
    /\ talk_pc' = "save"
    /\ UNCHANGED <<talk_conv, talk_reset, talk_cancel, talk_next, talk_run, talk_disk>>

\* stream_with_retry: something of the answer arrives.
TalkWords ==
    /\ talk_pc = "stream"
    /\ talk_words' = talk_words \cup {talk_tries}
    /\ UNCHANGED <<talk_pc, talk_conv, talk_reset, talk_cancel, talk_next, talk_asked, talk_tries,
                   talk_cut, talk_batch, talk_disk>>

GotAny == talk_tries \in talk_words

MayRetry == talk_tries < TalkTries /\ ~GotAny

\* The stream breaks off with an error that may pass: what said nothing is
\* tried again after a pause, in which the turn can be cancelled.
TalkRetry ==
    /\ talk_pc = "stream" /\ MayRetry
    /\ talk_tries' = talk_tries + 1
    /\ talk_pc' \in {"stream"} \cup (IF talk_cancel THEN {"save"} ELSE {})
    /\ UNCHANGED <<talk_conv, talk_reset, talk_cancel, talk_next, talk_asked, talk_words,
                   talk_cut, talk_batch, talk_disk>>

\* It breaks off, or is cancelled, for good: the text of it is kept, without
\* its calls.
TalkFails ==
    /\ talk_pc = "stream"
    /\ talk_conv' \in {talk_conv} \cup
          (IF GotAny THEN {Append(talk_conv, Reply(talk_next, 0))} ELSE {})
    /\ talk_next' = talk_next + 1
    /\ talk_pc' = "save"
    /\ UNCHANGED <<talk_reset, talk_cancel, talk_run, talk_disk>>

\* The reply ran out of room in a call: it is asked for again, with more.
TalkCutOff ==
    /\ talk_pc = "stream" /\ GotAny /\ talk_cut < TalkCuts
    /\ talk_cut' = talk_cut + 1
    /\ talk_pc' = "top"
    /\ UNCHANGED <<talk_conv, talk_reset, talk_cancel, talk_next, talk_asked, talk_tries,
                   talk_words, talk_batch, talk_disk>>

TalkReply(k) ==
    /\ talk_pc = "stream" /\ (k > 0 => GotAny)
    /\ talk_conv' = Append(talk_conv, Reply(talk_next, k))
    /\ talk_next' = talk_next + 1
    /\ talk_pc' = IF k = 0 THEN "save" ELSE "tools"
    /\ UNCHANGED <<talk_reset, talk_cancel, talk_run, talk_disk>>

\* The calls of the reply that are answered, and how many there are.
Asking == CHOOSE i \in DOMAIN talk_conv :
    talk_conv[i].role = "assistant" /\ \A j \in DOMAIN talk_conv : j > i => talk_conv[j].role = "tool"
Done == Len(talk_conv) - Asking
Calls == talk_conv[Asking].calls
Results(cs) == [i \in 1..Len(cs) |-> Result(talk_conv[Asking].n, cs[i])]

\* A mutant: a cancelled turn stops where it is.
TalkCancelledBare ==
    /\ talk_pc = "tools" /\ talk_cancel
    /\ talk_pc' = "save"
    /\ UNCHANGED <<talk_conv, talk_reset, talk_cancel, talk_next, talk_run, talk_disk>>

\* Cancelled: the calls that are left are answered with that.
TalkCancelled ==
    /\ talk_pc = "tools" /\ talk_cancel
    /\ talk_conv' = talk_conv \o Results([i \in 1..(Calls - Done) |-> Done + i])
    /\ talk_pc' = "save"
    /\ UNCHANGED <<talk_reset, talk_cancel, talk_next, talk_run, talk_disk>>

\* run_batch: read-only calls start together, anything else alone; those the
\* policy or the user refuses are answered without running.
TalkBatch ==
    /\ talk_pc = "tools" /\ ~talk_cancel
    /\ \E n \in 1..TalkParallel :
          /\ Done + n <= Calls
          /\ talk_batch' \in [1..n -> {"runs", "refused"}]
    /\ talk_pc' = "batch"
    /\ UNCHANGED <<talk_conv, talk_reset, talk_cancel, talk_next, talk_asked, talk_tries,
                   talk_words, talk_cut, talk_disk>>

\* A call ends, or the thread it runs on dies, in any order.
TalkToolEnds(i) ==
    /\ talk_pc = "batch" /\ i \in DOMAIN talk_batch /\ talk_batch[i] = "runs"
    /\ \E how \in {"done", "died"} : talk_batch' = [talk_batch EXCEPT ![i] = how]
    /\ UNCHANGED <<talk_pc, talk_conv, talk_reset, talk_cancel, talk_next, talk_asked, talk_tries,
                   talk_words, talk_cut, talk_disk>>

\* All are over, and answered in the order they were made.
TalkBatchEnds ==
    /\ talk_pc = "batch" /\ \A i \in DOMAIN talk_batch : talk_batch[i] # "runs"
    /\ talk_conv' = talk_conv \o Results([i \in DOMAIN talk_batch |-> Done + i])
    /\ talk_pc' = IF Done + Len(talk_batch) = Calls THEN "top" ELSE "tools"
    /\ talk_batch' = <<>>
    /\ UNCHANGED <<talk_reset, talk_cancel, talk_next, talk_asked, talk_tries, talk_words,
                   talk_cut, talk_disk>>

TalkCancel ==
    /\ talk_pc \notin {"idle", "save"} /\ ~talk_cancel
    /\ talk_cancel' = TRUE
    /\ UNCHANGED <<talk_pc, talk_conv, talk_reset, talk_next, talk_run, talk_disk>>

-----------------------------------------------------------------------------
(* What is kept.  The cancel flag is lowered where the next turn begins; it is *)
(* folded in here.                                                           *)

Rests(conv) ==
    /\ talk_sess' = conv /\ talk_conv' = <<>> /\ talk_reset' = FALSE /\ talk_pc' = "idle"
    /\ talk_asked' = 0 /\ talk_tries' = 0 /\ talk_words' = {} /\ talk_cut' = 0 /\ talk_batch' = <<>>
    /\ talk_cancel' = FALSE
    /\ UNCHANGED talk_next

TalkSave ==
    /\ talk_pc = "save"
    /\ talk_file' = PutAll(talk_file, ToSave(talk_conv))
    /\ Rests(talk_conv)
    /\ UNCHANGED <<talk_turns, talk_crashes, talk_tears>>

\* The process dies as it writes: some entries are there, and of the next
\* nothing, a half, or all but its end.  Then the session is opened again.
TalkCrash ==
    /\ talk_pc # "idle" /\ talk_crashes < TalkCrashes
    /\ talk_crashes' = talk_crashes + 1
    /\ LET todo == IF talk_pc = "save" THEN ToSave(talk_conv) ELSE <<>> IN
       \E k \in 0..Len(todo) :
          LET there == PutAll(talk_file, SubSeq(todo, 1, k)) IN
          \/ talk_file' = there /\ UNCHANGED talk_tears
          \/ /\ k < Len(todo) /\ talk_tears' = talk_tears + 1
             /\ \E half \in BOOLEAN :
                   talk_file' = LET f == Put(there, todo[k + 1]) IN
                       Append(Front(f), [Last(f) EXCEPT !.half = (@ \/ half), !.ended = FALSE])
    /\ Rests(Loaded(talk_file'))
    /\ UNCHANGED talk_turns

\* EngineCmd::Compact and Clear, and Resume of the same session.
TalkCompact ==
    /\ Begins /\ talk_sess # <<>>
    /\ talk_conv' = <<Summary(talk_next)>> /\ talk_next' = talk_next + 1
    /\ talk_reset' = TRUE
    /\ talk_pc' = "save"
TalkClear ==
    /\ Begins /\ talk_sess # <<>>
    /\ talk_conv' = <<>> /\ talk_reset' = TRUE /\ talk_pc' = "save"
    /\ UNCHANGED talk_next
TalkResume ==
    /\ talk_pc = "idle" /\ talk_sess # Loaded(talk_file)
    /\ Rests(Loaded(talk_file))
    /\ UNCHANGED <<talk_file, talk_turns, talk_crashes, talk_tears>>

TalkNext ==
    \/ TalkTurn \/ TalkTop \/ TalkCompactionCancelled \/ TalkWords \/ TalkRetry \/ TalkFails
    \/ TalkCutOff \/ (\E k \in 0..TalkCalls : TalkReply(k)) \/ TalkCancelled \/ TalkBatch
    \/ (\E i \in 1..TalkParallel : TalkToolEnds(i)) \/ TalkBatchEnds \/ TalkCancel
    \/ TalkSave \/ TalkCrash \/ TalkCompact \/ TalkClear \/ TalkResume
TalkSpec == TalkInit /\ [][TalkNext]_talk_vars

-----------------------------------------------------------------------------
(* Properties. *)

\* Every call of the conversation that a request carries, or that is kept, has its answer right
\* behind it, in the order of the calls, whatever was refused, died, was cut
\* off or cancelled (run_turn: the API requires a tool message for every call).
AnsweredInOrder == talk_pc \in {"stream", "save"} /\ talk_crashes = 0 => \A i \in DOMAIN talk_conv :
    /\ talk_conv[i].role = "assistant" => \A c \in 1..talk_conv[i].calls :
          i + c \in DOMAIN talk_conv /\ talk_conv[i + c] = Result(talk_conv[i].n, c)
    /\ talk_conv[i].role = "tool" => \E j \in 1..(i - 1) :
          talk_conv[j] = Reply(talk_conv[i].n, talk_conv[j].calls) /\ i - j = talk_conv[i].call

\* Of one request a user hears and pays for one answer.
OneAnswer == Cardinality(talk_words) <= 1

\* What a request carries is complete, and was asked for once.
AnswersComplete == AnsweredInOrder /\ OneAnswer

\* At rest the file reads as the conversation that is held, through compactions,
\* clears and a crash between two lines; what a line left without its end does
\* to the next is told in the README.
FileIsConversation == talk_pc = "idle" /\ talk_tears = 0 => Loaded(talk_file) = talk_sess
=============================================================================
