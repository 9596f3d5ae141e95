-------------------------------- MODULE Focus --------------------------------
(***************************************************************************)
(* Where the keys go in a window (handle_key in ah/src/tui/mod.rs, the      *)
(* strip in ah/src/tui/switch.rs): to a question, a view over the screen,   *)
(* the list of commands, or the input, which is bound to the conversation   *)
(* or to an agent that is watched; and how the pane of an agent follows     *)
(* the numbered events that the agent itself keeps (Events in               *)
(* ah-core/src/agents.rs).                                                  *)
(***************************************************************************)
EXTENDS Integers, Sequences, SequencesExt, FiniteSets, Functions

CONSTANTS
    FoKids,       \* agents the conversation may start
    FoCap,        \* what an agent keeps of its events, by weight
    FoQueue,      \* layout.queue_max
    FoKeys, FoEvents, FoTexts    \* bounds: keys, events of one agent, messages typed

VARIABLES
    fo_kid,         \* of each agent: "none", "running", "over", "told" (and the table woke the window), "gone"
    fo_log, fo_next,    \* Events: what is kept, and the number of the next
    fo_owed,        \* agents that recorded an event and have not told of it
    fo_stop,        \* agents told to stop
    fo_news,        \* Msg::Agents is on its way
    fo_watching, fo_switch,     \* the agent watched, the row of the strip the keys are on; 0 is none
    fo_panes,       \* of each agent that was watched: the last event seen, and what is shown
    fo_open,        \* views and questions on the screen
    fo_text,        \* the input: messages, and Slash
    fo_queue, fo_inbox, fo_read, fo_said,   \* waiting as the window shows it, the mailbox, read by the turn, said to agents
    fo_past,        \* the history of the input
    fo_busy, fo_cut,    \* a turn runs; it is interrupted
    fo_job,         \* the background job: "none", "running", "over"
    fo_put, fo_answered,    \* histories: questions put, and answered
    fo_cleared,     \* history: messages a person took out of the input
    fo_typed, fo_keys

fo_child  == <<fo_kid, fo_log, fo_next, fo_owed, fo_stop, fo_job>>
fo_screen == <<fo_watching, fo_switch, fo_panes>>
fo_words  == <<fo_text, fo_queue, fo_inbox, fo_read, fo_said, fo_past, fo_cleared, fo_typed>>
fo_turn   == <<fo_busy, fo_cut, fo_put, fo_answered>>
fo_vars == <<fo_child, fo_news, fo_screen, fo_open, fo_words, fo_turn, fo_keys>>

Slash == 0
MainRow == 0
JobsRow == -1
NoRow == -2
Questions == {"ask", "perm"}
FoWords(mail) == UNION {Range(m) : m \in Range(mail)}
NoPane == [seen |-> 0, shown |-> <<>>]
RunningKids == {k \in FoKids : fo_kid[k] = "running"}
\* switch::rows
StripRows ==
    LET jobs == IF fo_job = "running" THEN <<JobsRow>> ELSE <<>>
    IN IF RunningKids = {} /\ jobs = <<>> THEN <<>> ELSE jobs \o <<MainRow>> \o SetToSortSeq(RunningKids, <)

FoInit ==
    /\ fo_kid = [k \in FoKids |-> "none"] /\ fo_log = [k \in FoKids |-> <<>>] /\ fo_next = [k \in FoKids |-> 1]
    /\ fo_owed = {} /\ fo_stop = {} /\ fo_news = FALSE /\ fo_watching = 0 /\ fo_switch = 0 /\ fo_panes = [k \in {} |-> NoPane]
    /\ fo_open = {} /\ fo_text = <<>> /\ fo_queue = <<>> /\ fo_inbox = <<>> /\ fo_read = {}
    /\ fo_said = [k \in FoKids |-> {}] /\ fo_past = {} /\ fo_busy = FALSE /\ fo_cut = FALSE
    /\ fo_job \in {"none", "running"} /\ fo_put = 0 /\ fo_answered = 0 /\ fo_cleared = {}
    /\ fo_typed = 0 /\ fo_keys = 0

-----------------------------------------------------------------------------
(* Agents, and the job.                                                     *)

Weight(log) == FoldLeft(LAMBDA sum, e : sum + e[2], 0, log)
\* Events::push: the oldest go while there is too much, but never the last.
Trimmed1(log) ==
    LET fits(n) == Weight(SubSeq(log, n, Len(log))) <= FoCap \/ n = Len(log)
    IN SubSeq(log, CHOOSE n \in DOMAIN log : fits(n) /\ \A m \in 1 .. n - 1 : ~fits(m), Len(log))
KidStarts(k) ==
    /\ fo_kid[k] = "none" /\ \A j \in FoKids : j < k => fo_kid[j] # "none"
    /\ fo_kid' = [fo_kid EXCEPT ![k] = "running"] /\ fo_news' = TRUE
    /\ UNCHANGED <<fo_log, fo_next, fo_owed, fo_stop, fo_job, fo_screen, fo_open, fo_words, fo_turn, fo_keys>>
\* ChildIo::emit: recorded, and then, a step later, told of.
KidRecords(k) ==
    /\ fo_kid[k] = "running" /\ fo_next[k] <= FoEvents /\ k \notin fo_owed /\ fo_owed' = fo_owed \cup {k}
    /\ \E w \in 1 .. 2 : fo_log' = [fo_log EXCEPT ![k] = Trimmed1(Append(@, <<fo_next[k], w>>))]
    /\ fo_next' = [fo_next EXCEPT ![k] = @ + 1]
    /\ UNCHANGED <<fo_kid, fo_stop, fo_job, fo_news, fo_screen, fo_open, fo_words, fo_turn, fo_keys>>
KidBumps(k) ==
    /\ k \in fo_owed /\ fo_owed' = fo_owed \ {k} /\ fo_news' = TRUE
    /\ UNCHANGED <<fo_kid, fo_log, fo_next, fo_stop, fo_job, fo_screen, fo_open, fo_words, fo_turn, fo_keys>>
\* finish, and then announce_finish.
KidEnds(k) ==
    /\ fo_kid[k] = "running" /\ k \notin fo_owed /\ fo_kid' = [fo_kid EXCEPT ![k] = "over"]
    /\ UNCHANGED <<fo_log, fo_next, fo_owed, fo_stop, fo_job, fo_news, fo_screen, fo_open, fo_words, fo_turn, fo_keys>>
KidIsTold(k) ==
    /\ fo_kid[k] = "over" /\ fo_kid' = [fo_kid EXCEPT ![k] = "told"] /\ fo_news' = TRUE
    /\ UNCHANGED <<fo_log, fo_next, fo_owed, fo_stop, fo_job, fo_screen, fo_open, fo_words, fo_turn, fo_keys>>
\* The table forgets one as another is started.
KidForgotten(k) ==
    /\ fo_kid[k] = "told" /\ fo_kid' = [fo_kid EXCEPT ![k] = "gone"]
    /\ UNCHANGED <<fo_log, fo_next, fo_owed, fo_stop, fo_job, fo_news, fo_screen, fo_open, fo_words, fo_turn, fo_keys>>
JobIsOver ==
    /\ fo_job = "running" /\ fo_job' = "over"
    /\ UNCHANGED <<fo_kid, fo_log, fo_next, fo_owed, fo_stop, fo_news, fo_screen, fo_open, fo_words, fo_turn, fo_keys>>

\* pump_agent: the events after the last one seen, from a child the table has.
Pumped(k) ==
    LET pane == IF k \in DOMAIN fo_panes THEN fo_panes[k] ELSE NoPane
        since == SelectSeq(fo_log[k], LAMBDA e : e[1] > pane.seen)
        new == IF since = <<>> THEN pane
               ELSE [seen |-> fo_next[k] - 1, shown |-> pane.shown \o [i \in DOMAIN since |-> since[i][1]]]
    IN [j \in DOMAIN fo_panes \cup {k} |-> IF j = k THEN new ELSE fo_panes[j]]
Known(panes) == [k \in {j \in DOMAIN panes : fo_kid[j] # "gone"} |-> panes[k]]
AgentsChanged ==
    /\ fo_news /\ fo_news' = FALSE
    /\ fo_panes' = Known(IF fo_watching # 0 THEN Pumped(fo_watching) ELSE fo_panes)
    /\ fo_watching' = IF fo_watching \in RunningKids THEN fo_watching ELSE 0
    /\ fo_switch' = IF fo_switch > Len(StripRows) THEN Len(StripRows) ELSE fo_switch
    /\ UNCHANGED <<fo_child, fo_open, fo_words, fo_turn, fo_keys>>

-----------------------------------------------------------------------------
(* The engine: its turn reads the mail, asks, and ends.                     *)

EngineReads ==
    /\ fo_busy /\ fo_inbox # <<>> /\ fo_put = fo_answered
    /\ fo_read' = fo_read \cup FoWords(fo_inbox) /\ fo_inbox' = <<>>
    /\ UNCHANGED <<fo_child, fo_news, fo_screen, fo_open, fo_text, fo_queue, fo_said, fo_past, fo_cleared, fo_typed, fo_turn, fo_keys>>
\* UserMessage: what was read is no longer shown as waiting.
ShowsRead ==
    /\ fo_queue # <<>> /\ Range(fo_queue[1]) \subseteq fo_read /\ fo_queue' = Tail(fo_queue)
    /\ UNCHANGED <<fo_child, fo_news, fo_screen, fo_open, fo_text, fo_inbox, fo_read, fo_said, fo_past, fo_cleared, fo_typed, fo_turn, fo_keys>>
EnginePuts ==
    /\ fo_busy /\ ~fo_cut /\ fo_put = fo_answered
    /\ \E q \in Questions : fo_open' = fo_open \cup {q}
    /\ fo_put' = fo_put + 1 /\ fo_put < 2
    /\ UNCHANGED <<fo_child, fo_news, fo_screen, fo_words, fo_busy, fo_cut, fo_answered, fo_keys>>
EngineEnds ==
    /\ fo_busy /\ fo_put = fo_answered /\ fo_inbox = <<>>
    /\ fo_busy' = FALSE /\ fo_cut' = FALSE
    /\ UNCHANGED <<fo_child, fo_news, fo_screen, fo_open, fo_words, fo_put, fo_answered, fo_keys>>

-----------------------------------------------------------------------------
(* Keys.  The first of these that is on the screen has them.                *)

Layers == <<"ask", "plan", "job", "usage", "picker", "list", "perm", "input">>
\* update_completion: the input is a command being written.
OnScreen == fo_open \cup {"input"} \cup (IF fo_text = <<Slash>> THEN {"list"} ELSE {})
\* The list of commands takes the arrows and Enter, and lets the rest by.
Top(listed) == Layers[SelectInSeq(Layers, LAMBDA l : l \in OnScreen /\ (l = "list" => listed))]

Press == fo_keys < FoKeys /\ fo_keys' = fo_keys + 1
Messages(text) == Range(text) \ {Slash}
Cleared == fo_text' = <<>> /\ fo_cleared' = fo_cleared \cup Messages(fo_text)
Closes(l) == fo_open' = fo_open \ {l}
Answered(l) == Closes(l) /\ fo_answered' = fo_answered + 1

\* unqueue_last: back into the input, unless the turn has read it.
TakenBack(n) ==
    /\ fo_text' = fo_text \o FlattenSeq(Reverse(SubSeq(fo_queue, Len(fo_queue) - n + 1, Len(fo_queue))))
    /\ fo_queue' = SubSeq(fo_queue, 1, Len(fo_queue) - n)
    /\ fo_inbox' = SelectSeq(fo_inbox, LAMBDA m : m \in Range(fo_queue'))
FoUnread == Cardinality(Range(fo_queue) \cap Range(fo_inbox))
\* cancel_turn
CancelTurn ==
    /\ fo_cut' = fo_busy /\ TakenBack(FoUnread)
    /\ fo_open' = fo_open \ Questions /\ fo_answered' = fo_answered + Cardinality(fo_open \cap Questions)
    /\ UNCHANGED <<fo_read, fo_said, fo_past, fo_cleared, fo_typed, fo_busy, fo_put>>

OpensJobs == fo_open' = (fo_open \ {"job"}) \cup (IF fo_job = "none" THEN {} ELSE {"picker"})
KeyEsc ==
    /\ Press
    /\ CASE Top(FALSE) \in Questions -> Answered(Top(FALSE)) /\ UNCHANGED <<fo_screen, fo_words, fo_busy, fo_cut, fo_put>>
         [] Top(FALSE) = "job" -> OpensJobs /\ UNCHANGED <<fo_screen, fo_words, fo_turn>>
         [] Top(FALSE) \in {"plan", "usage", "picker"} -> Closes(Top(FALSE)) /\ UNCHANGED <<fo_screen, fo_words, fo_turn>>
         [] OTHER ->
              IF fo_text # <<>>
              THEN Cleared /\ UNCHANGED <<fo_queue, fo_inbox, fo_read, fo_said, fo_past, fo_typed, fo_screen, fo_open, fo_turn>>
              ELSE IF fo_switch # 0 THEN fo_switch' = 0 /\ UNCHANGED <<fo_watching, fo_panes, fo_open, fo_words, fo_turn>>
              ELSE IF fo_watching # 0 THEN fo_watching' = 0 /\ UNCHANGED <<fo_switch, fo_panes, fo_open, fo_words, fo_turn>>
              ELSE fo_busy /\ CancelTurn /\ UNCHANGED fo_screen
    /\ UNCHANGED <<fo_child, fo_news>>
\* Ctrl-C; with nothing to interrupt and nothing to clear the window ends.
KeyQuit ==
    /\ Press
    /\ CASE Top(FALSE) \in {"plan", "usage", "picker"} -> Closes(Top(FALSE)) /\ UNCHANGED <<fo_words, fo_turn>>
         [] Top(FALSE) = "job" -> OpensJobs /\ UNCHANGED <<fo_words, fo_turn>>
         [] Top(FALSE) \in Questions \/ (Top(FALSE) = "input" /\ fo_busy) -> CancelTurn
         [] OTHER -> fo_text # <<>> /\ Cleared /\ UNCHANGED <<fo_queue, fo_inbox, fo_read, fo_said, fo_past, fo_typed, fo_open, fo_turn>>
    /\ UNCHANGED <<fo_child, fo_news, fo_screen>>

\* submit_with, of what is not a command.
Submit ==
    /\ fo_text # <<>> /\ fo_text' = <<>> /\ fo_past' = fo_past \cup Messages(fo_text)
    /\ IF fo_text[1] = Slash THEN UNCHANGED <<fo_said, fo_queue, fo_inbox, fo_read, fo_busy, fo_watching>>
       ELSE IF fo_watching # 0
       THEN /\ IF fo_watching \in RunningKids
               THEN fo_said' = [fo_said EXCEPT ![fo_watching] = @ \cup Messages(fo_text)] /\ UNCHANGED fo_watching
               ELSE fo_watching' = 0 /\ UNCHANGED fo_said
            /\ UNCHANGED <<fo_queue, fo_inbox, fo_read, fo_busy>>
       ELSE IF ~fo_busy
       THEN fo_busy' = TRUE /\ fo_read' = fo_read \cup Messages(fo_text) /\ UNCHANGED <<fo_said, fo_queue, fo_inbox, fo_watching>>
       ELSE /\ IF Len(fo_queue) >= FoQueue THEN UNCHANGED <<fo_queue, fo_inbox>>
               ELSE fo_queue' = Append(fo_queue, fo_text) /\ fo_inbox' = Append(fo_inbox, fo_text)
            /\ UNCHANGED <<fo_said, fo_read, fo_busy, fo_watching>>
    /\ UNCHANGED <<fo_switch, fo_panes, fo_open, fo_cleared, fo_typed, fo_cut, fo_put, fo_answered>>
\* switch_pick, watch_agent
SwitchPick ==
    LET row == IF fo_switch \in DOMAIN StripRows THEN StripRows[fo_switch] ELSE NoRow
    IN /\ fo_switch' = 0
       /\ fo_watching' = IF row \in {JobsRow, NoRow} THEN fo_watching ELSE row
       /\ fo_panes' = IF row \in FoKids THEN Pumped(row) ELSE fo_panes
       /\ fo_open' = fo_open \cup (IF row = JobsRow THEN {"picker"} ELSE {})
       /\ UNCHANGED <<fo_words, fo_turn>>
\* accept_completion: the command the list is on is run.
RunsCommand ==
    /\ \E view \in {"plan", "usage", "picker"} : fo_open' = fo_open \cup (IF view = "picker" /\ fo_job = "none" THEN {} ELSE {view})
    /\ fo_text' = <<>> /\ UNCHANGED <<fo_queue, fo_inbox, fo_read, fo_said, fo_past, fo_cleared, fo_typed, fo_screen, fo_turn>>
KeyEnter ==
    /\ Press
    /\ CASE Top(TRUE) = "ask" -> Answered("ask") /\ UNCHANGED <<fo_screen, fo_words, fo_busy, fo_cut, fo_put>>
         [] Top(TRUE) = "picker" -> fo_open' = (fo_open \ {"picker"}) \cup {"job"} /\ UNCHANGED <<fo_screen, fo_words, fo_turn>>
         [] Top(TRUE) = "list" -> RunsCommand
         [] Top(TRUE) = "input" -> IF fo_switch # 0 THEN SwitchPick ELSE Submit
         [] OTHER -> FALSE
    /\ UNCHANGED <<fo_child, fo_news>>
\* Yes to a permission; a letter anywhere else.
KeyYes ==
    /\ Press /\ Top(FALSE) = "perm" /\ Answered("perm")
    /\ UNCHANGED <<fo_child, fo_news, fo_screen, fo_words, fo_busy, fo_cut, fo_put>>
KeyType ==
    /\ Press /\ Top(FALSE) = "input"
    /\ \/ fo_text = <<>> /\ fo_text' = <<Slash>> /\ UNCHANGED fo_typed
       \/ fo_typed < FoTexts /\ fo_text = <<>> /\ fo_typed' = fo_typed + 1 /\ fo_text' = <<fo_typed'>>
    /\ UNCHANGED <<fo_child, fo_news, fo_screen, fo_open, fo_queue, fo_inbox, fo_read, fo_said, fo_past, fo_cleared, fo_turn>>
KeyDown ==
    /\ Press /\ Top(TRUE) = "input" /\ fo_text = <<>> /\ (fo_switch # 0 \/ StripRows # <<>>)
    /\ fo_switch' = IF fo_switch < Len(StripRows) THEN fo_switch + 1 ELSE Len(StripRows)
    /\ UNCHANGED <<fo_child, fo_news, fo_watching, fo_panes, fo_open, fo_words, fo_turn>>
KeyUp ==
    /\ Press /\ Top(TRUE) = "input"
    /\ \/ fo_switch # 0 /\ fo_switch' = (IF StripRows = <<>> THEN 0 ELSE fo_switch - 1) /\ UNCHANGED fo_words
       \/ /\ fo_switch = 0 /\ fo_text = <<>> /\ fo_queue # <<>> /\ Last(fo_queue) \in Range(fo_inbox) /\ TakenBack(1)
          /\ UNCHANGED <<fo_switch, fo_read, fo_said, fo_past, fo_cleared, fo_typed>>
    /\ UNCHANGED <<fo_child, fo_news, fo_watching, fo_panes, fo_open, fo_turn>>
\* Ctrl-K on the strip: stop_highlighted.
KeyStop ==
    /\ Press /\ Top(FALSE) = "input" /\ fo_switch \in DOMAIN StripRows /\ StripRows[fo_switch] \in FoKids
    /\ fo_stop' = fo_stop \cup {StripRows[fo_switch]}
    /\ UNCHANGED <<fo_kid, fo_log, fo_next, fo_owed, fo_job, fo_news, fo_screen, fo_open, fo_words, fo_turn>>

FoNext ==
    \/ \E k \in FoKids : KidStarts(k) \/ KidRecords(k) \/ KidBumps(k) \/ KidEnds(k) \/ KidIsTold(k) \/ KidForgotten(k)
    \/ JobIsOver \/ AgentsChanged \/ EngineReads \/ ShowsRead \/ EnginePuts \/ EngineEnds
    \/ KeyEsc \/ KeyQuit \/ KeyEnter \/ KeyYes \/ KeyType \/ KeyDown \/ KeyUp \/ KeyStop

-----------------------------------------------------------------------------
\* The agent that is watched, and that what is typed is said to, is running, or
\* word that it is over is on its way; its pane shows each event once and in
\* order, and with no word on its way everything that has happened.
WatchedIsRunning ==
    fo_watching # 0 =>
       /\ fo_watching \in RunningKids \/ fo_news \/ fo_kid[fo_watching] = "over"
       /\ ~fo_news /\ fo_watching \notin fo_owed => fo_panes[fo_watching].seen = fo_next[fo_watching] - 1
PaneTells ==
    \A k \in DOMAIN fo_panes :
       LET shown == fo_panes[k].shown
       IN /\ \A i \in 1 .. Len(shown) - 1 : shown[i] < shown[i + 1]
          /\ shown # <<>> => Last(shown) = fo_panes[k].seen
\* What an agent keeps of its events is the last of them.
LastAreKept ==
    \A k \in FoKids : LET log == fo_log[k] IN
       /\ \A i \in DOMAIN log : log[i][1] = fo_next[k] - 1 - (Len(log) - i)
       /\ fo_next[k] > 1 => log # <<>>
       /\ Weight(log) <= FoCap \/ Len(log) = 1
\* Nothing that was typed is in two places, and it is in the input, waits, was
\* read by the turn or said to an agent; else a person took it out of the input,
\* or it is in the history and they were told that it went nowhere.  And what
\* waits is shown as waiting, in the order it was said.
NothingTypedIsLost ==
    /\ \A m \in 1 .. fo_typed :
          LET all == <<Range(fo_text), FoWords(fo_inbox), fo_read, fo_cleared>> \o [k \in FoKids |-> fo_said[k]]
              places == {i \in DOMAIN all : m \in all[i]}
          IN Cardinality(places) <= 1 /\ (places = {} => m \in fo_past)
    /\ fo_inbox = SelectSeq(fo_queue, LAMBDA m : Range(m) \cap fo_read = {})
\* A question that was put is on the screen until it is answered, once.
BoxUntilAnswered == fo_put - fo_answered = Cardinality(fo_open \cap Questions)
FocusHolds == WatchedIsRunning /\ PaneTells /\ LastAreKept /\ NothingTypedIsLost /\ BoxUntilAnswered
=============================================================================
