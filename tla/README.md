# A verification development of ah

`ah` is a coding agent in a terminal: a conversation with a language model whose
answers run tools on the user's machine, subagents that do the same in the
background, dictation, plugins, and a relay through which a phone can watch and
steer a session. It is a dozen threads, two kinds of process and a network around
a small loop, and most of what can go wrong in it goes wrong between two of them.
This directory holds TLA+ modules of those parts, runs of the model checker TLC
over them, and proofs checked by TLAPS.

Paths below are relative to the repository: `ah-core/src` stands for
`crates/ah-core/src`, `ah/src` for `crates/ah/src`.

- [1 The system](#1-the-system)
- [2 The modules](#2-the-modules)
- [3 The runs](#3-the-runs)
- [4 Fairness](#4-fairness)
- [5 What is proved](#5-what-is-proved)
- [6 Where the code and its texts part](#6-where-the-code-and-its-texts-part)
- [7 Not modelled, and the plan](#7-not-modelled-and-the-plan)
- [8 Running it](#8-running-it)

## 1 The system

### Components, their state and their operations

| Component | Source | State | Operations |
|---|---|---|---|
| Turn loop | `ah-core/src/agent.rs` | the conversation, requests made, cancel flag | check, claim news, empty the mailbox, request with retries, gate and run batches of calls, compact, send pictures |
| Session engine | `ah/src/app.rs` | command and event channels, `Inbox`, `perm` and `ask` channels, settings | serve a command, run a turn, compact, ask, resume, take settings |
| Subagent table | `ah-core/src/agents.rs`, `tools/agent.rs` | the list of children, counters; per child: state, settings, inbox, report, events, cancel flag, who was told | spawn, claim a slot, run, finish, wait, say, follow up, kill, evict, tell |
| Background jobs | `ah-core/src/jobs.rs`, `tools/bash.rs`, `tools/jobs.rs` | the list of jobs; per job: owner, state, pipes, kept output, who was told | spawn, read, reap, kill, evict, remove, reparent, tell, wake |
| Window | `ah/src/tui/mod.rs` | `busy`, `queue`, boxes, focus, entries, pickers, one queue of messages | keys, events of the engine, wakes of the tables |
| Display | `ah/src/tui/*.rs` | the editor, its history file, form and picker | keys |
| Window, seen by a phone | `ah/src/remote/window.rs` | `live`, a copy of `busy` | submit, interrupt, compact, answer, clear, rename |
| Daemon | `ah/src/remote/daemon.rs`, `sudo.rs` | running sessions with `busy` and `mail_woke`, roots, trust, sudo | open, resume, close, act, note, stand down |
| Publisher | `ah/src/remote/publisher.rs` | batch, outbox, last state, allowance, openers, the question that is up | observe, seal and send, receive, answer |
| Pairing lock | `ah/src/remote/lock.rs` | a lock file and a claim file | take, claim, hand over |
| Relay | `relay/src/hub.rs` | the log of frames, devices, nonces, day counters | connect, put, subscribe, prune, provision, revoke |
| Link and sealing | `crates/ah-remote/src`, `crates/ah-remote-proto` | sequence numbers, keys | reconnect, seal, open |
| Pairing and secrets | `ah/src/remote/cli.rs`, `ah-core/src/auth.rs`, `ah-remote/src/provision.rs` | `credentials.toml` | pair, forget, login, logout |
| Session file | `ah-core/src/session.rs`, `image.rs` | append-only files, files of pictures | push, mark, reset, load, list |
| Plan | `ah-core/src/plan.rs`, `tools/plan.rs` | the tasks, a store for each session | set, add, start, done, drop, update |
| Settings | `ah-core/src/settings.rs`, `ah-abi/src/settings.rs` | the layers | push, drop, replace, resolve |
| Policy | `ah-core/src/policy.rs` | none | split a command, match rules |
| Plugins | `ah-core/src/plugins.rs`, `ah/src/plugin_source.rs` | installed modules, their state, the cache of the last load | install, update, load, call in order |
| File tools | `ah-core/src/tools` | locks of paths | read, write, edit, diff |
| Provider and models | `ah-core/src/provider`, `models.rs` | a worker's channel, `models.json` | stream, list, rank |
| Voice | `crates/ah-voice`, `ah/src/tui/voice.rs` | the talk key, rings, a device, phrases on the wire, a socket | press, cut, send, settle, commit |

### How they interact

```
 keyboard ─► UI thread ──EngineCmd──► engine thread ──► turn loop ──► provider
                 ▲  ▲  └─ mailbox, cancel flag ─►┘         │  gate, tools
 microphone ─────┤  └──── UiEvent ◄── forwarder ◄──UiEvent─┤
  (worker,       │                       │ observe         ├─► jobs  (2 threads a job)
   reader)       │                       ▼                 └─► agents (1 thread a child,
      wakes ─────┘                    publisher ─► relay ─► phone    each its own loop)
   (jobs, agents)                        └── act: submit, interrupt, answer
```

A session's commands pass one channel and its events another, so those are in
order. Four things go past the channels: the mailbox for what is said during a
turn, the cancel flag, the tables of jobs and of subagents, and the slot for an
answer. In a window two threads drive the session, the UI thread and the
publisher's; in a daemon one, and no screen is there. All the sessions of a
process share the two tables. Between processes there are files: the session
files, the favorites, the history, the secrets, the plugins and the pairing's lock.

### Which behaviours are hard, and what makes each part correct

| Part | Hard | Correct when |
|---|---|---|
| Subagent table | one mutex for the list, none for a child: a finish or a follow-up lands inside a scan of the list; any thread may start what is queued | never more running than slots, no child on two threads, none lost while queued, each finish told once, all work over in the end; no child with more rights than what is above it |
| Session and window | `busy` is believed on two threads, a mailbox can be missed by the last look of a turn, a wake can meet one under way | the belief is the truth once messages have arrived, what is shown as waiting is what is unread, a message is read or given back, news of work gets to the model, the engine comes to rest, the screen tells the conversation |
| Daemon | the same without a screen, in directories named in advance | mail left at rest was woken for; a session runs only where and as freely as the person said |
| Questions | asked by one thread, shown on two screens, answered on a channel without numbers | the answer given to a question is the one it gets; a question waits only where it can be answered; no box stays |
| Jobs | three threads write state, reaped flag and process | done is done, its end told once and never dropped untold, killed things die; output is read once, in order |
| Turn loop | retry against what has arrived, a cut-off reply, cancel within a batch, a rewritten call | every call answered, in order; nothing said twice; what runs is what was judged |
| Session file | death between two writes | what resumes is a conversation that was there |
| Settings, plugins | layers patched from four places on two threads; guesses kept for the next launch | the person's own word stands, both threads end up with the same |
| Relay and publisher | reconnects, pruning, limits, batches | a phone gets every frame in order or is told of the gap, a command is acted on once |
| Pairing | two processes and a death at any point; two sides and a lost answer | one publisher at a time, and the one who asked gets it; no hub answers to a code nobody has |
| File tools | agents side by side, links, text written from memory | no edit lost or put elsewhere, and the change shown is the change made |
| Voice | a key without releases, answers in any order, a process and two rings | words are committed once and in order, and the microphone shuts |

`PROJECT.json` lists the hazards line by line, with the properties that would
catch each.

## 2 The modules

Each module is one component, or one protocol between components, with its own
variables, `Init`, an action for each operation and a next-state relation. Three
modules put parts together for TLC (section 3). A module of proofs extends the
module it is about; `ToolGate` has its one theorem at its end.

| Group | Modules |
|---|---|
| Subagents | `AgentPool` (what the table promises), `Agents`, `AgentsProofs`, `Children`, `Focus` |
| Engine and window | `Turns`; `Window` and `Daemon`, which extend it; `Prompt`, `PromptProofs`, `AskForm`, `Screen`, `Settings`, `Choices`, `Matching`, `Editor` |
| A turn | `Conversation`, `ConversationProofs`, `Stream`, `ToolGate`, `DenyRules`, `Pictures`, `Plan`, `Sessions` |
| Jobs | `Jobs`, `JobsProofs`, `KeptOutput` |
| Files and plugins | `Files` (extends `Edits`), `Plugins` |
| Remote | `Relay`; `Remote`, which extends it, `RemoteProofs`; `HubDoor`, `HubDoorProofs`, `PairLock`, `Pairing`, `Board`, `Grants` |
| Voice | `TalkKey`, `Dictation`, `Microphone`, `Arming` |
| For TLC | `MCSession`, `MCDesk`, `MCParts` |

### Agents

A thread is `<<agent, run>>`: a root has one, a child one per run, where a run is
the first launch or a follow-up. `pc` says where it is. `lock` is the table's
mutex; only `claim_queued` holds it over more than one step, because only it
looks at children (whose state has a lock of its own) twice: `Scan` counts and
chooses, `Mark` checks again and marks. Every other use of the mutex is one step
that needs it free. `FollowUp`, `Requeue` and `Forget` are separate steps,
because `follow_up` works on a handle without the mutex and sets the state
before it clears what was heard.

| Action | Code |
|---|---|
| `BeginTurn`, `StopAsking`, `Ask`, `EndTurn`, `GetCalls`, `EndCalls` | `Engine::turn`, `AgentLoop::run_turn` |
| `CheckSpawn`, `Spawn` | `AgentSpawner::spawn`, before and after the look at the counter |
| `Leave`, `Await`, `Watch`, `Collect`, `GiveUp`, `TimeOut` | the `agent` tool, `agents wait`, `wait_any` |
| `Scan`, `Mark`, `Launch`, `LaunchFails`, `Excuse` | `start_queued`, `claim_queued`, `run` |
| `Kill`, `Say`, `FollowUp`, `Requeue`, `Forget` | the `agents` tool, `follow_up` |
| `RootReports`, `Report`, `Finish` | the end of `turn`, `Child::finish`, `announce_finish` |
| `ScreenSay`, `ScreenStop` | the window's list of subagents |

Merged or left out: the id, the counter and the push into the list are
one step (`Spawn`), so the list is in the order of ids; the UI's bit of `reported`
is not there, only the model's; a root has no request limit of its own; the
`failed` ending stands for a failed request and for a conversation that has
grown too big; the 40 ms tick of the wait stands in for the notify, so a wait looks at any time;
every root has the same `max_concurrent`. `news` is a history variable: the
finishes of a child its model was not told of.

`Children` is what a child runs with: `SpawnKid` is `AgentSpawner::spawn` up to
`Child::new` (`child_settings`, `resolve_model`, the tools offered, the directory),
for a tree of agents and settings the person changes meanwhile. `Focus` is the
other end: the numbered events an agent keeps (`Events`), the pane that takes them
up, the strip of agents, and where a key goes (`handle_key`): to a question, a
view, the list of commands or the input, bound to the conversation or to an agent.

### Turns, Window, Daemon

`Turns` is one engine: a command off the channel (`TakeCmd`), the start of a turn
(`Begin`, which lowers the cancel flag), the look at the top of the loop (`Look`,
which claims news and empties the mailbox, one event for each message), the reply
(`ReplyTools`, `ReplyLast`), and the end (`End`, which sends `Busy(false)`).
`fate` says what became of each message; it is how the properties speak of one.

`Window` adds what the UI thread believes (`busy`, `queue`, `woke`), the queue it
reads, the forwarder, the wakes of the two tables (`pending`, with
`caught_up` and the look for news as the two steps they are: `mid`), and the
publisher's thread, which looks at its copy of `busy` in one step (`PhoneLook`)
and acts in the next (`PhonePut`). `Daemon` adds `Machine::note` and
`Machine::act`, which run on the events and commands of a session.

Merged or left out: the claims of the two tables and the mailbox at the top of
the loop are one step; a table's wake (swap, then send) is one step; Esc raises
the flag and gives messages back in one step; a piece of work is none, running or
ended; the presence of an API key is fixed for a behaviour; the forwarder of a
daemon's session is part of `Note`. `live`, the phone's copy of `busy`, changes
where `publish_live` runs, after an event of the engine. Compaction inside a turn,
`/clear` and `/resume` are in `Conversation`, settings in `Settings`.

### Prompt and AskForm

In `Prompt` a question has a number and one of three kinds: a permission that an
earlier "always" answers, one that it does not, a question of the model. `chan`
keeps for each answer the question it was meant for, which the code does not, so
that `AnswerFits` can be said; nothing else reads it. `pending` is the publisher's
slot and `box` the screen's; both are behind the engine by one queue and by two.
`PhoneAnswer` looks at the slot, `PhoneAct` answers later. A phone answers with
the kind it was asked; one tool stands for "always"; the UI's `busy`, which Esc
looks at, is taken for the engine's being in a turn.

`AskForm` is one call of `ask_user`: `parse` with its limits and repeated labels
(`FormOpen`), every key of the box (`FormKey`: moves, picks, notes, `go`), sending
(`FormConfirmed`), Esc and a paste, and what the model reads of it.

### Settings, Choices, Matching, Plugins

`Settings` has the layers (`set_stack`), the engine's copy and the two channels.
`SetSlash` and the picker's actions are the window's, `SetHandle` its reading of an
event, `SetEngineStep` the engine's of a command, `SetHook` a hook's patch in a turn.
Three settings stand for all: one only the person may set, one with a type a value
can miss, and the model. `Choices` is the models' list fetched by a thread, the
chain of pickers from a favorite's name to its model and effort, and the file of
favorites, with another window writing it (`OtherSaves`). `Matching` is
`fuzzy_score` with its two paths and `rank`, over every query and catalogue within
the bounds. `Plugins` is `ah plugin` in steps that may be cut short (`PluginTool`,
`ToolGoesOn`), the load of a window with its cache of patches, and the state of a
plugin, with the theme plugin as the one that uses them; names and settings a
plugin does not look at are left out.

### Screen and Editor

`Screen` turns events into blocks three ways: as they come (`handle_agent`), in lumps
from the log of an agent (`ScrPump`), and from the messages alone (`load_history`,
`ScrReopen`); text is the pieces it came in. `Editor` has the text as a sequence of
characters and chips, a chip being its head and its end; kill and yank, a chip taken out,
cursor moves over lines, history and its file. Widths and wrapping are left out.

### Conversation, Stream, Pictures, Sessions

`Conversation` is the messages of `run_turn` and what `Engine::turn`, `compact`,
`clear` and `resume` append, line by line, with a crash between any two writes or
in one (`TalkCrash`). A batch runs side by side (`TalkToolEnds`), is cancelled in the
middle, and is answered in order (`TalkBatchEnds`). `Stream` is a single request seen
closely: the worker that reads the socket, the channel, pieces of text and of calls,
retries, cut-off calls and what is kept. `Pictures` has the references of a
conversation, the files behind them, the budget of a request, and where a picture
may travel. `Sessions` has the files by id, with `new_id` as it is computed (an
exclusive or of the clock and the process), the engines that hold them, and the
stores of plans; what the files' messages say is `Conversation`'s.

### ToolGate, DenyRules, Plan

`ToolGate` passes a call along the plugins (`Consult`), the rules and the person
(`Decide`), runs it (`RunOne`) and passes its result back (`Answer`). `DenyRules`
reads a command against rules, over spellings of programs, flags and wrappers:
`WritePiece` writes a piece, `Respell` spells it another way, and what a piece runs
is remembered. The letters of a word are left out, quoting too. `Plan` is each action
of the plan tool with its checks; a task is its place in the list.

### Jobs and KeptOutput

A job is one process with two pipes, each with a reader thread. `Eof` is the end
of one pipe, which needs the process gone, or `EarlyClose`: a process may close
its output and go on. The reader of the last pipe sets `reaped`, then waits, then
writes the state: `Eof`, `Wait`, `Finish`. A kill is `Ask`, `Term`, and on a
thread of its own `LookAgain` and `Insist`: looking at `reaped` and sending the
signal are separate steps, as they are in the code. `Spawn` and `File` are
the two halves of `Jobs::spawn`, before and under the mutex. `HandUp` is
`reparent_all`, which runs when a child's turn is over (`ah-core/src/agents.rs:649`).
`told` and `asked` are history variables. `KeptOutput` is `Output`: head, gap and
tail, a line at a time or in part (`Write`), and a reader who goes on from the number
it was given (`KeptRead`).

Merged or left out: a process group is one process; the polite signal may be
ignored, and a process that dies of it takes `Exit`; a grace period may end at any
time; shutdown, `list` and `wait`. An agent that was over and is asked again does
not come back in this module.

### Edits and Files

`Edits` is how `edit_file` finds what it replaces: exactly, then ignoring line ends,
then indentation, then spacing, over every text within the bounds. `Files` puts those
edits in several agents' hands, with `read_file` and `write_file`, step by step:
`Begins`, `Reads`, `Locks`, `Checks` (the look at a link), `Takes`, `Opens`, `Fills`.
A path lock is of the name as written. `Others` is a person or a command that writes
or moves a link meanwhile. The second half of
`Edits` is the diff that is shown: the script of `unified`, its hunks and its caps.

### Relay, Remote, HubDoor, PairLock, Pairing, Board, Grants

`Relay` is the hub's log, its pruning, a phone's subscription and replay, and the two
links, each a thread between two queues: a break takes what is in flight of them, and what
was not sent waits for the next socket, an asking among it. The history variables `late` and
`torn` say when one went out on a socket that was not its own, and which frames a break took.
`Remote` adds the publisher's thread and the example phone, sealing and opening by
number, an outbox that drops its oldest, and a desktop that follows another
(`TakeOver`). `HubDoor` is who gets a socket: provisioning, whose body is read after
an await (`DoorProvision`, `DoorBody`), signatures, nonces, revoking, the quotas of a
day, the alarm and eviction from memory (`DoorHibernate`). `PairLock` is lock and claim
between windows and a daemon. `Pairing` runs `pair`, `forget`, `login` and `logout`
statement by statement, each of which may be the last, with requests and answers that
get lost. `Board` is what several sessions say on its way into one batch, the states
and questions that go ahead of it, and a link that comes and goes. `Grants` is a
daemon's start (`Serves`) with the names it resolves, a session opened or resumed under
them, links that move, and the password kept fresh or forgotten.

### TalkKey, Dictation, Microphone, Arming

`TalkKey` is `Talk` with time in steps of about a tenth of a second, on terminals that
report releases and on terminals that do not. `Dictation` is phrases on the wire,
answered in any order, a budget, and the words that turn from grey to white.
Its second half is the other route (`LiveNext`), a socket that answers with guesses and
settled words; a window dictates by one of them.
`Microphone` is below both: the worker, the recorder's process, the thread that reads
it byte by byte and the ring, whose two counts are read and written in separate steps.
`Arming` is dictation switched on and off, what is remembered of it in three layers,
and the socket dialled ahead.

## 3 The runs

All bounds are constants of the modules, set in the `.cfg`. Deadlock is not
checked anywhere: every instance runs out of things to do (turns, messages,
commands), and a system at rest is not stuck. What would be a deadlock in the
usual sense, a thread that waits for ever, is a liveness property here
(`WorkEnds`, `SaidIsRead`, `KilledEnds`, `LockGoesRound`, `CatchesUp`) or a safety
one (`QuestionsHold`).

### How parts share a run

`MCSession`, `MCDesk` and `MCParts` each hold
several models that share no state. A behaviour is of one part, drawn from `Parts`
at its start; the others keep one initial state and never move. The run therefore
explores the sum of the parts' states, not their product, and a property that begins
with `part = ...` speaks of the behaviours in which that part moves. Nothing is said of
the parts' interleaving: parts that do interact are one model (`Window` on `Turns`,
`Remote` on `Relay`, `Files` on `Edits`), not two parts.

### Passing

| Run | Instance | Properties |
|---|---|---|
| `agents` (`MCSession`) | `Agents`: one conversation, 3 ids for at most 2 children, 1 slot, nothing finished is kept, 2 runs each, 1 stop. Beside it `Settings`, `Screen`, `Board`, `AskForm`, `Choices`, `Plugins`, `Children`, `Focus`, `Pictures` | `TypeOK`, `SlotLimit`, `OneThread`, `FinishIsTold`, `ImplementsPool`; `LayersHold`, `ScreenTells`, `PhoneFollows`, `BoxesHold`, `ChildrenHold` |
| `agents_deep` (`MCDesk`) | `Agents`: a child with a child, 1 slot. Beside it `Arming`, `Editor`, `Edits`, `Files`, `Pairing`, `Matching` | `WorkEnds`; `DeskHolds`, `FileToolsHold` |
| `remote` (`Remote`) | a desktop and one that follows it, a phone, a log of 2 of which a replay reads 1, an outbox of 1, beside greetings and answers 2 things said or typed in all, 2 faults: breaks, failed dials, refused frames, take-overs, commands handed on again | `ShownInOrder`, `NonceOnce`, `CommandOnce`, `KeptOrTold` |
| `parts_safety` (`MCParts`) | `Window` with 2 typed and 1 sent; `Prompt` with 3 questions; `Jobs` with 2 jobs of an agent, its child and that one's child; `HubDoor` with 2 keys, `Conversation`, `Plan`, `Sessions`, `KeptOutput`, `Dictation`, `ToolGate`, `DenyRules`, `Stream`, `Microphone`, `Grants`, `PairLock` with 2 windows, a daemon and 2 that hang or die | `PartsTypeOK`, `ScreenIsTrue`, `QuestionsHold`, `DoneIsOver`, `ToldOnce`, `OwnerListens`, `NewsIsKept`, `DoorHolds`, `AnswersComplete`, `FileIsConversation`, `WhatRunsWasJudged`, `KeptInOrder`, `OutsideHolds`, `DeskKeepsPlace`, `PlanHolds` |
| `parts_liveness` (`MCParts`) | `Window` with 2 typed, 1 job, with and without a key; `Daemon` with 2 sent; `PairLock` with 2 windows, a daemon and 2 that hang or die; `Jobs` with 1 job of an agent or its child; `TalkKey`, `Dictation` (both routes); `Remote` with 2 payloads, 1 fault and no command | `SaidIsRead`, `QuietEndIsTold`, `ComesToRest`, `LockGoesRound`, `KilledEnds`, `KeyIsHeard`, `GreyTurnsWhite`, `CatchesUp` |

What each property says is in the comment above it, and where it gathers several, they
are named invariants of the part's module. By part:

- subagents: slots, threads, queue, news and reports survive follow-ups, stops and
  evictions at any point (`FinishIsTold` is `ToldOnce`, `HeardBeforeDropped`,
  `ReportFirst`, `QueuedIsFiled` and `TotalCap`); a child that waits for a queued child
  does not hold the only slot for ever; down a chain of agents nothing widens
  (`KidsHold`); what is typed to one goes to one place, and its pane shows each event
  once (`FocusHolds`); pictures sent are the newest that are there, and the right ones
  (`PicturesHold`);
- window and daemon: what the driver believes of the engine becomes true, the messages
  shown as waiting are the unread ones, mail and news get read without the engine being
  woken for ever; the screen tells the conversation (`ScreenTells`). In `parts_liveness`
  the window has a job, so `SaidIsRead` also says there that what a wake finds told already
  leaves the screen true, which `ScreenIsTrue` says of a window with a phone;
- questions: none waits where nobody can answer it, none stays on a screen; what the model
  reads is what was on the form (`FormHolds`);
- settings, plugins, models: the person's word stands, both threads end with the same,
  and no plugin runs that was not agreed to (`SettingsHold`, `PluginsHold`); a choice
  is for the favorite it was made for (`ChoicesHold`); the search misses no name that can
  be read (`MatchHolds`);
- a turn: calls are answered in order and an answer is heard once (`AnswersComplete`),
  what was shown is kept (`ShownIsKept`, in `KeptInOrder`), what runs was judged
  (`WhatRunsWasJudged`), a rule denies a command however it is spelled (`DeniedAsMeant`),
  a file resumes to its conversation through crashes (`FileIsConversation`), and to its
  name, model and plan (`ReadsAsHeld`, in `KeptInOrder`), the plan never strands the model
  (`PlanHolds`);
- jobs: a job ends once, in order, is heard of and can be stopped; an agent that ends leaves no
  job behind, and what still runs goes up (`OwnerListens`); a job's output is read once and
  in order (`KeptInOrder`);
- files: no edit of an agent is lost to another's, none lands outside unasked, and the
  diff is the change (`EditsHold`, `FilesAreKept`, `ShowsTheChange`);
- remote: what is said is shown once, in order, or its loss is told; no number seals twice; a
  command acts once; the door lets in who signed, once, and a place is kept by who is
  there; the lock goes round; batches lose nothing (`PhoneFollows`); no hub is left
  behind (`PairingHolds`); sessions run where and as freely as the person said
  (`GrantsHold`);
- voice: the key is heard and the microphone shuts (`KeyIsHeard`, `MicHolds`), words are
  committed in order and once, and none stays grey (`KeptInOrder`, `GreyTurnsWhite`); what
  is armed is what was asked (`ArmHolds`); a chip stands for what was pasted
  (`EditorHolds`).

### Why the bounds are enough to say something

A hazard here needs at most two actors and one thing they share, and each instance has
fewer of the scarce thing than it has users. One slot and two children make a child wait
for another; `Keep = 0` makes every finish a candidate for eviction; two runs let a
follow-up race everything that a first run does. Two senders and two requests a turn let
a message arrive before, during and after each look. Three questions let an answer be
late by one and by two. Two jobs let one be evicted while the other is filed. A log of
two and an outbox of one are passed by greetings, an answer and what a session says, so that pruning, trimming and a
gap occur with a replay under way; a desktop that follows another makes its numbers start
again; two faults are what it takes to break a link, leave an asking in its queue and break
the next. Three agents in a chain are the fewest where a job can be handed to one that is over. Three commands and two faults are pairing, pairing anew and forgetting, with two
of them cut off or unanswered at any step. Two agents at two names of one file meet between every two steps of a
call; a ring of one sample is full while it is read. Three levels of agents are the
fewest at which a right lost can come back. Where the data is what matters (edits, diffs,
queries, commands, plans) every input within the bounds is an initial state or a step.
A counter at its limit is reached in each: `MaxRequests`, `MaxTotal`, `QueueMax`, `Keep`,
`Burst`, `Connects`, `FramesPerDay`, `KeptCap`, `EdKeep`, `DiffLines`. What the runs
do not show, larger instances, the theorems do where there are any. Liveness is checked on
smaller instances than safety, `Jobs` and `Remote` among them: what must come about there
is about one job, and about one broken link.

The `agents` run has one conversation, as a window has. With two in one process, a
daemon's sessions, `QueuedIsFiled`, `HeardBeforeDropped` and `TotalCap` fail
(section 6).

### Violated

Each of these states what a comment or a page of the documentation says, and TLC
finds a behaviour of the code against it: `agents_lost` (`QueuedIsFiled`),
`window_stranded` (`PhoneMailIsRead`), `prompt_slow` (`AnswerFits`), `jobs_deaf`
(`KilledEnds`), `handover` (`YieldedIsFree`), `relay_hole` (`NoneSkipped`), `plan_lost`
(`PlanIsSessions`). Section 6 tells them.

### Mutants

For every property of a passing run `PROJECT.json` names a mutant: an operator,
defined beside the one it replaces, that changes it as a slip in the code would
(a scan without the mutex, a channel emptied a step late, an eviction that does not
ask who has heard). Under it TLC finds the property violated in the same run. A
property that gathers several invariants has one declared mutant, which breaks one of
them.

## 4 Fairness

Nothing is assumed of a user, a phone, a background process or the network, except
where a line below says so.

- `Agents`: strong fairness of each thread's next step. A thread waits for nothing
  but the table's mutex, which is held for two short steps, and a mutex that is
  asked for again and again is got; the provider answers or fails, because a
  request has a timeout. Strong fairness of `EndCalls` for a child: an answer of
  the model has finitely many calls. That a wait times out is a step of the thread
  that waits, as in `wait_any`.
- `Turns`, `Window`, `Daemon`: weak fairness of the engine, of the forwarder, of the
  UI thread, of a wake under way and of the publisher's thread in the middle of a
  command. Each is a loop over a channel, or a few lines with no lock held. A turn
  ends because `MaxRequests` bounds it, as `agent.max_requests` does in the code.
- `Jobs`: weak fairness of the readers of the pipes and of the thread of a kill. A
  process need not exit; SIGKILL, once sent, ends it.
- `PairLock`: weak fairness of each step of a process that asks, gives up or stands down,
  of the daemon's start, and of time (a claim grows old). Each is a loop with a sleep.
- `Remote`: weak fairness of the two ends' loops, of the hub's handling of what has
  arrived (`HubServes`), and of each end's dialling (`Dials`), which the link's thread does for
  ever with a growing pause.
  `CatchesUp` therefore speaks of faults that are finitely many: `MaxFaults`.
- `TalkKey`: weak fairness of time, of the UI's tick and of the limit on a recording;
  and a person who holds the key lets go of it.
- `Dictation`: weak fairness of letting go of the key, of the worker's last cut, of a
  request (which has a timeout) and of the window's reading of an event.
- `Dictation`, by the socket: the same of the key and the window; of the socket nothing:
  that grey words settle when it says no more is the window's own timer (`LiveLater`).

`Prompt` and all other parts are checked for safety alone, and have no fairness.

## 5 What is proved

Eight modules hold theorems. Each states, for every value of the constants that its
assumptions allow, a property that a run checks on one instance. Every invariant below
was checked by TLC on an instance before it was proved.

### AgentsProofs

For every number of conversations, children, runs and slots and every limit, four
theorems of `Agents`, and a fifth for a process with one conversation:

| Theorem | Statement | Where it is also checked |
|---|---|---|
| `TypeCorrect` | `Spec => []TypeOK` | `agents` |
| `SlotsHold` | `Spec => []SlotLimit` | `agents` |
| `OneThreadHolds` | `Spec => []OneThread` | `agents` |
| `TableIsPool` | `Spec => ImplementsPool` | `agents` |
| `FinishIsToldHolds` | one root and `MaxDepth <= 1`: `Spec => []FinishIsTold` | `agents` |

They rest on `ConstantsAssumption` of `Agents` (the limits are natural numbers,
one thread may run a child at least once, the ids of roots and of children
differ) and on nothing else.

Neither `SlotLimit` nor `OneThread` is inductive. A thread in the middle of
`claim_queued` has counted what runs and is about to mark a child on the strength of
that count, so what it counted must still bound what runs:

- `LockHeld`: a thread between the two passes holds the mutex;
- `ScanHolds`: what runs now is among what it counted, which left a slot free, and
  the child it chose is in the table;
- `Filed`: what runs is in the table, so that the count, which is over the table, is
  of everything.

A finish may land in between, and makes what runs fewer; nothing else changes a
running child, because becoming one needs the mutex. That is `SlotInv`. For
`OneThread` one must know who is about to start or to ask again a child:

- `Unborn`: no child has an id that was not given out;
- `Unlaunched`: a run that was not counted has no thread;
- `Claimed`: a child marked running and not launched is in the hands of one thread,
  and on none;
- `Resumed`: a child about to be asked again is over, and still its asker's alone: its
  parent is one agent, which by `OneThread` itself is on one thread.

That is `OwnerInv`, proved inductive together with `SlotInv` and `TypeOK`: their
conjunction is `Inv`. The proof that a step preserves a part has a lemma for each
action that touches it and one lemma (`CalmKeepsSlots`, `QuietKeepsOwners`) for the
rest. `TableIsPool` maps each step under `Inv` to a step of `AgentPool` or to none:
`Mark` is `Start`, and needs `ScanHolds` for the free slot; `LaunchFails` and `Finish`
are `Finish`, and need `Claimed` and `OneThread`; `Requeue` is `Resume`, and needs
`Resumed`.

`FinishIsTold` is that every finish is told once, that no finished child leaves the
table unheard, that what is queued is in the table, and the cap on all children. It holds
of a window as it is delivered: one conversation, whose children have none of their own
(`max_depth` is 1, `ah-abi/src/settings.rs:724`, `docs/config.md:564`). With two roots,
or a child with a child, it does not: `agents_lost` is a behaviour with two. The invariant
is `ToldInv`:

- `Flat`: every child is the root's, at depth 1, and no thread but the root's spawns, waits
  or asks again;
- `News`: there is one untold finish of a child when it is over and not marked as heard, and
  none otherwise, except between the two steps of a follow-up (`Asking`), which queues the
  child before it forgets what was heard;
- `HeardBeforeDropped` and `QueuedIsFiled` themselves, and `Held`: a child about to be asked
  again has not been dropped since it was looked up, because only the root drops;
- `Reports`: the report stored is of the last run, except while that run goes on, or it is
  the reason why there was no thread for one, or that reason is about to be written (`Fits`);
- `Counted`: between the look at the counter and the spawn nobody else spawns.

### JobsProofs

For every number of agents and jobs, every `Keep`, and for
`EarlyClose` either way, four theorems of `Jobs`, from `AgentsAssumption` (every agent but the
root has a parent, which is another agent) and `BoundsAssumption` alone:

| Theorem | Statement | Where it is also checked |
|---|---|---|
| `DoneHolds` | `Spec => []DoneIsOver` | `parts_safety` |
| `ToldOnceHolds` | `Spec => []ToldOnce` | `parts_safety` |
| `NewsKept` | `Spec => NewsIsKept` | `parts_safety` |
| `OwnerListensHolds` | `Spec => OwnerListens` | `parts_safety` |

None of them is inductive. The invariant, `JobInv`, is `TypeOK` and

- `Reaping`: how far the last reader of a job has got says whether its pipes are
  closed, its flag set and its process gone; the job is done last;
- `Unborn`: a number not given out has no process, no reader and no announcement;
- `ClaimedOnce`: what is claimed is done, and told just then. A hand-over forgets
  who has heard only of what still runs, which nobody has claimed;
- `Private`: the job of a call under way is announced by nobody and is no other
  call's. That is why a call may take it out of the table when it is over; the
  eviction takes only what was claimed, and a hand-over ends its agent.

`TypeOK` itself needs `Private`, because what is filed is the job of a call.

`OwnerListens` is about steps: a job of the table that is with an agent which is over was in
the table before, and its owner was over before. So an agent that ends leaves none behind,
and gets none by its own doing afterwards; it needs besides `JobInv` only `Callers`, that
the job of a call is the caller's. What the property leaves open is what the code leaves
open: a child that ends after its parent hands up to a parent that is over (section 6).

### RemoteProofs

For any number of payloads and commands, every limit of the log and the outbox, and any
number of faults, five theorems of `Remote` (which contains `Relay`), from
`RelayAssumption` and `RemoteAssumption`, which bound nothing but what must not be zero:

| Theorem | Statement | Where it is also checked |
|---|---|---|
| `TypeCorrect` | `Spec => []TypeOK` | |
| `ShownInOrderHolds` | `Spec => []ShownInOrder` | `remote` |
| `CommandOnceHolds` | `Spec => []CommandOnce` | `remote` |
| `NonceOnceHolds` | `Spec => []NonceOnce` | `remote` |
| `KeptOrToldHolds` | `Spec => []KeptOrTold` | `remote` |

What a phone shows depends on every queue between the two ends, so none of them is
inductive. Underneath is one order, by link and then by number. `IInv` has two parts. `Always`
holds whatever happens:

- `Counted` and `Waiting`: each end seals past all it has sealed, and what still waits
  for a number is said later than all that has one;
- `Underway`: whatever is in a queue was sealed;
- `Along`: the log is in the order of sealing, and what is on its way to it comes after;
- `Numbers` and `Followed`: what is handed to a phone is a frame of the log, and a gap comes
  with the frame it ends at behind it, was torn from it, or had it already;
- `Commanded`: a command that could still open is later than all that was acted on.

`InTime` holds until an asking goes out on a later socket than its own (`late`):

- `Heard` and `Ahead`: what the phone has not read lies after what it heard last, in the
  order of the log, so that it never goes back to a link it left;
- `Asking`: the phone asks once for each socket, for what it has not had, and was handed
  nothing on it before;
- `Opened`: what was shown is in the order of sealing, up to the last number opened;
- `Kept` and `Passed`: between what the phone has received and what it reads next, and up
  to its cursor, nothing is missing that is not told of or skipped.

`Always` is enough for the type, for `CommandOnce` and for the desktop's half of
`NonceOnce`, which therefore hold without exception. `late` is the part that the code does
not promise. A socket that breaks before the phone's `Subscribe` was sent leaves it in the
link's queue (`link.rs:213-261`), and it goes out on the next one; the phone asks again, and the hub
replays to it what it is past. It takes up the key of a link it had left and starts its count at 0
(`docs/remote.md`, "Sequence numbers", says a number is never taken twice). The model has
that step, and `ShownInOrder`, `KeptOrTold` and the phone's half of `NonceOnce` end with it:
TLC finds each of them violated without the `late` in it.

### HubDoorProofs

For any clock, number of keys, devices, connects and frames, two theorems of `HubDoor`, from
`DoorAssumption`:

| Theorem | Statement | Where it is also checked |
|---|---|---|
| `DoorHoldsAlways` | `DoorSpec => []DoorHolds` | `parts_safety` |
| `DeskKeepsPlaceHolds` | `DoorSpec => DeskKeepsPlace` | `parts_safety` |

`DoorInv` joins to what is promised the facts it hangs on:

- `Days` and `DayCap`: what was taken today is no more than what was counted since the
  day's first frame, and a frame taken today is still in the log, because `Day <= Retain + 1`
  (frames are kept for seven days, `relay/src/schema.rs:46`, and counted by the day). What the
  day is measured by is in memory and, where there are `rows`, in the table; the alarm erases
  the rows and not the memory, and a day that a pairing made anew begins by what is
  left there is `alien`, of which `DayCap` says nothing (section 6);
- `Signed` and `Fresh`: each connect has its own nonce, and while its request is under way its
  clock is within `Skew`;
- `Spent`: a signature that opened a socket is remembered, or no clock takes it any more
  and nothing of it is under way; a nonce is kept for `2 * Skew`, which is long enough;
- `SocketOnce`: no signature opens two sockets;
- `Seated`: there is one desktop, and what is written down of when it was heard is late by at
  most `SeenEvery`, which is less than the `DeskSilent` after which it may lose its place.

### PromptProofs

For any number of questions, turns, interrupts and answers of a phone,
`QuestionsHoldAlways`: `PromptSpec => []QuestionsHold`, from `PromptAssumption`; checked by
`parts_safety`. A question passes two queues to the screen and one to the phone, and an
answer may be given to what is no longer asked. `PromptInv` says what the screens will
show once the queues are read:

- `PendingTold`: the publisher holds up the question the engine waits on once it has read
  what was said, and holds up none once all is over;
- `OverComesBehind`: a question on the screen or on its way there is the current one, or the
  news that it is over comes behind it;
- `Reaches`: the question waited on is on the screen, the last thing on its way there, or
  answered.

### ToolGate

For any number of plugins and calls and any answers of theirs, `WhatRunsWasJudgedHolds`:
`GateSpec => []WhatRunsWasJudged`, from `GateAssumption`; checked by `parts_safety`.
`GateInv` is `Chained` (arguments that a plugin saw and that are not the ones the call
now has make the person be asked, as does a plugin that asks), `Judged` for each gate
decided, and `Stand` (the answers stand for the calls one by one, and one is a refusal
exactly where its gate did not let it run).

### PairLock

For any number of windows and of windows that hang or die, `OnePublishesHolds`:
`PairSpec => []OnePublishes`, from `PairAssumption` (the daemon is none of the windows);
checked by `parts_safety` as a part of `OutsideHolds`. Of all the processes of a machine
one publishes at most; the lock is somebody's exactly while a handle of its publisher is
left, and the claim exactly while its owner asks or hangs at it. `PairInv`, which is
inductive, adds that a thread runs only while its owner has the publisher, so that a lock
found free is of nobody whose thread still runs, and that a daemon never asks, so that
only a window holds a claim. That a window that hands over still holds the lock
(section 6) does not break it: the lock is then held too long, not by two.

### ConversationProofs

For any number of calls, calls side by side, tries, requests, compactions, turns and
crashes, two theorems of `Conversation`, from `TalkAssumption` (the two bounds on calls
are natural numbers):

| Theorem | Statement | Where it is also checked |
|---|---|---|
| `AnswersCompleteHolds` | `TalkSpec => []AnswersComplete` | `parts_safety` |
| `FileIsConversationHolds` | `TalkSpec => []FileIsConversation` | `parts_safety` |

A conversation is incomplete between a reply and the last answer to it, and the file is
written a line at a time, so neither is inductive. `TalkInv` is

- `Complete`: what is at rest, and what a request carries or is kept, is `Settled`: each
  call has its answer right behind its reply, and each answer its call before it. While
  calls are answered it is `Unsettled`, which allows one reply to wait;
- `Underway`: while calls are answered one reply waits (`Waits`): what follows it are its
  first answers, and what runs now is no more than the calls it has left. `Asking` is that
  reply (`AskingIs`), which is why the next answer gets the next number (`AnswersGrow`),
  also when the rest is answered because the turn was cancelled;
- `OnFile`: the file is some lines, the last reset and the messages of the session
  (`Filed`), and the conversation of a turn that was not compacted begins with them, so
  that what is appended is what is missing (`SavesMore`) and, behind a reset, all of it
  (`SavesAnew`). A file that is `Filed` reads as the session (`Reads`);
- `OneTry`: only the last try of a request has said something, because what has said
  something is not tried again.

A crash between two lines leaves a file that is `Filed` with a part of the conversation. A
crash within a line (`talk_tears`) ends what the file promises, and any crash ends what
`AnswersComplete` does: the part that was kept may end in the middle of its answers
(section 6). `PutAll` and `Loaded` are written without a fold for these proofs; TLC found
them equal to the folds over `Put` and over the lines in every state of the run's
instance.

### What is only model-checked

A proof in TLAPS cannot use induction over data here: the library's induction theorems
take an operator as a parameter, and what a fold or a recursive function computes for
every input is out of reach with them. `SelectSeq` and the folds of the community modules
are opaque to it too (where a fold could be written as a set and a function, as in
`Conversation`, it was). That leaves to TLC what is about the contents of a sequence made
with them, or of data cut up and put together again:

- of a form, lists and texts: `BoxesHold` (`AskForm`, `Choices`, `Plugins`, `Settings`),
  `DeskHolds` and `FileToolsHold` (`Editor`, `Edits`, `Files`, `Matching`, `Arming`, `Pairing`);
- of the screen and the log of an agent: `ScreenTells`, `LayersHold`, `ChildrenHold`
  (`Focus`, `Pictures`);
- of batches: `PhoneFollows`; of a command's words: `DeniedAsMeant`; of what was
  kept, spoken, streamed and written of a session: `KeptInOrder`;
- `ScreenIsTrue`: the messages shown as waiting are those the mailbox holds, which is
  about a `SelectSeq`; `PlanHolds`, and of `OutsideHolds` all but
  `OnePublishes`: its samples are counted in queues, its ids made with `Bitwise`.

Out of reach for good is liveness under fairness (`WorkEnds`, `SaidIsRead`,
`ComesToRest`, `QuietEndIsTold`, `KilledEnds`, `LockGoesRound`, `CatchesUp`, `KeyIsHeard`,
`GreyTurnsWhite`), and anything about ENABLED.

## 6 Where the code and its texts part

Seven disagreements have a run; the quotes and lines are in `PROJECT.json` under
"findings".

| Run | What happens |
|---|---|
| `agents_lost` | a follow-up on a handle races another session's eviction: the child is queued in no table, and nobody ever starts it |
| `window_stranded` | what a phone says after the last look of a turn stays in the mailbox, because the window wakes the engine only for what was typed |
| `prompt_slow` | a late answer is taken for the answer to the next question |
| `jobs_deaf` | a command that closed its output and runs on counts as reaped and cannot be stopped |
| `handover` | a window that lets go of its publisher keeps the pairing's lock, because the forwarder thread holds the other clone |
| `relay_hole` | a phone further behind than one replay reads gets the first of what it missed and then what is published next; of the rest nobody tells it |
| `plan_lost` | a daemon's session resumed with a plan starts with none, and loses the file's at the end of its first turn |

Others met while modelling have no run of their own. They are told here so that nobody
takes the passing runs for a denial: where one bears on a property, the property's
comment or its premise says what it leaves out.

### Subagents and jobs

- A child that could not be given a thread is over before the reason is stored
  (`agents.rs:655-656`): who looks in between finds it over with the report of its run
  before, or none; and a follow-up that another thread starts meanwhile can have its report
  overwritten by that reason. `ReportFirst` says both (`Unwritten`, `NoThread`): only a run
  that had a thread has its report there first.
- A message for a child can arrive after the child's last look in its mailbox and is
  then read by nobody unless it is asked again (`ah-core/src/agents.rs:212`; the tool
  answers that it is read before the next step). One for a watched agent that has just
  finished is dropped with a note.
- A child that ran out of requests is reported as done, where `State::Stopped` says the
  request limit is one of its cases (`ah-core/src/agent.rs:845`, `agents.rs:65`).
- `max_total` is looked at before the counter moves, and the counter is the process's:
  two sessions of a daemon can pass it together, and one can use up the other's
  (`ah-core/src/agents.rs:918`). With two sessions a fast child's next finish can be
  dropped unheard, because `follow_up` clears who has heard after it queues the child
  (`agents.rs:1068`).
- The look at `reaped` and the signal are two steps, and a process id can be given back
  in between (`ah-core/src/jobs.rs:308`). A job is handed up to its agent's parent, not
  to 0, also when the parent is over (`agents.rs:649`): its news is then unheard by anybody.
  `OwnerListens` says that this is the only way for a job to come to an agent that is over.
  (News of agents is claimed as that of jobs is, `agents.rs:284`, `jobs.rs:335`; in `Window` it is
  a job's that races the wake.)
- The lines of a job's two pipes are kept in the order they were read, which need not be
  the order they were written (`ah-core/src/jobs.rs:98`; `tools/jobs.rs:29`).

### Session, window and daemon

- Of two sessions made within a minute `-r` can open the older: the latest is the one
  whose id sorts last as text, and an id is the clock mixed with the process's number
  (`session.rs:194`, 85-90; `docs/sessions.md:59` says the most recent). `Sessions` states it
  as `LatestIsNewest`.
- A job that ends during the last request of a turn is news to nobody until somebody
  types (`ah/src/tui/mod.rs:3804`), which is why `QuietEndIsTold` speaks of ends that meet
  nothing running. In a daemon nothing starts a turn when a job ends (`ah/src/app.rs:689`).
- Esc before the engine has taken the command is undone by the turn's first step
  (`ah/src/app.rs:572`). A cancel gives queued messages back in reverse order. With the
  queue full, a message is refused with a note (`tui/mod.rs:1611`).
- An interrupt that meets no box on the screen, or comes from a phone, leaves the engine
  waiting for an answer (`app.rs:819`, `tui/mod.rs:4108`, `remote/window.rs:150`).
- A crash in `Create` before the header leaves an empty file that `ah -r` opens; a line is
  written by `writeln!` in two writes (`session.rs:243`; `docs/sessions.md:49-51`); a crash
  while the answers of a batch are pushed leaves calls without answers. A window and a
  daemon can hold one file, and then each misses what the other appends.
- `/resume` and a message before `Resumed` has come back runs on the old model; `/reload`
  drops the layer of the session's model. After `/resume` the published session is the
  old one (`tui/mod.rs:573` against 3484; `docs/remote.md:143`).
- A plan written anew takes each task in the state it is given: `set` may say that a task is
  done or dropped over a child that is open, and `add` may add such a one, where `done`
  refuses it (`plan.rs:480-485`; `check`, 320-348, looks at no state). `ClosesWhole` is about
  `done` and `drop`.
- In a plan, `start [1,2]` is accepted where 2 needs 1, and tasks nested deeper than
  eight levels are not listed (`plan.rs:443`).
- With the command list up, Enter runs a command even while a permission is asked
  (`tui/mod.rs:4591`, before 4622). A message taken back into a draft that begins with "/"
  becomes that command's arguments. The highlighted row of the strip can become another
  agent when an earlier row goes, and what was drafted for an agent that finishes goes to
  the conversation.
- A block pushed in the middle of a reply (a notice, a command's output) makes the
  text that follows not to be applied (`tui/mod.rs:3544`, 3571; an agent's pane, 870);
  words of an attempt that was cut off stay on the screen; refused and cancelled calls are
  shown only when the conversation is opened again.
- The picker of models shows "loading" for good where there is no key
  (`tui/mod.rs:1160-1167`), and going round the favorites can stick where two entries come
  to the same model (3172-3199).
- In the form, a paste while the box asks whether to send leaves the question up with the
  pasted note behind it.

### Turns, tools and files

- The usage of an attempt that is tried again is not counted (`agent.rs:1357`).
- Within one message the oldest pictures are resent, not "the newest `budget`"
  (`agent.rs:562-597`). A second compaction loses the picture the first carried across
  (`agent.rs:732`, 1452). `images.echo = "off"` (`ah-abi/src/settings.rs:1068`) does what
  `assistant` does (`agent.rs:600`).
- `edit_file` counts overlapping occurrences as one match. `path_lock` is by the path as
  written, where its comment says one lock a path (`tools/mod.rs:195-197`): two names of one
  file are two locks, and `FilesAreKept` asks for one name. A failed `std::fs::write` leaves the
  file emptied, and `read_file`, which takes no lock, can see it half written.

### Settings, plugins and the display

- `/theme off` does not bring the config's colours back after a launch for which the cache
  had a guess (`docs/plugins.md:416`; `app.rs:469-496`, `tui/mod.rs:490-514`). The key of that
  cache misses at every other launch, and a hit is not always what the load would produce
  (`plugins.rs:1101-1106`).
- Two windows' plugin state is written whole and overwrites each other's. A plugin its
  repository no longer ships keeps its old commit and is asked about at every update.
- Why a setting was refused is told by position (`tui/mod.rs:1414-1425`), and a late
  preview of one plugin can be applied while another's picker is open (2975).
- In the input: an image chip removed by Ctrl-U, by a word, or by an edit leaves its
  image attached; a paste chip killed and yanked after the message was sent stays as it is
  written, or stands for a newer paste; renumbering #10 to #9 leaves a stray "["; an entry of the
  history recalled with images attached is sent with them; text typed inside an image chip
  is dropped; two windows that rewrite the history can lose an entry appended between.

### Remote

- `state_changed` keeps one last state for all sessions (`publisher.rs:363-381`). A question
  asked while a daemon has no publisher is never in the next one's `pending`
  (`daemon.rs:611-613`). A late answer that names no session can go to another's question
  (`publisher.rs:910-921`), and a second phone's answer overwrites `answered_by`.
- A phone that attaches in mid-turn gets a snapshot without the turn's messages
  (`docs/remote.md:474`).
- "Every command gets exactly one [Ack]" (`payload.rs:136`) is untrue when the
  allowance is used up or the link goes; `Bye::TuiTakingOver` is never sent
  (`publisher.rs:627`).
- At most one subscription a second is listened to (`hub.rs:530`), and a second one is dropped
  in silence; one that a broken socket left in the link's queue is sent on the next socket
  first (`link.rs:213-261`). Then the hub replays frames of a link the phone has left, and the phone
  opens them with that link's key again, its count started anew: what was shown is shown
  once more, and a number of the phone's can seal twice. `Remote` has this; `late` tells it
  apart, and what the theorems of section 5 leave out for it is said there.
- On a gap the example phone takes the frame the gap ends at for received
  (`phone.rs:152-155`): if the socket breaks between the two, it asks for what comes after, and
  that frame is lost and told by nobody. `KeptOrTold` names it: `torn`.
- The alarm of a hub nobody used for a month erases its table and leaves the cells `day`, `day_n0` and
  `last_n` as they are until the hub is evicted (`hub.rs:224`), though the comment at
  `within_the_day` has it that `n` only ever goes up. Paired again before that, a hub can
  take more than a day's frames in a day.
- A log that aged out whole has no oldest frame, which counts as 0, so that no gap is told
  (`hub.rs:536-551`); `KeptOrTold` says so with `skipped`. A log pruned to nothing of a
  hub that was evicted starts the day at 0, against the comment at `hub.rs:636-647`.
- `provision` looks before it awaits the body and writes after it (`hub.rs:302`, 263); a socket
  can be accepted that was revoked while its signature was checked.
- A provision whose answer is lost, or a crash before the code is saved, leaves a hub whose
  code nobody has (`remote/cli.rs:97-106`). With `AH_REMOTE_CODE` set, ending the pairing revokes
  the environment's hub and clears the stored code (`cli.rs:206-222`). A 401 without a date is
  read as nothing to end (`provision.rs:173-181`). Two commands at once share
  `credentials.toml.new` (`auth.rs:274-300`). Logging out with only a relay's address kept
  deletes the file.
- Sudo withdrawn does not reach sessions that already run, though the note says "sudo is
  refused from now on" (`daemon.rs:116`).

### Voice

- A release of the talk key that a box takes leaves the microphone open
  (`tui/mod.rs:4128`), so `KeyIsHeard` is checked with `KeyBoxes = FALSE`. A hold takes back as many
  characters as its key typed, whichever they are: a letter struck while the talk key is down
  goes, and the key's own space stays (`voice.rs:375-380`, `tui/mod.rs:4173-4178`); where no
  release is reported letters typed between taps within `TAP_OVER` go too. `TakesItsOwn` is
  that nothing older than the stroke goes.
- A phrase cut as the key comes up can arrive after Esc has discarded the others, and is
  committed. Arming again starts `seq` at 1, so that late answers of the session before
  land in the new one. On the live route, after a hand-over a late guess is committed and
  its settled words once more.
- What the worker's last drain leaves can reach the ring to the socket after `Finalize`. An
  idle socket is dialled again at once (`docs/config.md:235`; `deepgram.rs:260-292`).
- With `voice.keep_open` samples are passed on while the key is up (`docs/voice.md:194-195`).
  A press shorter than the worker's rest is not heard, and a failure to open takes back a press
  made meanwhile. A reader thread that cannot be started leaves the recorder running.
- A launch that was left armed, with something missing, opens a picker and may fetch the list
  of models, though the comment says "nothing here may reach the network"
  (`tui/mod.rs:4331`, 4359). `/voice model` on the live route says a model transcribes that is not
  the one dialled (4386).

## 7 Not modelled, and the plan

Not modelled, and not planned: HTTP, JSON and prices of the provider (its answers are
choices in `Stream`, `Turns` and `Agents`), drawing (one thread, recomputed for each
frame), argument parsing and files of instructions (sequential, stateless), signal
processing, the wasm engine, SQL, the cryptography itself, and more phones than the
publisher keeps openers for. `PROJECT.json` says for each component what of it is left out.

Joined at a queue and not yet one model: `Board` ends where `Remote` begins, at the outbox;
`Stream` gives `Conversation` its replies; `Microphone` fills the ring that `Dictation`
empties. Each assumes of the other what the other is checked for.

In the order in which the rest would come:

1. Proofs of what is left in the prover's reach: the grants of a daemon (`Grants`), the
   path locks of `Files`, `BusyIsTrue` of `Window`.
2. `Remote` as a refinement of a stream with announced gaps, which `KeptOrTold` and
   `ShownInOrder` state piece by piece.
3. `Board` on top of `Remote`, with two sessions and one phone.
4. More than one daemon session on `Agents` and `Jobs` in one model, where section 6 knows
   what fails.

## 8 Running it

```
tlc -workers 2 -config agents.cfg MCSession     # a run: its cfg and its module
tlc -workers 2 -config agents_deep.cfg MCDesk
tlc -workers 2 -config parts_safety.cfg MCParts
tlc -workers 2 -config parts_liveness.cfg MCParts
tlc -workers 2 -config remote.cfg Remote
tlapm AgentsProofs.tla                          # the proofs
tlapm JobsProofs.tla
tlapm RemoteProofs.tla
tlapm HubDoorProofs.tla
tlapm PromptProofs.tla
tlapm ConversationProofs.tla
tlapm ToolGate.tla
```

The five passing runs take two to three minutes each. To see one part alone, leave only
its name in `Parts`.
