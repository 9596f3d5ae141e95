------------------------------ MODULE Sessions ------------------------------
(***************************************************************************)
(* The sessions on disk (ah-core/src/session.rs) and the engines that hold *)
(* them (ah/src/app.rs, ah/src/remote/daemon.rs): one window, a process at *)
(* a time, and a daemon with an engine for each session a phone asks for.  *)
(* What a file's messages say is Conversation's; here they are counted.    *)
(***************************************************************************)
EXTENDS Naturals, Sequences, FiniteSetsExt, SequencesExt, Bitwise

CONSTANTS
    MaxTime,       \* bound: milliseconds
    MaxLines,      \* bound: lines of a file
    MaxFiles,      \* bound: sessions
    MaxSessions    \* remote.max_sessions

VARIABLES
    sess_now,      \* the clock, in milliseconds
    sess_up,       \* the processes that run
    sess_files,    \* the files, by id
    sess_held,     \* Engine::session, by engine: 0 is the window's
    sess_alone,    \* history: the engine was the only one on its file so far
    sess_plans     \* the plan stores: of the window, and the daemon's by key, 0 for ""

sess_vars == <<sess_now, sess_up, sess_files, sess_held, sess_alone, sess_plans>>

\* new_id, of 8 bits where the code has 64, with a shift of 2 for 16.
Pid == [window |-> 1, daemon |-> 2]
NewId(t, pid) == ((t * 4) ^^ (pid * 158)) % 256
\* An id as it is printed: in hexadecimal, of as many digits as it needs.
Printed(id) == IF id < 16 THEN <<id>> ELSE <<id \div 16, id % 16>>
SortsBefore(i, j) ==
    LET a == Printed(i)  b == Printed(j)
    IN IF a[1] # b[1] THEN a[1] < b[1] ELSE Len(a) < Len(b) \/ (Len(a) = 2 /\ a[2] < b[2])

Config == "a"                   \* model.id of the config files
Models == {Config, "b"}
Names  == {"", "n"}
NoSession == [id |-> 0]
None == ""

Window == 0
Engines == {e \in DOMAIN sess_held : sess_held[e] # NoSession}
Daemons == Engines \ {Window}

SessInit ==
    /\ sess_now = 1 /\ sess_up = {}
    /\ sess_files = [id \in {} |-> 0]
    /\ sess_held = [e \in {Window} |-> NoSession] /\ sess_alone = {}
    /\ sess_plans = [window |-> 0, daemon |-> [k \in {0} |-> 0]]

-----------------------------------------------------------------------------
(* A file: a header, then messages and markers.                             *)

Msg      == [is |-> "msg", v |-> None]
Named(n) == [is |-> "name", v |-> n]
OnModel(m) == [is |-> "model", v |-> m]
Planned(p) == [is |-> "plan", v |-> p]
Cleared  == [is |-> "clear", v |-> None]
Compacted == [is |-> "compact", v |-> None]

\* Session::open, a line at a time.
Read(s, line) ==
    CASE line.is = "msg"   -> [s EXCEPT !.messages = @ + 1]
      [] line.is = "name"  -> [s EXCEPT !.name = line.v]
      [] line.is = "model" -> [s EXCEPT !.model = line.v]
      [] line.is = "plan"  -> [s EXCEPT !.plan = line.v]
      [] line.is = "clear" -> [s EXCEPT !.messages = 0, !.plan = 0]
      [] line.is = "compact" -> [s EXCEPT !.messages = 0]
Opened(id) == FoldLeft(Read,
    [id |-> id, name |-> None, model |-> sess_files[id].model, messages |-> 0, plan |-> 0],
    sess_files[id].lines)

\* What /resume and a phone are shown; a session nobody has said anything in or
\* named is not.
Listed == {id \in DOMAIN sess_files : Opened(id).messages > 0 \/ Opened(id).name # None}
\* Session::latest.
Latest == CHOOSE id \in DOMAIN sess_files : \A k \in DOMAIN sess_files \ {id} : SortsBefore(k, id)
NewestOf(ids) == {id \in ids : \A k \in ids : sess_files[k].started <= sess_files[id].started}
\* Session::find, by name: the newest with it.
WithName(n) == {id \in Listed : Opened(id).name = n}

Grown(files, id, lines) ==
    [files EXCEPT ![id].lines = @ \o lines]

-----------------------------------------------------------------------------
(* Engine::new: a new session, or one read from its file; and the model the *)
(* run is held with, which is the session's unless one was named.           *)

Create(id, model) == sess_files @@ (id :> [started |-> sess_now, model |-> model, lines |-> <<>>])
Fresh(id, model) == [id |-> id, name |-> None, model |-> model, messages |-> 0, plan |-> 0]

Holds(e, session) ==
    /\ sess_held' = (e :> session) @@ sess_held
    /\ LET others == {o \in Engines \ {e} : sess_held[o].id = session.id}
       IN sess_alone' = IF others = {} THEN sess_alone \cup {e} ELSE sess_alone \ ({e} \cup others)

Make(proc, e, pinned) ==
    LET id == NewId(sess_now, Pid[proc])
        model == IF pinned = None THEN Config ELSE pinned
    IN /\ \A k \in DOMAIN sess_files : k # id /\ sess_files[k].started < sess_now
       /\ Cardinality(DOMAIN sess_files) < MaxFiles
       /\ sess_files' = Create(id, model)
       /\ Holds(IF proc = "window" THEN e ELSE id, Fresh(id, model))
Resume(e, id, pinned) ==
    LET s == Opened(id)
        on == IF pinned = None THEN s.model ELSE pinned
    IN /\ on = s.model \/ Len(sess_files[id].lines) < MaxLines
       /\ sess_files' = IF on = s.model THEN sess_files ELSE Grown(sess_files, id, <<OnModel(on)>>)
       /\ Holds(e, [s EXCEPT !.model = on])

\* ah, ah -r, ah -r <id or name>, each with or without -m.
WindowStarts ==
    /\ "window" \notin sess_up /\ sess_up' = sess_up \cup {"window"}
    /\ \E pinned \in {None} \cup Models :
          \/ /\ Make("window", Window, pinned)
             /\ sess_plans' = [sess_plans EXCEPT !.window = 0]
          \/ \E id \in DOMAIN sess_files :
                /\ id = Latest \/ id \in Listed \/ id \in NewestOf(WithName("n"))
                /\ Resume(Window, id, pinned)
                /\ sess_plans' = [sess_plans EXCEPT !.window = Opened(id).plan]
    /\ UNCHANGED sess_now
\* /resume: the window drops one session and reads another; its UI puts that
\* one's model back on top (adopt_session_model).
WindowResumes(id) ==
    /\ Window \in Engines /\ id \in Listed
    /\ Resume(Window, id, None)
    /\ sess_plans' = [sess_plans EXCEPT !.window = Opened(id).plan]
    /\ UNCHANGED <<sess_now, sess_up>>

DaemonServes ==
    /\ "daemon" \notin sess_up /\ sess_up' = sess_up \cup {"daemon"}
    /\ UNCHANGED <<sess_now, sess_files, sess_held, sess_alone, sess_plans>>
\* Machine::open, told to start: Engine::new loads the plan into the store of
\* the thread it runs on, and the engine's own thread has another.
RoomForOne == Cardinality(Daemons) < MaxSessions
DaemonStarts ==
    /\ "daemon" \in sess_up /\ RoomForOne
    /\ \E model \in {None} \cup Models : Make("daemon", 0, model)
    /\ sess_plans' = [sess_plans EXCEPT !.daemon = (0 :> 0) @@ @]
    /\ UNCHANGED <<sess_now, sess_up>>
\* Told to resume: what is running already stays as it is.
DaemonResumes(id) ==
    /\ "daemon" \in sess_up /\ id \notin Daemons /\ RoomForOne /\ id \in Listed
    /\ Resume(id, id, None)
    /\ sess_plans' = [sess_plans EXCEPT !.daemon = (0 :> Opened(id).plan) @@ @]
    /\ UNCHANGED <<sess_now, sess_up>>

\* A process ends, as it likes or killed: its engines and stores are gone.
WindowEnds ==
    /\ "window" \in sess_up
    /\ sess_up' = sess_up \ {"window"}
    /\ sess_held' = [sess_held EXCEPT ![Window] = NoSession]
    /\ sess_alone' = sess_alone \ {Window}
    /\ UNCHANGED <<sess_now, sess_files, sess_plans>>
DaemonEnds ==
    /\ "daemon" \in sess_up
    /\ sess_up' = sess_up \ {"daemon"}
    /\ sess_held' = [e \in {Window} |-> sess_held[e]]
    /\ sess_alone' = sess_alone \cap {Window}
    /\ sess_plans' = [sess_plans EXCEPT !.daemon = [k \in {0} |-> 0]]
    /\ UNCHANGED <<sess_now, sess_files>>

-----------------------------------------------------------------------------
(* What an engine does to its session.                                      *)

\* plan::store() on the engine's thread: the key of a daemon's engine names a
\* store that is made, empty, when first asked for.
PlanOf(e) == IF e = Window THEN sess_plans.window
             ELSE IF e \in DOMAIN sess_plans.daemon THEN sess_plans.daemon[e] ELSE 0
Replans(e, p) == sess_plans' =
    IF e = Window THEN [sess_plans EXCEPT !.window = p]
    ELSE [sess_plans EXCEPT !.daemon = (e :> p) @@ @]

Writes(e, session, lines) ==
    LET id == sess_held[e].id
    IN /\ Len(sess_files[id].lines) + Len(lines) <= MaxLines
       /\ sess_files' = Grown(sess_files, id, lines)
       /\ sess_held' = [sess_held EXCEPT ![e] = session]

\* Engine::turn: what was said, after a compaction or not, and the plan where
\* the turn left another than the session has.
Turn(e) ==
    \E p \in {PlanOf(e), 1}, compacted \in BOOLEAN :
       LET s == sess_held[e]
           said == IF compacted THEN <<Compacted, Msg>> ELSE <<Msg>>
           noted == IF p = s.plan THEN <<>> ELSE <<Planned(p)>>
       IN /\ Writes(e, [s EXCEPT !.messages = IF compacted THEN 1 ELSE @ + 1, !.plan = p],
                    said \o noted)
          /\ Replans(e, p)
          /\ UNCHANGED <<sess_now, sess_up, sess_alone>>
Clear(e) ==
    /\ Writes(e, [sess_held[e] EXCEPT !.messages = 0, !.plan = 0], <<Cleared>>)
    /\ Replans(e, 0)
    /\ UNCHANGED <<sess_now, sess_up, sess_alone>>
Rename(e) ==
    /\ \E n \in Names : Writes(e, [sess_held[e] EXCEPT !.name = n], <<Named(n)>>)
    /\ UNCHANGED <<sess_now, sess_up, sess_alone, sess_plans>>
\* /model, from a window.
SetModel ==
    /\ Window \in Engines
    /\ \E m \in Models \ {sess_held[Window].model} :
          Writes(Window, [sess_held[Window] EXCEPT !.model = m], <<OnModel(m)>>)
    /\ UNCHANGED <<sess_now, sess_up, sess_alone, sess_plans>>

SessTick == /\ sess_now < MaxTime /\ sess_now' = sess_now + 1
            /\ UNCHANGED <<sess_up, sess_files, sess_held, sess_alone, sess_plans>>

SessNext ==
    \/ SessTick \/ WindowStarts \/ DaemonServes \/ DaemonStarts \/ WindowEnds \/ DaemonEnds \/ SetModel
    \/ \E id \in DOMAIN sess_files : WindowResumes(id) \/ DaemonResumes(id)
    \/ \E e \in Engines : Turn(e) \/ Clear(e) \/ Rename(e)
SessSpec == SessInit /\ [][SessNext]_sess_vars

-----------------------------------------------------------------------------
(* Properties. *)

\* A session read back is the session as its engine has it, name, model, plan
\* and messages, through renames, switches of model, clears, compactions and
\* resumes by one process after another, as long as one engine had it.
ReadsAsHeld == \A e \in sess_alone : Opened(sess_held[e].id) = sess_held[e]

\* The plan an engine works on is its session's.
PlanIsSessions == \A e \in sess_alone : PlanOf(e) = sess_held[e].plan

\* "Most recent session id" (session.rs).
LatestIsNewest == DOMAIN sess_files # {} => Latest \in NewestOf(DOMAIN sess_files)
=============================================================================
