-------------------------------- MODULE Grants --------------------------------
(***************************************************************************)
(* What a phone may do to a machine that serves it (ah/src/remote/daemon.rs *)
(* and sudo.rs): in which directories a session may run, whether it asks    *)
(* before it acts, and whether it may use sudo.  All three are the person's *)
(* to say, in the environment, in the user's own config or at the terminal; *)
(* the project a session runs in and its plugins may say them and are not   *)
(* heard.  Links may be moved and the daemon started again with another     *)
(* config; the password it was given may be forgotten at any time.          *)
(***************************************************************************)
EXTENDS Naturals, Sequences, SequencesExt, FiniteSets

CONSTANTS
    GrantMost,     \* remote.max_sessions
    GrantServes,   \* bound: times the daemon is started
    GrantMoves     \* bound: times the link is moved

VARIABLES
    gr_conf,       \* what the config of this start says
    gr_link,       \* where the link points, or nowhere
    gr_up,         \* "down", "up"
    gr_roots,      \* Machine::roots
    gr_trusted,    \* Machine::trusted
    gr_sudo,       \* Machine::allow_sudo
    gr_keeper,     \* whether the thread of keep_fresh runs
    gr_running,    \* Machine::running
    gr_filed,      \* the directories of the sessions on disk
    gr_serves, gr_moves,
    gr_meant,      \* history: where each path led when the daemon started
    gr_given       \* history: the password is given, and sudo remembers it

gr_vars == <<gr_conf, gr_link, gr_up, gr_roots, gr_trusted, gr_sudo, gr_keeper, gr_running,
             gr_filed, gr_serves, gr_moves, gr_meant, gr_given>>

-----------------------------------------------------------------------------
(* Places, and the paths that lead to them. *)

Nowhere == <<>>
Folders == {<<"home">>, <<"home", "w">>, <<"srv">>, <<"srv", "w">>}
Link    == <<"home", "link">>
Spelled == Folders \cup {Link, Link \o <<"w">>, <<"h">>, <<"h", "link">>, <<"typo">>}
\* canonicalize and is_dir: the directory a path leads to; "h" is a link to the
\* home directory that stays.
LeadsTo(path, link) ==
    LET home == IF path[1] = "h" THEN <<"home">> \o Tail(path) ELSE path
        full == IF IsPrefix(Link, home) /\ link # Nowhere THEN link \o SubSeq(home, 3, Len(home)) ELSE home
    IN  IF full \in Folders THEN full ELSE Nowhere

-----------------------------------------------------------------------------
(* The config: layers, of which an untrusted one is stripped of all of this. *)

\* What the person's own config and environment may say of it.
Confs ==
    [roots : {<<>>, <<Link>>, <<<<"srv">>, <<"typo">>>>, <<<<"home", "w">>, Link \o <<"w">>>>},
     env   : {<<>>, <<<<"srv", "w">>>>},
     home  : {<<"home">>, <<"h">>},
     trust : BOOLEAN, remote_sudo : BOOLEAN, mode : {"ask", "auto"}]
Defaults0 == [roots |-> <<>>, trust |-> FALSE, remote_sudo |-> FALSE, mode |-> "ask", sudo |-> FALSE]
Claims    == [roots |-> <<<<"srv">>>>, trust |-> TRUE, remote_sudo |-> TRUE, mode |-> "auto", sudo |-> TRUE]
Own == {"defaults", "user"}
All == Own \cup {"project", "remote", "plugin"}

\* SettingsStack::push: all of this is stripped from a layer that is not trusted.
GrPushed(stack, of, patch) ==
    Append(stack, [of |-> of, patch |-> IF of \in Own \cup {"remote"} THEN patch ELSE <<>>])
GrFiles(conf) ==
    LET mine == [roots |-> conf.roots, trust |-> conf.trust, remote_sudo |-> conf.remote_sudo,
                 mode |-> conf.mode, sudo |-> TRUE]
    IN  GrPushed(GrPushed(GrPushed(<<>>, "defaults", Defaults0), "user", mine), "project", Claims)
LastSaid(stack, key, from) ==
    stack[SelectLastInSeq(stack, LAMBDA l : l.of \in from /\ key \in DOMAIN l.patch)].patch[key]

\* roots: the directories listed, each resolved; the home directory if there are none.
ListedRoots(conf) == IF conf.env # <<>> THEN conf.env ELSE LastSaid(GrFiles(conf), "roots", Own)
\* A mutant: an entry that leads nowhere is passed over.
RootsFound(conf, link) ==
    LET found == {LeadsTo(ListedRoots(conf)[k], link) : k \in DOMAIN ListedRoots(conf)} \ {Nowhere}
    IN  IF found = {} THEN {LeadsTo(conf.home, link)} ELSE found
RootsOf(conf, link) ==
    LET listed == IF ListedRoots(conf) = <<>> THEN <<conf.home>> ELSE ListedRoots(conf)
    IN  {LeadsTo(listed[k], link) : k \in DOMAIN listed}

-----------------------------------------------------------------------------
(* The daemon. *)

GrantInit ==
    /\ gr_conf \in Confs /\ gr_link \in {<<"home", "w">>, <<"srv">>}
    /\ gr_up = "down" /\ gr_roots = {} /\ gr_trusted = FALSE /\ gr_sudo = FALSE /\ gr_keeper = FALSE
    /\ gr_running = {} /\ gr_filed = {} /\ gr_serves = 0 /\ gr_moves = 0
    /\ gr_meant = [path \in Spelled |-> Nowhere] /\ gr_given = FALSE

\* serve: sudo is asked about first, at a terminal if there is one (a detached
\* daemon has none), and a root that leads nowhere stops it.
Serves ==
    /\ gr_up = "down" /\ gr_serves < GrantServes
    /\ gr_serves' = gr_serves + 1
    /\ \E asked, terminal, password \in BOOLEAN :
        LET wanted == LastSaid(GrFiles(gr_conf), "remote_sudo", Own) \/ (terminal /\ asked)
            given  == wanted /\ terminal /\ password
        IN /\ gr_given' = given
           /\ IF Nowhere \in RootsOf(gr_conf, gr_link)
              THEN UNCHANGED <<gr_up, gr_roots, gr_trusted, gr_sudo, gr_keeper, gr_meant>>
              ELSE /\ gr_up' = "up" /\ gr_roots' = RootsOf(gr_conf, gr_link)
                   /\ gr_trusted' = LastSaid(GrFiles(gr_conf), "trust", Own)
                   /\ gr_sudo' = given /\ gr_keeper' = given
                   /\ gr_meant' = [path \in Spelled |-> LeadsTo(path, gr_link)]
    /\ UNCHANGED <<gr_conf, gr_link, gr_running, gr_filed, gr_moves>>
\* It is stopped, its sessions with it, and may find another config when it is back.
Stops ==
    /\ gr_up = "up" /\ gr_up' = "down" /\ gr_running' = {} /\ gr_sudo' = FALSE /\ gr_keeper' = FALSE
    /\ gr_given' = FALSE /\ gr_serves < GrantServes /\ gr_conf' \in Confs
    /\ UNCHANGED <<gr_link, gr_roots, gr_trusted, gr_filed, gr_serves, gr_moves, gr_meant>>

\* sudo forgets the password; keep_fresh finds out within the minute.
Forgets ==
    /\ gr_given /\ gr_given' = FALSE
    /\ UNCHANGED <<gr_conf, gr_link, gr_up, gr_roots, gr_trusted, gr_sudo, gr_keeper, gr_running,
                   gr_filed, gr_serves, gr_moves, gr_meant>>
KeepFresh ==
    /\ gr_keeper /\ ~gr_given /\ gr_keeper' = FALSE /\ gr_sudo' = FALSE
    /\ UNCHANGED <<gr_conf, gr_link, gr_up, gr_roots, gr_trusted, gr_running, gr_filed, gr_serves,
                   gr_moves, gr_meant, gr_given>>
LinkMoves ==
    /\ gr_moves < GrantMoves /\ gr_moves' = gr_moves + 1
    /\ gr_link' \in {<<"home", "w">>, <<"srv">>, Nowhere} \ {gr_link}
    /\ UNCHANGED <<gr_conf, gr_up, gr_roots, gr_trusted, gr_sudo, gr_keeper, gr_running, gr_filed,
                   gr_serves, gr_meant, gr_given>>

-----------------------------------------------------------------------------
(* A phone. *)

\* Machine::allowed: inside a root, by where the path leads now.
Allowed(path) == \E root \in gr_roots : IsPrefix(root, LeadsTo(path, gr_link))
\* Machine::open: the files, what the daemon pins, and what plugins ask for.
SessionStack ==
    LET ask   == IF gr_trusted THEN GrFiles(gr_conf) ELSE GrPushed(GrFiles(gr_conf), "remote", [mode |-> "ask"])
        sober == IF gr_sudo THEN ask ELSE GrPushed(ask, "remote", [sudo |-> FALSE])
    IN  GrPushed(sober, "plugin", Claims)
OpensIn(cwd) ==
    /\ Cardinality(gr_running) < GrantMost
    /\ gr_running' = gr_running \cup
        {[cwd |-> cwd, mode |-> LastSaid(SessionStack, "mode", All), sudo |-> LastSaid(SessionStack, "sudo", All),
          kept |-> gr_keeper]}
    /\ gr_filed' = gr_filed \cup {cwd}
    /\ UNCHANGED <<gr_conf, gr_link, gr_up, gr_roots, gr_trusted, gr_sudo, gr_keeper, gr_serves,
                   gr_moves, gr_meant, gr_given>>
\* Act::Start, of any path a phone may name.
StartsIn(path) == gr_up = "up" /\ LeadsTo(path, gr_link) # Nowhere /\ Allowed(path) /\ OpensIn(LeadsTo(path, gr_link))
\* Act::Resume: the directory is the file's, and is looked at all the same.
ResumesIn(cwd) == gr_up = "up" /\ (\A s \in gr_running : s.cwd # cwd) /\ Allowed(cwd) /\ OpensIn(cwd)

GrantNext ==
    \/ Serves \/ Stops \/ Forgets \/ KeepFresh \/ LinkMoves
    \/ \E path \in Spelled : StartsIn(path)
    \/ \E cwd \in gr_filed : ResumesIn(cwd)

-----------------------------------------------------------------------------
(* Properties. *)

\* Wherever a session runs for a phone, the person's environment or own config
\* (or, both being silent, the home directory) named a directory it is inside
\* of, by where that name led when the daemon started.
RunsWhereMeant ==
    \A s \in gr_running :
        \E path \in ToSet(IF gr_conf.env # <<>> THEN gr_conf.env
                          ELSE IF gr_conf.roots # <<>> THEN gr_conf.roots ELSE <<gr_conf.home>>) :
            gr_meant[path] # Nowhere /\ IsPrefix(gr_meant[path], s.cwd)
\* While the daemon serves, each name of that list led somewhere: a misspelled
\* one neither narrows the list nor widens it to the home directory.
NoNameIsDropped ==
    gr_up = "up" =>
        LET listed == ToSet(IF gr_conf.env # <<>> THEN gr_conf.env ELSE gr_conf.roots)
        IN  /\ \A path \in listed : gr_meant[path] \in gr_roots
            /\ listed # {} => Cardinality(gr_roots) <= Cardinality(listed)
\* A session of a phone asks before it acts unless the person said twice that it
\* need not, and has sudo only if the person said so and the password was given
\* and had not been found forgotten when it began.
AsksUnlessTold ==
    \A s \in gr_running :
        /\ s.mode = "auto" => gr_conf.trust /\ gr_conf.mode = "auto"
        /\ s.sudo => s.kept
GrantsHold == RunsWhereMeant /\ NoNameIsDropped /\ AsksUnlessTold
=============================================================================
