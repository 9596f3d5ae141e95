-------------------------------- MODULE Files --------------------------------
(***************************************************************************)
(* Agents side by side at the files of one directory (ah-core/src/tools/    *)
(* fs.rs, mod.rs): read_file, which takes no lock, and write_file and       *)
(* edit_file, which take the lock of the path as it was written.  A name is *)
(* a file's, or a symbolic link's, which may lead out of the directory.     *)
(***************************************************************************)
EXTENDS Edits

CONSTANTS
    FileAgents,     \* the agents of one process
    FileCalls,      \* bound: calls of a behaviour
    FileOthers      \* bound: what a person or a command does to the files meanwhile

VARIABLES
    file_body,      \* what each file holds: text, Gone, or Opaque (a device, too large, not text)
    file_link,      \* what the link leads to
    file_lock,      \* path_lock: who holds the lock of each name
    file_pc, file_call,             \* of each agent: where it is, its call,
    file_seen, file_new, file_to,   \* what it read, what it is to write, what it opened
    file_told,      \* history: by file, the diffs that calls answered with, in order
    file_only,      \* history: nobody else wrote, no write failed, and a file was written by one name
    file_moved,     \* history: the link was moved after it was looked at
    file_calls, file_others

file_agent == <<file_pc, file_call, file_seen, file_new, file_to>>
file_hist  == <<file_told, file_only, file_moved>>
file_vars == <<file_body, file_link, file_lock, file_agent, file_hist, file_calls, file_others>>

RealFiles == {"inside", "outside"}
Names == {"inside", "link"}
Gone == <<"gone">>
Opaque == <<"opaque">>
NoAgent == 0
NoCall == [op |-> "", name |-> ""]
Resolved(name) == IF name = "link" THEN file_link ELSE name
\* leads_outside
LeadsOutside(name) == name = "link" /\ file_link = "outside"
IsText(body) == body \notin {Gone, Opaque}

Change(old, new) == [old |-> old, new |-> new, all |-> FALSE]
Calls ==
    [op : {"read"}, name : Names] \cup
    [op : {"write"}, name : Names, text : {<<"w">>}] \cup
    [op : {"edit"}, name : Names,
     edits : {<<Change(<<"x">>, <<"u">>)>>, <<Change(<<"y">>, <<"v">>)>>,
              <<Change(<<"x">>, <<"y">>), Change(<<"z">>, <<"v">>)>>}]

FileInit ==
    /\ file_body \in [RealFiles -> {<<"x", "\n", "y">>, Gone, Opaque}] /\ file_body["outside"] # Opaque
    /\ file_link \in RealFiles
    /\ file_lock = [n \in Names |-> NoAgent]
    /\ file_pc = [a \in FileAgents |-> "idle"] /\ file_call = [a \in FileAgents |-> NoCall]
    /\ file_seen = [a \in FileAgents |-> Gone] /\ file_new = [a \in FileAgents |-> Gone] /\ file_to = [a \in FileAgents |-> ""]
    /\ file_told = [f \in RealFiles |-> <<>>] /\ file_only = TRUE /\ file_moved = FALSE
    /\ file_calls = 0 /\ file_others = 0

-----------------------------------------------------------------------------
(* An agent.                                                                *)

FileGoes(a, from, to) == file_pc[a] = from /\ file_pc' = [file_pc EXCEPT ![a] = to]
\* The call is over: the lock is let go of, and what was read is forgotten.
Answers(a) ==
    /\ file_pc' = [file_pc EXCEPT ![a] = "idle"] /\ file_call' = [file_call EXCEPT ![a] = NoCall]
    /\ file_seen' = [file_seen EXCEPT ![a] = Gone] /\ file_new' = [file_new EXCEPT ![a] = Gone] /\ file_to' = [file_to EXCEPT ![a] = ""]
    /\ file_lock' = [n \in Names |-> IF file_lock[n] = a THEN NoAgent ELSE file_lock[n]]

Begins(a) ==
    /\ file_calls < FileCalls /\ file_calls' = file_calls + 1
    /\ \E c \in Calls :
          /\ FileGoes(a, "idle", IF c.op = "read" THEN "reads" ELSE "locks")
          /\ file_call' = [file_call EXCEPT ![a] = c]
          /\ file_only' = (file_only /\ (c.op = "read" \/ c.name = "inside" \/ file_link = "outside"))
    /\ UNCHANGED <<file_body, file_link, file_lock, file_seen, file_new, file_to, file_told, file_moved, file_others>>
\* ReadFile::run: what is there as it is opened.
Reads(a) ==
    /\ file_pc[a] = "reads" /\ Answers(a)
    /\ UNCHANGED <<file_body, file_link, file_hist, file_calls, file_others>>
\* A mutant: nobody waits for the lock.
LocksAtOnce(a) ==
    /\ FileGoes(a, "locks", "checks")
    /\ file_lock' = [file_lock EXCEPT ![file_call[a].name] = a]
    /\ UNCHANGED <<file_body, file_link, file_call, file_seen, file_new, file_to, file_hist, file_calls, file_others>>
Locks(a) ==
    /\ FileGoes(a, "locks", "checks") /\ file_lock[file_call[a].name] = NoAgent
    /\ file_lock' = [file_lock EXCEPT ![file_call[a].name] = a]
    /\ UNCHANGED <<file_body, file_link, file_call, file_seen, file_new, file_to, file_hist, file_calls, file_others>>
\* A link that leads out of the directory is refused by its name.
Checks(a) ==
    /\ \/ file_pc[a] = "checks" /\ LeadsOutside(file_call[a].name) /\ Answers(a)
       \/ /\ ~LeadsOutside(file_call[a].name) /\ FileGoes(a, "checks", "takes")
          /\ UNCHANGED <<file_lock, file_call, file_seen, file_new, file_to>>
    /\ UNCHANGED <<file_body, file_link, file_hist, file_calls, file_others>>
\* What a call makes of a file: an edit needs text that every change of it is found in.
NewBody(call, body) ==
    IF call.op = "write" THEN [ok |-> TRUE, text |-> call.text]
    ELSE IF IsText(body) THEN Apply(body, call.edits) ELSE Refused(body)
\* read_capped_text, and the text that is to be written.
Takes(a) ==
    /\ file_pc[a] = "takes"
    /\ \E body \in {file_body[Resolved(file_call[a].name)]} : \E made \in {NewBody(file_call[a], body)} :
          \/ ~made.ok /\ Answers(a)
          \/ /\ made.ok /\ FileGoes(a, "takes", "opens")
             /\ file_seen' = [file_seen EXCEPT ![a] = body] /\ file_new' = [file_new EXCEPT ![a] = made.text]
             /\ UNCHANGED <<file_lock, file_call, file_to>>
    /\ UNCHANGED <<file_body, file_link, file_hist, file_calls, file_others>>
\* std::fs::write opens and empties the file; a device cannot be emptied.
Opens(a) ==
    LET f == Resolved(file_call[a].name)
    IN /\ \/ /\ FileGoes(a, "opens", "fills") /\ file_to' = [file_to EXCEPT ![a] = f]
             /\ file_body' = [file_body EXCEPT ![f] = IF @ = Opaque THEN @ ELSE <<>>]
             /\ UNCHANGED <<file_lock, file_call, file_seen, file_new>>
          \/ file_pc[a] = "opens" /\ Answers(a) /\ UNCHANGED file_body
       /\ UNCHANGED <<file_link, file_hist, file_calls, file_others>>
\* Then it is filled, and the answer shows what changed; or it is not.
Fills(a) ==
    /\ file_pc[a] = "fills" /\ Answers(a)
    /\ \/ /\ file_body' = [file_body EXCEPT ![file_to[a]] = file_new[a]]
          /\ file_told' = IF file_seen[a] = Opaque THEN file_told
                          ELSE [file_told EXCEPT ![file_to[a]] = Append(@, <<file_seen[a], file_new[a]>>)]
          /\ file_only' = (file_only /\ file_seen[a] # Opaque)
       \/ file_only' = FALSE /\ UNCHANGED <<file_body, file_told>>
    /\ UNCHANGED <<file_link, file_moved, file_calls, file_others>>

\* A command that runs, or a person: writes, removes, moves the link.
Others ==
    /\ file_others < FileOthers /\ file_others' = file_others + 1
    /\ \/ /\ file_body' = [file_body EXCEPT !["inside"] = IF @ = Gone THEN <<"y">> ELSE Gone]
          /\ file_only' = FALSE /\ UNCHANGED <<file_link, file_moved>>
       \/ /\ \E f \in RealFiles : f # file_link /\ file_link' = f
          /\ file_moved' = (file_moved \/ \E a \in FileAgents : file_call[a] # NoCall /\ file_call[a].name = "link")
          /\ file_only' = FALSE /\ UNCHANGED file_body
    /\ UNCHANGED <<file_lock, file_agent, file_told, file_calls>>

FileNext == (\E a \in FileAgents : Begins(a) \/ Reads(a) \/ Locks(a) \/ Checks(a) \/ Takes(a) \/ Opens(a) \/ Fills(a)) \/ Others

-----------------------------------------------------------------------------
\* Two agents at one file lose nothing of each other's: what each was shown as
\* the file it changed is what the one before it left, and with nobody in the
\* middle of it the file is as the last of them was told.
NothingIsLost ==
    file_only =>
       LET told == file_told["inside"]
       IN /\ \A i \in 2 .. Len(told) : told[i][1] = told[i - 1][2]
          /\ told # <<>> /\ (\A a \in FileAgents : file_pc[a] # "fills") => file_body["inside"] = Last(told)[2]
\* A file outside of the directory is not written through a link, unless the
\* link was moved while a call was at it.
OutsideIsLeft == file_told["outside"] # <<>> \/ (\E a \in FileAgents : file_to[a] = "outside") => file_moved
FilesAreKept == NothingIsLost /\ OutsideIsLeft
=============================================================================
