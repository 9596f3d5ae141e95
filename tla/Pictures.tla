------------------------------ MODULE Pictures ------------------------------
(***************************************************************************)
(* The pictures of a conversation (ah-core/src/agent.rs and image.rs): one *)
(* the model draws is written to a file and kept as a reference; a request *)
(* carries the newest of them and names the others; one the person attached*)
(* always goes along.  The request is made of a copy: the conversation     *)
(* keeps its references.  Files may be drawn by two loops at once into one *)
(* directory, and may be deleted under it.                                 *)
(***************************************************************************)
EXTENDS Naturals, Sequences, SequencesExt, FiniteSetsExt

CONSTANTS
    PicSteps,     \* bound: messages said
    PicDrawn,     \* bound: pictures drawn
    PicTicks,     \* bound: how long the clock runs
    PicHistory    \* images.history

VARIABLES
    pic_msgs,     \* the conversation
    pic_at,       \* whose word it is: "person", "ready", "asked", "called"
    pic_saved,    \* the references of the reply under way
    pic_files,    \* the files of the directory: their names, and what is in them
    pic_clock,
    pic_cache,    \* image_cache: the last reference read, and what it held
    pic_echo,     \* images.echo
    pic_said,     \* messages said
    pic_drew,     \* pictures drawn, which are numbered
    pic_wire,     \* the last request's messages
    pic_asked,    \* history: what that request was made of
    pic_kept      \* history: what was saved under which name

pic_vars == <<pic_msgs, pic_at, pic_saved, pic_files, pic_clock, pic_cache, pic_echo, pic_said,
              pic_drew, pic_wire, pic_asked, pic_kept>>

PicMessage(role, images, calls) == [role |-> role, images |-> images, calls |-> calls]
Attached(n) == [is |-> "attached", of |-> <<0, n>>]
Reference(name) == [is |-> "reference", of |-> name]
Unread == [name |-> <<0, 0>>, holds |-> 0]
NoRequest == [msgs |-> <<>>, files |-> {}, budget |-> 0]

PicInit ==
    /\ pic_msgs = <<>> /\ pic_at = "person" /\ pic_saved = <<>> /\ pic_files = {}
    /\ pic_clock = 1 /\ pic_cache = Unread /\ pic_echo \in {"assistant", "user"}
    /\ pic_said = 0 /\ pic_drew = 0
    /\ pic_wire = <<>> /\ pic_asked = NoRequest /\ pic_kept = {}

-----------------------------------------------------------------------------
(* Saving one. *)

FileNames == {f.name : f \in pic_files}
\* save: the first name of this millisecond, from a number on, that nobody has.
FreeName(from) ==
    LET free == {n \in from..from + Len(pic_saved) + Cardinality(FileNames) + 1 : <<pic_clock, n>> \notin FileNames}
    IN  <<pic_clock, Min(free)>>
PutPicture(name) ==
    /\ pic_drew < PicDrawn
    /\ pic_drew' = pic_drew + 1
    /\ pic_files' = {f \in pic_files : f.name # name} \cup {[name |-> name, holds |-> pic_drew']}
    /\ pic_kept' = pic_kept \cup {[name |-> name, holds |-> pic_drew']}

\* stream_with_retry, an image: numbered by how many this reply has.
Draws ==
    /\ pic_at = "asked"
    /\ LET name == FreeName(Len(pic_saved))
       IN  PutPicture(name) /\ pic_saved' = Append(pic_saved, Reference(name))
    /\ UNCHANGED <<pic_msgs, pic_at, pic_clock, pic_cache, pic_echo, pic_said, pic_wire, pic_asked>>

\* Another window that resumed the session draws into its directory.
DrawsElsewhere ==
    /\ PutPicture(FreeName(0))
    /\ UNCHANGED <<pic_msgs, pic_at, pic_saved, pic_clock, pic_cache, pic_echo, pic_said, pic_wire,
                   pic_asked>>

\* A file goes, at some later moment than it was made.
Deleted ==
    /\ \E f \in pic_files : f.name[1] < pic_clock /\ pic_files' = pic_files \ {f}
    /\ UNCHANGED <<pic_msgs, pic_at, pic_saved, pic_clock, pic_cache, pic_echo, pic_said, pic_drew,
                   pic_wire, pic_asked, pic_kept>>

PicTick ==
    /\ pic_clock < PicTicks
    /\ pic_clock' = pic_clock + 1
    /\ UNCHANGED <<pic_msgs, pic_at, pic_saved, pic_files, pic_cache, pic_echo, pic_said, pic_drew,
                   pic_wire, pic_asked, pic_kept>>

-----------------------------------------------------------------------------
(* What goes on the wire. *)

\* image_data_url: of the one last read, or read again.
Held(name, cache) ==
    IF cache.name = name THEN {cache}
    ELSE {f \in pic_files : f.name = name}

\* One entry of a message: as it is, read back, or named in the text.
Entry(acc, e) ==
    IF e.is = "attached" THEN [acc EXCEPT !.images = Append(@, e)]
    ELSE IF acc.left > 0 /\ Held(e.of, acc.cache) # {}
    THEN LET f == CHOOSE f \in Held(e.of, acc.cache) : TRUE
         IN  [acc EXCEPT !.left = @ - 1, !.cache = f, !.images = Append(@, [is |-> "sent", of |-> e.of, holds |-> f.holds])]
    ELSE [acc EXCEPT !.notes = @ \cup {e.of}]

\* hydrate_images: the newest message first, while the budget lasts.
HydrateOne(acc, m) ==
    LET done == FoldLeft(Entry, [left |-> acc.left, cache |-> acc.cache, images |-> <<>>, notes |-> {}], m.images)
    IN  [left |-> done.left, cache |-> done.cache,
         out |-> <<[role |-> m.role, calls |-> m.calls, images |-> done.images, notes |-> done.notes]>> \o acc.out]
Hydrated(msgs, budget) ==
    FoldLeft(HydrateOne, [left |-> budget, cache |-> pic_cache, out |-> <<>>], Reverse(msgs))

\* move_assistant_images_to_user: onto the user's message that follows, or onto
\* one of their own; what comes before a tool's results stays where it is.
Carrier(images) == [role |-> "user", calls |-> FALSE, images |-> images, notes |-> {}]
Carried(m) == m.role = "assistant" /\ ~m.calls
MoveOne(acc, m) ==
    LET before == IF acc.moved # <<>> /\ m.role # "user" THEN Append(acc.out, Carrier(acc.moved)) ELSE acc.out
        here == IF m.role = "user" THEN [m EXCEPT !.images = acc.moved \o @] ELSE m
    IN  IF Carried(m) THEN [out |-> Append(before, [m EXCEPT !.images = <<>>]), moved |-> m.images]
        ELSE [out |-> Append(before, here), moved |-> <<>>]
Moved(all) ==
    LET done == FoldLeft(MoveOne, [out |-> <<>>, moved |-> <<>>], all)
    IN  IF done.moved = <<>> THEN done.out ELSE Append(done.out, Carrier(done.moved))

Sends(msgs, budget) ==
    LET done == Hydrated(msgs, budget)
        wire == IF pic_echo = "user" THEN Moved(done.out) ELSE done.out
    IN  /\ pic_wire' = wire /\ pic_cache' = done.cache
        /\ pic_asked' = [msgs |-> msgs, files |-> FileNames, budget |-> budget]

-----------------------------------------------------------------------------
(* The conversation. *)

Says(role, images, calls, at) ==
    /\ pic_said < PicSteps
    /\ pic_said' = pic_said + 1
    /\ pic_msgs' = Append(pic_msgs, PicMessage(role, images, calls))
    /\ pic_at' = at
    /\ UNCHANGED <<pic_files, pic_clock, pic_cache, pic_echo, pic_drew, pic_wire, pic_asked, pic_kept>>

PersonSays(images) == pic_at = "person" /\ Says("user", images, FALSE, "ready") /\ UNCHANGED pic_saved
\* A reply, whole or cut short: what it drew is kept with it.
Replied(calls) ==
    /\ pic_at = "asked"
    /\ Says("assistant", pic_saved, calls, IF calls THEN "called" ELSE "person")
    /\ pic_saved' = <<>>
ToolSays == pic_at = "called" /\ Says("tool", <<>>, FALSE, "ready") /\ UNCHANGED pic_saved

Requests ==
    /\ pic_at = "ready"
    /\ pic_at' = "asked"
    /\ Sends(pic_msgs, PicHistory)
    /\ UNCHANGED <<pic_msgs, pic_saved, pic_files, pic_clock, pic_echo, pic_said, pic_drew, pic_kept>>

\* last_generated_images
Drawn(msgs) == FlattenSeq([i \in 1..Len(msgs) |->
    IF msgs[i].role = "assistant" THEN SelectSeq(msgs[i].images, LAMBDA e : e.is = "reference") ELSE <<>>])
LastDrawn(msgs) == LET d == Drawn(msgs) IN IF d = <<>> THEN <<>> ELSE <<Last(d)>>

\* compact_inner: no picture goes to the one that writes the summary, and the
\* newest comes across with it.
Compacts ==
    /\ pic_at \in {"person", "ready"} /\ pic_msgs # <<>>
    /\ Sends(Append(pic_msgs, PicMessage("user", <<>>, FALSE)), 0)
    /\ pic_msgs' = <<PicMessage("user", LastDrawn(pic_msgs), FALSE)>>
    /\ UNCHANGED <<pic_at, pic_saved, pic_files, pic_clock, pic_echo, pic_said, pic_drew, pic_kept>>

PicNext ==
    \/ Draws \/ DrawsElsewhere \/ Deleted \/ PicTick
    \/ PersonSays(<<>>) \/ PersonSays(<<Attached(pic_said + 1)>>)
    \/ \E calls \in BOOLEAN : Replied(calls)
    \/ ToolSays \/ Requests \/ Compacts

-----------------------------------------------------------------------------
(* What a request says of the pictures. *)

Listed(msgs) == LET all == FlattenSeq([i \in 1..Len(msgs) |-> msgs[i].images])
                IN  [e \in 1..Len(all) |-> all[e].of]
Sent == {e \in UNION {Range(pic_wire[i].images) : i \in 1..Len(pic_wire)} : e.is = "sent"}
SentNames == {e.of : e \in Sent}
References(m) == {e.of : e \in {e \in Range(m.images) : e.is = "reference"}}

\* A file is what was saved under its name, whoever saves at the same moment,
\* and a picture sent is the one its reference was given for.
FilesAreTheirs ==
    /\ \A a, b \in pic_kept : a.name = b.name => a = b
    /\ pic_files \subseteq pic_kept
    /\ \A e \in Sent : [name |-> e.of, holds |-> e.holds] \in pic_kept

\* All that was attached goes along, and with it no more pictures than the
\* budget, in the order of the conversation, on whichever message they travel;
\* the others are named.  None gives way to one of an earlier message while its
\* file is there.
NewestAreSent ==
    LET msgs == pic_asked.msgs
        refs == UNION {References(msgs[i]) : i \in 1..Len(msgs)}
    IN  /\ Listed(pic_wire) = SelectSeq(Listed(msgs), LAMBDA name : name \in SentNames \/ name \notin refs)
        /\ Cardinality(SentNames) <= pic_asked.budget
        /\ refs \ SentNames \subseteq UNION {pic_wire[i].notes : i \in 1..Len(pic_wire)}
        /\ \A i, j \in 1..Len(msgs) : \A a \in References(msgs[i]), b \in References(msgs[j]) :
              i < j /\ a \in SentNames /\ b \in pic_asked.files => b \in SentNames

\* Nothing comes between a call and its result; and where pictures may not be
\* on an assistant's message, they are only on one that called.
NothingBetween ==
    /\ \A i \in 1..Len(pic_wire) - 1 : pic_wire[i].calls => pic_wire[i + 1].role = "tool"
    /\ pic_echo = "user" => \A i \in 1..Len(pic_wire) : Carried(pic_wire[i]) => pic_wire[i].images = <<>>

PicturesHold == FilesAreTheirs /\ NewestAreSent /\ NothingBetween
=============================================================================
