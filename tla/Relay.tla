------------------------------- MODULE Relay -------------------------------
(***************************************************************************)
(* The hub of a pairing (relay/src/hub.rs) as the two ends of it see it:   *)
(* the log of frames, their numbers, a phone's subscription; and the link  *)
(* either end reaches it by (ah-remote/src/link.rs).  A link is a thread   *)
(* between two queues: out, which outlives the socket, and evs.  What is   *)
(* in flight is still at the front of out, or at the back of evs already,  *)
(* and a break takes as much of it as it likes.                            *)
(***************************************************************************)
EXTENDS Integers, Sequences, SequencesExt, FiniteSetsExt

CONSTANTS
    LogKeep,      \* schema::LOG_KEEP: frames the log keeps
    PruneEvery,   \* schema::PRUNE_EVERY
    Limit,        \* the most one replay holds
    MaxFaults,    \* bound: sockets that break, dials that fail, frames refused, ends that die,
                  \* commands that come twice
    AgesOut       \* TRUE where all that is kept may grow older than LOG_RETAIN_MS

ASSUME RelayAssumption ==
    /\ {LogKeep, PruneEvery, Limit} \subseteq Nat \ {0} /\ MaxFaults \in Nat
    /\ AgesOut \in BOOLEAN

VARIABLES
    log,      \* every frame that was stored, the n-th with the number n
    oldest,   \* the first of them that the table still has
    att,      \* Attach of the phone's socket: sub, since, and sub_ms within its second
    sock,     \* whether each end has a socket
    out,      \* Link::out of each end
    evs,      \* the events its link has for each end
    faults,
    carried,  \* history: the commands the hub handed on
    skipped,  \* history: the frames a phone that asked was passed over with
    torn,     \* history: the frames a broken socket took from a phone
    late      \* history: whether an asking went out on a later socket than its own

relay_vars == <<log, oldest, att, sock, out, evs, faults, carried, skipped, torn, late>>

Ends == {"desk", "phone"}
Fresh == [sub |-> FALSE, since |-> 0, recent |-> FALSE]
Open == [t |-> "open"]
Lost == [t |-> "lost"]
Stale == [t |-> "stale"]

RelayInit ==
    /\ log = <<>> /\ oldest = 1 /\ att = Fresh
    /\ sock = [e \in Ends |-> FALSE]
    /\ out = [e \in Ends |-> <<>>] /\ evs = [e \in Ends |-> <<>>]
    /\ faults = 0 /\ carried = {} /\ skipped = {} /\ torn = {} /\ late = FALSE

To(e, frames) == evs' = [evs EXCEPT ![e] = @ \o frames]
Took(e) == out' = [out EXCEPT ![e] = Tail(@)]
Sent(e, t) == sock[e] /\ out[e] # <<>> /\ Head(out[e]).t = t

-----------------------------------------------------------------------------
(* The link. *)

\* A mutant: the hub takes the new socket for the old one.
ConnectKnown(e) ==
    /\ ~sock[e]
    /\ sock' = [sock EXCEPT ![e] = TRUE]
    /\ To(e, <<Open>>)
    /\ UNCHANGED <<log, oldest, att, out, faults, carried, skipped, torn, late>>

\* run: the dial goes through.  The hub has nothing on a socket it just took.
Connect(e) ==
    /\ ~sock[e]
    /\ sock' = [sock EXCEPT ![e] = TRUE]
    /\ To(e, <<Open>>)
    /\ att' = IF e = "phone" THEN Fresh ELSE att
    /\ UNCHANGED <<log, oldest, out, faults, carried, skipped, torn, late>>

\* run: the dial fails, for now.
DialFails(e) ==
    /\ ~sock[e] /\ faults < MaxFaults
    /\ faults' = faults + 1
    /\ To(e, <<Lost>>)
    /\ UNCHANGED <<log, oldest, att, sock, out, carried, skipped, torn, late>>

\* How many events the link may not have read yet: of those after the last Open.
Unread(q) == {n \in 0..Len(q) : \A i \in Len(q) - n + 1..Len(q) :
                                    q[i].t \notin {"open", "stale", "lost"}}

\* History: what is for the socket that broke goes by another name from then on,
\* an asking and the Open that makes a phone ask.
Renamed(f, e) == IF f.t = "sub" THEN [f EXCEPT !.t = "late"]
                 ELSE IF f.t = "open" /\ e = "phone" THEN Stale ELSE f
Outlives(q, e) == [i \in DOMAIN q |-> Renamed(q[i], e)]
Torn(q)     == {f.n : f \in {g \in ToSet(q) : g.t = "evt"}}

Broken(e, sent, unread) ==
    LET q == evs[e]
        left == Len(q) - unread
    IN  /\ sock' = [sock EXCEPT ![e] = FALSE]
        /\ out' = [out EXCEPT ![e] = Outlives(SubSeq(@, sent + 1, Len(@)), e)]
        /\ evs' = [evs EXCEPT ![e] = Outlives(SubSeq(q, 1, left), e) \o <<Lost>>]
        /\ torn' = torn \cup Torn(SubSeq(q, left + 1, Len(q)))
        /\ UNCHANGED <<log, oldest, att, carried, skipped, late>>

\* run: a send or a read fails.  What was sent and not taken is gone, and what
\* the hub sent and the link had not read; what was not sent waits for the next.
Break(e) ==
    /\ sock[e] /\ faults < MaxFaults
    /\ faults' = faults + 1
    /\ \E sent \in 0..Len(out[e]), unread \in Unread(evs[e]) : Broken(e, sent, unread)

-----------------------------------------------------------------------------
(* The hub. *)

\* prune, with frames up to this number: the oldest go, by their number, and as
\* many more by their age or their size.  A frame just stored is not old.
PrunedTo(last) == {first \in oldest..last : first > last - LogKeep}

\* The phones a frame is handed to: those attached that asked.
HearsUnasked == sock["phone"]     \* a mutant
Hears == sock["phone"] /\ att.sub

\* publish: stored, numbered, and handed to a phone that asked.
Publish ==
    /\ Sent("desk", "pub")
    /\ LET p == Head(out["desk"])
           n == Len(log) + 1
           f == [t |-> "evt", n |-> n, link |-> p.link, seq |-> p.seq, pay |-> p.pay]
       IN  /\ log' = Append(log, f)
           /\ IF n % PruneEvery = 0 THEN oldest' \in PrunedTo(n) ELSE UNCHANGED oldest
           /\ IF Hears THEN To("phone", <<f>>) ELSE UNCHANGED evs
    /\ Took("desk")
    /\ UNCHANGED <<att, sock, faults, carried, skipped, torn, late>>

\* publish, where within_the_day says no (HubDoor has the count).
Refuse ==
    /\ Sent("desk", "pub") /\ faults < MaxFaults
    /\ faults' = faults + 1
    /\ Took("desk")
    /\ UNCHANGED <<log, oldest, att, sock, evs, carried, skipped, torn, late>>

\* alarm: pruned, also while nothing is stored; by then all of it may be old.
Tidy ==
    /\ oldest' \in PrunedTo(Len(log)) \cup IF AgesOut THEN {Len(log) + 1} ELSE {}
    /\ oldest' # oldest
    /\ UNCHANGED <<log, att, sock, out, evs, faults, carried, skipped, torn, late>>

\* MIN(n), of nothing 0.
Oldest == IF oldest > Len(log) THEN 0 ELSE oldest
After(since) == Max({since + 1, oldest})
GapUntold(since) == <<>>      \* a mutant
Gap(since) == IF since > 0 /\ Oldest > since + 1 THEN <<[t |-> "gap", from |-> Oldest]>> ELSE <<>>

\* subscribe: one too soon, or for less than it already had, is dropped.  The
\* others get a gap, and the first Limit of the frames they have not had.
Throttled(since) == att.recent \/ (att.sub /\ since < att.since)
Subscribe ==
    /\ Sent("phone", "sub") \/ Sent("phone", "late")
    /\ LET since == Head(out["phone"]).since
           last  == Min({Len(log), After(since) + Limit - 1})
           rows  == SubSeq(log, After(since), last)
       IN  IF Throttled(since) THEN UNCHANGED <<evs, att, skipped, late>>
           ELSE /\ To("phone", Gap(since) \o rows)
                /\ att' = [sub |-> TRUE, recent |-> TRUE,
                           since |-> IF rows = <<>> THEN since ELSE last]
                /\ skipped' = skipped \cup
                      IF Oldest = 0 THEN since + 1..Len(log) ELSE last + 1..Len(log)
                /\ late' = (late \/ Head(out["phone"]).t = "late")
    /\ Took("phone")
    /\ UNCHANGED <<log, oldest, sock, faults, carried, torn>>

\* SUB_EVERY_MS have passed.
Calm ==
    /\ att.recent
    /\ att' = [att EXCEPT !.recent = FALSE]
    /\ UNCHANGED <<log, oldest, sock, out, evs, faults, carried, skipped, torn, late>>

\* command: to the desktop, or answered with Offline, which a phone only prints.
Command ==
    /\ Sent("phone", "cmd")
    /\ LET c == Head(out["phone"])
       IN  IF sock["desk"] THEN To("desk", <<c>>) /\ carried' = carried \cup {c}
                           ELSE UNCHANGED <<evs, carried>>
    /\ Took("phone")
    /\ UNCHANGED <<log, oldest, att, sock, faults, skipped, torn, late>>

\* A command is handed on again, which an opener is there to notice.
Again ==
    /\ sock["desk"] /\ evs["desk"] = <<>> /\ faults < MaxFaults
    /\ faults' = faults + 1
    /\ \E c \in carried : To("desk", <<c>>) /\ carried' = carried \ {c}
    /\ UNCHANGED <<log, oldest, att, sock, out, skipped, torn, late>>

Hub == Publish \/ Refuse \/ Subscribe \/ Command
=============================================================================
