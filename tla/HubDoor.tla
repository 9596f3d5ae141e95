------------------------------- MODULE HubDoor -------------------------------
(***************************************************************************)
(* Who gets a socket at a hub (relay/src/hub.rs and auth.rs): pairing and  *)
(* revoking, a connect signature with its clock and its nonce, the day's   *)
(* connects, one desktop and a few phones, the frames of a day, and the    *)
(* alarm of a hub nobody connects to.  A tick of the clock is long next to *)
(* a request; the constants keep the order of the code's.                  *)
(***************************************************************************)
EXTENDS Integers, FiniteSets

CONSTANTS
    DoorNow,      \* bound: how long it goes on
    DoorSigns,    \* bound: connects that are signed
    Skew,         \* SKEW_MS: how far clocks may be apart
    NonceKeep,    \* schema::NONCE_KEEP_MS
    DeskSilent,   \* DESK_SILENT_MS
    SeenEvery,    \* SEEN_EVERY_MS
    Connects,     \* CONNECTS_PER_DAY
    MaxDevices,   \* MAX_DEVICES
    MaxKeys,      \* bound: pairings
    MaxAsk,       \* bound: requests under way
    Idle,         \* thirty days
    Retain,       \* schema::LOG_RETAIN_MS
    Day,          \* a day
    MaxFrames,    \* bound: frames
    FramesPerDay  \* schema::FRAMES_PER_DAY

ASSUME DoorAssumption ==
    /\ {DoorNow, DoorSigns, Skew, SeenEvery, DeskSilent, Idle, Retain, MaxKeys, MaxAsk, MaxFrames} \subseteq Nat
    /\ {Connects, MaxDevices, Day, FramesPerDay} \subseteq Nat \ {0}
    /\ NonceKeep = 2 * Skew /\ SeenEvery < DeskSilent
    /\ Day <= Retain + 1   \* what is kept reaches past the day it is of

VARIABLES
    door_now,     \* the hub's clock
    door,         \* the tables of the hub, apart from its log
    door_socks,   \* the sockets: role, nonce, Attach::seen, and when it was heard
    door_frames,  \* the numbers the frames of a day are measured by: the cells day, n0 and
                  \* last, whether day and n0 are rows as well, and the log, as far as they need it;
                  \* history: alien says that a cell may be of a log that was erased
    door_ask,     \* requests past their checks that await a body or a digest
    door_made,    \* the connects that were signed
    door_opened,  \* history: how many sockets each of them opened
    door_keys,    \* history: the keys told, each of them drawn anew
    door_taken    \* history: the frames this log took in today

door_vars == <<door_now, door, door_socks, door_frames, door_ask, door_made, door_opened,
               door_keys, door_taken>>

NoHub == [key |-> 0, revoked |-> FALSE, nonces |-> {}, day |-> 0, connects |-> 0, last |-> 0]
NoFrames == [day |-> 0, n0 |-> 0, last |-> 0, rows |-> FALSE, top |-> 0, at |-> 0, kept |-> FALSE,
             alien |-> FALSE]

DoorInit ==
    /\ door_now = 0 /\ door = NoHub /\ door_socks = {} /\ door_frames = NoFrames
    /\ door_ask = {} /\ door_made = {}
    /\ door_opened = [n \in 1..DoorSigns |-> 0] /\ door_keys = 0 /\ door_taken = 0

DayOf(t) == t \div Day
DoorTick ==
    /\ door_now < DoorNow /\ door_ask = {}
    /\ door_now' = door_now + 1
    /\ door_taken' = IF DayOf(door_now') = DayOf(door_now) THEN door_taken ELSE 0
    /\ UNCHANGED <<door, door_socks, door_frames, door_ask, door_made, door_opened, door_keys>>

-----------------------------------------------------------------------------
(* Pairing. *)

Awaits(r) ==
    /\ Cardinality(door_ask) < MaxAsk
    /\ door_ask' = door_ask \cup {r}
    /\ UNCHANGED <<door_now, door, door_socks, door_frames, door_made, door_opened, door_keys, door_taken>>
Pairing(n) == [is |-> "pair", c |-> n]

\* provision: the checks, before the body is awaited.
DoorProvision(n) ==
    /\ ~door.revoked /\ door.key = 0 /\ Pairing(n) \notin door_ask /\ door_keys < MaxKeys
    /\ Awaits(Pairing(n))

\* provision: the body is there, and says the key.
DoorBody(r) ==
    /\ r \in door_ask /\ r.is = "pair"
    /\ door_ask' = door_ask \ {r}
    /\ door_keys' = door_keys + 1
    /\ door' = [door EXCEPT !.key = door_keys', !.last = door_now]
    /\ UNCHANGED <<door_now, door_socks, door_frames, door_made, door_opened, door_taken>>

-----------------------------------------------------------------------------
(* Connecting. *)

Abs(x) == IF x < 0 THEN -x ELSE x

\* sign_connect, by a clock of its own.
DoorSign(role, ts) ==
    /\ door.key # 0 /\ Cardinality(door_made) < DoorSigns
    /\ door_made' = door_made \cup
          {[nonce |-> Cardinality(door_made) + 1, role |-> role, ts |-> ts, key |-> door.key]}
    /\ UNCHANGED <<door_now, door, door_socks, door_frames, door_ask, door_opened, door_keys, door_taken>>

\* auth::verify, by the key and the clock read before it awaits the digest.
Verified(c) == c.key = door.key /\ Abs(door_now - c.ts) <= Skew
Dial(c) == [is |-> "dial", c |-> c.nonce]
Revoke(c) == [is |-> "revoke", c |-> c.nonce]

\* socket and revoke, as far as their signature.
DoorKnock(c) ==
    /\ Verified(c)
    /\ \/ ~door.revoked /\ Awaits(Dial(c))
       \/ Awaits(Revoke(c))

\* next_connect.
RoomForConnect == door.day # DayOf(door_now) \/ door.connects < Connects
WithConnect == [door EXCEPT !.day = DayOf(door_now),
                            !.connects = IF door.day # DayOf(door_now) THEN 1 ELSE @ + 1]

FirstUse(c) == \A x \in door.nonces : x.nonce # c.nonce

\* A mutant: a nonce is remembered for as long as the clocks may be apart.
WithNonceSkew(d, c) == [d EXCEPT !.nonces =
    {x \in @ \cup {[nonce |-> c.nonce, ts |-> door_now]} : x.ts >= door_now - Skew}]
WithNonce(d, c) == [d EXCEPT !.nonces =
    {x \in @ \cup {[nonce |-> c.nonce, ts |-> door_now]} : x.ts >= door_now - NonceKeep}]

Of(role) == {s \in door_socks : s.role = role}
Quiet(s) == door_now - s.seen >= DeskSilent
LeastHeard == {s \in Of("phone") : \A t \in Of("phone") : s.seen <= t.seen}

\* socket: the sockets that make room for this one.
MakesRoom(role, out) ==
    IF role = "desk" THEN out = Of("desk")
    ELSE IF Cardinality(Of("phone")) >= MaxDevices THEN \E s \in LeastHeard : out = {s}
    ELSE out = {}

\* socket: a connect that was signed for this hub.  Refused ones leave what was
\* counted and remembered until then.
DoorDial(c) ==
    /\ Dial(c) \in door_ask
    /\ door_ask' = door_ask \ {Dial(c)}
    /\ IF ~RoomForConnect THEN UNCHANGED <<door, door_socks, door_opened>>
       ELSE IF ~FirstUse(c) THEN door' = WithConnect /\ UNCHANGED <<door_socks, door_opened>>
       ELSE IF c.role = "desk" /\ \E s \in Of("desk") : ~Quiet(s)
       THEN door' = WithNonce(WithConnect, c) /\ UNCHANGED <<door_socks, door_opened>>
       ELSE /\ door' = [WithNonce(WithConnect, c) EXCEPT
                  !.last = IF door_now - @ > SeenEvery THEN door_now ELSE @]
            /\ \E out \in SUBSET door_socks :
                  /\ MakesRoom(c.role, out)
                  /\ door_socks' = (door_socks \ out) \cup
                       {[role |-> c.role, nonce |-> c.nonce, seen |-> door_now, heard |-> door_now]}
            /\ door_opened' = [door_opened EXCEPT ![c.nonce] = @ + 1]
    /\ UNCHANGED <<door_now, door_frames, door_made, door_keys, door_taken>>

-----------------------------------------------------------------------------
(* Sockets that are open. *)

HeardNow(s, seen) ==
    door_socks' = (door_socks \ {s}) \cup {[s EXCEPT !.seen = seen, !.heard = door_now]}
Freshened(s) == IF door_now - s.seen > SeenEvery THEN door_now ELSE s.seen

\* A mutant: a frame says nothing about who is there.
DoorMessageUnheard(s) ==
    /\ s \in door_socks
    /\ HeardNow(s, s.seen)
    /\ UNCHANGED <<door_now, door, door_frames, door_ask, door_made, door_opened, door_keys, door_taken>>

\* websocket_message: a frame that is not stored.
DoorMessage(s) ==
    /\ s \in door_socks
    /\ HeardNow(s, Freshened(s))
    /\ UNCHANGED <<door_now, door, door_frames, door_ask, door_made, door_opened, door_keys, door_taken>>

\* websocket_message: a keepalive.
DoorKeepalive(s) ==
    /\ s \in Of("desk")
    /\ HeardNow(s, door_now)
    /\ UNCHANGED <<door_now, door, door_frames, door_ask, door_made, door_opened, door_keys, door_taken>>

DoorClose(s) ==
    /\ s \in door_socks
    /\ door_socks' = door_socks \ {s}
    /\ UNCHANGED <<door_now, door, door_frames, door_ask, door_made, door_opened, door_keys, door_taken>>

\* newest: what is cached, or the last number that is kept.
Newest == LET f == door_frames IN IF f.last > 0 THEN f.last ELSE IF f.kept THEN f.top ELSE 0

\* within_the_day, for a day already begun.
Within == Newest - door_frames.n0 < FramesPerDay

Stored(f) == [f EXCEPT !.top = @ + 1, !.last = f.top + 1, !.at = door_now, !.kept = TRUE]

\* within_the_day, for the first frame of a day: it marks where the day starts,
\* in the cells and in the rows.  The mark is of this log if what was cached is,
\* and the day is if none of its frames were measured otherwise.
Begun(f) ==
    [f EXCEPT !.day = DayOf(door_now), !.n0 = Newest, !.rows = TRUE,
              !.alien = (@ /\ door_taken # 0) \/ f.last \notin {0, f.top}]

\* publish.
DoorFrame(s) ==
    /\ s \in Of("desk") /\ door_frames.top < MaxFrames
    /\ HeardNow(s, Freshened(s))
    /\ IF door_frames.day # DayOf(door_now)
       THEN /\ door_frames' = Stored(Begun(door_frames))
            /\ door_taken' = door_taken + 1
       ELSE IF Within
       THEN /\ door_frames' = Stored(door_frames)
            /\ door_taken' = door_taken + 1
       ELSE /\ door_frames' = [door_frames EXCEPT !.last = Newest]
            /\ UNCHANGED door_taken
    /\ UNCHANGED <<door_now, door, door_ask, door_made, door_opened, door_keys>>

\* The object is evicted, and its cells with it.  Hub::new reads what has a row.
DoorHibernate ==
    /\ door_frames' = [door_frames EXCEPT !.last = 0,
                          !.day = IF door_frames.rows THEN @ ELSE 0,
                          !.n0 = IF door_frames.rows THEN @ ELSE 0]
    /\ door_frames' # door_frames
    /\ UNCHANGED <<door_now, door, door_socks, door_ask, door_made, door_opened, door_keys, door_taken>>

\* revoke, by a signature of its own.
DoorRevoke(c) ==
    /\ Revoke(c) \in door_ask
    /\ door_ask' = door_ask \ {Revoke(c)}
    /\ IF FirstUse(c)
       THEN /\ door' = [WithNonce(door, c) EXCEPT !.revoked = TRUE]
            /\ door_socks' = {} /\ door_frames' = [door_frames EXCEPT !.kept = FALSE]
       ELSE UNCHANGED <<door, door_socks, door_frames>>
    /\ UNCHANGED <<door_now, door_made, door_opened, door_keys, door_taken>>

\* delete_all: the tables, and the numbers of the log.  The cells stay.
Erased(f) == [f EXCEPT !.rows = FALSE, !.top = 0, !.at = 0, !.kept = FALSE, !.alien = TRUE]

\* alarm: what is older than a week goes from the log; after a month without a
\* connect everything does.  It comes when nobody is connected.
DoorAlarm ==
    /\ door_socks = {} /\ door_ask = {} /\ door # NoHub
    /\ IF door_now - door.last > Idle
       THEN door' = NoHub /\ door_frames' = Erased(door_frames) /\ door_taken' = 0
       ELSE /\ door_frames.kept /\ door_now - door_frames.at > Retain
            /\ door_frames' = [door_frames EXCEPT !.kept = FALSE]
            /\ UNCHANGED <<door, door_taken>>
    /\ UNCHANGED <<door_now, door_socks, door_ask, door_made, door_opened, door_keys>>

DoorNext ==
    \/ DoorTick \/ DoorHibernate \/ DoorAlarm
    \/ \E n \in 1..2 : DoorProvision(n)
    \/ \E r \in door_ask : DoorBody(r)
    \/ \E role \in {"desk", "phone"}, d \in {-Skew, Skew} : DoorSign(role, door_now + d)
    \/ \E c \in door_made : DoorKnock(c) \/ DoorDial(c) \/ DoorRevoke(c)
    \/ \E s \in door_socks : DoorMessage(s) \/ DoorKeepalive(s) \/ DoorClose(s) \/ DoorFrame(s)
DoorSpec == DoorInit /\ [][DoorNext]_door_vars

-----------------------------------------------------------------------------
(* Properties. *)

DoorTypeOK ==
    /\ door.connects \in 0..Connects
    /\ Cardinality(Of("desk")) <= 1 /\ Cardinality(Of("phone")) <= MaxDevices
    /\ \A s \in door_socks : s.seen <= s.heard /\ s.heard <= door_now

\* A signature opens one socket, for as long as any clock takes it for fresh.
SocketOnce == \A n \in DOMAIN door_opened : door_opened[n] <= 1

\* A desktop that was heard of late keeps its place: another takes it only from
\* one that was silent for DESK_SILENT_MS, give or take SEEN_EVERY_MS.
DeskKeepsPlace == [][\A s \in Of("desk") :
    (\E t \in door_socks' : t.role = "desk" /\ t.nonce # s.nonce)
        => door_now - s.heard >= DeskSilent - SeenEvery]_door_vars

\* A log takes no more frames in a day than it may, also if the hub is evicted
\* between every two of them.  The exception is the code's: the alarm of a hub
\* nobody used for a month erases the log and leaves the cells the day is
\* measured by, so if the hub is paired again before it is evicted, the day it
\* then begins may be measured from a number of the log that is gone.
DayCap == door.revoked \/ door_frames.alien \/ door_taken <= FramesPerDay

\* What the door is there for: a signature opens one socket, and a log takes no
\* more in a day than it may, unless it is measured by one that was erased
\* (auth::verify, first_use, within_the_day, alarm).
DoorHolds == SocketOnce /\ DayCap
=============================================================================
