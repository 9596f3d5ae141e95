----------------------------- MODULE HubDoorProofs -----------------------------
(***************************************************************************)
(* What the door of a hub keeps, for any clock, any number of devices and  *)
(* of connects (relay/src/hub.rs and auth.rs).                             *)
(***************************************************************************)
EXTENDS HubDoor, FiniteSetTheorems, TLAPS

-----------------------------------------------------------------------------
(* Days. *)

LEMMA DayBegins ==
    ASSUME NEW t \in Nat
    PROVE  DayOf(t) \in Nat /\ Day * DayOf(t) <= t /\ t < Day * DayOf(t) + Day
BY DoorAssumption DEF DayOf

LEMMA DaysGoOn ==
    ASSUME NEW s \in Nat, NEW t \in Nat, s <= t
    PROVE  DayOf(s) <= DayOf(t)
<1> DEFINE p == DayOf(s)
           q == DayOf(t)
<1>1. /\ p \in Nat /\ q \in Nat /\ Day \in Nat
      /\ Day * p <= s /\ t < Day * q + Day
  BY DayBegins, DoorAssumption
<1> SUFFICES ASSUME q + 1 <= p PROVE FALSE
  BY <1>1
<1>2. PICK k \in Nat : p = q + 1 + k
  <2>1. p - (q + 1) \in Nat /\ p = q + 1 + (p - (q + 1))  BY <1>1
  <2> QED BY <2>1
<1>3. Day * p = Day * q + Day + Day * k  BY <1>1, <1>2
<1>4. Day * k \in Nat  BY <1>1
<1>5. Day * p \in Nat /\ Day * q \in Nat  BY <1>1
<1> HIDE DEF p, q
<1> QED BY <1>1, <1>3, <1>4, <1>5

\* Two moments further apart than a day are not of one day.
LEMMA DayEnds ==
    ASSUME NEW s \in Nat, NEW t \in Nat, t - s >= Day
    PROVE  DayOf(s) # DayOf(t)
BY DayBegins, DoorAssumption

-----------------------------------------------------------------------------
(* The invariant. *)

Roles == {"desk", "phone"}
Hubs == [key : Nat, revoked : BOOLEAN, nonces : SUBSET [nonce : Nat, ts : Nat],
         day : Nat, connects : Nat, last : Nat]
FramesOfADay == [day : Nat, n0 : Nat, last : Nat, rows : BOOLEAN, top : Nat, at : Nat, kept : BOOLEAN,
                 alien : BOOLEAN]

Types ==
    /\ door_now \in Nat /\ door \in Hubs /\ door_frames \in FramesOfADay
    /\ door_socks \subseteq [role : Roles, nonce : Nat, seen : Nat, heard : Nat]
    /\ door_made \subseteq [nonce : Nat, role : Roles, ts : Int, key : Nat]
    /\ IsFiniteSet(door_made)
    /\ door_opened \in [1..DoorSigns -> Nat] /\ door_keys \in Nat /\ door_taken \in Nat

\* What the frames of today were counted from, unless a cell may be of a log that
\* was erased.  What has no row is what Hub::new says anyway.  A frame kept is of
\* today if any was taken in today, so what was counted cannot have been aged out.
Days ==
    LET f     == door_frames
        today == DayOf(door_now)
    IN /\ f.day <= today /\ f.at <= door_now
       /\ \/ f.alien
          \/ /\ f.n0 <= f.top /\ f.last \in {0, f.top}
             /\ f.rows \/ (f.day = 0 /\ f.n0 = 0)
             /\ f.day # today => door_taken = 0
             /\ f.day = today => door_taken <= f.top - f.n0
       /\ door.revoked \/ door_taken = 0 \/ (f.kept /\ DayOf(f.at) = today)

\* Nonces are of one connect each, and a key is told once.
Signed ==
    /\ Cardinality(door_made) <= DoorSigns /\ door.key <= door_keys
    /\ \A c \in door_made : c.nonce \in 1..Cardinality(door_made) /\ c.key \in 1..door_keys
    /\ \A c, d \in door_made : c.nonce = d.nonce => c = d
    /\ \A n \in 1..DoorSigns : n > Cardinality(door_made) => door_opened[n] = 0

\* A request that is under way came in while its clock was good, and is over
\* before the clock goes on.
Fresh == \A c \in door_made : Dial(c) \in door_ask => Abs(door_now - c.ts) <= Skew

\* No clock of a hub will ever take this signature for fresh again.
Over(c) == c.key # door.key \/ door_now > c.ts + Skew
Remembered(c) == \E x \in door.nonces : x.nonce = c.nonce /\ x.ts >= c.ts - Skew

\* A signature that opened a socket is remembered until it is over, and what is
\* under way by then is remembered still.
Spent ==
    \A c \in door_made : door_opened[c.nonce] # 0
        => Remembered(c) \/ (Over(c) /\ Dial(c) \notin door_ask)

\* One desktop; and the hub writes down when it was heard, late by so much.
Seated ==
    /\ \A s, t \in Of("desk") : s = t
    /\ \A s \in door_socks : s.seen <= s.heard /\ s.heard <= door_now /\ s.heard - s.seen <= SeenEvery

DoorInv == Types /\ Days /\ DayCap /\ Signed /\ Fresh /\ Spent /\ SocketOnce /\ Seated

-----------------------------------------------------------------------------
(* Types. *)

LEMMA Bounds ==
    /\ SeenEvery \in Nat /\ Skew \in Nat /\ DeskSilent \in Nat /\ Retain \in Nat /\ DoorSigns \in Nat
    /\ FramesPerDay \in Nat \ {0} /\ NonceKeep = 2 * Skew /\ Day \in Nat /\ Day <= Retain + 1
BY DoorAssumption

LEMMA InitTypes == DoorInit => Types
BY FS_EmptySet DEF DoorInit, Types, NoHub, NoFrames, Hubs, FramesOfADay

\* What is counted and remembered of a connect leaves the rest of a hub alone.
LEMMA Remembers ==
    ASSUME Types, NEW c \in door_made, NEW d \in Hubs
    PROVE  /\ WithNonce(d, c) \in Hubs /\ WithConnect \in Hubs
           /\ WithNonce(d, c).key = d.key /\ WithNonce(d, c).revoked = d.revoked
           /\ WithConnect.key = door.key /\ WithConnect.revoked = door.revoked
           /\ WithConnect.nonces = door.nonces
           /\ WithNonce(d, c).nonces =
                {x \in d.nonces \cup {[nonce |-> c.nonce, ts |-> door_now]} : x.ts >= door_now - NonceKeep}
<1> DEFINE today == DayOf(door_now)
           count == IF door.day # today THEN 1 ELSE door.connects + 1
           kept == {x \in d.nonces \cup {[nonce |-> c.nonce, ts |-> door_now]} :
                       x.ts >= door_now - NonceKeep}
<1>1. today \in Nat  BY DayBegins DEF Types
<1> HIDE DEF today
<1>2. door \in Hubs /\ count \in Nat  BY DEF Types, Hubs
<1>3. WithConnect = [door EXCEPT !.day = today, !.connects = count]
  BY DEF WithConnect, today
<1> HIDE DEF count
<1>4. kept \in SUBSET [nonce : Nat, ts : Nat]  BY DEF Types, Hubs
<1>5. WithNonce(d, c) = [d EXCEPT !.nonces = kept]
  BY DEF WithNonce
<1> HIDE DEF kept
<1>6. WithNonce(d, c) \in Hubs /\ WithNonce(d, c).key = d.key
      /\ WithNonce(d, c).revoked = d.revoked /\ WithNonce(d, c).nonces = kept
  BY <1>4, <1>5 DEF Hubs
<1> QED BY <1>1, <1>2, <1>3, <1>6 DEF Hubs, kept

LEMMA NewestIs ==
    ASSUME Types
    PROVE  /\ Newest \in Nat
           /\ Days /\ ~door_frames.alien => Newest <= door_frames.top
           /\ door_frames.last \in {0, door_frames.top} => Newest <= door_frames.top
BY DEF Types, FramesOfADay, Newest, Days

LEMMA HeardTypes ==
    ASSUME Types, NEW s \in door_socks, NEW seen \in Nat, HeardNow(s, seen)
    PROVE  door_socks' \subseteq [role : Roles, nonce : Nat, seen : Nat, heard : Nat]
BY DEF Types, HeardNow

LEMMA FreshenedIs ==
    ASSUME Types, NEW s \in door_socks
    PROVE  Freshened(s) \in Nat /\ (Freshened(s) = door_now \/ (Freshened(s) = s.seen /\ door_now - s.seen <= SeenEvery))
<1>1. s \in [role : Roles, nonce : Nat, seen : Nat, heard : Nat]  BY DEF Types
<1>2. s.seen \in Nat  BY <1>1
<1> QED BY <1>2, Bounds DEF Types, Freshened

\* What a connect comes to: refused, counted, remembered, or a socket as well.
LEMMA DialDoes ==
    ASSUME Types, NEW c \in door_made, DoorDial(c)
    PROVE  /\ Dial(c) \in door_ask /\ door_ask' = door_ask \ {Dial(c)}
           /\ UNCHANGED <<door_now, door_frames, door_made, door_keys, door_taken>>
           /\ door' \in Hubs /\ door'.key = door.key /\ door'.revoked = door.revoked
           /\ \/ door'.nonces = door.nonces
              \/ door'.nonces = WithNonce(door, c).nonces
           /\ \/ UNCHANGED <<door_socks, door_opened>>
              \/ /\ FirstUse(c) /\ door'.nonces = WithNonce(door, c).nonces
                 /\ c.role = "desk" => \A s \in Of("desk") : Quiet(s)
                 /\ \E out \in SUBSET door_socks :
                       /\ MakesRoom(c.role, out)
                       /\ door_socks' = (door_socks \ out) \cup
                            {[role |-> c.role, nonce |-> c.nonce, seen |-> door_now, heard |-> door_now]}
                 /\ door_opened' = [door_opened EXCEPT ![c.nonce] = @ + 1]
<1>1. door \in Hubs /\ door_now \in Nat  BY DEF Types
<1>2. WithConnect \in Hubs /\ WithNonce(WithConnect, c) \in Hubs
      /\ WithConnect.key = door.key /\ WithNonce(WithConnect, c).key = door.key
      /\ WithConnect.revoked = door.revoked /\ WithNonce(WithConnect, c).revoked = door.revoked
      /\ WithConnect.nonces = door.nonces
      /\ WithNonce(WithConnect, c).nonces = WithNonce(door, c).nonces
  <2>1. WithConnect \in Hubs /\ WithConnect.key = door.key /\ WithConnect.revoked = door.revoked
        /\ WithConnect.nonces = door.nonces
    BY <1>1, Remembers
  <2> DEFINE kept(d) == {x \in d.nonces \cup {[nonce |-> c.nonce, ts |-> door_now]} :
                            x.ts >= door_now - NonceKeep}
  <2>2. ASSUME NEW d \in Hubs
        PROVE  WithNonce(d, c) \in Hubs /\ WithNonce(d, c).key = d.key
               /\ WithNonce(d, c).revoked = d.revoked /\ WithNonce(d, c).nonces = kept(d)
    BY Remembers
  <2>3. kept(door) = kept(WithConnect)  BY <2>1
  <2> HIDE DEF kept
  <2> QED BY <1>1, <2>1, <2>2, <2>3
<1>3. CASE ~RoomForConnect
  BY <1>1, <1>3 DEF DoorDial
<1>4. CASE RoomForConnect /\ ~FirstUse(c)
  BY <1>1, <1>2, <1>4 DEF DoorDial
<1>5. CASE RoomForConnect /\ FirstUse(c) /\ c.role = "desk" /\ \E s \in Of("desk") : ~Quiet(s)
  BY <1>1, <1>2, <1>5 DEF DoorDial
<1>6. CASE RoomForConnect /\ FirstUse(c) /\ ~(c.role = "desk" /\ \E s \in Of("desk") : ~Quiet(s))
  <2> DEFINE w == WithNonce(WithConnect, c)
             l == IF door_now - w.last > SeenEvery THEN door_now ELSE w.last
  <2>1. door' = [w EXCEPT !.last = l]
    BY <1>6 DEF DoorDial
  <2>2. w \in Hubs  BY <1>2
  <2>3. w.last \in Nat /\ l \in Nat  BY <1>1, <2>2 DEF Hubs
  <2> HIDE DEF w
  <2>4. door' \in Hubs /\ door'.key = w.key /\ door'.revoked = w.revoked /\ door'.nonces = w.nonces
    BY <2>1, <2>2, <2>3 DEF Hubs
  <2> QED BY <1>2, <1>6, <2>4 DEF DoorDial, w
<1> QED BY <1>3, <1>4, <1>5, <1>6

\* A frame is refused, or stored as one of today's.
LEMMA FrameDoes ==
    ASSUME Types, Days, NEW s \in door_socks, DoorFrame(s)
    PROVE  /\ door_frames' \in FramesOfADay
           /\ LET f     == door_frames
                  g     == door_frames'
                  today == DayOf(door_now)
              IN \/ /\ g.top = f.top + 1 /\ g.last = g.top /\ g.at = door_now /\ g.kept /\ g.day = today
                    /\ door_taken' = door_taken + 1
                    /\ \/ /\ f.day # today /\ g.n0 = Newest /\ g.rows
                          /\ ~g.alien => /\ f.last \in {0, f.top}
                                         /\ f.alien => door_taken = 0
                       \/ /\ f.day = today /\ g.n0 = f.n0 /\ Newest - f.n0 < FramesPerDay
                          /\ g.rows = f.rows /\ g.alien = f.alien
                 \/ /\ g.top = f.top /\ g.day = f.day /\ g.n0 = f.n0 /\ g.at = f.at /\ g.kept = f.kept
                    /\ g.rows = f.rows /\ g.alien = f.alien
                    /\ g.last = Newest /\ f.day = today /\ UNCHANGED door_taken
<1> DEFINE f == door_frames
           today == DayOf(door_now)
<1>1. f \in FramesOfADay /\ door_now \in Nat /\ today \in Nat /\ Newest \in Nat
  BY NewestIs, DayBegins DEF Types
<1> HIDE DEF today
<1>0. ASSUME NEW h \in FramesOfADay
      PROVE  /\ Stored(h) \in FramesOfADay /\ Stored(h).top = h.top + 1 /\ Stored(h).last = h.top + 1
             /\ Stored(h).at = door_now /\ Stored(h).kept /\ Stored(h).day = h.day /\ Stored(h).n0 = h.n0
             /\ Stored(h).rows = h.rows /\ Stored(h).alien = h.alien
  <2> DEFINE n == h.top + 1
  <2>1. n \in Nat /\ Stored(h) = [h EXCEPT !.top = n, !.last = n, !.at = door_now, !.kept = TRUE]
    BY DEF Stored, FramesOfADay
  <2> HIDE DEF n
  <2>2. Stored(h) = [day |-> h.day, n0 |-> h.n0, last |-> n, rows |-> h.rows, top |-> n, at |-> door_now,
                     kept |-> TRUE, alien |-> h.alien]
    BY <2>1 DEF FramesOfADay
  <2> QED BY <1>1, <2>1, <2>2 DEF FramesOfADay, n
<1>2. CASE f.day # today
  <2> DEFINE a == (f.alien /\ door_taken # 0) \/ f.last \notin {0, f.top}
             g == [f EXCEPT !.day = today, !.n0 = Newest, !.rows = TRUE, !.alien = a]
  <2>0. a \in BOOLEAN /\ (~a => f.last \in {0, f.top} /\ (f.alien => door_taken = 0))
    OBVIOUS
  <2>3. Begun(f) = g
    BY DEF Begun, today
  <2> HIDE DEF a
  <2>1. g \in FramesOfADay /\ g.top = f.top /\ g.day = today /\ g.n0 = Newest /\ g.rows /\ g.alien = a
    BY <1>1, <2>0 DEF FramesOfADay
  <2>2. door_frames' = Stored(g) /\ door_taken' = door_taken + 1
    BY <1>2, <2>3 DEF DoorFrame, today
  <2> HIDE DEF g
  <2> QED BY <1>0, <1>1, <1>2, <2>0, <2>1, <2>2 DEF today
<1>3. CASE f.day = today /\ Within
  <2>1. door_frames' = Stored(f) /\ door_taken' = door_taken + 1
    BY <1>3 DEF DoorFrame, today
  <2> QED BY <1>0, <1>1, <1>3, <2>1 DEF Within, today
<1>4. CASE f.day = today /\ ~Within
  <2>1. door_frames' = [f EXCEPT !.last = Newest] /\ UNCHANGED door_taken
    BY <1>4 DEF DoorFrame, today
  <2> QED BY <1>1, <1>4, <2>1 DEF FramesOfADay, today
<1> QED BY <1>2, <1>3, <1>4

\* The cells that go, and what has a row comes back.
LEMMA HibernateDoes ==
    ASSUME Types, DoorHibernate
    PROVE  LET f == door_frames
               g == door_frames'
           IN /\ g \in FramesOfADay /\ g.last = 0
              /\ g.rows = f.rows /\ g.top = f.top /\ g.at = f.at /\ g.kept = f.kept /\ g.alien = f.alien
              /\ f.rows => g.day = f.day /\ g.n0 = f.n0
              /\ ~f.rows => g.day = 0 /\ g.n0 = 0
<1> DEFINE f == door_frames
           day == IF f.rows THEN f.day ELSE 0
           n0 == IF f.rows THEN f.n0 ELSE 0
<1>1. f \in FramesOfADay /\ day \in Nat /\ n0 \in Nat
  BY DEF Types, FramesOfADay
<1>2. door_frames' = [f EXCEPT !.last = 0, !.day = day, !.n0 = n0]
  BY DEF DoorHibernate
<1>3. (f.rows => day = f.day /\ n0 = f.n0) /\ (~f.rows => day = 0 /\ n0 = 0)
  OBVIOUS
<1> HIDE DEF day, n0
<1> QED BY <1>1, <1>2, <1>3 DEF FramesOfADay

\* What is erased; the cells are not.
LEMMA ErasedIs ==
    ASSUME NEW f \in FramesOfADay
    PROVE  LET g == Erased(f)
           IN /\ g \in FramesOfADay /\ g.alien
              /\ g.day = f.day /\ g.n0 = f.n0 /\ g.last = f.last /\ g.at = 0
BY DEF Erased, FramesOfADay

LEMMA TypesStep == ASSUME Types, Days, [DoorNext]_door_vars PROVE Types'
<1>1. CASE DoorTick
  BY <1>1 DEF DoorTick, Types
<1>2. CASE DoorHibernate
  BY <1>2, HibernateDoes DEF DoorHibernate, Types
<1>3. CASE DoorAlarm
  <2>1. NoHub \in Hubs  BY DEF NoHub, Hubs
  <2>2. door_frames \in FramesOfADay => [door_frames EXCEPT !.kept = FALSE] \in FramesOfADay
    BY DEF FramesOfADay
  <2>3. door' \in Hubs /\ door_frames' \in FramesOfADay /\ door_taken' \in Nat
    <3>1. \/ door' = NoHub /\ door_frames' = Erased(door_frames) /\ door_taken' = 0
          \/ door_frames' = [door_frames EXCEPT !.kept = FALSE] /\ UNCHANGED <<door, door_taken>>
      BY <1>3 DEF DoorAlarm
    <3>2. door \in Hubs /\ door_frames \in FramesOfADay /\ door_taken \in Nat  BY DEF Types
    <3>3. CASE door' = NoHub /\ door_frames' = Erased(door_frames) /\ door_taken' = 0
      BY <2>1, <3>2, <3>3, ErasedIs
    <3>4. CASE door_frames' = [door_frames EXCEPT !.kept = FALSE] /\ UNCHANGED <<door, door_taken>>
      BY <2>2, <3>2, <3>4
    <3> QED BY <3>1, <3>3, <3>4
  <2> QED BY <1>3, <2>3 DEF DoorAlarm, Types
<1>4. ASSUME NEW n \in 1..2, DoorProvision(n) PROVE Types'
  BY <1>4 DEF DoorProvision, Awaits, Types
<1>5. ASSUME NEW r \in door_ask, DoorBody(r) PROVE Types'
  <2>1. door' = [door EXCEPT !.key = door_keys + 1, !.last = door_now] /\ door \in Hubs
        /\ door_keys + 1 \in Nat /\ door_now \in Nat
    BY <1>5 DEF DoorBody, Types
  <2>2. door' \in Hubs  BY <2>1 DEF Hubs
  <2> QED BY <1>5, <2>2 DEF DoorBody, Types
<1>6. ASSUME NEW role \in Roles, NEW d \in {-Skew, Skew}, DoorSign(role, door_now + d) PROVE Types'
  <2> DEFINE c == [nonce |-> Cardinality(door_made) + 1, role |-> role, ts |-> door_now + d, key |-> door.key]
  <2>1. door_made' = door_made \cup {c} /\ UNCHANGED <<door_now, door, door_socks, door_frames, door_opened, door_keys, door_taken>>
    BY <1>6 DEF DoorSign
  <2>2. IsFiniteSet(door_made') /\ Cardinality(door_made) \in Nat
    <3>1. IsFiniteSet(door_made) /\ Cardinality(door_made) \in Nat  BY FS_CardinalityType DEF Types
    <3> HIDE DEF c
    <3>2. IsFiniteSet(door_made \cup {c})  BY <3>1, FS_AddElement
    <3> QED BY <2>1, <3>1, <3>2
  <2>3. c \in [nonce : Nat, role : Roles, ts : Int, key : Nat]
    BY <2>2, Bounds DEF Types, Hubs
  <2> QED BY <2>1, <2>2, <2>3 DEF Types
<1>7. ASSUME NEW c \in door_made, DoorKnock(c) PROVE Types'
  BY <1>7 DEF DoorKnock, Awaits, Types
<1>8. ASSUME NEW c \in door_made, DoorDial(c) PROVE Types'
  <2>1. door_socks' \subseteq [role : Roles, nonce : Nat, seen : Nat, heard : Nat]
    BY <1>8, DialDoes DEF Types
  <2>2. door_opened' \in [1..DoorSigns -> Nat]
    BY <1>8, DialDoes DEF Types
  <2> QED BY <1>8, <2>1, <2>2, DialDoes DEF Types
<1>9. ASSUME NEW c \in door_made, DoorRevoke(c) PROVE Types'
  <2>1. CASE FirstUse(c)
    <3>1. door' \in Hubs
      <4> DEFINE w == WithNonce(door, c)
      <4>1. w \in Hubs  BY Remembers DEF Types
      <4>2. door' = [w EXCEPT !.revoked = TRUE]  BY <1>9, <2>1 DEF DoorRevoke
      <4> HIDE DEF w
      <4> QED BY <4>1, <4>2 DEF Hubs
    <3>2. door_frames' \in FramesOfADay
      BY <1>9, <2>1 DEF DoorRevoke, Types, FramesOfADay
    <3> QED BY <1>9, <2>1, <3>1, <3>2 DEF DoorRevoke, Types
  <2>2. CASE ~FirstUse(c)
    BY <1>9, <2>2 DEF DoorRevoke, Types
  <2> QED BY <2>1, <2>2
<1>10. ASSUME NEW s \in door_socks,
              DoorMessage(s) \/ DoorKeepalive(s) \/ DoorClose(s) \/ DoorFrame(s)
       PROVE  Types'
  <2>1. door_socks' \subseteq [role : Roles, nonce : Nat, seen : Nat, heard : Nat]
    <3>1. Freshened(s) \in Nat /\ door_now \in Nat
      BY FreshenedIs DEF Types
    <3> QED BY <1>10, <3>1, HeardTypes DEF DoorMessage, DoorKeepalive, DoorClose, DoorFrame, Types
  <2>2. door_frames' \in FramesOfADay /\ door_taken' \in Nat
    <3>1. CASE DoorFrame(s)
      BY <3>1, FrameDoes DEF Types
    <3>2. CASE ~DoorFrame(s)
      BY <1>10, <3>2 DEF DoorMessage, DoorKeepalive, DoorClose, Types
    <3> QED BY <3>1, <3>2
  <2>3. UNCHANGED <<door_now, door, door_made, door_opened, door_keys>>
    BY <1>10 DEF DoorMessage, DoorKeepalive, DoorClose, DoorFrame
  <2> QED BY <2>1, <2>2, <2>3 DEF Types
<1>11. CASE UNCHANGED door_vars
  BY <1>11 DEF door_vars, Types
<1> QED BY <1>1, <1>2, <1>3, <1>4, <1>5, <1>6, <1>7, <1>8, <1>9, <1>10, <1>11 DEF DoorNext, Roles

-----------------------------------------------------------------------------
(* A day. *)

LEMMA DaysStep == ASSUME Types, Days, DayCap, [DoorNext]_door_vars PROVE Days' /\ DayCap'
<1> DEFINE f == door_frames
           today == DayOf(door_now)
<1>0. /\ f \in FramesOfADay /\ door_now \in Nat /\ door_taken \in Nat /\ today \in Nat
      /\ f.day \in Nat /\ f.n0 \in Nat /\ f.top \in Nat /\ f.last \in Nat /\ f.at \in Nat
      /\ DayOf(f.at) \in Nat
  BY DayBegins DEF Types, FramesOfADay
<1>1. CASE UNCHANGED <<door_now, door_frames, door_taken>> /\ door'.revoked = door.revoked
  BY <1>1 DEF Days, DayCap, DayOf
<1>2. CASE DoorTick
  <2>1. DayOf(door_now + 1) >= today /\ DayOf(door_now + 1) \in Nat
    BY <1>0, DayBegins, DaysGoOn
  <2>2. door_now' = door_now + 1 /\ UNCHANGED <<door, door_frames>>
        /\ DayOf(door_now)' = DayOf(door_now + 1)
    BY <1>2 DEF DoorTick, DayOf
  <2>3. CASE DayOf(door_now + 1) = today
    <3>1. UNCHANGED door_taken  BY <1>2, <2>2, <2>3 DEF DoorTick
    <3> QED BY <1>0, <2>2, <2>3, <3>1 DEF Days, DayCap, DayOf
  <2>4. CASE DayOf(door_now + 1) # today
    <3>1. door_taken' = 0  BY <1>2, <2>2, <2>4 DEF DoorTick
    <3>2. DayCap'  BY <3>1, Bounds DEF DayCap
    <3>3. f.day # DayOf(door_now + 1)  BY <1>0, <2>1, <2>4 DEF Days
    <3> QED BY <1>0, <2>1, <2>2, <3>1, <3>2, <3>3 DEF Days
  <2> QED BY <2>3, <2>4
<1>3. CASE DoorHibernate
  <2>1. UNCHANGED <<door_now, door, door_taken>>
    BY <1>3 DEF DoorHibernate
  <2>2. DayOf(door_now)' = today
    BY <2>1 DEF DayOf
  <2>3. CASE f.rows
    BY <1>0, <1>3, <2>1, <2>2, <2>3, HibernateDoes DEF Days, DayCap, DayOf
  <2>4. CASE ~f.rows
    BY <1>0, <1>3, <2>1, <2>2, <2>4, HibernateDoes DEF Days, DayCap, DayOf
  <2> QED BY <2>3, <2>4
<1>4. CASE DoorAlarm
  <2>1. CASE door' = NoHub /\ door_frames' = Erased(f) /\ door_taken' = 0 /\ UNCHANGED door_now
    <3>1. DayOf(door_now') = today  BY <2>1
    <3> QED BY <1>0, <2>1, <3>1, ErasedIs DEF Days, DayCap
  <2>2. CASE /\ door_now - f.at > Retain /\ door_frames' = [f EXCEPT !.kept = FALSE]
             /\ UNCHANGED <<door_now, door, door_taken>>
    <3>1. DayOf(f.at) # today
      BY <1>0, <2>2, Bounds, DayEnds
    <3>2. door.revoked \/ door_taken = 0  BY <3>1 DEF Days
    <3>3. /\ door_frames'.day = f.day /\ door_frames'.n0 = f.n0 /\ door_frames'.top = f.top
          /\ door_frames'.at = f.at /\ door_frames'.last = f.last
          /\ door_frames'.rows = f.rows /\ door_frames'.alien = f.alien
      BY <1>0, <2>2 DEF FramesOfADay
    <3> QED BY <1>0, <2>2, <3>2, <3>3 DEF Days, DayCap, DayOf
  <2> QED BY <1>4, <2>1, <2>2 DEF DoorAlarm
<1>5. ASSUME NEW s \in door_socks, DoorFrame(s) PROVE Days' /\ DayCap'
  <2> DEFINE g == door_frames'
  <2>1. UNCHANGED <<door_now, door>> /\ DayOf(door_now)' = today
    BY <1>5 DEF DoorFrame, DayOf
  <2>2. g \in FramesOfADay /\ g.n0 \in Nat /\ g.top \in Nat
    BY <1>5, FrameDoes DEF FramesOfADay
  <2>3. /\ Newest \in Nat
        /\ ~f.alien => Newest <= f.top
        /\ f.last \in {0, f.top} => Newest <= f.top
    BY NewestIs
  <2>4. CASE /\ g.top = f.top + 1 /\ g.last = g.top /\ g.at = door_now /\ g.kept /\ g.day = today
             /\ door_taken' = door_taken + 1
             /\ f.day # today /\ g.n0 = Newest /\ g.rows
             /\ ~g.alien => f.last \in {0, f.top} /\ (f.alien => door_taken = 0)
    <3>1. CASE g.alien
      BY <1>0, <2>1, <2>2, <2>4, <3>1 DEF Days, DayCap
    <3>2. CASE ~g.alien
      <4>1. door_taken = 0  BY <2>4, <3>2 DEF Days
      <4>2. Newest <= f.top  BY <2>3, <2>4, <3>2
      <4> QED BY <1>0, <2>1, <2>2, <2>3, <2>4, <3>2, <4>1, <4>2, Bounds DEF Days, DayCap
    <3> QED BY <3>1, <3>2
  <2>5. CASE /\ g.top = f.top + 1 /\ g.last = g.top /\ g.at = door_now /\ g.kept /\ g.day = today
             /\ door_taken' = door_taken + 1
             /\ f.day = today /\ g.n0 = f.n0 /\ Newest - f.n0 < FramesPerDay
             /\ g.rows = f.rows /\ g.alien = f.alien
    <3>1. CASE f.alien
      BY <1>0, <2>1, <2>2, <2>5, <3>1 DEF Days, DayCap
    <3>2. CASE ~f.alien
      <4>1. door.revoked \/ door_taken' <= FramesPerDay
        <5>1. CASE Newest = f.top
          BY <1>0, <2>3, <2>5, <3>2, <5>1, Bounds DEF Days
        <5>2. CASE Newest # f.top
          <6>1. ~f.kept  BY <1>0, <3>2, <5>2 DEF Days, Newest
          <6> QED BY <1>0, <2>5, <6>1, Bounds DEF Days
        <5> QED BY <5>1, <5>2
      <4> QED BY <1>0, <2>1, <2>2, <2>5, <3>2, <4>1 DEF Days, DayCap
    <3> QED BY <3>1, <3>2
  <2>6. CASE /\ g.top = f.top /\ g.day = f.day /\ g.n0 = f.n0 /\ g.at = f.at /\ g.kept = f.kept
             /\ g.rows = f.rows /\ g.alien = f.alien
             /\ g.last = Newest /\ f.day = today /\ UNCHANGED door_taken
    <3>1. ~f.alien => Newest \in {0, f.top}  BY <1>0 DEF Days, Newest
    <3>2. DayOf(f.at)' = DayOf(f.at)  BY <2>6 DEF DayOf
    <3> QED BY <1>0, <2>1, <2>2, <2>6, <3>1, <3>2 DEF Days, DayCap
  <2> QED BY <1>5, <2>4, <2>5, <2>6, FrameDoes
<1>6. ASSUME NEW c \in door_made, DoorRevoke(c) PROVE Days' /\ DayCap'
  <2>1. CASE FirstUse(c)
    <3>1. door'.revoked
      <4> DEFINE w == WithNonce(door, c)
      <4>1. w \in Hubs  BY Remembers DEF Types
      <4>2. door' = [w EXCEPT !.revoked = TRUE]  BY <1>6, <2>1 DEF DoorRevoke
      <4> HIDE DEF w
      <4> QED BY <4>1, <4>2 DEF Hubs
    <3>2. UNCHANGED <<door_now, door_taken>> /\ door_frames' = [f EXCEPT !.kept = FALSE]
      BY <1>6, <2>1 DEF DoorRevoke
    <3>3. /\ door_frames'.day = f.day /\ door_frames'.n0 = f.n0 /\ door_frames'.top = f.top
          /\ door_frames'.at = f.at /\ door_frames'.last = f.last
          /\ door_frames'.rows = f.rows /\ door_frames'.alien = f.alien
      BY <1>0, <3>2 DEF FramesOfADay
    <3> QED BY <1>0, <3>1, <3>2, <3>3 DEF Days, DayCap, DayOf
  <2>2. CASE ~FirstUse(c)
    BY <1>1, <1>6, <2>2 DEF DoorRevoke
  <2> QED BY <2>1, <2>2
<1>7. ASSUME NEW c \in door_made, DoorDial(c) PROVE Days' /\ DayCap'
  BY <1>1, <1>7, DialDoes
<1>8. CASE \/ \E n \in 1..2 : DoorProvision(n)
           \/ \E role \in Roles, d \in {-Skew, Skew} : DoorSign(role, door_now + d)
           \/ \E c \in door_made : DoorKnock(c)
           \/ \E s \in door_socks : DoorMessage(s) \/ DoorKeepalive(s) \/ DoorClose(s)
           \/ UNCHANGED door_vars
  BY <1>1, <1>8 DEF DoorProvision, DoorSign, DoorKnock, Awaits, DoorMessage, DoorKeepalive, DoorClose, door_vars
<1>9. ASSUME NEW r \in door_ask, DoorBody(r) PROVE Days' /\ DayCap'
  <2>1. door'.revoked = door.revoked
    <3>1. door' = [door EXCEPT !.key = door_keys', !.last = door_now] /\ door \in Hubs
      BY <1>9 DEF DoorBody, Types
    <3> QED BY <3>1 DEF Hubs
  <2> QED BY <1>1, <1>9, <2>1 DEF DoorBody
<1> QED BY <1>2, <1>3, <1>4, <1>5, <1>6, <1>7, <1>8, <1>9 DEF DoorNext, Roles

-----------------------------------------------------------------------------
(* A signature. *)

Once == Signed /\ Fresh /\ Spent /\ SocketOnce

\* What was remembered stays so until it is over, also where a nonce of a later
\* connect pushes out what is old.
LEMMA Forgets ==
    ASSUME Types, Once, NEW c \in door_made, NEW d \in door_made,
           door_opened[d.nonce] # 0,
           UNCHANGED <<door_now, door_made>>, door'.key = door.key, door_ask' \subseteq door_ask,
           door'.nonces = door.nonces \/ door'.nonces = WithNonce(door, c).nonces
    PROVE  Remembered(d)' \/ (Over(d)' /\ Dial(d) \notin door_ask')
<1>1. /\ door \in Hubs /\ door_now \in Nat /\ d.ts \in Int
      /\ \A x \in door.nonces : x.ts \in Nat
  BY DEF Types, Hubs
<1>2. CASE Over(d) /\ Dial(d) \notin door_ask
  BY <1>2 DEF Over
<1>3. CASE Remembered(d)
  <2>1. PICK x \in door.nonces : x.nonce = d.nonce /\ x.ts >= d.ts - Skew
    BY <1>3 DEF Remembered
  <2>2. CASE x \in door'.nonces
    BY <2>1, <2>2 DEF Remembered
  <2>3. CASE x \notin door'.nonces
    <3>1. x.ts < door_now - 2 * Skew
      BY <1>1, <2>3, Remembers, Bounds
    <3>2. door_now > d.ts + Skew
      BY <1>1, <2>1, <3>1, Bounds
    <3>3. Dial(d) \notin door_ask
      BY <1>1, <3>2, Bounds DEF Once, Fresh, Abs
    <3> QED BY <3>2, <3>3 DEF Over
  <2> QED BY <2>2, <2>3
<1> QED BY <1>2, <1>3 DEF Once, Spent

LEMMA OnceStep == ASSUME Types, Once, [DoorNext]_door_vars PROVE Once'
<1>0. /\ door \in Hubs /\ door.key \in Nat /\ door_now \in Nat /\ door_keys \in Nat
      /\ Cardinality(door_made) \in Nat
      /\ \A c \in door_made : c.ts \in Int /\ c.key \in Nat /\ c.nonce \in Nat
  BY FS_CardinalityType DEF Types, Hubs
<1>1. CASE UNCHANGED <<door_now, door, door_made, door_opened, door_keys>> /\ door_ask' \subseteq door_ask
  BY <1>1 DEF Once, Signed, Fresh, Spent, SocketOnce, Over, Remembered
<1>2. CASE DoorTick
  <2>1. door_ask = {} /\ door_now' = door_now + 1 /\ UNCHANGED <<door, door_made, door_ask, door_opened, door_keys>>
    BY <1>2 DEF DoorTick
  <2>2. Signed' /\ Fresh' /\ SocketOnce'
    BY <2>1 DEF Once, Signed, Fresh, SocketOnce
  <2>3. Spent'
    BY <1>0, <2>1, Bounds DEF Once, Spent, Over, Remembered
  <2> QED BY <2>2, <2>3 DEF Once
<1>3. CASE DoorAlarm
  <2>1. CASE door' = NoHub
    <3>1. door_ask = {} /\ UNCHANGED <<door_now, door_made, door_ask, door_opened, door_keys>>
      BY <1>3 DEF DoorAlarm
    <3>2. door'.key = 0  BY <2>1 DEF NoHub
    <3>3. Signed' /\ Fresh' /\ SocketOnce'
      BY <1>0, <3>1, <3>2 DEF Once, Signed, Fresh, SocketOnce
    <3>4. Spent'
      BY <1>0, <3>1, <3>2 DEF Once, Signed, Spent, Over
    <3> QED BY <3>3, <3>4 DEF Once
  <2>2. CASE UNCHANGED door
    BY <1>1, <1>3, <2>2 DEF DoorAlarm
  <2> QED BY <1>3, <2>1, <2>2 DEF DoorAlarm
<1>4. ASSUME NEW n \in 1..2, DoorProvision(n) PROVE Once'
  <2>1. \A c \in door_made : Dial(c) # Pairing(n)  BY DEF Dial, Pairing
  <2>2. /\ UNCHANGED <<door_now, door, door_made, door_opened, door_keys>>
        /\ \A c \in door_made : Dial(c) \in door_ask' => Dial(c) \in door_ask
    BY <1>4, <2>1 DEF DoorProvision, Awaits
  <2> QED BY <2>2 DEF Once, Signed, Fresh, Spent, SocketOnce, Over, Remembered, Dial
<1>5. ASSUME NEW r \in door_ask, DoorBody(r) PROVE Once'
  <2>1. /\ door_ask' \subseteq door_ask /\ UNCHANGED <<door_now, door_made, door_opened>>
        /\ door_keys' = door_keys + 1
        /\ door' = [door EXCEPT !.key = door_keys + 1, !.last = door_now]
    BY <1>5 DEF DoorBody
  <2>2. door'.key = door_keys + 1 /\ door'.nonces = door.nonces
    BY <1>0, <2>1 DEF Hubs
  <2>3. Signed' /\ Fresh' /\ SocketOnce'
    BY <1>0, <2>1, <2>2 DEF Once, Signed, Fresh, SocketOnce
  <2>4. \A c \in door_made : c.key # door'.key
    BY <1>0, <2>2 DEF Once, Signed
  <2>5. Spent'
    BY <2>1, <2>2, <2>4 DEF Once, Spent, Over, Remembered
  <2> QED BY <2>3, <2>5 DEF Once
<1>6. ASSUME NEW role \in Roles, NEW d \in {-Skew, Skew}, DoorSign(role, door_now + d) PROVE Once'
  <2> DEFINE k == Cardinality(door_made)
             c == [nonce |-> k + 1, role |-> role, ts |-> door_now + d, key |-> door.key]
  <2>1. /\ door_made' = door_made \cup {c} /\ door.key # 0 /\ k < DoorSigns
        /\ UNCHANGED <<door_now, door, door_ask, door_opened, door_keys>>
    BY <1>6 DEF DoorSign
  <2>2. c \notin door_made /\ c.nonce = k + 1 /\ c.key = door.key
    BY <1>0 DEF Once, Signed
  <2>3. Cardinality(door_made') = k + 1
    <3>1. IsFiniteSet(door_made)  BY DEF Types
    <3> HIDE DEF c
    <3> QED BY <2>1, <2>2, <3>1, FS_AddElement
  <2>4. door_opened[k + 1] = 0 /\ k + 1 \in 1..DoorSigns
    BY <1>0, <2>1, Bounds DEF Once, Signed
  <2>5. Dial(c) \notin door_ask \/ Abs(door_now - c.ts) <= Skew
    <3>1. door_now - c.ts = -d /\ d \in Int  BY <1>0, Bounds
    <3> QED BY <3>1, Bounds DEF Abs
  <2> HIDE DEF c
  <2>6. Signed'
    <3>1. \A a, b \in door_made' : a.nonce = b.nonce => a = b
      BY <1>0, <2>1, <2>2 DEF Once, Signed
    <3>2. \A a \in door_made' : a.nonce \in 1..(k + 1) /\ a.key \in 1..door_keys
      BY <1>0, <2>1, <2>2 DEF Once, Signed
    <3> QED BY <1>0, <2>1, <2>3, <3>1, <3>2, Bounds DEF Once, Signed
  <2>7. Fresh'
    BY <2>1, <2>5 DEF Once, Fresh, Dial, Abs
  <2>8. Spent'
    BY <2>1, <2>2, <2>4 DEF Once, Spent, Over, Remembered, Dial
  <2>9. SocketOnce'
    BY <2>1 DEF Once, SocketOnce
  <2> QED BY <2>6, <2>7, <2>8, <2>9 DEF Once
<1>7. ASSUME NEW c \in door_made, DoorKnock(c) PROVE Once'
  <2>1. UNCHANGED <<door_now, door, door_made, door_opened, door_keys>> /\ Verified(c)
    BY <1>7 DEF DoorKnock, Awaits
  <2>2. \A d \in door_made : Dial(d) \in door_ask' => Dial(d) \in door_ask \/ d = c
    <3>1. \A d \in door_made : Dial(d) # Revoke(c)  BY DEF Dial, Revoke
    <3>2. \A d \in door_made : Dial(d) = Dial(c) => d = c  BY DEF Dial, Once, Signed
    <3> QED BY <1>7, <3>1, <3>2 DEF DoorKnock, Awaits
  <2>3. ~Over(c)
    BY <1>0, <2>1, Bounds DEF Over, Verified, Abs
  <2>4. Signed' /\ SocketOnce'
    BY <2>1 DEF Once, Signed, SocketOnce
  <2>5. Fresh'
    BY <2>1, <2>2 DEF Once, Fresh, Verified, Dial, Abs
  <2>6. Spent'
    <3>1. SUFFICES ASSUME NEW d \in door_made, door_opened[d.nonce] # 0
                   PROVE  Remembered(d) \/ (Over(d) /\ Dial(d) \notin door_ask')
      BY <2>1 DEF Spent, Remembered, Over, Dial
    <3> QED BY <2>2, <2>3, <3>1 DEF Once, Spent
  <2> QED BY <2>4, <2>5, <2>6 DEF Once
<1>8. ASSUME NEW c \in door_made, DoorDial(c) PROVE Once'
  <2>1. /\ Dial(c) \in door_ask /\ door_ask' = door_ask \ {Dial(c)}
        /\ UNCHANGED <<door_now, door_made, door_keys>> /\ door'.key = door.key
        /\ door'.nonces = door.nonces \/ door'.nonces = WithNonce(door, c).nonces
    BY <1>8, DialDoes
  <2>2. Fresh'
    BY <2>1 DEF Once, Fresh, Dial, Abs
  <2>3. CASE UNCHANGED door_opened
    <3>1. Signed' /\ SocketOnce'
      BY <2>1, <2>3 DEF Once, Signed, SocketOnce
    <3>2. Spent'
      BY <2>1, <2>3, Forgets DEF Spent
    <3> QED BY <2>2, <3>1, <3>2 DEF Once
  <2>4. CASE /\ FirstUse(c) /\ door'.nonces = WithNonce(door, c).nonces
             /\ door_opened' = [door_opened EXCEPT ![c.nonce] = @ + 1]
    <3>1. c.nonce \in 1..DoorSigns /\ c.nonce <= Cardinality(door_made)
      BY <1>0, Bounds DEF Once, Signed
    <3>2. door_opened[c.nonce] = 0
      <4>1. ~Remembered(c)  BY <2>4 DEF FirstUse, Remembered
      <4> QED BY <2>1, <4>1 DEF Once, Spent
    <3>3. door_opened'[c.nonce] = 1 /\ \A n \in 1..DoorSigns : n # c.nonce => door_opened'[n] = door_opened[n]
      BY <2>4, <3>1, <3>2 DEF Types
    <3>4. DOMAIN door_opened' = 1..DoorSigns
      BY <2>4 DEF Types
    <3>5. SocketOnce'
      BY <3>3, <3>4 DEF Once, SocketOnce, Types
    <3>6. Signed'
      BY <1>0, <2>1, <3>1, <3>3 DEF Once, Signed
    <3>7. Spent'
      <4>1. SUFFICES ASSUME NEW d \in door_made, door_opened'[d.nonce] # 0
                     PROVE  Remembered(d)' \/ (Over(d)' /\ Dial(d) \notin door_ask')
        BY <2>1 DEF Spent, Dial
      <4>2. CASE d = c
        <5> DEFINE x == [nonce |-> c.nonce, ts |-> door_now]
        <5>1. Abs(door_now - c.ts) <= Skew  BY <2>1 DEF Once, Fresh
        <5>2. door_now >= c.ts - Skew  BY <1>0, <5>1, Bounds DEF Abs
        <5>3. x \in door'.nonces
          <6>1. x.ts = door_now /\ door_now >= door_now - NonceKeep  BY <1>0, Bounds
          <6> HIDE DEF x
          <6>2. x \in WithNonce(door, c).nonces
            BY <1>0, <6>1, Remembers DEF x
          <6> QED BY <2>4, <6>2
        <5> QED BY <4>2, <5>2, <5>3 DEF Remembered
      <4>3. CASE d # c
        <5>1. d.nonce # c.nonce /\ d.nonce \in 1..DoorSigns
          BY <1>0, <4>3, Bounds DEF Once, Signed
        <5>2. door_opened[d.nonce] # 0  BY <3>3, <4>1, <5>1
        <5> QED BY <2>1, <5>2, Forgets
      <4> QED BY <4>2, <4>3
    <3> QED BY <2>2, <3>5, <3>6, <3>7 DEF Once
  <2> QED BY <1>8, <2>3, <2>4, DialDoes
<1>9. ASSUME NEW c \in door_made, DoorRevoke(c) PROVE Once'
  <2>1. /\ door_ask' \subseteq door_ask
        /\ UNCHANGED <<door_now, door_made, door_opened, door_keys>>
    BY <1>9 DEF DoorRevoke
  <2>2. door'.key = door.key /\ (door'.nonces = door.nonces \/ door'.nonces = WithNonce(door, c).nonces)
    <3>1. CASE FirstUse(c)
      <4> DEFINE w == WithNonce(door, c)
      <4>1. w \in Hubs /\ w.key = door.key  BY <1>0, Remembers
      <4>2. door' = [w EXCEPT !.revoked = TRUE]  BY <1>9, <3>1 DEF DoorRevoke
      <4>3. door'.key = w.key /\ door'.nonces = w.nonces
        <5> HIDE DEF w
        <5> QED BY <4>1, <4>2 DEF Hubs
      <4> QED BY <4>1, <4>3
    <3>2. CASE ~FirstUse(c)
      BY <1>9, <3>2 DEF DoorRevoke
    <3> QED BY <3>1, <3>2
  <2>3. Signed' /\ Fresh' /\ SocketOnce'
    BY <2>1, <2>2 DEF Once, Signed, Fresh, SocketOnce, Dial, Abs
  <2>4. Spent'
    BY <2>1, <2>2, Forgets DEF Spent
  <2> QED BY <2>3, <2>4 DEF Once
<1>10. CASE \/ DoorHibernate
            \/ \E s \in door_socks : DoorMessage(s) \/ DoorKeepalive(s) \/ DoorClose(s) \/ DoorFrame(s)
            \/ UNCHANGED door_vars
  BY <1>1, <1>10 DEF DoorHibernate, DoorMessage, DoorKeepalive, DoorClose, DoorFrame, door_vars
<1> QED BY <1>2, <1>3, <1>4, <1>5, <1>6, <1>7, <1>8, <1>9, <1>10 DEF DoorNext, Roles

-----------------------------------------------------------------------------
(* A desktop keeps its place. *)

\* Only a connect puts another desktop where one was, and only a silent one's place.
Keeps ==
    \A s \in Of("desk") : (\E t \in door_socks' : t.role = "desk" /\ t.nonce # s.nonce)
        => door_now - s.heard >= DeskSilent - SeenEvery

LEMMA SeatedStep == ASSUME Types, Days, Seated, [DoorNext]_door_vars PROVE Seated' /\ Keeps
<1>0. /\ door_now \in Nat
      /\ \A s \in door_socks : /\ s \in [role : Roles, nonce : Nat, seen : Nat, heard : Nat]
                               /\ s.seen \in Nat /\ s.heard \in Nat
  BY DEF Types
<1>1. CASE door_socks' \subseteq door_socks /\ door_now' = door_now
  BY <1>1 DEF Seated, Keeps, Of
<1>2. CASE DoorTick
  BY <1>0, <1>2 DEF DoorTick, Seated, Keeps, Of
<1>3. ASSUME NEW s \in door_socks, NEW seen \in Nat, HeardNow(s, seen), door_now' = door_now,
             seen <= door_now, door_now - seen <= SeenEvery
      PROVE  Seated' /\ Keeps
  <2> DEFINE h == [s EXCEPT !.seen = seen, !.heard = door_now]
  <2>1. h.role = s.role /\ h.nonce = s.nonce /\ h.seen = seen /\ h.heard = door_now
    BY <1>0
  <2>2. door_socks' = (door_socks \ {s}) \cup {h}
    BY <1>3 DEF HeardNow
  <2> HIDE DEF h
  <2> QED BY <1>0, <1>3, <2>1, <2>2 DEF Seated, Keeps, Of
<1>4. ASSUME NEW c \in door_made, DoorDial(c) PROVE Seated' /\ Keeps
  <2>1. CASE UNCHANGED door_socks
    BY <1>1, <1>4, <2>1, DialDoes
  <2>2. ASSUME NEW out \in SUBSET door_socks, MakesRoom(c.role, out),
               c.role = "desk" => \A s \in Of("desk") : Quiet(s),
               door_socks' = (door_socks \ out) \cup
                  {[role |-> c.role, nonce |-> c.nonce, seen |-> door_now, heard |-> door_now]}
        PROVE  Seated' /\ Keeps
    <3> DEFINE n == [role |-> c.role, nonce |-> c.nonce, seen |-> door_now, heard |-> door_now]
    <3>1. n.role = c.role /\ n.seen = door_now /\ n.heard = door_now  OBVIOUS
    <3>2. door_socks' = (door_socks \ out) \cup {n} /\ door_now' = door_now
      BY <1>4, <2>2, DialDoes
    <3> HIDE DEF n
    <3>3. CASE c.role = "desk"
      <4>1. out = Of("desk")  BY <2>2, <3>3 DEF MakesRoom
      <4>2. \A s \in Of("desk") : door_now - s.heard >= DeskSilent - SeenEvery
        BY <1>0, <2>2, <3>3, Bounds DEF Quiet, Seated, Of
      <4> QED BY <1>0, <3>1, <3>2, <3>3, <4>1, <4>2, Bounds DEF Seated, Keeps, Of
    <3>4. CASE c.role # "desk"
      BY <1>0, <3>1, <3>2, <3>4, Bounds DEF Seated, Keeps, Of
    <3> QED BY <3>3, <3>4
  <2> QED BY <1>4, <2>1, <2>2, DialDoes
<1>5. ASSUME NEW s \in door_socks, DoorMessage(s) \/ DoorFrame(s) PROVE Seated' /\ Keeps
  <2>1. HeardNow(s, Freshened(s)) /\ door_now' = door_now
    BY <1>5 DEF DoorMessage, DoorFrame
  <2>2. Freshened(s) \in Nat /\ Freshened(s) <= door_now /\ door_now - Freshened(s) <= SeenEvery
    BY <1>0, FreshenedIs, Bounds DEF Seated
  <2> QED BY <1>3, <2>1, <2>2
<1>6. ASSUME NEW s \in door_socks, DoorKeepalive(s) PROVE Seated' /\ Keeps
  <2>1. HeardNow(s, door_now) /\ door_now' = door_now
    BY <1>6 DEF DoorKeepalive
  <2> QED BY <1>0, <1>3, <2>1, Bounds
<1>7. ASSUME NEW s \in door_socks, DoorClose(s) PROVE Seated' /\ Keeps
  BY <1>1, <1>7 DEF DoorClose
<1>8. ASSUME NEW c \in door_made, DoorRevoke(c) PROVE Seated' /\ Keeps
  BY <1>1, <1>8 DEF DoorRevoke
<1>9. CASE \/ DoorHibernate \/ DoorAlarm
           \/ \E n \in 1..2 : DoorProvision(n)
           \/ \E r \in door_ask : DoorBody(r)
           \/ \E role \in Roles, d \in {-Skew, Skew} : DoorSign(role, door_now + d)
           \/ \E c \in door_made : DoorKnock(c)
           \/ UNCHANGED door_vars
  BY <1>1, <1>9 DEF DoorHibernate, DoorAlarm, DoorProvision, DoorBody, DoorSign, DoorKnock, Awaits, door_vars
<1> QED BY <1>2, <1>4, <1>5, <1>6, <1>7, <1>8, <1>9 DEF DoorNext, Roles

-----------------------------------------------------------------------------
(* The theorems. *)

LEMMA DoorBegins == DoorInit => DoorInv
<1> SUFFICES ASSUME DoorInit PROVE DoorInv
  OBVIOUS
<1>1. Types  BY InitTypes
<1>2. DayOf(0) = 0  BY DayBegins, DoorAssumption
<1>3. Days /\ DayCap
  BY <1>2, Bounds DEF DoorInit, Days, DayCap, NoFrames
<1>4. Cardinality(door_made) = 0  BY FS_EmptySet DEF DoorInit
<1>5. Signed
  BY <1>4, Bounds DEF DoorInit, Signed, NoHub
<1>6. Fresh /\ Spent /\ SocketOnce /\ Seated
  BY DEF DoorInit, Fresh, Spent, SocketOnce, Seated, Of
<1> QED BY <1>1, <1>3, <1>5, <1>6 DEF DoorInv

LEMMA DoorStep == DoorInv /\ [DoorNext]_door_vars => DoorInv'
BY TypesStep, DaysStep, OnceStep, SeatedStep DEF DoorInv, Once

\* Whatever the clocks say and however often a device, or whoever read its
\* request, comes back with the same signature, it opens one socket; and a hub
\* that forgets its cache or ages its log counts a day no less.  A log that is
\* begun where another was erased is bounded so from the first day on that it
\* marks the start of with a number of its own (auth::verify, first_use,
\* within_the_day, newest, alarm).
THEOREM DoorHoldsAlways == DoorSpec => []DoorHolds
<1>1. DoorInv => DoorHolds  BY DEF DoorInv, DoorHolds
<1> QED BY <1>1, DoorBegins, DoorStep, PTL DEF DoorSpec

\* Of however many desktops that connect, none takes the place of one that was
\* heard of late (socket, websocket_message).
THEOREM DeskKeepsPlaceHolds == DoorSpec => DeskKeepsPlace
<1>1. DoorInv /\ [DoorNext]_door_vars => [Keeps]_door_vars
  BY SeatedStep DEF DoorInv
<1> QED BY <1>1, DoorBegins, DoorStep, PTL DEF DoorSpec, DeskKeepsPlace, Keeps
=============================================================================
