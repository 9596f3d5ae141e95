---------------------------- MODULE RemoteProofs ----------------------------
(***************************************************************************)
(* Proofs about a desktop and a phone over a relay, for any number of      *)
(* payloads, commands and faults, and whatever the log keeps.              *)
(*                                                                         *)
(* Always is what holds whatever happens: frames are sealed under a link   *)
(* and a number, each later than all before it (Counted), nothing on the   *)
(* way changes that order (Along), and a command that could still open is  *)
(* later than all that was acted on (Commanded).                           *)
(*                                                                         *)
(* InTime is what holds as long as no asking goes out on a later socket    *)
(* than its own (late): what the phone has not read lies after what it     *)
(* heard last (Ahead), so it never goes back to a link it left, and no     *)
(* number seals twice.  That rests on a phone which asks once for each     *)
(* socket, before anything was handed to it there (Asking).                *)
(***************************************************************************)
EXTENDS Remote, SequenceTheorems, TLAPS

Pay == -MaxCmd..MaxPay
Pubs == [t : {"pub"}, link : Nat, seq : Nat \ {0}, pay : Pay]
Cmds == [t : {"cmd"}, link : Nat, seq : Nat \ {0}, pay : 1..MaxCmd]
Subs == [t : {"sub", "late"}, since : Nat]
Evts == [t : {"evt"}, n : Nat, link : Nat, seq : Nat \ {0}, pay : Pay]
Gaps == [t : {"gap"}, from : Nat]

Desks == [id : Nat, seq : Nat, up : BOOLEAN, outbox : Seq(Pay), last : Nat,
          allow : 0..Burst, at : {"drain", "send"}]
Phones == [cursor : Nat, desk : Nat, last : Nat, seq : Nat]
Seals == [dir : {"d2p", "p2d"}, link : Nat, seq : Nat, pay : Int]

DeskOut == Seq(Pubs)
PhoneOut == Seq(Cmds \cup Subs)
DeskIn == Seq(Cmds \cup {Open, Lost})
PhoneIn == Seq(Evts \cup Gaps \cup {Open, Stale, Lost})

Types ==
    /\ log \in Seq(Evts) /\ oldest \in 1..Len(log) + 1
    /\ att \in [sub : BOOLEAN, since : 0..Len(log), recent : BOOLEAN]
    /\ sock \in [desk : BOOLEAN, phone : BOOLEAN]
    /\ out \in [desk : DeskOut, phone : PhoneOut]
    /\ evs \in [desk : DeskIn, phone : PhoneIn]
    /\ carried \subseteq Cmds /\ skipped \subseteq Nat
    /\ desk \in Desks
    /\ links \in Nat \ {0} /\ says \in 0..MaxPay /\ asks \in 0..MaxCmd
    /\ phone \in Phones
    /\ sealed \subseteq Seals
    /\ shown \in Seq(Int) /\ acted \in Seq(Int)
    /\ got \subseteq Nat /\ told \subseteq Nat

\* The order in which one direction seals: by link, then by number.
Before(a, b) == a.link < b.link \/ (a.link = b.link /\ a.seq < b.seq)
UpTo(a, b) == a.link < b.link \/ (a.link = b.link /\ a.seq <= b.seq)
Rising(a, b) == (a.pay > 0 /\ b.pay > 0) => a.pay < b.pay

\* How far each direction has sealed, and how far each was opened.
At(link, seq) == [link |-> link, seq |-> seq]
DeskAt == At(desk.id, desk.seq)
PhoneAt == At(phone.desk, phone.seq)
HeardAt == At(phone.desk, phone.last)

\* A direction seals past all that it sealed, and what is said later is a later
\* payload.
InTurn(dir, at) ==
    /\ \A s \in sealed : s.dir = dir => UpTo(s, at)
    /\ \A a, b \in sealed : (a.dir = dir /\ b.dir = dir) =>
          IF Before(a, b) THEN Rising(a, b) ELSE Before(b, a) \/ a = b

\* The desktop seals in turn, and every link there is was drawn.
Counted ==
    /\ desk.id = links /\ phone.desk <= links
    /\ \A s \in sealed : s.link <= links
    /\ InTurn("d2p", DeskAt)

\* The phone seals in turn, and is never ahead of the desktop.
Heard == UpTo(HeardAt, DeskAt) /\ InTurn("p2d", PhoneAt)

\* What is still to be sealed is later than all that was.
Waiting ==
    /\ \A s \in sealed : s.pay <= IF s.dir = "d2p" THEN says ELSE asks
    /\ \A i \in 1..Len(desk.outbox) :
          /\ desk.outbox[i] <= says
          /\ desk.outbox[i] > 0 => \A s \in sealed : s.dir = "d2p" => s.pay < desk.outbox[i]
    /\ InOrder(desk.outbox)

\* Whatever is under way was sealed.
Sealing(dir, f) == Sealed(dir, f.link, f.seq, f.pay)
Was(dir, f) == Sealing(dir, f) \in sealed
Underway ==
    /\ \A n \in 1..Len(log) : Was("d2p", log[n])
    /\ \A i \in 1..Len(out["desk"]) : Was("d2p", out["desk"][i])
    /\ \A i \in 1..Len(out["phone"]) : out["phone"][i].t = "cmd" => Was("p2d", out["phone"][i])
    /\ \A i \in 1..Len(evs["desk"]) : evs["desk"][i].t = "cmd" => Was("p2d", evs["desk"][i])
    /\ \A c \in carried : Was("p2d", c)

\* The log is in the order of sealing, and what is to be stored comes after it.
Along ==
    /\ \A n \in 1..Len(log) : log[n].n = n
    /\ \A m, n \in 1..Len(log) : m < n => Before(log[m], log[n])
    /\ \A i, j \in 1..Len(out["desk"]) : i < j => Before(out["desk"][i], out["desk"][j])
    /\ \A n \in 1..Len(log), i \in 1..Len(out["desk"]) : Before(log[n], out["desk"][i])

Numbered(e) == e.t \in {"evt", "gap"}
Num(e) == IF e.t = "evt" THEN e.n ELSE e.from

\* What the phone has not read is in the log, in its order, past what it heard.
QueuedIn(q, lg, at, cursor) ==
    /\ \A i \in 1..Len(q) :
          /\ q[i].t = "evt" => /\ q[i].n \in 1..Len(lg) /\ q[i] = lg[q[i].n]
                              /\ Before(at, q[i])
          /\ Numbered(q[i]) => Num(q[i]) \in cursor..Len(lg)
    /\ \A i, j \in 1..Len(q) : (i < j /\ Numbered(q[i]) /\ Numbered(q[j])) =>
          /\ Num(q[i]) <= Num(q[j])
          /\ (q[i].t = "evt" /\ q[j].t = "evt") => q[i].n < q[j].n
Ahead ==
    /\ phone.cursor <= Len(log)
    /\ QueuedIn(evs["phone"], log, HeardAt, phone.cursor)
    /\ \A n \in 1..Len(log) : n > phone.cursor => Before(HeardAt, log[n])
    /\ \A i \in 1..Len(out["desk"]) : Before(HeardAt, out["desk"][i])

\* The phone asks once for each socket, for what it has not had, and has been
\* handed nothing on it before.
OnceIn(q, t, i) == \A j \in 1..Len(q) : q[j].t = t => j = i
NoneIn(q, t) == \A j \in 1..Len(q) : q[j].t # t
Asking ==
    /\ \A i \in 1..Len(evs["phone"]) : evs["phone"][i].t = "open" =>
          /\ sock["phone"] /\ ~att.sub
          /\ OnceIn(evs["phone"], "open", i) /\ NoneIn(out["phone"], "sub")
          /\ \A j \in i..Len(evs["phone"]) : ~Numbered(evs["phone"][j])
    /\ \A i \in 1..Len(out["phone"]) : out["phone"][i].t = "sub" =>
          /\ sock["phone"] /\ ~att.sub
          /\ OnceIn(out["phone"], "sub", i) /\ NoneIn(evs["phone"], "open")
          /\ out["phone"][i].since = phone.cursor
          /\ \A j \in 1..Len(evs["phone"]) : ~Numbered(evs["phone"][j])

\* What the phone reads, and what it asks for, are numbers the log has given.
Given(f, lg) ==
    /\ f.t = "evt" => f.n \in 1..Len(lg) /\ f = lg[f.n]
    /\ f.t = "gap" => f.from \in 1..Len(lg)
    /\ f.t \in {"sub", "late"} => f.since \in 0..Len(lg)
Numbers ==
    /\ phone.cursor <= Len(log)
    /\ \A i \in 1..Len(evs["phone"]) : Given(evs["phone"][i], log)
    /\ \A i \in 1..Len(out["phone"]) : Given(out["phone"][i], log)

\* A gap is followed by the frame it ends at, unless a socket broke between them.
Follows(q, n, i) == \E j \in i + 1..Len(q) : q[j].t = "evt" /\ q[j].n = n
Followed ==
    /\ \A i \in 1..Len(evs["phone"]) : evs["phone"][i].t = "gap" =>
          evs["phone"][i].from \in torn \/ Follows(evs["phone"], evs["phone"][i].from, i)
    /\ \A n \in told : n \in got \/ n \in torn \/ Follows(evs["phone"], n, 0)

\* A command that the phone has not sent is later than all that were acted on,
\* handed on or sent; what still opens is later than all that were acted on; and
\* what the hub has handed on opens only where it was not read yet.
Live(f, d) == f.t = "cmd" /\ Opens(f, d.id, d.last)
ActsInTurn(acts, n) == InOrder(acts) /\ \A k \in 1..Len(acts) : acts[k] <= n
Latest(f, acts, handed, q) ==
    /\ \A k \in 1..Len(acts) : acts[k] < f.pay
    /\ \A c \in handed : c.pay < f.pay
    /\ \A j \in 1..Len(q) : q[j].t = "cmd" => q[j].pay < f.pay
AsksInTurn(u, acts, handed, q) == \A i \in 1..Len(u) : u[i].t = "cmd" =>
    /\ Latest(u[i], acts, handed, q)
    /\ \A j \in 1..i - 1 : u[j].t = "cmd" => u[j].pay < u[i].pay
OpensInTurn(q, d, acts) == \A i \in 1..Len(q) : Live(q[i], d) =>
    /\ \A k \in 1..Len(acts) : acts[k] < q[i].pay
    /\ \A j \in 1..i - 1 : Live(q[j], d) => q[j].pay < q[i].pay
Awaited(handed, d, there, q) == \A c \in handed : Live(c, d) =>
    ~there \/ \E i \in 1..Len(q) : q[i].t = "open" \/ q[i] = c
Commanded ==
    /\ ActsInTurn(acted, asks)
    /\ AsksInTurn(out["phone"], acted, carried, evs["desk"])
    /\ OpensInTurn(evs["desk"], desk, acted)
    /\ Awaited(carried, desk, sock["desk"], evs["desk"])

\* What was shown was sealed no later than what was opened last, and the one in
\* the order of the other.
Opened ==
    /\ \A i \in 1..Len(shown) : \E s \in sealed :
          s.dir = "d2p" /\ s.pay = shown[i] /\ UpTo(s, HeardAt)
    /\ InOrder(shown)

\* Between what the phone received and what it will read next, nothing is
\* missing that is not told: of the i-th event, by the events before it.
Seen(q, m, i) == \E j \in 1..i - 1 : \/ q[j].t = "evt" /\ q[j].n = m
                                     \/ q[j].t = "gap" /\ m <= q[j].from
Fore(q, m, i) == \A j \in 1..i - 1 : q[j].t = "evt" => m < q[j].n
Covered(q, m, i) == m \in skipped \/ Seen(q, m, i) \/ (got = {} /\ Fore(q, m, i))
Kept ==
    /\ \A k \in got : k \in 1..phone.cursor
    /\ \A i \in 1..Len(evs["phone"]) : evs["phone"][i].t = "evt" =>
          \A m \in phone.cursor + 1..evs["phone"][i].n - 1 : Covered(evs["phone"], m, i)
    /\ sock["phone"] /\ att.sub =>
          \A m \in phone.cursor + 1..Len(log) : Covered(evs["phone"], m, Len(evs["phone"]) + 1)

\* What it is past was passed over, received, told, or before all that it got.
Told(n) == n \in got \/ (\E from \in told : n <= from) \/ \A k \in got : n < k
Passed == \A n \in 1..phone.cursor : n \in skipped \/ Told(n)

Always == Types /\ Counted /\ Waiting /\ Underway /\ Along /\ Numbers /\ Followed /\ Commanded
InTime == Heard /\ Ahead /\ Asking /\ Opened /\ Passed /\ Kept
IInv == Always /\ (late \/ InTime)

LEMMA Bounds ==
    /\ MaxPay \in Nat /\ MaxCmd \in Nat /\ OutboxKeep \in Nat /\ Burst \in Nat
    /\ 0 \in Pay /\ Pay \subseteq Int /\ Limit \in Nat /\ Limit >= 1
<1>1. MaxPay \in Nat /\ MaxCmd \in Nat /\ OutboxKeep \in Nat /\ Burst \in Nat
  BY RemoteAssumption
<1>2. Limit \in Nat \ {0}  BY RelayAssumption
<1> QED BY <1>1, <1>2 DEF Pay

-----------------------------------------------------------------------------
(***************************************************************************)
(* Queues.  A step takes from the front of one, or adds at the end of what *)
(* is left of it.                                                          *)
(***************************************************************************)

Cut(q, r, k) == /\ k \in 0..Len(q) /\ Len(r) = Len(q) - k
                /\ \A i \in 1..Len(r) : r[i] = q[i + k]
Ended(q, r, k, x) == /\ k \in 0..Len(q) /\ Len(r) = k + 1
                     /\ \A i \in 1..k : r[i] = q[i]
                     /\ r[k + 1] = x

\* All there is of r was in q, but for one that is x.
Of(q, r) == \A i \in 1..Len(r) : \E j \in 1..Len(q) : r[i] = q[j]
Plus(q, r, x) == \A i \in 1..Len(r) : r[i] = x \/ \E j \in 1..Len(q) : r[i] = q[j]
LEMMA CutOf ==
    ASSUME NEW q, NEW r, NEW k, Len(q) \in Nat, Cut(q, r, k)
    PROVE  /\ Of(q, r) /\ k \in Nat /\ Len(r) \in Nat
           /\ \A i \in 1..Len(r) : i + k \in 1..Len(q) /\ r[i] = q[i + k]
BY DEF Cut, Of
LEMMA EndedPlus ==
    ASSUME NEW q, NEW r, NEW k, NEW x, Len(q) \in Nat, Ended(q, r, k, x)
    PROVE  /\ Plus(q, r, x) /\ k \in Nat /\ k <= Len(q) /\ Len(r) = k + 1 /\ r[k + 1] = x
           /\ \A i \in 1..Len(r) : i # k + 1 => i \in 1..k /\ i \in 1..Len(q) /\ r[i] = q[i]
<1>1. /\ k \in Nat /\ k <= Len(q) /\ Len(r) = k + 1 /\ r[k + 1] = x
      /\ \A i \in 1..Len(r) : i # k + 1 => i \in 1..k /\ i \in 1..Len(q) /\ r[i] = q[i]
  BY DEF Ended
<1> QED BY <1>1 DEF Plus

\* What Tail does.
LEMMA TailCuts ==
    ASSUME NEW S, NEW q \in Seq(S), q # <<>>
    PROVE  Tail(q) \in Seq(S) /\ Cut(q, Tail(q), 1) /\ Head(q) = q[1] /\ 1 \in 1..Len(q)
BY HeadTailProperties, EmptySeq, LenProperties DEF Cut

\* What SubSeq does to the front.
LEMMA SubSeqCuts ==
    ASSUME NEW S, NEW q \in Seq(S), NEW k \in 0..Len(q)
    PROVE  SubSeq(q, k + 1, Len(q)) \in Seq(S) /\ Cut(q, SubSeq(q, k + 1, Len(q)), k)
<1> DEFINE r == SubSeq(q, k + 1, Len(q))
<1>1. Len(q) \in Nat /\ \A i \in k + 1..Len(q) : q[i] \in S
  BY LenProperties, ElementOfSeq
<1>2. /\ r \in Seq(S)
      /\ Len(r) = IF k + 1 <= Len(q) THEN Len(q) - (k + 1) + 1 ELSE 0
      /\ \A i \in 1..Len(q) - (k + 1) + 1 : r[i] = q[k + 1 + i - 1]
  BY <1>1, SubSeqProperties
<1> QED BY <1>1, <1>2 DEF Cut

\* What one more at the end of a queue does, or of what is left of it.
LEMMA EndsWith ==
    ASSUME NEW S, NEW q \in Seq(S), NEW x \in S, NEW n \in Nat
    PROVE  LET k == IF n <= Len(q) THEN Len(q) - n ELSE 0
               r == SubSeq(q, 1, Len(q) - n) \o <<x>>
           IN  r \in Seq(S) /\ Ended(q, r, k, x)
<1> DEFINE k == IF n <= Len(q) THEN Len(q) - n ELSE 0
           p == SubSeq(q, 1, Len(q) - n)
<1>1. Len(q) \in Nat /\ \A i \in 1..Len(q) - n : q[i] \in S
  BY LenProperties, ElementOfSeq
<1>2. /\ p \in Seq(S)
      /\ Len(p) = IF 1 <= Len(q) - n THEN (Len(q) - n) - 1 + 1 ELSE 0
      /\ \A i \in 1..(Len(q) - n) - 1 + 1 : p[i] = q[1 + i - 1]
  BY <1>1, SubSeqProperties
<1>3. <<x>> \in Seq(S) /\ Len(<<x>>) = 1 /\ <<x>>[1] = x
  OBVIOUS
<1>4. /\ p \o <<x>> \in Seq(S) /\ Len(p \o <<x>>) = Len(p) + 1
      /\ \A i \in 1..Len(p) + 1 : (p \o <<x>>)[i] = IF i <= Len(p) THEN p[i] ELSE <<x>>[i - Len(p)]
  BY <1>2, <1>3, ConcatProperties
<1>5. Len(p) = k /\ k \in 0..Len(q) /\ \A i \in 1..k : p[i] = q[i]
  BY <1>1, <1>2
<1> HIDE DEF k, p
<1>6. \A i \in 1..k : (p \o <<x>>)[i] = q[i]  BY <1>1, <1>4, <1>5
<1>7. (p \o <<x>>)[k + 1] = x  BY <1>1, <1>3, <1>4, <1>5
<1>8. Ended(q, p \o <<x>>, k, x)  BY <1>4, <1>5, <1>6, <1>7 DEF Ended
<1> QED BY <1>4, <1>8 DEF k, p

\* One more at the end.
LEMMA AddsOne ==
    ASSUME NEW S, NEW q \in Seq(S), NEW x \in S
    PROVE  /\ q \o <<x>> \in Seq(S) /\ Ended(q, q \o <<x>>, Len(q), x)
           /\ Append(q, x) \in Seq(S) /\ Ended(q, Append(q, x), Len(q), x)
<1>1. Len(q) \in Nat /\ Append(q, x) = q \o <<x>>  BY LenProperties, AppendIsConcat
<1>2. Append(q, x) \in Seq(S) /\ Ended(q, Append(q, x), Len(q), x)
  BY <1>1, AppendProperties DEF Ended
<1> QED BY <1>1, <1>2

-----------------------------------------------------------------------------
(***************************************************************************)
(* What the steps do to the queues.                                        *)
(***************************************************************************)

DeskEvents == Cmds \cup {Open, Lost}
PhoneEvents == Evts \cup Gaps \cup {Open, Stale, Lost}
Asked == Cmds \cup Subs
QueueTypes == /\ sock \in [desk : BOOLEAN, phone : BOOLEAN]
              /\ out \in [desk : DeskOut, phone : PhoneOut]
              /\ evs \in [desk : DeskIn, phone : PhoneIn]

\* What is for a socket that broke goes by another name.
Renames(q, p) ==
    /\ Len(p) = Len(q)
    /\ \A i \in 1..Len(q) : \/ p[i] = q[i]
                            \/ q[i].t = "open" /\ p[i] = Stale
                            \/ q[i].t = "sub" /\ p[i] = [q[i] EXCEPT !.t = "late"]

\* A socket that opens or goes ends the events there are; what was sent on it
\* is gone.
SocketMoves(e) ==
    \E k, sent \in Nat, x \in {Open, Lost} : \E p, u :
       /\ Renames(evs[e], p) /\ Renames(out[e], u)
       /\ e = "desk" => p = evs[e] /\ u = out[e]
       /\ Ended(p, evs'[e], k, x) /\ Cut(u, out'[e], sent)
       /\ \A i \in k + 1..Len(p) : p[i].t = "evt" => p[i].n \in torn'
       /\ x = Open => /\ ~sock[e] /\ sock'[e] /\ k = Len(p) /\ sent = 0
                      /\ p = evs[e] /\ u = out[e]
                      /\ e = "phone" => ~att'.sub
       /\ x = Lost => /\ ~sock'[e] /\ att' = att
                      /\ \/ ~sock[e] /\ k = Len(p) /\ sent = 0 /\ p = evs[e] /\ u = out[e]
                         \/ sock[e] /\ (e = "phone" => NoneIn(p, "open") /\ NoneIn(u, "sub"))

LEMMA RenamesSelf == ASSUME NEW q PROVE Renames(q, q)
BY DEF Renames

\* What a broken socket leaves of a queue, by its new names.
LEMMA OutlivesIs ==
    ASSUME NEW e \in Ends, NEW S, NEW q \in Seq(S), \A f \in S : Renamed(f, e) \in S
    PROVE  /\ Outlives(q, e) \in Seq(S) /\ Len(Outlives(q, e)) = Len(q)
           /\ \A i \in 1..Len(q) : Outlives(q, e)[i] = Renamed(q[i], e)
<1>1. Len(q) \in Nat /\ DOMAIN q = 1..Len(q) /\ \A i \in 1..Len(q) : q[i] \in S
  BY LenProperties, ElementOfSeq
<1>2. Outlives(q, e) = [i \in 1..Len(q) |-> Renamed(q[i], e)]
  BY <1>1 DEF Outlives
<1>3. \A i \in 1..Len(q) : Renamed(q[i], e) \in S  BY <1>1
<1> QED BY <1>1, <1>2, <1>3

LEMMA SocketStep ==
    ASSUME Types, NEW e \in Ends, Connect(e) \/ DialFails(e) \/ Break(e)
    PROVE  /\ QueueTypes' /\ SocketMoves(e)
           /\ \A d \in Ends : d # e => evs'[d] = evs[d] /\ out'[d] = out[d] /\ sock'[d] = sock[d]
           /\ torn \subseteq torn' /\ UNCHANGED <<log, oldest, carried, skipped, late>>
           /\ att' = att \/ (e = "phone" /\ att' = Fresh)
<1> DEFINE S == IF e = "desk" THEN DeskEvents ELSE PhoneEvents
           T == IF e = "desk" THEN Pubs ELSE Asked
<1>1. /\ evs[e] \in Seq(S) /\ out[e] \in Seq(T) /\ Open \in S /\ Lost \in S
      /\ Len(evs[e]) \in Nat /\ Len(out[e]) \in Nat /\ Cut(out[e], out[e], 0)
  <2>1. evs[e] \in Seq(S) /\ out[e] \in Seq(T)
    BY DEF Types, Ends, DeskIn, PhoneIn, DeskOut, PhoneOut, DeskEvents, PhoneEvents, Asked
  <2>2. Open \in S /\ Lost \in S  BY DEF DeskEvents, PhoneEvents
  <2> QED BY <2>1, <2>2, LenProperties DEF Cut
<1>2. ASSUME evs' = [evs EXCEPT ![e] = evs'[e]], evs'[e] \in Seq(S),
             out' = [out EXCEPT ![e] = out'[e]], out'[e] \in Seq(T),
             \E b \in BOOLEAN : sock' = [sock EXCEPT ![e] = b]
      PROVE  /\ QueueTypes'
             /\ \A d \in Ends : d # e => evs'[d] = evs[d] /\ out'[d] = out[d] /\ sock'[d] = sock[d]
  <2>1. CASE e = "desk"
    BY <1>2, <2>1 DEF Types, QueueTypes, Ends, DeskIn, DeskOut, DeskEvents
  <2>2. CASE e = "phone"
    BY <1>2, <2>2 DEF Types, QueueTypes, Ends, PhoneIn, PhoneOut, PhoneEvents, Asked
  <2> QED BY <2>1, <2>2 DEF Ends
<1>3. sock[e] \in BOOLEAN /\ sock = [sock EXCEPT ![e] = sock[e]] /\ out = [out EXCEPT ![e] = out[e]]
      /\ e \in DOMAIN sock /\ e \in DOMAIN evs /\ e \in DOMAIN out
  BY DEF Types, Ends
<1>4. \A f \in S : /\ Renamed(f, e) \in S
                   /\ Renamed(f, e) = f \/ (e = "phone" /\ f.t = "open" /\ Renamed(f, e) = Stale)
                   /\ e = "phone" => Renamed(f, e).t # "open"
                   /\ Renamed(f, e).t = "evt" => Renamed(f, e) = f
  <2>1. CASE e = "desk"
    BY <2>1 DEF Renamed, DeskEvents, Cmds, Open, Lost
  <2>2. CASE e = "phone"
    BY <2>2 DEF Renamed, PhoneEvents, Evts, Gaps, Open, Lost, Stale
  <2> QED BY <2>1, <2>2 DEF Ends
<1>5. \A f \in T : /\ Renamed(f, e) \in T
                   /\ \/ Renamed(f, e) = f
                      \/ e = "phone" /\ f.t = "sub" /\ Renamed(f, e) = [f EXCEPT !.t = "late"]
                   /\ e = "phone" => Renamed(f, e).t # "sub"
  <2>1. CASE e = "desk"
    BY <2>1 DEF Renamed, Pubs
  <2>2. CASE e = "phone"
    <3>1. \A f \in Cmds : Renamed(f, e) = f /\ f.t = "cmd"  BY DEF Renamed, Cmds
    <3>2. \A f \in Subs : f.t = "late" => Renamed(f, e) = f  BY DEF Renamed, Subs
    <3>3. \A f \in Subs : f.t = "sub" => /\ Renamed(f, e) = [f EXCEPT !.t = "late"]
                                         /\ [f EXCEPT !.t = "late"] \in Subs
                                         /\ [f EXCEPT !.t = "late"].t = "late"
      BY DEF Renamed, Subs
    <3>4. \A f \in Subs : f.t = "sub" \/ f.t = "late"  BY DEF Subs
    <3> QED BY <2>2, <3>1, <3>2, <3>3, <3>4 DEF Asked
  <2> QED BY <2>1, <2>2 DEF Ends
<1> HIDE DEF S, T
<1>9. (\A f \in S : Renamed(f, e) \in S) /\ (\A f \in T : Renamed(f, e) \in T)
  BY <1>4, <1>5
<1>6. CASE Connect(e)
  <2>1. evs' = [evs EXCEPT ![e] = evs[e] \o <<Open>>] /\ sock' = [sock EXCEPT ![e] = TRUE]
        /\ out' = out /\ ~sock[e] /\ att' = (IF e = "phone" THEN Fresh ELSE att)
        /\ UNCHANGED <<torn, log, oldest, carried, skipped, late>>
    BY <1>6 DEF Connect, To
  <2>2. evs'[e] = evs[e] \o <<Open>> /\ sock'[e]  BY <1>3, <2>1
  <2>3. evs'[e] \in Seq(S) /\ Ended(evs[e], evs'[e], Len(evs[e]), Open)
    BY <1>1, <2>2, AddsOne
  <2>4. \A i \in Len(evs[e]) + 1..Len(evs[e]) : FALSE  BY <1>1
  <2>5. SocketMoves(e)
    <3>1. Renames(evs[e], evs[e]) /\ Renames(out[e], out[e])  BY RenamesSelf
    <3>2. out'[e] = out[e] /\ Open # Lost  BY <2>1 DEF Open, Lost
    <3>3. e = "phone" => ~att'.sub  BY <2>1 DEF Fresh
    <3> QED BY <1>1, <2>1, <2>2, <2>3, <2>4, <3>1, <3>2, <3>3 DEF SocketMoves
  <2> QED BY <1>1, <1>2, <1>3, <2>1, <2>2, <2>3, <2>5
<1>7. CASE DialFails(e)
  <2>1. evs' = [evs EXCEPT ![e] = evs[e] \o <<Lost>>] /\ sock' = sock /\ out' = out /\ att' = att
        /\ ~sock[e] /\ UNCHANGED <<torn, log, oldest, carried, skipped, late>>
    BY <1>7 DEF DialFails, To
  <2>2. evs'[e] = evs[e] \o <<Lost>>  BY <1>3, <2>1
  <2>3. evs'[e] \in Seq(S) /\ Ended(evs[e], evs'[e], Len(evs[e]), Lost)
    BY <1>1, <2>2, AddsOne
  <2>4. \A i \in Len(evs[e]) + 1..Len(evs[e]) : FALSE  BY <1>1
  <2>5. SocketMoves(e)
    <3>1. Renames(evs[e], evs[e]) /\ Renames(out[e], out[e])  BY RenamesSelf
    <3>2. out'[e] = out[e] /\ Open # Lost  BY <2>1 DEF Open, Lost
    <3> QED BY <1>1, <2>1, <2>3, <2>4, <3>1, <3>2 DEF SocketMoves
  <2> QED BY <1>1, <1>2, <1>3, <2>1, <2>2, <2>3, <2>5
<1>8. CASE Break(e)
  <2>1. PICK sent \in 0..Len(out[e]), unread \in Unread(evs[e]) : Broken(e, sent, unread)
    BY <1>8 DEF Break
  <2> DEFINE left == Len(evs[e]) - unread
             a == SubSeq(evs[e], 1, left)
             b == SubSeq(out[e], sent + 1, Len(out[e]))
             p == Outlives(evs[e], e)
             u == Outlives(out[e], e)
  <2>2. /\ evs' = [evs EXCEPT ![e] = Outlives(a, e) \o <<Lost>>]
        /\ out' = [out EXCEPT ![e] = Outlives(b, e)]
        /\ sock' = [sock EXCEPT ![e] = FALSE] /\ att' = att
        /\ torn' = torn \cup Torn(SubSeq(evs[e], left + 1, Len(evs[e])))
        /\ UNCHANGED <<log, oldest, carried, skipped, late>>
    BY <2>1 DEF Broken
  <2>3. /\ evs'[e] = Outlives(a, e) \o <<Lost>>
        /\ out'[e] = Outlives(b, e) /\ ~sock'[e]
    BY <1>3, <2>2
  <2>4. unread \in Nat /\ unread <= Len(evs[e]) /\ sent \in Nat /\ sent \in 0..Len(out[e])
    BY <1>1, <2>1 DEF Unread
  <2>5. PICK k \in Nat : /\ k <= Len(evs[e]) /\ a \in Seq(S) /\ Len(a) = k
                         /\ k = left
                         /\ \A i \in 1..k : a[i] = evs[e][i]
    <3>1. \A i \in 1..left : evs[e][i] \in S  BY <1>1, <2>4, ElementOfSeq
    <3>2. /\ a \in Seq(S)
          /\ Len(a) = IF 1 <= left THEN left - 1 + 1 ELSE 0
          /\ \A i \in 1..left - 1 + 1 : a[i] = evs[e][1 + i - 1]
      BY <1>1, <2>4, <3>1, SubSeqProperties
    <3>3. left \in Int /\ left <= Len(evs[e])  BY <1>1, <2>4
    <3> HIDE DEF a, left
    <3>4. \A i \in 1..left : a[i] = evs[e][i]  BY <3>2, <3>3
    <3>5. left >= 0  BY <1>1, <2>4 DEF left
    <3> QED BY <1>1, <3>2, <3>3, <3>4, <3>5
  <2>6. b \in Seq(T) /\ Cut(out[e], b, sent)
    BY <1>1, <2>4, SubSeqCuts
  <2> HIDE DEF a, b
  <2>7. /\ p \in Seq(S) /\ Len(p) = Len(evs[e])
        /\ \A i \in 1..Len(evs[e]) : p[i] = Renamed(evs[e][i], e) /\ evs[e][i] \in S
    BY <1>1, <1>9, OutlivesIs, ElementOfSeq
  <2>8. /\ u \in Seq(T) /\ Len(u) = Len(out[e])
        /\ \A i \in 1..Len(out[e]) : u[i] = Renamed(out[e][i], e) /\ out[e][i] \in T
    BY <1>1, <1>9, OutlivesIs, ElementOfSeq
  <2>9. /\ Outlives(a, e) \in Seq(S) /\ Len(Outlives(a, e)) = k
        /\ \A i \in 1..k : Outlives(a, e)[i] = Renamed(a[i], e)
    BY <1>9, <2>5, OutlivesIs
  <2>10. /\ Outlives(b, e) \in Seq(T) /\ Len(Outlives(b, e)) = Len(b)
         /\ \A i \in 1..Len(b) : Outlives(b, e)[i] = Renamed(b[i], e)
    BY <1>9, <2>6, OutlivesIs
  <2> HIDE DEF p, u
  <2>11. evs'[e] \in Seq(S) /\ Ended(p, evs'[e], k, Lost)
    <3> DEFINE y == Outlives(a, e)
    <3> HIDE DEF y
    <3>1. y \o <<Lost>> \in Seq(S) /\ Ended(y, y \o <<Lost>>, Len(y), Lost)
      BY <1>1, <2>9, AddsOne DEF y
    <3>2. \A i \in 1..k : y[i] = p[i]
      BY <1>1, <2>5, <2>7, <2>9 DEF y
    <3>3. Len(y) = k /\ k \in 0..Len(p)  BY <1>1, <2>5, <2>7, <2>9 DEF y
    <3>4. evs'[e] = y \o <<Lost>>  BY <2>3 DEF y
    <3> QED BY <3>1, <3>2, <3>3, <3>4 DEF Ended
  <2>12. out'[e] \in Seq(T) /\ Cut(u, out'[e], sent)
    <3>1. /\ sent \in 0..Len(u) /\ Len(b) = Len(u) - sent
          /\ \A i \in 1..Len(b) : i + sent \in 1..Len(out[e]) /\ b[i] = out[e][i + sent]
      <4>1. Len(b) = Len(out[e]) - sent  BY <2>6 DEF Cut
      <4> QED BY <1>1, <2>4, <2>6, <2>8, <4>1, CutOf
    <3>2. \A i \in 1..Len(b) : out'[e][i] = u[i + sent]
      BY <2>3, <2>8, <2>10, <3>1
    <3> QED BY <2>3, <2>10, <3>1, <3>2 DEF Cut
  <2>13. Renames(evs[e], p)
    BY <1>4, <2>7 DEF Renames
  <2>14. Renames(out[e], u)
    BY <1>5, <2>8 DEF Renames
  <2>15. e = "phone" => NoneIn(p, "open") /\ NoneIn(u, "sub")
    BY <1>4, <1>5, <2>7, <2>8 DEF NoneIn
  <2>16. e = "desk" => p = evs[e] /\ u = out[e]
    <3>1. e = "desk" => \A i \in 1..Len(evs[e]) : p[i] = evs[e][i]  BY <1>4, <2>7
    <3>2. e = "desk" => \A i \in 1..Len(out[e]) : u[i] = out[e][i]  BY <1>5, <2>8
    <3>3. e = "desk" => p = evs[e]
      BY <1>1, <2>7, <3>1, SeqEqual
    <3>4. e = "desk" => u = out[e]
      BY <1>1, <2>8, <3>2, SeqEqual
    <3> QED BY <3>3, <3>4
  <2>17. ASSUME NEW i \in k + 1..Len(p), p[i].t = "evt" PROVE p[i].n \in torn'
    <3> DEFINE z == SubSeq(evs[e], left + 1, Len(evs[e]))
    <3>1. i \in 1..Len(evs[e]) /\ p[i] = evs[e][i]  BY <1>1, <1>4, <2>5, <2>7, <2>17
    <3>2. left \in 0..Len(evs[e]) /\ k = left  BY <1>1, <2>4, <2>5
    <3>4. z \in Seq(S) /\ Cut(evs[e], z, left)  BY <1>1, <3>2, SubSeqCuts
    <3>5. i - left \in 1..Len(z) /\ (i - left) + left = i /\ left \in Nat
      <4>1. Len(z) = Len(evs[e]) - left  BY <3>4 DEF Cut
      <4> QED BY <1>1, <2>7, <3>1, <3>2, <4>1
    <3>6. z[i - left] = evs[e][i]  BY <3>4, <3>5 DEF Cut
    <3>7. evs[e][i] \in ToSet(z)
      <4>1. DOMAIN z = 1..Len(z)  BY <3>4, LenProperties
      <4> QED BY <3>5, <3>6, <4>1 DEF ToSet
    <3> HIDE DEF z
    <3>8. evs[e][i].n \in Torn(z)  BY <2>17, <3>1, <3>7 DEF Torn
    <3> QED BY <2>2, <3>1, <3>8 DEF z
  <2>18. SocketMoves(e)
    <3>1. Open # Lost  BY DEF Open, Lost
    <3>2. sock[e]  BY <1>8 DEF Break
    <3> QED BY <2>2, <2>3, <2>4, <2>5, <2>11, <2>12, <2>13, <2>14, <2>15, <2>16, <2>17, <3>1,
               <3>2 DEF SocketMoves
  <2> QED BY <1>2, <2>2, <2>3, <2>11, <2>12, <2>18
<1> QED BY <1>6, <1>7, <1>8

\* The desktop's queues keep their names.
LEMMA DeskMoves ==
    ASSUME SocketMoves("desk")
    PROVE  \E k, sent \in Nat, x \in {Open, Lost} :
              /\ Ended(evs["desk"], evs'["desk"], k, x) /\ Cut(out["desk"], out'["desk"], sent)
              /\ x = Open => ~sock["desk"] /\ k = Len(evs["desk"])
              /\ x = Lost => ~sock'["desk"]
<1>1. PICK k, sent \in Nat, x \in {Open, Lost} : \E p, u :
         /\ p = evs["desk"] /\ u = out["desk"]
         /\ Ended(p, evs'["desk"], k, x) /\ Cut(u, out'["desk"], sent)
         /\ x = Open => ~sock["desk"] /\ k = Len(p)
         /\ x = Lost => ~sock'["desk"]
  BY DEF SocketMoves
<1> QED BY <1>1

\* The phone's: its events up to one that are left, and its asking up to what was sent.
Moved(k, sent, x) ==
    LET q == evs["phone"]
        r == evs'["phone"]
        o == out["phone"]
        p == out'["phone"]
    IN  /\ k <= Len(q) /\ Len(r) = k + 1 /\ r[k + 1] = x
        /\ \A i \in 1..k : i \in 1..Len(q) /\ (r[i] = q[i] \/ (q[i].t = "open" /\ r[i] = Stale))
        /\ \A i \in k + 1..Len(q) : q[i].t = "evt" => q[i].n \in torn'
        /\ Len(p) \in Nat /\ sent <= Len(o) /\ Len(p) = Len(o) - sent
        /\ \A i \in 1..Len(p) :
              /\ i + sent \in 1..Len(o)
              /\ \/ p[i] = o[i + sent]
                 \/ o[i + sent].t = "sub" /\ p[i].t = "late" /\ p[i].since = o[i + sent].since
        /\ (x = Open \/ ~sock["phone"]) =>
              /\ ~sock["phone"] /\ k = Len(q) /\ sent = 0
              /\ (\A i \in 1..k : r[i] = q[i]) /\ \A i \in 1..Len(p) : p[i] = o[i]
        /\ x = Open => sock'["phone"] /\ ~att'.sub
        /\ x = Lost => /\ ~sock'["phone"] /\ att' = att
                       /\ sock["phone"] => /\ \A i \in 1..k : r[i].t # "open"
                                           /\ \A i \in 1..Len(p) : p[i].t # "sub"
LEMMA PhoneMoves ==
    ASSUME Types, SocketMoves("phone")
    PROVE  \E k, sent \in Nat, x \in {Open, Lost} : Moved(k, sent, x)
<1> DEFINE q == evs["phone"]
           r == evs'["phone"]
           o == out["phone"]
           p == out'["phone"]
<1>1. /\ q \in Seq(PhoneEvents) /\ o \in Seq(Asked)
      /\ Len(q) \in Nat /\ Len(o) \in Nat
      /\ \A i \in 1..Len(q) : q[i] \in PhoneEvents
      /\ \A i \in 1..Len(o) : o[i] \in Asked
  <2>1. q \in Seq(PhoneEvents) /\ o \in Seq(Asked)
    BY DEF Types, PhoneIn, PhoneOut, PhoneEvents, Asked
  <2> HIDE DEF q, o
  <2> QED BY <2>1, LenProperties, ElementOfSeq
<1>2. PICK k, sent \in Nat, x \in {Open, Lost} : \E v, u :
         /\ Renames(q, v) /\ Renames(o, u)
         /\ Ended(v, r, k, x) /\ Cut(u, p, sent)
         /\ \A i \in k + 1..Len(v) : v[i].t = "evt" => v[i].n \in torn'
         /\ x = Open => /\ ~sock["phone"] /\ sock'["phone"] /\ k = Len(v) /\ sent = 0
                        /\ v = q /\ u = o /\ ~att'.sub
         /\ x = Lost => /\ ~sock'["phone"] /\ att' = att
                        /\ \/ ~sock["phone"] /\ k = Len(v) /\ sent = 0 /\ v = q /\ u = o
                           \/ sock["phone"] /\ NoneIn(v, "open") /\ NoneIn(u, "sub")
  BY DEF SocketMoves
<1>3. PICK v, u :
         /\ Renames(q, v) /\ Renames(o, u)
         /\ Ended(v, r, k, x) /\ Cut(u, p, sent)
         /\ \A i \in k + 1..Len(v) : v[i].t = "evt" => v[i].n \in torn'
         /\ x = Open => /\ ~sock["phone"] /\ sock'["phone"] /\ k = Len(v) /\ sent = 0
                        /\ v = q /\ u = o /\ ~att'.sub
         /\ x = Lost => /\ ~sock'["phone"] /\ att' = att
                        /\ \/ ~sock["phone"] /\ k = Len(v) /\ sent = 0 /\ v = q /\ u = o
                           \/ sock["phone"] /\ NoneIn(v, "open") /\ NoneIn(u, "sub")
  BY <1>2
<1> HIDE DEF q, r, o, p
<1>4. /\ Len(v) = Len(q)
      /\ \A i \in 1..Len(q) : v[i] = q[i] \/ (q[i].t = "open" /\ v[i] = Stale)
  <2>1. \A f \in PhoneEvents : f.t # "sub"
    BY DEF PhoneEvents, Evts, Gaps, Open, Stale, Lost
  <2> QED BY <1>1, <1>3, <2>1 DEF Renames
<1>5. /\ Len(u) = Len(o)
      /\ \A i \in 1..Len(o) : \/ u[i] = o[i]
                              \/ o[i].t = "sub" /\ u[i].t = "late" /\ u[i].since = o[i].since
  <2>1. \A f \in Asked : f.t # "open"  BY DEF Asked, Cmds, Subs
  <2>2. \A f \in Asked : f.t = "sub" =>
           [f EXCEPT !.t = "late"].t = "late" /\ [f EXCEPT !.t = "late"].since = f.since
    <3>1. \A f \in Cmds : f.t # "sub"  BY DEF Cmds
    <3>2. \A f \in Subs : [f EXCEPT !.t = "late"].t = "late"
                          /\ [f EXCEPT !.t = "late"].since = f.since
      BY DEF Subs
    <3> QED BY <3>1, <3>2 DEF Asked
  <2>3. \A i \in 1..Len(o) : \/ u[i] = o[i]
                             \/ o[i].t = "open"
                             \/ o[i].t = "sub" /\ u[i] = [o[i] EXCEPT !.t = "late"]
    BY <1>3 DEF Renames
  <2>4. Len(u) = Len(o)  BY <1>3 DEF Renames
  <2>5. ASSUME NEW i \in 1..Len(o)
        PROVE  u[i] = o[i] \/ (o[i].t = "sub" /\ u[i].t = "late" /\ u[i].since = o[i].since)
    <3>1. o[i] \in Asked /\ o[i].t # "open"  BY <1>1, <2>1
    <3>2. CASE u[i] = o[i]  BY <3>2
    <3>3. CASE o[i].t = "sub" /\ u[i] = [o[i] EXCEPT !.t = "late"]  BY <2>2, <3>1, <3>3
    <3> QED BY <2>3, <3>1, <3>2, <3>3
  <2> QED BY <2>4, <2>5
<1>6. /\ k <= Len(q) /\ Len(r) = k + 1 /\ r[k + 1] = x
      /\ \A i \in 1..k : i \in 1..Len(q) /\ r[i] = v[i]
  <2>1. k \in 0..Len(v) /\ Len(r) = k + 1 /\ (\A i \in 1..k : r[i] = v[i]) /\ r[k + 1] = x
    BY <1>3 DEF Ended
  <2>2. Len(v) = Len(q)  BY <1>4
  <2> QED BY <1>1, <2>1, <2>2
<1>7. /\ Len(p) \in Nat /\ sent <= Len(o) /\ Len(p) = Len(o) - sent
      /\ \A i \in 1..Len(p) : i + sent \in 1..Len(o) /\ p[i] = u[i + sent]
  <2>1. sent <= Len(o) /\ Len(p) = Len(o) - sent  BY <1>1, <1>3, <1>5 DEF Cut
  <2> QED BY <1>1, <1>3, <1>5, <2>1 DEF Cut
<1>8. \A i \in 1..k : i \in 1..Len(q) /\ (r[i] = q[i] \/ (q[i].t = "open" /\ r[i] = Stale))
  BY <1>4, <1>6
<1>9. \A i \in k + 1..Len(q) : q[i].t = "evt" => q[i].n \in torn'
  <2>1. \A i \in k + 1..Len(q) : i \in 1..Len(q)  BY <1>1
  <2>2. \A i \in k + 1..Len(q) : q[i].t = "evt" => v[i] = q[i]  BY <1>4, <2>1
  <2> QED BY <1>3, <1>4, <2>2
<1>10. \A i \in 1..Len(p) :
          /\ i + sent \in 1..Len(o)
          /\ \/ p[i] = o[i + sent]
             \/ o[i + sent].t = "sub" /\ p[i].t = "late" /\ p[i].since = o[i + sent].since
  BY <1>5, <1>7
<1>11. (x = Open \/ ~sock["phone"]) =>
          /\ ~sock["phone"] /\ k = Len(q) /\ sent = 0
          /\ (\A i \in 1..k : r[i] = q[i]) /\ \A i \in 1..Len(p) : p[i] = o[i]
  <2>1. (x = Open \/ ~sock["phone"]) => /\ ~sock["phone"] /\ k = Len(q) /\ sent = 0
                                         /\ v = q /\ u = o
    BY <1>3, <1>4
  <2>2. \A i \in 1..Len(p) : i + 0 = i  BY <1>7
  <2> QED BY <1>6, <1>7, <2>1, <2>2
<1>12. x = Lost => /\ ~sock'["phone"] /\ att' = att
                   /\ sock["phone"] => /\ \A i \in 1..k : r[i].t # "open"
                                       /\ \A i \in 1..Len(p) : p[i].t # "sub"
  <2>1. x = Lost => /\ ~sock'["phone"] /\ att' = att
                    /\ sock["phone"] => NoneIn(v, "open") /\ NoneIn(u, "sub")
    BY <1>3
  <2>2. NoneIn(v, "open") => \A i \in 1..k : r[i].t # "open"  BY <1>4, <1>6 DEF NoneIn
  <2>3. NoneIn(u, "sub") => \A i \in 1..Len(p) : p[i].t # "sub"  BY <1>5, <1>7 DEF NoneIn
  <2> QED BY <2>1, <2>2, <2>3
<1>13. x = Open => sock'["phone"] /\ ~att'.sub  BY <1>3
<1>14. Moved(k, sent, x)
  BY <1>6, <1>7, <1>8, <1>9, <1>10, <1>11, <1>12, <1>13 DEF Moved, q, r, o, p
<1> QED BY <1>14

\* The larger and the smaller of two numbers.
LEMMA MaxOfTwo == ASSUME NEW a \in Int, NEW b \in Int
                  PROVE  Max({a, b}) = IF a >= b THEN a ELSE b
<1> DEFINE m == IF a >= b THEN a ELSE b
<1>1. m \in {a, b} /\ \A y \in {a, b} : m >= y  OBVIOUS
<1>2. \A x \in {a, b} : (\A y \in {a, b} : x >= y) => x = m  OBVIOUS
<1> HIDE DEF m
<1>3. Max({a, b}) = m  BY <1>1, <1>2 DEF Max
<1> QED BY <1>3 DEF m
LEMMA MinOfTwo == ASSUME NEW a \in Int, NEW b \in Int
                  PROVE  Min({a, b}) = IF a <= b THEN a ELSE b
<1> DEFINE m == IF a <= b THEN a ELSE b
<1>1. m \in {a, b} /\ \A y \in {a, b} : m <= y  OBVIOUS
<1>2. \A x \in {a, b} : (\A y \in {a, b} : x <= y) => x = m  OBVIOUS
<1> HIDE DEF m
<1>3. Min({a, b}) = m  BY <1>1, <1>2 DEF Min
<1> QED BY <1>3 DEF m

\* A frame that is stored is the next of the log, and the last event of a phone
\* that has asked.
Stored(p) == [t |-> "evt", n |-> Len(log) + 1, link |-> p.link, seq |-> p.seq, pay |-> p.pay]
LEMMA PublishStep ==
    ASSUME Types, Publish
    PROVE  LET p == out["desk"][1] IN
           /\ 1 \in 1..Len(out["desk"]) /\ Stored(p) \in Evts
           /\ log' \in Seq(Evts) /\ Ended(log, log', Len(log), Stored(p))
           /\ oldest' \in oldest..Len(log) + 1
           /\ QueueTypes' /\ Cut(out["desk"], out'["desk"], 1) /\ out'["phone"] = out["phone"]
           /\ evs'["desk"] = evs["desk"]
           /\ IF sock["phone"] /\ att.sub
              THEN Ended(evs["phone"], evs'["phone"], Len(evs["phone"]), Stored(p))
              ELSE evs' = evs
           /\ UNCHANGED <<att, sock, carried, skipped, torn, late>>
<1> DEFINE p == out["desk"][1]
<1>1. out["desk"] \in Seq(Pubs) /\ evs["phone"] \in Seq(PhoneEvents)
      /\ log \in Seq(Evts) /\ Len(log) \in Nat
      /\ DOMAIN out = Ends /\ DOMAIN evs = Ends
  BY LenProperties DEF Types, DeskOut, PhoneIn, PhoneEvents, Ends
<1>2. /\ out["desk"] # <<>> /\ out' = [out EXCEPT !["desk"] = Tail(out["desk"])]
      /\ UNCHANGED <<att, sock, carried, skipped, torn, late>>
  BY DEF Publish, Sent, Took
<1>3. /\ Tail(out["desk"]) \in Seq(Pubs) /\ Cut(out["desk"], Tail(out["desk"]), 1)
      /\ Head(out["desk"]) = p /\ 1 \in 1..Len(out["desk"])
  BY <1>1, <1>2, TailCuts
<1>4. p \in Pubs /\ Stored(p) \in Evts /\ Stored(p) \in PhoneEvents
  <2>1. p \in Pubs  BY <1>1, <1>3, ElementOfSeq
  <2> HIDE DEF p
  <2>2. Stored(p) \in Evts  BY <1>1, <2>1 DEF Pubs, Evts, Stored
  <2> QED BY <2>1, <2>2 DEF PhoneEvents
<1>5. /\ log' = Append(log, Stored(p))
      /\ (IF (Len(log) + 1) % PruneEvery = 0
          THEN oldest' \in PrunedTo(Len(log) + 1) ELSE UNCHANGED oldest)
      /\ (IF sock["phone"] /\ att.sub THEN evs' = [evs EXCEPT !["phone"] = @ \o <<Stored(p)>>]
          ELSE UNCHANGED evs)
  BY <1>3 DEF Publish, Hears, To, Stored
<1>6. log' \in Seq(Evts) /\ Ended(log, log', Len(log), Stored(p))
  BY <1>1, <1>4, <1>5, AddsOne
<1>7. evs["phone"] \o <<Stored(p)>> \in Seq(PhoneEvents)
      /\ Ended(evs["phone"], evs["phone"] \o <<Stored(p)>>, Len(evs["phone"]), Stored(p))
  BY <1>1, <1>4, AddsOne
<1>8. oldest' \in oldest..Len(log) + 1
  <2>1. oldest' \in PrunedTo(Len(log) + 1) \/ oldest' = oldest  BY <1>5
  <2>2. oldest \in 1..Len(log) + 1  BY DEF Types
  <2> QED BY <1>1, <2>1, <2>2 DEF PrunedTo
<1>9. /\ out'["desk"] = Tail(out["desk"]) /\ out'["phone"] = out["phone"]
      /\ out' \in [desk : DeskOut, phone : PhoneOut]
  BY <1>1, <1>2, <1>3 DEF Types, DeskOut, Ends
<1>10. /\ evs' \in [desk : DeskIn, phone : PhoneIn] /\ evs'["desk"] = evs["desk"]
       /\ sock["phone"] /\ att.sub => evs'["phone"] = evs["phone"] \o <<Stored(p)>>
  BY <1>1, <1>5, <1>7 DEF Types, PhoneIn, PhoneEvents, Ends
<1> HIDE DEF p
<1>11. QueueTypes'  BY <1>2, <1>9, <1>10 DEF Types, QueueTypes
<1> QED BY <1>2, <1>3, <1>4, <1>5, <1>6, <1>7, <1>8, <1>9, <1>10, <1>11 DEF p

\* A frame that is refused is gone.
LEMMA RefuseStep ==
    ASSUME Types, Refuse
    PROVE  /\ QueueTypes' /\ Cut(out["desk"], out'["desk"], 1) /\ out'["phone"] = out["phone"]
           /\ UNCHANGED <<log, oldest, att, sock, evs, carried, skipped, torn, late>>
<1>1. out["desk"] \in Seq(Pubs) /\ DOMAIN out = Ends
  BY DEF Types, DeskOut, Ends
<1>2. /\ out["desk"] # <<>> /\ out' = [out EXCEPT !["desk"] = Tail(out["desk"])]
      /\ UNCHANGED <<log, oldest, att, sock, evs, carried, skipped, torn, late>>
  BY DEF Refuse, Sent, Took
<1>3. Tail(out["desk"]) \in Seq(Pubs) /\ Cut(out["desk"], Tail(out["desk"]), 1)
  BY <1>1, <1>2, TailCuts
<1>4. /\ out'["desk"] = Tail(out["desk"]) /\ out'["phone"] = out["phone"]
      /\ out' \in [desk : DeskOut, phone : PhoneOut]
  BY <1>1, <1>2, <1>3 DEF Types, DeskOut, Ends
<1> QED BY <1>2, <1>3, <1>4 DEF Types, QueueTypes

\* A phone's command is taken, and handed to a desktop that is there.
LEMMA CommandStep ==
    ASSUME Types, Command
    PROVE  LET c == out["phone"][1] IN
           /\ 1 \in 1..Len(out["phone"]) /\ c \in Cmds
           /\ QueueTypes' /\ Cut(out["phone"], out'["phone"], 1) /\ out'["desk"] = out["desk"]
           /\ evs'["phone"] = evs["phone"]
           /\ \/ evs' = evs /\ carried' = carried
              \/ /\ Ended(evs["desk"], evs'["desk"], Len(evs["desk"]), c)
                 /\ carried' = carried \cup {c}
           /\ UNCHANGED <<log, oldest, att, sock, skipped, torn, late>>
<1> DEFINE c == out["phone"][1]
<1>1. out["phone"] \in Seq(Asked) /\ evs["desk"] \in Seq(DeskEvents)
      /\ DOMAIN out = Ends /\ DOMAIN evs = Ends
  BY DEF Types, PhoneOut, DeskIn, Asked, DeskEvents, Ends
<1>2. /\ out["phone"] # <<>> /\ Head(out["phone"]).t = "cmd"
      /\ out' = [out EXCEPT !["phone"] = Tail(out["phone"])]
      /\ UNCHANGED <<log, oldest, att, sock, skipped, torn, late>>
  BY DEF Command, Sent, Took
<1>3. /\ Tail(out["phone"]) \in Seq(Asked) /\ Cut(out["phone"], Tail(out["phone"]), 1)
      /\ Head(out["phone"]) = c /\ 1 \in 1..Len(out["phone"])
  BY <1>1, <1>2, TailCuts
<1>4. c \in Cmds /\ c \in DeskEvents
  <2>1. c \in Asked  BY <1>1, <1>3, ElementOfSeq
  <2>2. c.t = "cmd"  BY <1>2, <1>3
  <2> QED BY <2>1, <2>2 DEF Asked, Subs, DeskEvents
<1>5. \/ evs' = evs /\ carried' = carried
      \/ evs' = [evs EXCEPT !["desk"] = @ \o <<c>>] /\ carried' = carried \cup {c}
  BY <1>3 DEF Command, To
<1>6. evs["desk"] \o <<c>> \in Seq(DeskEvents)
      /\ Ended(evs["desk"], evs["desk"] \o <<c>>, Len(evs["desk"]), c)
  BY <1>1, <1>4, AddsOne
<1>7. /\ out'["phone"] = Tail(out["phone"]) /\ out'["desk"] = out["desk"]
      /\ out' \in [desk : DeskOut, phone : PhoneOut]
  BY <1>1, <1>2, <1>3 DEF Types, PhoneOut, Asked, Ends
<1> HIDE DEF c
<1>8. /\ evs' \in [desk : DeskIn, phone : PhoneIn] /\ evs'["phone"] = evs["phone"]
      /\ evs' = evs \/ evs'["desk"] = evs["desk"] \o <<c>>
  BY <1>1, <1>5, <1>6 DEF Types, DeskIn, DeskEvents, Ends
<1>9. \/ evs' = evs /\ carried' = carried
      \/ /\ Ended(evs["desk"], evs'["desk"], Len(evs["desk"]), c)
         /\ carried' = carried \cup {c}
  <2>1. CASE evs' = [evs EXCEPT !["desk"] = @ \o <<c>>] /\ carried' = carried \cup {c}
    <3>1. evs'["desk"] = evs["desk"] \o <<c>>  BY <1>1, <2>1 DEF Ends
    <3> QED BY <1>6, <2>1, <3>1
  <2> QED BY <1>5, <2>1
<1>10. QueueTypes'  BY <1>2, <1>7, <1>8 DEF Types, QueueTypes
<1> QED BY <1>2, <1>3, <1>4, <1>7, <1>8, <1>9, <1>10 DEF c

LEMMA AgainStep ==
    ASSUME Types, Again
    PROVE  /\ QueueTypes' /\ evs'["phone"] = evs["phone"]
           /\ sock["desk"] /\ evs["desk"] = <<>>
           /\ \E c \in carried : /\ Ended(evs["desk"], evs'["desk"], Len(evs["desk"]), c)
                                /\ carried' = carried \ {c}
           /\ UNCHANGED <<log, oldest, att, sock, out, skipped, torn, late>>
<1>1. evs["desk"] \in Seq(DeskEvents) /\ DOMAIN evs = Ends /\ carried \subseteq DeskEvents
  BY DEF Types, DeskIn, DeskEvents, Ends
<1>2. PICK c \in carried : evs' = [evs EXCEPT !["desk"] = @ \o <<c>>] /\ carried' = carried \ {c}
  BY DEF Again, To
<1>3. evs["desk"] \o <<c>> \in Seq(DeskEvents)
      /\ Ended(evs["desk"], evs["desk"] \o <<c>>, Len(evs["desk"]), c)
  BY <1>1, AddsOne
<1>4. /\ evs' \in [desk : DeskIn, phone : PhoneIn] /\ evs'["phone"] = evs["phone"]
      /\ evs'["desk"] = evs["desk"] \o <<c>>
  BY <1>1, <1>2, <1>3 DEF Types, DeskIn, DeskEvents, Ends
<1>5. QueueTypes'  BY <1>4 DEF Again, Types, QueueTypes
<1> QED BY <1>2, <1>3, <1>4, <1>5 DEF Again

\* A subscription that is listened to is handed the gap there is, and the
\* frames of the log from the first it has not had, as far as one replay goes.
Left(since) == IF since > 0 /\ Oldest > since + 1 THEN 1 ELSE 0
LastOf(since) == Min({Len(log), After(since) + Limit - 1})
Replay(since, q, r) ==
    LET g == Left(since)
        first == After(since)
        last == LastOf(since)
    IN  /\ Len(r) = Len(q) + g + (IF first <= last THEN last - first + 1 ELSE 0)
        /\ \A i \in 1..Len(q) : r[i] = q[i]
        /\ g = 1 => r[Len(q) + 1] = [t |-> "gap", from |-> oldest]
        /\ \A i \in Len(q) + g + 1..Len(r) : r[i] = log[first + (i - (Len(q) + g)) - 1]
Listened(since) ==
    /\ ~att.sub \/ since >= att.since
    /\ att'.sub /\ Replay(since, evs["phone"], evs'["phone"])
    /\ skipped' = skipped \cup
           IF Oldest = 0 THEN since + 1..Len(log) ELSE LastOf(since) + 1..Len(log)
LEMMA SubscribeStep ==
    ASSUME Types, Subscribe
    PROVE  LET since == out["phone"][1].since IN
           /\ 1 \in 1..Len(out["phone"]) /\ out["phone"][1] \in Subs
           /\ QueueTypes' /\ Cut(out["phone"], out'["phone"], 1) /\ out'["desk"] = out["desk"]
           /\ evs'["desk"] = evs["desk"]
           /\ out["phone"][1].t \in {"sub", "late"}
           /\ \/ Listened(since) /\ late' = (late \/ out["phone"][1].t = "late")
              \/ UNCHANGED <<evs, att, skipped, late>>
           /\ since <= Len(log) => att' \in [sub : BOOLEAN, since : 0..Len(log), recent : BOOLEAN]
           /\ UNCHANGED <<log, oldest, sock, carried, torn>>
<1> DEFINE s == out["phone"][1].since
           first == After(s)
           last == LastOf(s)
           rows == SubSeq(log, first, last)
           g == Left(s)
           gap == Gap(s)
           q == evs["phone"]
<1>1. /\ out["phone"] \in Seq(Asked) /\ q \in Seq(PhoneEvents)
      /\ log \in Seq(Evts) /\ Len(log) \in Nat /\ Len(q) \in Nat
      /\ DOMAIN out = Ends /\ DOMAIN evs = Ends
  BY LenProperties DEF Types, PhoneOut, PhoneIn, PhoneEvents, Asked, Ends
<1>2. /\ out["phone"] # <<>> /\ Head(out["phone"]).t \in {"sub", "late"}
      /\ out' = [out EXCEPT !["phone"] = Tail(out["phone"])]
      /\ UNCHANGED <<log, oldest, sock, carried, torn>>
  BY DEF Subscribe, Sent, Took
<1>3. /\ Tail(out["phone"]) \in Seq(Asked) /\ Cut(out["phone"], Tail(out["phone"]), 1)
      /\ Head(out["phone"]) = out["phone"][1] /\ 1 \in 1..Len(out["phone"])
  BY <1>1, <1>2, TailCuts
<1>4. out["phone"][1] \in Subs /\ s \in Nat /\ out["phone"][1].t \in {"sub", "late"}
  <2>1. out["phone"][1] \in Asked  BY <1>1, <1>3, ElementOfSeq
  <2>2. out["phone"][1].t \in {"sub", "late"}  BY <1>2, <1>3
  <2> QED BY <2>1, <2>2 DEF Asked, Cmds, Subs
<1>5. \/ UNCHANGED <<evs, att, skipped, late>>
      \/ /\ ~Throttled(s)
         /\ evs' = [evs EXCEPT !["phone"] = @ \o (gap \o rows)]
         /\ att' = [sub |-> TRUE, recent |-> TRUE, since |-> IF rows = <<>> THEN s ELSE last]
         /\ skipped' = skipped \cup IF Oldest = 0 THEN s + 1..Len(log) ELSE last + 1..Len(log)
         /\ late' = (late \/ out["phone"][1].t = "late")
  BY <1>3 DEF Subscribe, To, LastOf
<1>6. /\ first \in Nat /\ last \in Int /\ first > s /\ first >= oldest /\ first \in {s + 1, oldest}
      /\ last <= Len(log) /\ last >= 0
      /\ oldest \in Nat /\ oldest >= 1 /\ Limit \in Nat /\ Limit >= 1
  <2>1. oldest \in Nat /\ oldest >= 1 /\ Limit \in Nat /\ Limit >= 1
    <3>1. oldest \in 1..Len(log) + 1  BY DEF Types
    <3>2. Limit \in Nat \ {0}  BY RelayAssumption
    <3> QED BY <1>1, <3>1, <3>2
  <2>2. first = IF s + 1 >= oldest THEN s + 1 ELSE oldest
    BY <1>4, <2>1, MaxOfTwo DEF After
  <2>3. first \in Nat /\ first >= 1  BY <1>4, <2>1, <2>2
  <2> HIDE DEF first
  <2>4. first + Limit - 1 \in Int /\ first + Limit - 1 >= 0  BY <2>1, <2>3
  <2>5. last = IF Len(log) <= first + Limit - 1 THEN Len(log) ELSE first + Limit - 1
    BY <1>1, <2>4, MinOfTwo DEF LastOf, first
  <2>6. s \in Nat  BY <1>4
  <2> HIDE DEF s, last, rows, g, gap, q
  <2> QED BY <1>1, <2>1, <2>2, <2>3, <2>4, <2>5, <2>6
<1> HIDE DEF s, first, last
<1>7. /\ rows \in Seq(PhoneEvents)
      /\ Len(rows) = IF first <= last THEN last - first + 1 ELSE 0
      /\ \A i \in 1..last - first + 1 : rows[i] = log[first + i - 1]
  <2>1. \A i \in first..last : log[i] \in PhoneEvents
    <3>1. \A i \in 1..Len(log) : log[i] \in Evts  BY <1>1, ElementOfSeq
    <3> QED BY <1>1, <1>6, <3>1 DEF PhoneEvents
  <2> QED BY <1>6, <2>1, SubSeqProperties
<1>8. /\ g \in {0, 1} /\ gap \in Seq(PhoneEvents) /\ Len(gap) = g
      /\ g = 1 => gap[1] = [t |-> "gap", from |-> oldest]
  <2>1. CASE s > 0 /\ Oldest > s + 1
    <3>1. Oldest = oldest  BY <1>1, <1>4, <1>6, <2>1 DEF Oldest
    <3>2. gap = <<[t |-> "gap", from |-> oldest]>> /\ g = 1  BY <2>1, <3>1 DEF Gap, Left
    <3>3. [t |-> "gap", from |-> oldest] \in PhoneEvents  BY <1>6 DEF PhoneEvents, Gaps
    <3> QED BY <3>2, <3>3
  <2>2. CASE ~(s > 0 /\ Oldest > s + 1)
    <3>1. gap = <<>> /\ g = 0  BY <2>2 DEF Gap, Left
    <3> QED BY <3>1
  <2> QED BY <2>1, <2>2
<1> HIDE DEF rows, g, gap, q
<1>9. /\ gap \o rows \in Seq(PhoneEvents) /\ Len(gap \o rows) = g + Len(rows)
      /\ \A i \in 1..g + Len(rows) : (gap \o rows)[i] = IF i <= g THEN gap[i] ELSE rows[i - g]
  BY <1>7, <1>8, ConcatProperties
<1>10. /\ q \o (gap \o rows) \in Seq(PhoneEvents)
       /\ Len(q \o (gap \o rows)) = Len(q) + (g + Len(rows))
       /\ \A i \in 1..Len(q) + (g + Len(rows)) :
             (q \o (gap \o rows))[i] = IF i <= Len(q) THEN q[i] ELSE (gap \o rows)[i - Len(q)]
  BY <1>1, <1>9, ConcatProperties
<1>11. /\ evs' \in [desk : DeskIn, phone : PhoneIn] /\ evs'["desk"] = evs["desk"]
       /\ evs' = evs \/ evs'["phone"] = q \o (gap \o rows)
  BY <1>1, <1>5, <1>10 DEF Types, PhoneIn, PhoneEvents, Ends, q
<1>12. Replay(s, q, q \o (gap \o rows))
  <2> DEFINE r == q \o (gap \o rows)
  <2>1. Len(r) = Len(q) + g + Len(rows)  BY <1>1, <1>7, <1>8, <1>10
  <2>2. \A i \in 1..Len(q) : r[i] = q[i]  BY <1>1, <1>7, <1>8, <1>10
  <2>3. ASSUME g = 1 PROVE r[Len(q) + 1] = [t |-> "gap", from |-> oldest]
    <3>1. r[Len(q) + 1] = (gap \o rows)[1]  BY <1>1, <1>6, <1>7, <1>10, <2>3
    <3>2. (gap \o rows)[1] = gap[1]  BY <1>6, <1>7, <1>9, <2>3
    <3> QED BY <1>8, <2>3, <3>1, <3>2
  <2>4. ASSUME NEW i \in Len(q) + g + 1..Len(r)
        PROVE  r[i] = log[first + (i - (Len(q) + g)) - 1]
    <3>1. /\ Len(rows) \in Nat /\ i - Len(q) \in g + 1..g + Len(rows)
          /\ i - Len(q) - g \in 1..Len(rows)
          /\ i \in 1..Len(q) + (g + Len(rows)) /\ ~(i <= Len(q)) /\ ~(i - Len(q) <= g)
          /\ i - Len(q) \in 1..g + Len(rows) /\ i - Len(q) - g = i - (Len(q) + g)
      <4>1. Len(q) \in Nat /\ Len(rows) \in Nat /\ g \in Nat  BY <1>1, <1>6, <1>7, <1>8
      <4>2. i \in Len(q) + g + 1..Len(q) + g + Len(rows)  BY <2>1
      <4> DEFINE lq == Len(q)
                 lr == Len(rows)
      <4>3. lq \in Nat /\ lr \in Nat /\ i \in lq + g + 1..lq + g + lr  BY <4>1, <4>2
      <4> HIDE DEF lq, lr
      <4>4. /\ i - lq \in g + 1..g + lr /\ i - lq - g \in 1..lr
            /\ i \in 1..lq + (g + lr) /\ ~(i <= lq) /\ ~(i - lq <= g)
            /\ i - lq \in 1..g + lr /\ i - lq - g = i - (lq + g)
        BY <4>1, <4>3
      <4> QED BY <4>1, <4>4 DEF lq, lr
    <3>2. r[i] = (gap \o rows)[i - Len(q)]  BY <1>10, <3>1
    <3>3. (gap \o rows)[i - Len(q)] = rows[i - Len(q) - g]  BY <1>9, <3>1
    <3>4. rows[i - Len(q) - g] = log[first + (i - Len(q) - g) - 1]  BY <1>6, <1>7, <3>1
    <3> QED BY <3>1, <3>2, <3>3, <3>4
  <2> HIDE DEF r
  <2> QED BY <1>7, <2>1, <2>2, <2>3, <2>4 DEF Replay, r, g, first, last
<1>13. \/ Listened(s) /\ late' = (late \/ out["phone"][1].t = "late")
       \/ UNCHANGED <<evs, att, skipped, late>>
  <2>1. CASE ~Throttled(s) /\ evs' = [evs EXCEPT !["phone"] = @ \o (gap \o rows)]
             /\ att' = [sub |-> TRUE, recent |-> TRUE, since |-> IF rows = <<>> THEN s ELSE last]
             /\ skipped' = skipped \cup (IF Oldest = 0 THEN s + 1..Len(log) ELSE last + 1..Len(log))
             /\ late' = (late \/ out["phone"][1].t = "late")
    <3>1. evs'["phone"] = q \o (gap \o rows)  BY <1>1, <2>1 DEF Ends, q
    <3>2. ~att.sub \/ s >= att.since
      <4>1. att.since \in 0..Len(log)  BY DEF Types
      <4>2. ~(att.sub /\ s < att.since)  BY <2>1 DEF Throttled
      <4> QED BY <1>1, <1>4, <4>1, <4>2
    <3>3. Listened(s)  BY <1>12, <2>1, <3>1, <3>2 DEF Listened, q, last
    <3> QED BY <2>1, <3>3
  <2> QED BY <1>5, <2>1
<1>14. s <= Len(log) => att' \in [sub : BOOLEAN, since : 0..Len(log), recent : BOOLEAN]
  <2>1. CASE att' = [sub |-> TRUE, recent |-> TRUE, since |-> IF rows = <<>> THEN s ELSE last]
    BY <1>1, <1>4, <1>6, <2>1
  <2>2. CASE att' = att
    BY <2>2 DEF Types
  <2> QED BY <1>5, <2>1, <2>2
<1>15. /\ out'["phone"] = Tail(out["phone"]) /\ out'["desk"] = out["desk"]
       /\ out' \in [desk : DeskOut, phone : PhoneOut]
  BY <1>1, <1>2, <1>3 DEF Types, PhoneOut, Asked, Ends
<1>16. QueueTypes'  BY <1>2, <1>11, <1>15 DEF Types, QueueTypes
<1> QED BY <1>2, <1>3, <1>4, <1>11, <1>13, <1>14, <1>15, <1>16 DEF s

\* The desktop takes the first event its link has for it.
LEMMA DeskTakes ==
    ASSUME Types, NEW t, DeskNext(t)
    PROVE  /\ QueueTypes' /\ Cut(evs["desk"], evs'["desk"], 1) /\ evs'["phone"] = evs["phone"]
           /\ 1 \in 1..Len(evs["desk"]) /\ evs["desk"][1] = Head(evs["desk"])
           /\ evs["desk"][1] \in DeskEvents /\ evs["desk"][1].t = t
           /\ UNCHANGED <<log, oldest, att, sock, out, carried, skipped, torn, late, says, phone,
                          asks, sealed, shown, got, told>>
<1>1. evs["desk"] \in Seq(DeskEvents) /\ DOMAIN evs = Ends
  BY DEF Types, DeskIn, DeskEvents, Ends
<1>2. /\ evs["desk"] # <<>> /\ Head(evs["desk"]).t = t
      /\ evs' = [evs EXCEPT !["desk"] = Tail(evs["desk"])]
  BY DEF DeskNext
<1>3. /\ Tail(evs["desk"]) \in Seq(DeskEvents) /\ Cut(evs["desk"], Tail(evs["desk"]), 1)
      /\ Head(evs["desk"]) = evs["desk"][1] /\ 1 \in 1..Len(evs["desk"])
  BY <1>1, <1>2, TailCuts
<1>4. /\ evs' \in [desk : DeskIn, phone : PhoneIn] /\ evs'["phone"] = evs["phone"]
      /\ evs'["desk"] = Tail(evs["desk"])
  BY <1>1, <1>2, <1>3 DEF Types, DeskIn, DeskEvents, Ends
<1>5. evs["desk"][1] \in DeskEvents  BY <1>1, <1>3, ElementOfSeq
<1>6. QueueTypes'  BY <1>4 DEF DeskNext, Types, QueueTypes
<1> QED BY <1>2, <1>3, <1>4, <1>5, <1>6 DEF DeskNext

\* And so does the phone.
LEMMA PhoneTakes ==
    ASSUME Types, NEW t, PhoneNext(t)
    PROVE  /\ evs' \in [desk : DeskIn, phone : PhoneIn]
           /\ Cut(evs["phone"], evs'["phone"], 1) /\ evs'["desk"] = evs["desk"]
           /\ 1 \in 1..Len(evs["phone"]) /\ evs["phone"][1] = Head(evs["phone"])
           /\ evs["phone"][1] \in PhoneEvents /\ evs["phone"][1].t = t
           /\ UNCHANGED <<log, oldest, att, sock, carried, skipped, torn, late, desk, links, says,
                          asks, sealed, acted>>
<1>1. evs["phone"] \in Seq(PhoneEvents) /\ DOMAIN evs = Ends
  BY DEF Types, PhoneIn, PhoneEvents, Ends
<1>2. /\ evs["phone"] # <<>> /\ Head(evs["phone"]).t = t
      /\ evs' = [evs EXCEPT !["phone"] = Tail(evs["phone"])]
  BY DEF PhoneNext
<1>3. /\ Tail(evs["phone"]) \in Seq(PhoneEvents) /\ Cut(evs["phone"], Tail(evs["phone"]), 1)
      /\ Head(evs["phone"]) = evs["phone"][1] /\ 1 \in 1..Len(evs["phone"])
  BY <1>1, <1>2, TailCuts
<1>4. /\ evs' \in [desk : DeskIn, phone : PhoneIn] /\ evs'["desk"] = evs["desk"]
      /\ evs'["phone"] = Tail(evs["phone"])
  BY <1>1, <1>2, <1>3 DEF Types, PhoneIn, PhoneEvents, Ends
<1>5. evs["phone"][1] \in PhoneEvents  BY <1>1, <1>3, ElementOfSeq
<1> QED BY <1>2, <1>3, <1>4, <1>5 DEF PhoneNext

\* A phone that opened its socket asks for what comes after its cursor.
Wants == [t |-> IF evs["phone"][1].t = "open" THEN "sub" ELSE "late", since |-> phone.cursor]
LEMMA PhoneOpenStep ==
    ASSUME Types, PhoneOpen
    PROVE  /\ out' \in [desk : DeskOut, phone : PhoneOut] /\ out'["desk"] = out["desk"]
           /\ Wants \in Subs /\ Ended(out["phone"], out'["phone"], Len(out["phone"]), Wants)
           /\ evs["phone"][1].t \in {"open", "stale"} /\ PhoneNext(evs["phone"][1].t)
           /\ UNCHANGED <<phone, shown, got, told>>
<1>1. /\ out["phone"] \in Seq(Asked) /\ DOMAIN out = Ends
      /\ Wants \in Subs /\ Wants \in Asked
  BY DEF Phones, Types, PhoneOut, Asked, Subs, Ends, Wants
<1>2. PICK t \in {"open", "stale"} :
         /\ PhoneNext(t)
         /\ out' = [out EXCEPT !["phone"] = Append(@,
                [t |-> IF t = "open" THEN "sub" ELSE "late", since |-> phone.cursor])]
  BY DEF PhoneOpen, Ask
<1>3. evs["phone"][1].t = t  BY <1>2, PhoneTakes
<1>4. out' = [out EXCEPT !["phone"] = Append(@, Wants)]  BY <1>2, <1>3 DEF Wants
<1>5. /\ Append(out["phone"], Wants) \in Seq(Asked)
      /\ Ended(out["phone"], Append(out["phone"], Wants), Len(out["phone"]), Wants)
  BY <1>1, AddsOne
<1>6. out'["phone"] = Append(out["phone"], Wants) /\ out'["desk"] = out["desk"]
      /\ out' \in [desk : DeskOut, phone : PhoneOut]
  BY <1>1, <1>4, <1>5 DEF Types, PhoneOut, Asked, Ends
<1> QED BY <1>1, <1>2, <1>3, <1>5, <1>6 DEF PhoneOpen

\* A command is sealed for the link the phone last heard, past all it sealed.
Typed == [t |-> "cmd", link |-> phone.desk, seq |-> phone.seq + 1, pay |-> asks + 1]
LEMMA PhoneSayStep ==
    ASSUME Types, PhoneSay
    PROVE  /\ QueueTypes' /\ out'["desk"] = out["desk"]
           /\ Typed \in Cmds /\ asks' = asks + 1 /\ asks' \in 0..MaxCmd
           /\ Ended(out["phone"], out'["phone"], Len(out["phone"]), Typed)
           /\ phone' = [phone EXCEPT !.seq = @ + 1]
           /\ sealed' = sealed \cup {Sealed("p2d", phone.desk, phone.seq + 1, asks + 1)}
           /\ UNCHANGED <<log, oldest, att, sock, evs, carried, skipped, torn, late, desk, links,
                          says, shown, acted, got, told>>
<1>1. /\ out["phone"] \in Seq(Asked) /\ DOMAIN out = Ends
      /\ asks \in Nat /\ asks < MaxCmd /\ MaxCmd \in Nat /\ asks' = asks + 1
      /\ phone.seq \in Nat /\ phone.desk \in Nat
      /\ phone' = [phone EXCEPT !.seq = @ + 1] /\ phone'.seq = phone.seq + 1
  BY RemoteAssumption DEF Phones, Types, PhoneOut, Asked, Ends, PhoneSay
<1>2. Typed \in Cmds /\ Typed \in Asked /\ asks' \in 0..MaxCmd
  BY <1>1 DEF Typed, Cmds, Asked
<1>3. out' = [out EXCEPT !["phone"] = Append(@, Typed)]
      /\ sealed' = sealed \cup {Sealed("p2d", phone.desk, phone.seq + 1, asks + 1)}
  BY <1>1 DEF PhoneSay, Typed
<1>4. /\ Append(out["phone"], Typed) \in Seq(Asked)
      /\ Ended(out["phone"], Append(out["phone"], Typed), Len(out["phone"]), Typed)
  BY <1>1, <1>2, AddsOne
<1>5. /\ out'["phone"] = Append(out["phone"], Typed) /\ out'["desk"] = out["desk"]
      /\ out' \in [desk : DeskOut, phone : PhoneOut]
  BY <1>1, <1>3, <1>4 DEF Types, PhoneOut, Asked, Ends
<1>6. QueueTypes'  BY <1>5 DEF PhoneSay, Types, QueueTypes
<1> QED BY <1>1, <1>2, <1>3, <1>4, <1>5, <1>6 DEF PhoneSay

\* What is sent is sealed in the order of the outbox, past all that was sealed.
FrameOf(i) == [t |-> "pub", link |-> desk.id, seq |-> desk.seq + i, pay |-> desk.outbox[i]]
Sends ==
    /\ Len(out'["desk"]) = Len(out["desk"]) + Len(desk.outbox)
    /\ \A i \in 1..Len(out["desk"]) : out'["desk"][i] = out["desk"][i]
    /\ \A i \in 1..Len(desk.outbox) : out'["desk"][Len(out["desk"]) + i] = FrameOf(i)
    /\ out'["phone"] = out["phone"]
    /\ sealed' = sealed \cup
          {Sealed("d2p", desk.id, desk.seq + i, desk.outbox[i]) : i \in 1..Len(desk.outbox)}
    /\ desk' = [desk EXCEPT !.at = "drain", !.outbox = <<>>, !.seq = @ + Len(desk.outbox)]
Keeps ==
    /\ UNCHANGED <<out, sealed>>
    /\ \E k \in Nat : Cut(desk.outbox, desk'.outbox, k)
    /\ desk' = [desk EXCEPT !.at = "drain", !.outbox = desk'.outbox]
    /\ desk'.outbox \in Seq(Pay)
LEMMA FlushStep ==
    ASSUME Types, Flush
    PROVE  /\ QueueTypes'
           /\ Sends \/ Keeps
           /\ UNCHANGED <<log, oldest, att, sock, evs, carried, skipped, torn, late, links, says,
                          phone, asks, shown, acted, got, told>>
<1> DEFINE n == Len(desk.outbox)
           box == desk.outbox
<1>1. /\ out["desk"] \in Seq(Pubs) /\ DOMAIN out = Ends /\ Len(out["desk"]) \in Nat
      /\ box \in Seq(Pay) /\ n \in Nat /\ desk.id \in Nat /\ desk.seq \in Nat
      /\ \A i \in 1..n : box[i] \in Pay
  <2>1. box \in Seq(Pay) /\ out["desk"] \in Seq(Pubs)  BY DEF Desks, Types, DeskOut
  <2> QED BY <2>1, LenProperties, ElementOfSeq DEF Desks, Types, Ends
<1> HIDE DEF n, box
<1>2. CASE desk.up
  <2> DEFINE fs == Frames(desk)
             o == out["desk"]
  <2>1. /\ out' = [out EXCEPT !["desk"] = @ \o fs]
        /\ sealed' = sealed \cup
              {Sealed("d2p", desk.id, desk.seq + i, box[i]) : i \in 1..n}
        /\ desk' = [desk EXCEPT !.at = "drain", !.outbox = <<>>, !.seq = @ + n]
    BY <1>2 DEF Flush, n, box
  <2>2. \A i \in 1..n : FrameOf(i) \in Pubs  BY <1>1 DEF FrameOf, Pubs, box
  <2>3. fs = [i \in 1..n |-> FrameOf(i)]  BY DEF Frames, FrameOf, n, box
  <2> HIDE DEF fs, o
  <2>4. fs \in Seq(Pubs) /\ Len(fs) = n /\ \A i \in 1..n : fs[i] = FrameOf(i)
    BY <1>1, <2>2, <2>3
  <2>5. /\ o \o fs \in Seq(Pubs) /\ Len(o \o fs) = Len(o) + n
        /\ \A i \in 1..Len(o) + n : (o \o fs)[i] = IF i <= Len(o) THEN o[i] ELSE fs[i - Len(o)]
    BY <1>1, <2>4, ConcatProperties DEF o
  <2>6. /\ out'["desk"] = o \o fs /\ out'["phone"] = out["phone"]
        /\ out' \in [desk : DeskOut, phone : PhoneOut]
    BY <1>1, <2>1, <2>5 DEF Types, DeskOut, Ends, o
  <2>7. \A i \in 1..Len(o) : (o \o fs)[i] = o[i]  BY <1>1, <2>5 DEF o
  <2>8. \A i \in 1..n : (o \o fs)[Len(o) + i] = FrameOf(i)
    <3> TAKE i \in 1..n
    <3>1. Len(o) + i \in 1..Len(o) + n /\ ~(Len(o) + i <= Len(o)) /\ Len(o) + i - Len(o) = i
      BY <1>1 DEF o
    <3> QED BY <2>4, <2>5, <3>1
  <2>9. Sends  BY <2>1, <2>5, <2>6, <2>7, <2>8 DEF Sends, n, box, o
  <2> QED BY <2>6, <2>9 DEF Flush, Types, QueueTypes
<1>3. CASE ~desk.up
  <2> DEFINE a == n - Max({1, OutboxKeep}) + 1
             k == Max({1, a})
  <2>1. /\ UNCHANGED <<out, sealed>>
        /\ desk' = [desk EXCEPT !.at = "drain", !.outbox = SubSeq(box, k, n)]
    BY <1>3 DEF Flush, n, box
  <2>2. a \in Int /\ a <= n
    <3>1. OutboxKeep \in Nat  BY RemoteAssumption
    <3>2. Max({1, OutboxKeep}) = IF 1 >= OutboxKeep THEN 1 ELSE OutboxKeep
      BY <3>1, MaxOfTwo
    <3>3. Max({1, OutboxKeep}) \in Nat /\ Max({1, OutboxKeep}) >= 1  BY <3>1, <3>2
    <3> QED BY <1>1, <3>3
  <2> HIDE DEF a
  <2>3. k = IF 1 >= a THEN 1 ELSE a  BY <2>2, MaxOfTwo
  <2> HIDE DEF k
  <2>4. n # 0 => k - 1 \in 0..n /\ k - 1 \in Nat /\ k = (k - 1) + 1  BY <1>1, <2>2, <2>3
  <2>5. \E j \in Nat : SubSeq(box, k, n) \in Seq(Pay) /\ Cut(box, SubSeq(box, k, n), j)
    <3>1. CASE n # 0
      <4>1. SubSeq(box, (k - 1) + 1, Len(box)) \in Seq(Pay)
            /\ Cut(box, SubSeq(box, (k - 1) + 1, Len(box)), k - 1)
        BY <1>1, <2>4, <3>1, SubSeqCuts DEF n, box
      <4> QED BY <2>4, <3>1, <4>1 DEF n, box
    <3>2. CASE n = 0
      <4>1. k = 1  BY <2>2, <2>3, <3>2
      <4>2. SubSeq(box, 0 + 1, Len(box)) \in Seq(Pay) /\ Cut(box, SubSeq(box, 0 + 1, Len(box)), 0)
        BY <1>1, <3>2, SubSeqCuts DEF n, box
      <4>3. 0 + 1 = k /\ Len(box) = n /\ 0 \in Nat  BY <4>1 DEF n, box
      <4> QED BY <4>2, <4>3
    <3> QED BY <3>1, <3>2
  <2>6. desk'.outbox = SubSeq(box, k, n)  BY <2>1 DEF Desks, Types
  <2>7. Keeps  BY <2>1, <2>5, <2>6 DEF Keeps, box
  <2> QED BY <2>1, <2>7 DEF Flush, Types, QueueTypes
<1> QED BY <1>2, <1>3

\* A command that opens is acted on and answered while the allowance lasts.
Opened1(c) ==
    /\ Opens(c, desk.id, desk.last)
    /\ \/ /\ desk' = [desk EXCEPT !.last = c.seq] /\ acted' = acted
       \/ /\ desk.allow # 0
          /\ desk' = [desk EXCEPT !.last = c.seq, !.allow = @ - 1, !.outbox = Append(@, -c.pay)]
          /\ acted' = Append(acted, c.pay)
LEMMA DeskCmdStep ==
    ASSUME Types, DeskCmd
    PROVE  LET c == evs["desk"][1] IN
           /\ DeskNext("cmd") /\ 1 \in 1..Len(evs["desk"]) /\ c \in Cmds
           /\ c \in Cmds /\ links' = links
           /\ Opened1(c) \/ (~Opens(c, desk.id, desk.last) /\ UNCHANGED <<desk, acted>>)
<1>1. DeskNext("cmd")  BY DEF DeskCmd
<1>2. /\ 1 \in 1..Len(evs["desk"]) /\ evs["desk"][1] = Head(evs["desk"])
      /\ evs["desk"][1] \in DeskEvents /\ evs["desk"][1].t = "cmd"
  BY <1>1, DeskTakes
<1>3. evs["desk"][1] \in Cmds  BY <1>2 DEF DeskEvents, Open, Lost
<1>4. \/ Opened1(evs["desk"][1])
      \/ ~Opens(evs["desk"][1], desk.id, desk.last) /\ UNCHANGED <<desk, acted>>
  BY <1>2 DEF DeskCmd, Opened1
<1> QED BY <1>1, <1>2, <1>3, <1>4 DEF DeskCmd

-----------------------------------------------------------------------------
(***************************************************************************)
(* Types.                                                                  *)
(***************************************************************************)

LEMMA TypesInit == Init => Types
<1> SUFFICES ASSUME Init PROVE Types
  OBVIOUS
<1> USE DEF Init, RelayInit
<1>1. log \in Seq(Evts) /\ Len(log) = 0 /\ oldest = 1
  OBVIOUS
<1>2. att \in [sub : BOOLEAN, since : 0..Len(log), recent : BOOLEAN]
  BY <1>1 DEF Fresh
<1>3. /\ sock \in [desk : BOOLEAN, phone : BOOLEAN]
      /\ out \in [desk : DeskOut, phone : PhoneOut]
      /\ evs \in [desk : DeskIn, phone : PhoneIn]
  <2>1. /\ sock = [desk |-> FALSE, phone |-> FALSE]
        /\ out = [desk |-> <<>>, phone |-> <<>>]
        /\ evs = [desk |-> <<>>, phone |-> <<>>]
    BY DEF Ends
  <2>2. <<>> \in DeskOut /\ <<>> \in PhoneOut /\ <<>> \in DeskIn /\ <<>> \in PhoneIn
    BY DEF DeskOut, PhoneOut, DeskIn, PhoneIn
  <2>3. sock \in [desk : BOOLEAN, phone : BOOLEAN]  BY <2>1
  <2>4. out \in [desk : DeskOut, phone : PhoneOut]  BY <2>1, <2>2
  <2>5. evs \in [desk : DeskIn, phone : PhoneIn]  BY <2>1, <2>2
  <2> QED BY <2>3, <2>4, <2>5
<1>4. /\ desk \in Desks /\ phone \in Phones
      /\ says \in 0..MaxPay /\ asks \in 0..MaxCmd
  BY Bounds DEF DeskOn, Desks, Phones
<1> QED BY <1>1, <1>2, <1>3, <1>4 DEF Types

EndsTypes ==
    /\ desk \in Desks
    /\ links \in Nat \ {0} /\ says \in 0..MaxPay /\ asks \in 0..MaxCmd
    /\ phone \in Phones
    /\ sealed \subseteq Seals
    /\ shown \in Seq(Int) /\ acted \in Seq(Int)
    /\ got \subseteq Nat /\ told \subseteq Nat
LogTypes ==
    /\ log \in Seq(Evts) /\ oldest \in 1..Len(log) + 1
    /\ att \in [sub : BOOLEAN, since : 0..Len(log), recent : BOOLEAN]
    /\ carried \subseteq Cmds /\ skipped \subseteq Nat
LEMMA TypesSplit == Types <=> LogTypes /\ QueueTypes /\ EndsTypes
BY DEF Types, LogTypes, QueueTypes, EndsTypes

LEMMA WireTypes ==
    ASSUME Always, Wire
    PROVE  LogTypes' /\ QueueTypes'
<1> USE DEF Always
<1>1. ASSUME NEW e \in Ends, Connect(e) \/ DialFails(e) \/ Break(e) PROVE LogTypes' /\ QueueTypes'
  <2>1. /\ QueueTypes' /\ log' = log /\ oldest' = oldest /\ carried' = carried
        /\ skipped' = skipped /\ (att' = att \/ att' = Fresh)
    BY <1>1, SocketStep
  <2>2. LogTypes /\ Len(log) \in Nat  BY TypesSplit, LenProperties DEF LogTypes
  <2>3. att' \in [sub : BOOLEAN, since : 0..Len(log), recent : BOOLEAN]
    <3>1. att \in [sub : BOOLEAN, since : 0..Len(log), recent : BOOLEAN]  BY <2>2 DEF LogTypes
    <3>2. Fresh \in [sub : BOOLEAN, since : 0..Len(log), recent : BOOLEAN]  BY <2>2 DEF Fresh
    <3> QED BY <2>1, <3>1, <3>2
  <2> QED BY <2>1, <2>2, <2>3 DEF LogTypes
<1>2. CASE Publish
  <2>1. /\ Ended(log, log', Len(log), Stored(out["desk"][1])) /\ log' \in Seq(Evts)
        /\ oldest' \in oldest..Len(log) + 1 /\ QueueTypes'
        /\ att' = att /\ carried' = carried /\ skipped' = skipped
    BY <1>2, PublishStep
  <2>2. /\ Len(log) \in Nat /\ oldest \in 1..Len(log) + 1
        /\ carried \subseteq Cmds /\ skipped \subseteq Nat
        /\ att \in [sub : BOOLEAN, since : 0..Len(log), recent : BOOLEAN]
    BY LenProperties DEF Types
  <2>3. Len(log') = Len(log) + 1  BY <2>1 DEF Ended
  <2>4. oldest' \in 1..Len(log') + 1  BY <2>1, <2>2, <2>3
  <2>5. att' \in [sub : BOOLEAN, since : 0..Len(log'), recent : BOOLEAN]
    BY <2>1, <2>2, <2>3
  <2> QED BY <2>1, <2>2, <2>4, <2>5 DEF LogTypes
<1>3. CASE Refuse     BY <1>3, RefuseStep DEF LogTypes, Types
<1>4. CASE Subscribe
  <2>1. out["phone"][1].since \in Nat /\ out["phone"][1].since <= Len(log)
    BY <1>4, SubscribeStep DEF Numbers, Given, Subs
  <2>2. skipped' \subseteq Nat
    <3>1. Len(log) \in Nat  BY LenProperties DEF Types
    <3>2. Listened(out["phone"][1].since) \/ skipped' = skipped  BY <1>4, SubscribeStep
    <3>3. LastOf(out["phone"][1].since) \in Int /\ LastOf(out["phone"][1].since) >= 0
      <4> DEFINE s == out["phone"][1].since
      <4>1. After(s) \in Nat /\ After(s) >= 1
        <5>1. oldest \in Int /\ oldest >= 1  BY <3>1 DEF Types
        <5>2. After(s) = IF s + 1 >= oldest THEN s + 1 ELSE oldest  BY <2>1, <5>1, MaxOfTwo DEF After
        <5> QED BY <2>1, <5>1, <5>2
      <4>2. Limit \in Nat /\ Limit >= 1
        <5>1. Limit \in Nat \ {0}  BY RelayAssumption
        <5> QED BY <5>1
      <4>3. After(s) + Limit - 1 \in Int /\ After(s) + Limit - 1 >= 0  BY <4>1, <4>2
      <4> QED BY <3>1, <4>3, MinOfTwo DEF LastOf
    <3>4. \A m \in LastOf(out["phone"][1].since) + 1..Len(log) : m \in Nat  BY <3>1, <3>3
    <3>5. \A m \in out["phone"][1].since + 1..Len(log) : m \in Nat  BY <3>1, <2>1
    <3>6. skipped \subseteq Nat  BY DEF Types
    <3> QED BY <3>2, <3>4, <3>5, <3>6 DEF Listened
  <2> QED BY <1>4, <2>1, <2>2, SubscribeStep DEF LogTypes, Types
<1>5. CASE Command
  <2>1. carried' \subseteq Cmds
    <3>1. carried \subseteq Cmds  BY DEF Types
    <3> QED BY <1>5, <3>1, CommandStep
  <2>2. QueueTypes' /\ UNCHANGED <<log, oldest, att, skipped>>  BY <1>5, CommandStep
  <2>3. LogTypes  BY TypesSplit
  <2> QED BY <2>1, <2>2, <2>3 DEF LogTypes
<1>6. CASE Tidy
  <2>1. oldest' \in oldest..Len(log) \/ oldest' = Len(log) + 1
    BY <1>6 DEF Tidy, PrunedTo
  <2>2. oldest \in 1..Len(log) + 1 /\ Len(log) \in Nat  BY LenProperties DEF Types
  <2> QED BY <1>6, <2>1, <2>2 DEF Tidy, LogTypes, QueueTypes, Types
<1>7. CASE Calm       BY <1>7 DEF Calm, LogTypes, QueueTypes, Types
<1>8. CASE Again
  <2>1. carried' \subseteq Cmds  BY <1>8, AgainStep DEF Types
  <2> QED BY <1>8, <2>1, AgainStep DEF LogTypes, Types
<1> QED BY <1>1, <1>2, <1>3, <1>4, <1>5, <1>6, <1>7, <1>8 DEF Wire, Hub

\* An answer is the command's payload turned round.
LEMMA DeskTypes ==
    ASSUME Always, DeskStep \/ Refill \/ TakeOver \/ Say
    PROVE  EndsTypes'
<1> USE DEF Always
<1>1. EndsTypes  BY TypesSplit
<1>2. /\ desk \in Desks /\ desk.outbox \in Seq(Pay) /\ acted \in Seq(Int)
      /\ links \in Nat \ {0} /\ says \in 0..MaxPay
  BY <1>1 DEF EndsTypes, Desks
<1>3. ASSUME desk' \in Desks, UNCHANGED <<links, says, phone, asks, sealed, shown, acted, got, told>>
      PROVE  EndsTypes'
  BY <1>1, <1>3 DEF EndsTypes
<1>4. CASE DeskOpen
  <2>1. /\ links' = links + 1
        /\ desk' = [desk EXCEPT !.id = links', !.seq = 0, !.last = 0, !.up = TRUE,
                                !.outbox = <<0>> \o @]
        /\ UNCHANGED <<says, phone, asks, sealed, shown, acted, got, told>>
    BY <1>4 DEF DeskOpen, DeskNext
  <2>2. <<0>> \o desk.outbox \in Seq(Pay)
    <3>1. <<0>> \in Seq(Pay)  BY Bounds
    <3> QED BY <1>2, <3>1, ConcatProperties
  <2>3. links' \in Nat \ {0} /\ links' \in Nat  BY <1>2, <2>1
  <2>4. desk' \in Desks  BY <1>2, <2>1, <2>2, <2>3 DEF Desks
  <2> QED BY <1>1, <2>1, <2>3, <2>4 DEF EndsTypes
<1>5. CASE DeskLost  BY <1>2, <1>3, <1>5 DEF DeskLost, DeskNext, Desks
<1>6. CASE DeskCmd
  <2>1. /\ UNCHANGED <<links, says, phone, asks, sealed, shown, got, told>>
        /\ evs["desk"][1] \in Cmds
        /\ Opened1(evs["desk"][1]) \/ UNCHANGED <<desk, acted>>
    BY <1>6, DeskCmdStep, DeskTakes
  <2> DEFINE c == evs["desk"][1]
  <2>2. c.seq \in Nat /\ c.pay \in Int /\ -c.pay \in Pay
    BY <2>1, Bounds DEF Cmds, Pay
  <2> HIDE DEF c
  <2>3. Append(desk.outbox, -c.pay) \in Seq(Pay) /\ Append(acted, c.pay) \in Seq(Int)
    BY <1>2, <2>2, AppendProperties
  <2>4. desk.allow # 0 => desk.allow - 1 \in 0..Burst
    BY <1>2, Bounds DEF Desks
  <2>5. CASE UNCHANGED <<desk, acted>>  BY <1>2, <1>3, <2>1, <2>5
  <2>6. CASE desk' = [desk EXCEPT !.last = c.seq] /\ acted' = acted
    BY <1>2, <1>3, <2>1, <2>2, <2>6 DEF Desks
  <2>7. CASE /\ desk.allow # 0
             /\ desk' = [desk EXCEPT !.last = c.seq, !.allow = @ - 1, !.outbox = Append(@, -c.pay)]
             /\ acted' = Append(acted, c.pay)
    <3>1. desk' \in Desks  BY <1>2, <2>2, <2>3, <2>4, <2>7 DEF Desks
    <3> QED BY <1>1, <2>1, <2>3, <2>7, <3>1 DEF EndsTypes
  <2> QED BY <2>1, <2>5, <2>6, <2>7 DEF Opened1, c
<1>7. CASE Drained  BY <1>2, <1>3, <1>7 DEF Drained, Desks
<1>8. CASE Flush
  <2>1. /\ UNCHANGED <<links, says, phone, asks, shown, acted, got, told>>
        /\ Sends \/ Keeps
    BY <1>8, FlushStep
  <2>2. CASE Sends
    <3>1. Len(desk.outbox) \in Nat /\ \A i \in 1..Len(desk.outbox) : desk.outbox[i] \in Int
      BY <1>2, ElementOfSeq, LenProperties, Bounds
    <3>2. sealed' \subseteq Seals
      <4>1. sealed \subseteq Seals  BY <1>1 DEF EndsTypes
      <4>2. \A i \in 1..Len(desk.outbox) :
               Sealed("d2p", desk.id, desk.seq + i, desk.outbox[i]) \in Seals
        BY <1>2, <3>1 DEF Sealed, Desks, Seals
      <4> QED BY <2>2, <4>1, <4>2 DEF Sends
    <3>3. <<>> \in Seq(Pay) /\ desk.seq + Len(desk.outbox) \in Nat
      BY <1>2, <3>1 DEF Desks
    <3>4. desk' \in Desks  BY <1>2, <2>2, <3>3 DEF Sends, Desks
    <3> QED BY <1>1, <2>1, <3>2, <3>4 DEF EndsTypes
  <2>3. CASE Keeps
    BY <1>2, <1>3, <2>1, <2>3 DEF Keeps, Desks
  <2> QED BY <2>1, <2>2, <2>3
<1>9. CASE Refill
  <2>1. desk.allow + 1 \in 0..Burst  BY <1>2, <1>9, Bounds DEF Refill, Desks
  <2> QED BY <1>2, <1>3, <1>9, <2>1 DEF Refill, Desks
<1>10. CASE TakeOver
  <2>1. links' \in Nat \ {0} /\ desk' = DeskOn(links')
        /\ UNCHANGED <<says, phone, asks, sealed, shown, acted, got, told>>
    BY <1>2, <1>10 DEF TakeOver
  <2>2. desk' \in Desks  BY <2>1, Bounds DEF DeskOn, Desks
  <2> QED BY <1>1, <2>1, <2>2 DEF EndsTypes
<1>11. CASE Say
  <2>1. says' = says + 1 /\ says < MaxPay /\ desk' = [desk EXCEPT !.outbox = Append(@, says')]
        /\ UNCHANGED <<links, phone, asks, sealed, shown, acted, got, told>>
    BY <1>11 DEF Say
  <2>2. says' \in Pay /\ says' \in 0..MaxPay
    BY <1>2, <2>1, Bounds DEF Pay
  <2>3. Append(desk.outbox, says') \in Seq(Pay)
    BY <1>2, <2>2, AppendProperties
  <2>4. desk' \in Desks  BY <1>2, <2>1, <2>3 DEF Desks
  <2> QED BY <1>1, <2>1, <2>2, <2>4 DEF EndsTypes
<1> QED BY <1>4, <1>5, <1>6, <1>7, <1>8, <1>9, <1>10, <1>11 DEF DeskStep

LEMMA PhoneTypes ==
    ASSUME Always, PhoneStep \/ PhoneSay
    PROVE  EndsTypes'
<1> USE DEF Always
<1>1. EndsTypes /\ phone \in Phones /\ shown \in Seq(Int)  BY TypesSplit DEF EndsTypes
<1>2. CASE PhoneOpen  BY <1>1, <1>2, PhoneOpenStep DEF PhoneNext, EndsTypes
<1>3. CASE PhoneLost  BY <1>1, <1>3 DEF PhoneLost, PhoneNext, EndsTypes
<1>4. CASE PhoneEvt
  <2>1. PhoneNext("evt")  BY <1>4 DEF PhoneEvt
  <2>2. /\ evs["phone"][1] = Head(evs["phone"]) /\ evs["phone"][1] \in Evts
        /\ UNCHANGED <<desk, links, says, asks, sealed, acted>>
    BY <2>1, PhoneTakes DEF PhoneEvents, Open, Stale, Lost, Gaps
  <2> DEFINE f == evs["phone"][1]
             p == [Rekeyed(f.link) EXCEPT !.cursor = f.n]
  <2>3. f.n \in Nat /\ f.link \in Nat /\ f.seq \in Nat /\ f.pay \in Int
    BY <2>2, Bounds DEF Evts
  <2>4. /\ \/ phone' = [p EXCEPT !.last = f.seq] /\ shown' = Append(shown, f.pay)
           \/ phone' = p /\ shown' = shown
        /\ got' = got \cup {f.n} /\ told' = told
    BY <1>4, <2>2 DEF PhoneEvt
  <2> HIDE DEF f
  <2>5. p \in Phones
    BY <1>1, <2>3 DEF Rekeyed, Phones
  <2> HIDE DEF p
  <2>6. phone' \in Phones  BY <2>3, <2>4, <2>5 DEF Phones
  <2>7. shown' \in Seq(Int)
    <3>1. Append(shown, f.pay) \in Seq(Int)  BY <1>1, <2>3, AppendProperties
    <3> QED BY <1>1, <2>4, <3>1
  <2> QED BY <1>1, <2>2, <2>3, <2>4, <2>6, <2>7 DEF EndsTypes
<1>5. CASE PhoneGap
  <2>1. PhoneNext("gap")  BY <1>5 DEF PhoneGap
  <2>2. /\ evs["phone"][1] = Head(evs["phone"]) /\ evs["phone"][1] \in Gaps
        /\ UNCHANGED <<desk, links, says, asks, sealed, acted>>
    BY <2>1, PhoneTakes DEF PhoneEvents, Open, Stale, Lost, Evts
  <2>3. Head(evs["phone"]).from \in Nat  BY <2>2 DEF Gaps
  <2>4. phone' \in Phones  BY <1>1, <1>5, <2>3 DEF PhoneGap, Phones
  <2> QED BY <1>1, <1>5, <2>2, <2>3, <2>4 DEF PhoneGap, EndsTypes
<1>6. CASE PhoneSay
  <2>1. /\ asks' \in 0..MaxCmd /\ phone' = [phone EXCEPT !.seq = @ + 1]
        /\ sealed' = sealed \cup {Sealed("p2d", phone.desk, phone.seq + 1, asks + 1)}
        /\ UNCHANGED <<desk, links, says, shown, acted, got, told>>
    BY <1>6, PhoneSayStep
  <2>2. Sealed("p2d", phone.desk, phone.seq + 1, asks + 1) \in Seals
    BY <1>1 DEF Sealed, EndsTypes, Phones, Seals
  <2>3. phone' \in Phones  BY <1>1, <2>1 DEF Phones
  <2> QED BY <1>1, <2>1, <2>2, <2>3 DEF EndsTypes
<1> QED BY <1>2, <1>3, <1>4, <1>5, <1>6 DEF PhoneStep

LEMMA QueuesKeepTypes ==
    ASSUME Always, Say \/ DeskStep \/ Refill \/ TakeOver \/ PhoneStep \/ PhoneSay
    PROVE  LogTypes' /\ QueueTypes'
<1> USE DEF Always
<1>1. LogTypes /\ QueueTypes  BY TypesSplit
<1>2. ASSUME UNCHANGED relay_vars PROVE LogTypes' /\ QueueTypes'
  BY <1>1, <1>2 DEF relay_vars, LogTypes, QueueTypes
<1>3. CASE Say \/ Refill \/ Drained
  BY <1>2, <1>3 DEF Say, Refill, Drained
<1>4. CASE DeskOpen \/ DeskLost \/ DeskCmd
  <2>1. PICK t : DeskNext(t)  BY <1>4 DEF DeskOpen, DeskLost, DeskCmd
  <2> QED BY <1>1, <2>1, DeskTakes DEF LogTypes
<1>5. CASE Flush  BY <1>1, <1>5, FlushStep DEF LogTypes
<1>6. CASE TakeOver
  <2>1. /\ sock' = [sock EXCEPT !["desk"] = FALSE]
        /\ out' = [out EXCEPT !["desk"] = <<>>] /\ evs' = [evs EXCEPT !["desk"] = <<>>]
        /\ UNCHANGED <<log, oldest, att, carried, skipped>>
    BY <1>6 DEF TakeOver
  <2>2. <<>> \in DeskOut /\ <<>> \in DeskIn  BY DEF DeskOut, DeskIn
  <2>3. QueueTypes'  BY <1>1, <2>1, <2>2 DEF QueueTypes
  <2> QED BY <1>1, <2>1, <2>3 DEF LogTypes
<1>7. CASE PhoneStep
  <2>1. PICK t : PhoneNext(t)
    BY <1>7 DEF PhoneStep, PhoneOpen, Ask, PhoneLost, PhoneEvt, PhoneGap
  <2>2. /\ evs' \in [desk : DeskIn, phone : PhoneIn]
        /\ UNCHANGED <<log, oldest, att, sock, carried, skipped>>
    BY <2>1, PhoneTakes
  <2>3. out' \in [desk : DeskOut, phone : PhoneOut]
    <3>1. CASE PhoneOpen  BY <3>1, PhoneOpenStep
    <3>2. CASE ~PhoneOpen
      BY <1>1, <1>7, <3>2 DEF PhoneStep, PhoneLost, PhoneEvt, PhoneGap, QueueTypes
    <3> QED BY <3>1, <3>2
  <2> QED BY <1>1, <2>2, <2>3 DEF LogTypes, QueueTypes
<1>8. CASE PhoneSay  BY <1>1, <1>8, PhoneSayStep DEF LogTypes
<1> QED BY <1>3, <1>4, <1>5, <1>6, <1>7, <1>8 DEF DeskStep

\* Every step keeps the types.
LEMMA TypesStep == Always /\ [Next]_vars => Types'
<1> SUFFICES ASSUME Always, [Next]_vars PROVE Types'
  OBVIOUS
<1>1. LogTypes /\ QueueTypes /\ EndsTypes  BY TypesSplit DEF Always
<1>2. CASE Wire
  <2>1. EndsTypes'  BY <1>1, <1>2 DEF Wire, ends_vars, EndsTypes
  <2>2. LogTypes' /\ QueueTypes'  BY <1>2, WireTypes
  <2> QED BY <2>1, <2>2 DEF Types, LogTypes, QueueTypes, EndsTypes
<1>3. CASE Say \/ DeskStep \/ Refill \/ TakeOver \/ PhoneStep \/ PhoneSay
  <2>1. EndsTypes'  BY <1>3, DeskTypes, PhoneTypes
  <2>2. LogTypes' /\ QueueTypes'  BY <1>3, QueuesKeepTypes
  <2> QED BY <2>1, <2>2 DEF Types, LogTypes, QueueTypes, EndsTypes
<1>4. CASE UNCHANGED vars
  BY <1>1, <1>4 DEF vars, relay_vars, ends_vars, Types, LogTypes, QueueTypes, EndsTypes
<1> QED BY <1>2, <1>3, <1>4 DEF Next

-----------------------------------------------------------------------------
(***************************************************************************)
(* The order of sealing.                                                   *)
(***************************************************************************)

\* The frame a phone reads is one of the log; with it come the link and the
\* numbers of the phone.
Arrives(f) ==
    /\ f \in Evts /\ f.n \in 1..Len(log) /\ f = log[f.n] /\ Was("d2p", f)
    /\ LET last == IF f.link = phone.desk THEN phone.last ELSE 0
           p(m) == [cursor |-> f.n, desk |-> f.link, last |-> m,
                    seq |-> IF f.link = phone.desk THEN phone.seq ELSE 0]
       IN  IF f.seq > last THEN phone' = p(f.seq) /\ shown' = Append(shown, f.pay)
                           ELSE phone' = p(last) /\ shown' = shown
    /\ got' = got \cup {f.n} /\ UNCHANGED <<out, told>>
LEMMA Arrival ==
    ASSUME Always, PhoneEvt
    PROVE  LET f == evs["phone"][1] IN
           /\ PhoneNext("evt") /\ 1 \in 1..Len(evs["phone"]) /\ f.t = "evt" /\ Arrives(f)
<1> DEFINE f == evs["phone"][1]
           p == [Rekeyed(f.link) EXCEPT !.cursor = f.n]
           last == IF f.link = phone.desk THEN phone.last ELSE 0
           seq == IF f.link = phone.desk THEN phone.seq ELSE 0
<1>1. PhoneNext("evt") /\ Types  BY DEF PhoneEvt, Always
<1>2. /\ 1 \in 1..Len(evs["phone"]) /\ f = Head(evs["phone"]) /\ f.t = "evt" /\ f \in Evts
  BY <1>1, PhoneTakes DEF PhoneEvents, Open, Stale, Lost, Gaps
<1>3. f.n \in 1..Len(log) /\ f = log[f.n]
  BY <1>2 DEF Always, Numbers, Given
<1>4. Was("d2p", f)  BY <1>3 DEF Always, Underway
<1>5. /\ IF Opens(f, p.desk, p.last)
         THEN phone' = [p EXCEPT !.last = f.seq] /\ shown' = Append(shown, f.pay)
         ELSE phone' = p /\ UNCHANGED shown
      /\ got' = got \cup {f.n} /\ UNCHANGED <<out, told>>
  BY <1>2 DEF PhoneEvt
<1>6. phone \in Phones /\ f.n \in Nat /\ f.link \in Nat /\ f.seq \in Nat
  BY <1>1, <1>2 DEF Types, Evts
<1> HIDE DEF f
<1>7. p = [cursor |-> f.n, desk |-> f.link, last |-> last, seq |-> seq]
  <2>1. CASE f.link = phone.desk
    <3>1. Rekeyed(f.link) = phone  BY <2>1 DEF Rekeyed
    <3>2. [phone EXCEPT !.cursor = f.n] =
             [cursor |-> f.n, desk |-> f.link, last |-> phone.last, seq |-> phone.seq]
      BY <1>6, <2>1 DEF Phones
    <3> QED BY <2>1, <3>1, <3>2
  <2>2. CASE f.link # phone.desk
    <3>1. Rekeyed(f.link) = [phone EXCEPT !.desk = f.link, !.last = 0, !.seq = 0]
      BY <2>2 DEF Rekeyed
    <3> DEFINE r == Rekeyed(f.link)
    <3> HIDE DEF r
    <3>2. r = [cursor |-> phone.cursor, desk |-> f.link, last |-> 0, seq |-> 0]
      BY <1>6, <3>1 DEF Phones, r
    <3>3. [r EXCEPT !.cursor = f.n] = [cursor |-> f.n, desk |-> f.link, last |-> 0, seq |-> 0]
      BY <1>6, <3>2
    <3> QED BY <2>2, <3>3 DEF r
  <2> QED BY <2>1, <2>2
<1> HIDE DEF p, last, seq
<1>8. p.desk = f.link /\ p.last = last  BY <1>7
<1>9. CASE f.seq > last
  <2>1. Opens(f, p.desk, p.last)  BY <1>8, <1>9 DEF Opens
  <2>2. phone' = [p EXCEPT !.last = f.seq] /\ shown' = Append(shown, f.pay)
    BY <1>5, <2>1
  <2>3. phone' = [cursor |-> f.n, desk |-> f.link, last |-> f.seq, seq |-> seq]
    BY <1>7, <2>2
  <2> QED BY <1>1, <1>2, <1>3, <1>4, <1>5, <1>9, <2>2, <2>3 DEF Arrives, f, last, seq
<1>10. CASE ~(f.seq > last)
  <2>1. ~Opens(f, p.desk, p.last)  BY <1>8, <1>10 DEF Opens
  <2>2. phone' = p /\ shown' = shown  BY <1>5, <2>1
  <2> QED BY <1>1, <1>2, <1>3, <1>4, <1>5, <1>7, <1>10, <2>2 DEF Arrives, f, last, seq
<1> QED BY <1>9, <1>10

\* As long as no asking came late, it opens: it comes after all that was heard.
Reads(f) ==
    /\ f \in Evts /\ f.n \in 1..Len(log) /\ f = log[f.n] /\ f.n >= phone.cursor
    /\ Before(HeardAt, f) /\ UpTo(f, DeskAt) /\ Was("d2p", f)
    /\ phone' = [cursor |-> f.n, desk |-> f.link, last |-> f.seq,
                 seq |-> IF f.link = phone.desk THEN phone.seq ELSE 0]
    /\ shown' = Append(shown, f.pay)
    /\ got' = got \cup {f.n} /\ UNCHANGED <<out, told>>
LEMMA PhoneEvtStep ==
    ASSUME Always, Ahead, PhoneEvt
    PROVE  LET f == evs["phone"][1] IN
           /\ PhoneNext("evt") /\ 1 \in 1..Len(evs["phone"]) /\ f.t = "evt" /\ Reads(f)
<1> DEFINE f == evs["phone"][1]
<1>1. PhoneNext("evt") /\ 1 \in 1..Len(evs["phone"]) /\ f.t = "evt" /\ Arrives(f)  BY Arrival
<1>2. f.n >= phone.cursor /\ Before(HeardAt, f) /\ f.n \in Nat /\ phone \in Phones
  <2>1. phone \in Phones /\ phone.cursor \in Nat  BY DEF Always, Types, Phones
  <2>2. f.n \in Nat  BY <1>1 DEF Arrives, Evts
  <2>3. Numbered(f) /\ Num(f) = f.n  BY <1>1 DEF Numbered, Num
  <2>4. Before(HeardAt, f) /\ Num(f) \in phone.cursor..Len(log)
    BY <1>1, <2>3 DEF Ahead, QueuedIn
  <2> QED BY <2>1, <2>2, <2>3, <2>4
<1> HIDE DEF f
<1>3. f.seq \in Nat /\ f.seq > 0 /\ f.link \in Nat  BY <1>1 DEF Arrives, Evts
<1>4. UpTo(f, DeskAt)
  <2>1. Sealing("d2p", f) \in sealed /\ Sealing("d2p", f).dir = "d2p"
        /\ Sealing("d2p", f).link = f.link /\ Sealing("d2p", f).seq = f.seq
    BY <1>1 DEF Arrives, Was, Sealing, Sealed
  <2> QED BY <2>1 DEF Always, Counted, InTurn, UpTo
<1>5. f.link = phone.desk => f.seq > phone.last
  BY <1>2, <1>3 DEF Before, HeardAt, At, Phones
<1>6. f.seq > IF f.link = phone.desk THEN phone.last ELSE 0  BY <1>3, <1>5
<1>7. /\ phone' = [cursor |-> f.n, desk |-> f.link, last |-> f.seq,
                   seq |-> IF f.link = phone.desk THEN phone.seq ELSE 0]
      /\ shown' = Append(shown, f.pay)
  BY <1>1, <1>6 DEF Arrives
<1> QED BY <1>1, <1>2, <1>4, <1>7 DEF Reads, Arrives, f

\* What is sent is sealed past all that was sealed to the phone.
LEMMA SentInTurn ==
    ASSUME Always, Sends
    PROVE  InTurn("d2p", DeskAt)' /\ \A s \in sealed' : s.dir # "d2p" => s \in sealed
<1> DEFINE n == Len(desk.outbox)
           new(i) == Sealed("d2p", desk.id, desk.seq + i, desk.outbox[i])
<1>1. desk \in Desks /\ sealed \subseteq Seals  BY DEF Always, Types
<1>2. n \in Nat /\ \A i \in 1..n : desk.outbox[i] \in Int
  <2>1. desk.outbox \in Seq(Pay)  BY <1>1 DEF Desks
  <2> QED BY <2>1, LenProperties, ElementOfSeq, Bounds
<1>3. /\ desk'.id = desk.id /\ desk'.seq = desk.seq + n
      /\ sealed' = sealed \cup {new(i) : i \in 1..n}
  BY <1>1 DEF Sends, Desks
<1>4. /\ \A s \in sealed : s.dir = "d2p" => UpTo(s, DeskAt)
      /\ \A a, b \in sealed : (a.dir = "d2p" /\ b.dir = "d2p") =>
            IF Before(a, b) THEN Rising(a, b) ELSE Before(b, a) \/ a = b
  BY DEF Always, Counted, InTurn
<1>5. /\ \A i \in 1..n : desk.outbox[i] > 0 =>
            \A s \in sealed : s.dir = "d2p" => s.pay < desk.outbox[i]
      /\ \A i, j \in 1..n : (i < j /\ desk.outbox[i] > 0 /\ desk.outbox[j] > 0)
            => desk.outbox[i] < desk.outbox[j]
  BY DEF Always, Waiting, InOrder
<1>6. \A i \in 1..n : UpTo(new(i), DeskAt') /\ new(i).dir = "d2p"
  BY <1>1, <1>2, <1>3 DEF UpTo, DeskAt, At, Desks, Sealed
<1>7. ASSUME NEW s \in sealed', s.dir = "d2p" PROVE UpTo(s, DeskAt')
  <2>1. CASE s \in sealed
    BY <1>1, <1>2, <1>3, <1>4, <1>7, <2>1 DEF UpTo, DeskAt, At, Desks, Seals
  <2> QED BY <1>3, <1>6, <2>1
<1>8. ASSUME NEW a \in sealed, NEW i \in 1..n, a.dir = "d2p"
      PROVE  Before(a, new(i)) /\ Rising(a, new(i))
  <2>1. UpTo(a, DeskAt)  BY <1>4, <1>8
  <2>2. Before(a, new(i))
    BY <1>1, <1>2, <2>1 DEF Before, UpTo, DeskAt, At, Sealed, Desks, Seals
  <2>3. Rising(a, new(i))  BY <1>5, <1>8 DEF Rising, Sealed
  <2> QED BY <2>2, <2>3
<1>9. ASSUME NEW i \in 1..n, NEW j \in 1..n, i < j
      PROVE  Before(new(i), new(j)) /\ Rising(new(i), new(j))
  BY <1>1, <1>2, <1>5, <1>9 DEF Before, Rising, Sealed, Desks
<1>10. ASSUME NEW a, NEW b, Before(a, b), a.link \in Nat, b.link \in Nat, a.seq \in Nat,
              b.seq \in Nat
       PROVE  ~Before(b, a)
  BY <1>10 DEF Before
<1>11. ASSUME NEW a \in sealed', NEW b \in sealed', a.dir = "d2p", b.dir = "d2p"
       PROVE  IF Before(a, b) THEN Rising(a, b) ELSE Before(b, a) \/ a = b
  <2>0. \A i \in 1..n : /\ new(i).dir = "d2p" /\ new(i).link \in Nat /\ new(i).seq \in Nat
                        /\ \A s \in sealed : s.link \in Nat /\ s.seq \in Nat
    BY <1>1, <1>2 DEF Sealed, Desks, Seals
  <2> HIDE DEF new, n
  <2>1. CASE a \in sealed /\ b \in sealed  BY <1>4, <1>11, <2>1
  <2>2. ASSUME NEW i \in 1..n, a \in sealed, b = new(i)
        PROVE  IF Before(a, b) THEN Rising(a, b) ELSE Before(b, a) \/ a = b
    BY <1>8, <1>11, <2>0, <2>2
  <2>3. ASSUME NEW i \in 1..n, b \in sealed, a = new(i)
        PROVE  IF Before(a, b) THEN Rising(a, b) ELSE Before(b, a) \/ a = b
    BY <1>8, <1>10, <1>11, <2>0, <2>3
  <2>4. ASSUME NEW i \in 1..n, NEW j \in 1..n, a = new(i), b = new(j)
        PROVE  IF Before(a, b) THEN Rising(a, b) ELSE Before(b, a) \/ a = b
    <3>1. i < j \/ i = j \/ j < i  BY <1>2
    <3> QED BY <1>9, <1>10, <2>0, <2>4, <3>1
  <2> QED BY <1>3, <2>1, <2>2, <2>3, <2>4
<1>12. \A s \in sealed' : s.dir # "d2p" => s \in sealed  BY <1>3, <1>6
<1> QED BY <1>7, <1>11, <1>12 DEF InTurn

\* A new link is later than all the others.
LEMMA NewLink ==
    ASSUME Always, DeskOpen \/ TakeOver
    PROVE  links' = links + 1 /\ desk'.id = links + 1 /\ desk'.seq = 0 /\ UNCHANGED <<phone, sealed>>
<1>1. desk \in Desks  BY DEF Always, Types
<1>2. CASE DeskOpen
  <2>1. /\ links' = links + 1 /\ UNCHANGED <<phone, sealed>>
        /\ desk' = [desk EXCEPT !.id = links', !.seq = 0, !.last = 0, !.up = TRUE,
                                !.outbox = <<0>> \o @]
    BY <1>2 DEF DeskOpen, DeskNext
  <2> DEFINE box == <<0>> \o desk.outbox
  <2>2. desk' = [desk EXCEPT !.id = links', !.seq = 0, !.last = 0, !.up = TRUE,
                             !.outbox = box]
    BY <2>1
  <2> HIDE DEF box
  <2>3. desk'.id = links' /\ desk'.seq = 0  BY <1>1, <2>2 DEF Desks
  <2> QED BY <2>1, <2>3
<1>3. CASE TakeOver  BY <1>3 DEF TakeOver, DeskOn
<1> QED BY <1>2, <1>3

\* Which of the variables about sealing a step leaves alone.
SealVars == <<desk.id, desk.seq, links, phone.desk, phone.last, phone.seq, sealed>>
LEMMA Quiet ==
    ASSUME Always, \/ Wire \/ UNCHANGED vars \/ Say \/ DeskLost \/ DeskCmd \/ Drained \/ Refill
                   \/ PhoneOpen \/ PhoneLost \/ PhoneGap
    PROVE  UNCHANGED SealVars
<1>1. Types /\ desk \in Desks /\ phone \in Phones  BY DEF Always, Types
<1>2. CASE Wire \/ UNCHANGED vars
  BY <1>2 DEF Wire, ends_vars, vars, SealVars
<1>3. CASE Say \/ DeskLost \/ DeskCmd \/ Drained \/ Refill
  BY <1>1, <1>3 DEF Say, DeskLost, DeskCmd, DeskNext, Drained, Refill, SealVars, Desks
<1>4. CASE PhoneOpen
  BY <1>1, <1>4, PhoneOpenStep, PhoneTakes DEF SealVars
<1>5. CASE PhoneLost  BY <1>5 DEF PhoneLost, PhoneNext, SealVars
<1>6. CASE PhoneGap
  BY <1>1, <1>6 DEF PhoneGap, PhoneNext, SealVars, Phones
<1> QED BY <1>2, <1>3, <1>4, <1>5, <1>6

\* What is sealed comes after all that was sealed before, under links that were
\* drawn.
LEMMA CountedStep == Always /\ [Next]_vars => Counted'
<1> SUFFICES ASSUME Always, [Next]_vars PROVE Counted'
  OBVIOUS
<1>1. /\ Types /\ Counted /\ desk \in Desks /\ phone \in Phones /\ sealed \subseteq Seals
      /\ links \in Nat \ {0} /\ desk.id = links /\ phone.desk <= links
      /\ \A s \in sealed : s.link <= links
      /\ \A s \in sealed : s.dir = "d2p" => UpTo(s, DeskAt)
      /\ \A a, b \in sealed : (a.dir = "d2p" /\ b.dir = "d2p") =>
            IF Before(a, b) THEN Rising(a, b) ELSE Before(b, a) \/ a = b
  BY DEF Always, Types, Counted, InTurn
<1>2. CASE UNCHANGED SealVars
  BY <1>1, <1>2 DEF SealVars, Counted, InTurn, DeskAt, At
<1>3. CASE DeskOpen \/ TakeOver
  <2>1. /\ links' = links + 1 /\ desk'.id = links + 1 /\ desk'.seq = 0
        /\ UNCHANGED <<phone, sealed>>
    BY <1>3, NewLink
  <2>2. \A s \in sealed : s.dir = "d2p" => UpTo(s, DeskAt')
    BY <1>1, <2>1 DEF UpTo, DeskAt, At, Seals
  <2>3. phone'.desk <= links' /\ \A s \in sealed' : s.link <= links'
    BY <1>1, <2>1 DEF Phones, Seals
  <2> QED BY <1>1, <2>1, <2>2, <2>3 DEF Counted, InTurn
<1>4. CASE Flush
  <2>1. UNCHANGED <<links, phone>> /\ (Sends \/ Keeps)  BY <1>1, <1>4, FlushStep
  <2>2. CASE Keeps
    <3>1. desk'.id = desk.id /\ desk'.seq = desk.seq /\ sealed' = sealed
      BY <1>1, <2>2 DEF Keeps, Desks
    <3> QED BY <1>2, <2>1, <3>1 DEF SealVars
  <2>3. CASE Sends
    <3>1. desk'.id = desk.id /\ \A s \in sealed' : s \in sealed \/ s.link = desk.id
      BY <1>1, <2>3 DEF Sends, Desks, Sealed
    <3>2. \A s \in sealed' : s.link <= links  BY <1>1, <3>1
    <3> QED BY <1>1, <2>1, <2>3, <3>1, <3>2, SentInTurn DEF Counted
  <2> QED BY <2>1, <2>2, <2>3
<1>5. CASE PhoneEvt
  <2> DEFINE f == evs["phone"][1]
  <2>1. Arrives(f) /\ UNCHANGED <<desk, links, sealed>>
    BY <1>1, <1>5, Arrival, PhoneTakes
  <2> HIDE DEF f
  <2>2. phone'.desk = f.link  BY <2>1 DEF Arrives
  <2>3. f.link <= links  BY <1>1, <2>1 DEF Arrives, Was, Sealing, Sealed
  <2> QED BY <1>1, <2>1, <2>2, <2>3 DEF Counted, InTurn, DeskAt
<1>6. CASE PhoneSay
  <2> DEFINE s0 == Sealed("p2d", phone.desk, phone.seq + 1, asks + 1)
  <2>1. sealed' = sealed \cup {s0} /\ UNCHANGED <<desk, links>> /\ phone'.desk = phone.desk
    BY <1>1, <1>6, PhoneSayStep DEF Phones
  <2>2. s0.dir # "d2p" /\ s0.link <= links  BY <1>1 DEF Sealed
  <2> HIDE DEF s0
  <2> QED BY <1>1, <2>1, <2>2 DEF Counted, InTurn, DeskAt
<1> QED BY <1>2, <1>3, <1>4, <1>5, <1>6, Quiet DEF Next, DeskStep, PhoneStep

\* As long as no asking came late, a phone does not go back to a link it left.
LEMMA HeardStep == Always /\ Heard /\ Ahead /\ [Next]_vars => Heard'
<1> SUFFICES ASSUME Always, Heard, Ahead, [Next]_vars PROVE Heard'
  OBVIOUS
<1>1. /\ Types /\ desk \in Desks /\ phone \in Phones /\ sealed \subseteq Seals
      /\ links \in Nat \ {0} /\ desk.id = links /\ UpTo(HeardAt, DeskAt)
      /\ \A s \in sealed : s.dir = "p2d" => UpTo(s, PhoneAt)
      /\ \A a, b \in sealed : (a.dir = "p2d" /\ b.dir = "p2d") =>
            IF Before(a, b) THEN Rising(a, b) ELSE Before(b, a) \/ a = b
  BY DEF Always, Types, Counted, Heard, InTurn
<1>2. CASE UNCHANGED SealVars
  BY <1>1, <1>2 DEF SealVars, Heard, InTurn, HeardAt, DeskAt, PhoneAt, At
<1>3. CASE DeskOpen \/ TakeOver
  <2>1. /\ links' = links + 1 /\ desk'.id = links + 1 /\ desk'.seq = 0
        /\ UNCHANGED <<phone, sealed>>
    BY <1>3, NewLink
  <2>2. UpTo(HeardAt', DeskAt')
    BY <1>1, <2>1 DEF UpTo, HeardAt, DeskAt, At, Desks, Phones
  <2> QED BY <1>1, <2>1, <2>2 DEF Heard, InTurn, PhoneAt
<1>4. CASE Flush
  <2>1. UNCHANGED <<links, phone>> /\ (Sends \/ Keeps)  BY <1>1, <1>4, FlushStep
  <2>2. CASE Keeps
    <3>1. desk'.id = desk.id /\ desk'.seq = desk.seq /\ sealed' = sealed
      BY <1>1, <2>2 DEF Keeps, Desks
    <3> QED BY <1>2, <2>1, <3>1 DEF SealVars
  <2>3. CASE Sends
    <3>1. \A s \in sealed' : s.dir = "p2d" => s \in sealed  BY <2>3, SentInTurn
    <3>2. desk'.id = desk.id /\ desk'.seq = desk.seq + Len(desk.outbox)
          /\ Len(desk.outbox) \in Nat
      BY <1>1, <2>3, LenProperties DEF Sends, Desks
    <3>3. UpTo(HeardAt', DeskAt')
      BY <1>1, <2>1, <3>2 DEF UpTo, HeardAt, DeskAt, At, Desks, Phones
    <3> QED BY <1>1, <2>1, <3>1, <3>3 DEF Heard, InTurn, PhoneAt
  <2> QED BY <2>1, <2>2, <2>3
<1>5. CASE PhoneEvt
  <2> DEFINE f == evs["phone"][1]
  <2>1. Reads(f) /\ UNCHANGED <<desk, links, sealed>>
    BY <1>1, <1>5, PhoneEvtStep, PhoneTakes
  <2> HIDE DEF f
  <2>2. /\ f.link \in Nat /\ f.seq \in Nat /\ Before(HeardAt, f) /\ UpTo(f, DeskAt)
        /\ phone'.desk = f.link /\ phone'.last = f.seq
        /\ phone'.seq = IF f.link = phone.desk THEN phone.seq ELSE 0
    BY <2>1 DEF Reads, Evts
  <2>3. UpTo(HeardAt', DeskAt')  BY <2>1, <2>2 DEF HeardAt, DeskAt, At, UpTo
  <2>4. \A s \in sealed : s.dir = "p2d" => UpTo(s, PhoneAt')
    <3> TAKE s \in sealed
    <3>1. s.dir = "p2d" => UpTo(s, PhoneAt)  BY <1>1
    <3>2. f.link >= phone.desk  BY <1>1, <2>2 DEF Before, HeardAt, At, Phones
    <3> QED BY <1>1, <2>2, <3>1, <3>2 DEF UpTo, PhoneAt, At, Phones, Seals
  <2> QED BY <1>1, <2>1, <2>3, <2>4 DEF Heard, InTurn
<1>6. CASE PhoneSay
  <2> DEFINE s0 == Sealed("p2d", phone.desk, phone.seq + 1, asks + 1)
  <2>1. /\ sealed' = sealed \cup {s0} /\ UNCHANGED <<desk, links>>
        /\ phone'.desk = phone.desk /\ phone'.last = phone.last /\ phone'.seq = phone.seq + 1
    BY <1>1, <1>6, PhoneSayStep DEF Phones
  <2>2. s0.dir = "p2d" /\ s0.link = phone.desk /\ s0.seq = phone.seq + 1 /\ s0.pay = asks + 1
    BY DEF Sealed
  <2> HIDE DEF s0
  <2>3. \A s \in sealed : s.dir = "p2d" => Before(s, s0) /\ Rising(s, s0) /\ ~Before(s0, s)
    <3> TAKE s \in sealed
    <3>1. s.dir = "p2d" => UpTo(s, PhoneAt) /\ s.pay <= asks
      BY <1>1 DEF Always, Waiting
    <3>2. asks \in Nat  BY <1>1, Bounds DEF Types
    <3> QED BY <1>1, <2>2, <3>1, <3>2 DEF UpTo, Before, Rising, PhoneAt, At, Phones, Seals
  <2>4. ~Before(s0, s0)  BY <1>1, <2>2 DEF Before, Phones
  <2>5. \A s \in sealed' : s.dir = "p2d" => UpTo(s, PhoneAt')
    BY <1>1, <2>1, <2>2 DEF UpTo, PhoneAt, At, Phones, Seals
  <2>6. ASSUME NEW a \in sealed', NEW b \in sealed', a.dir = "p2d", b.dir = "p2d"
        PROVE  IF Before(a, b) THEN Rising(a, b) ELSE Before(b, a) \/ a = b
    <3>1. CASE a \in sealed /\ b \in sealed  BY <1>1, <2>6, <3>1
    <3>2. CASE a = s0 \/ b = s0  BY <2>1, <2>2, <2>3, <2>4, <2>6, <3>2
    <3> QED BY <2>1, <3>1, <3>2
  <2>7. UpTo(HeardAt', DeskAt')
    BY <1>1, <2>1 DEF HeardAt, DeskAt, At
  <2> QED BY <2>5, <2>6, <2>7 DEF Heard, InTurn
<1> QED BY <1>2, <1>3, <1>4, <1>5, <1>6, Quiet DEF Next, DeskStep, PhoneStep

\* What a step adds to the outbox is answered or greeted, or said last.
LEMMA WaitingStep == Always /\ [Next]_vars => Waiting'
<1> SUFFICES ASSUME Always, [Next]_vars PROVE Waiting'
  OBVIOUS
<1> DEFINE box == desk.outbox
<1>1. /\ Types /\ desk \in Desks /\ says \in Nat /\ asks \in Nat /\ sealed \subseteq Seals
      /\ box \in Seq(Pay) /\ Len(box) \in Nat /\ \A i \in 1..Len(box) : box[i] \in Int
  <2>1. desk \in Desks /\ says \in 0..MaxPay /\ asks \in 0..MaxCmd /\ Types /\ sealed \subseteq Seals
    BY DEF Always, Types
  <2>2. box \in Seq(Pay)  BY <2>1 DEF Desks
  <2> HIDE DEF box
  <2>3. Len(box) \in Nat  BY <2>2, LenProperties
  <2>4. \A i \in 1..Len(box) : box[i] \in Int
    <3> TAKE i \in 1..Len(box)
    <3>1. box[i] \in Pay  BY <2>2, ElementOfSeq
    <3> QED BY <3>1, Bounds
  <2>5. says \in Nat /\ asks \in Nat  BY <2>1, Bounds
  <2> QED BY <2>1, <2>2, <2>3, <2>4, <2>5
<1>2. /\ \A s \in sealed : s.pay <= IF s.dir = "d2p" THEN says ELSE asks
      /\ \A i \in 1..Len(box) :
            /\ box[i] <= says
            /\ box[i] > 0 => \A s \in sealed : s.dir = "d2p" => s.pay < box[i]
      /\ \A i, j \in 1..Len(box) : (i < j /\ box[i] > 0 /\ box[j] > 0) => box[i] < box[j]
  BY DEF Always, Waiting, InOrder
<1>3. ASSUME UNCHANGED <<desk.outbox, says, asks, sealed>> PROVE Waiting'
  BY <1>2, <1>3 DEF Waiting, InOrder
<1> HIDE DEF box
<1>4. ASSUME UNCHANGED <<says, asks, sealed>>, NEW b, desk'.outbox = b, NEW k \in Nat, Cut(box, b, k)
      PROVE  Waiting'
  <2>1. Len(b) \in Nat /\ \A i \in 1..Len(b) : i + k \in 1..Len(box) /\ b[i] = box[i + k]
    BY <1>1, <1>4 DEF Cut
  <2>2. \A i, j \in 1..Len(b) : i < j => i + k < j + k  BY <1>1, <1>4, <2>1
  <2>3. \A i \in 1..Len(b) : /\ b[i] <= says
                             /\ b[i] > 0 => \A s \in sealed : s.dir = "d2p" => s.pay < b[i]
    BY <1>2, <2>1 DEF box
  <2>4. \A i, j \in 1..Len(b) : (i < j /\ b[i] > 0 /\ b[j] > 0) => b[i] < b[j]
    BY <1>2, <2>1, <2>2 DEF box
  <2> QED BY <1>2, <1>4, <2>3, <2>4 DEF Waiting, InOrder
<1>5. ASSUME UNCHANGED <<asks, sealed>>, NEW b, desk'.outbox = b,
             NEW x \in Int, Ended(box, b, Len(box), x),
             (x <= 0 /\ says' = says) \/ (x = says + 1 /\ says' = says + 1)
      PROVE  Waiting'
  <2>1. /\ Len(b) = Len(box) + 1 /\ b[Len(box) + 1] = x
        /\ \A i \in 1..Len(b) : i # Len(box) + 1 => i \in 1..Len(box) /\ b[i] = box[i]
    BY <1>1, <1>5 DEF Ended
  <2>2. \A s \in sealed : s.pay \in Int  BY <1>1 DEF Seals
  <2> USE DEF box
  <2>3. \A s \in sealed' : s.pay <= IF s.dir = "d2p" THEN says' ELSE asks'
    BY <1>1, <1>2, <1>5, <2>2
  <2>4. \A i \in 1..Len(b) : b[i] <= says'
    BY <1>1, <1>2, <1>5, <2>1
  <2>5. \A i \in 1..Len(b) : b[i] > 0 => \A s \in sealed : s.dir = "d2p" => s.pay < b[i]
    <3>1. x > 0 => \A s \in sealed : s.dir = "d2p" => s.pay < x
      BY <1>1, <1>2, <1>5, <2>2
    <3> QED BY <1>2, <2>1, <3>1
  <2>6. \A i, j \in 1..Len(b) : (i < j /\ b[i] > 0 /\ b[j] > 0) => b[i] < b[j]
    <3>1. x > 0 => \A i \in 1..Len(box) : box[i] < x
      BY <1>1, <1>2, <1>5
    <3>2. \A i, j \in 1..Len(b) : i < j => i # Len(box) + 1
      BY <1>1, <2>1
    <3> QED BY <1>2, <2>1, <3>1, <3>2
  <2> QED BY <1>5, <2>3, <2>4, <2>5, <2>6 DEF Waiting, InOrder
<1>6. CASE Wire \/ UNCHANGED vars
  BY <1>3, <1>6 DEF Wire, ends_vars, vars
<1>7. CASE Say
  <2>1. /\ says' = says + 1 /\ UNCHANGED <<asks, sealed>>
        /\ desk' = [desk EXCEPT !.outbox = Append(@, says')]
    BY <1>7 DEF Say
  <2>2. desk'.outbox = Append(box, says + 1)  BY <1>1, <2>1 DEF Desks, box
  <2>3. says + 1 \in Pay
    <3>1. says < MaxPay  BY <1>7 DEF Say
    <3> QED BY <1>1, <3>1, Bounds DEF Pay
  <2> DEFINE b == Append(box, says + 1)
  <2>4. Ended(box, b, Len(box), says + 1)  BY <1>1, <2>3, AddsOne
  <2> HIDE DEF b
  <2>5. desk'.outbox = b /\ says + 1 \in Int  BY <1>1, <2>2 DEF b
  <2> QED BY <1>5, <2>1, <2>4, <2>5
<1>8. CASE DeskLost \/ Drained \/ Refill
  BY <1>1, <1>3, <1>8 DEF DeskLost, DeskNext, Drained, Refill, Desks
<1>9. CASE DeskOpen
  <2>1. /\ UNCHANGED <<says, asks, sealed>>
        /\ desk' = [desk EXCEPT !.id = links', !.seq = 0, !.last = 0, !.up = TRUE,
                                !.outbox = <<0>> \o box]
    BY <1>9 DEF DeskOpen, DeskNext, box
  <2> DEFINE b == <<0>> \o box
  <2>2. Len(b) = Len(box) + 1 /\ \A i \in 1..Len(b) : b[i] = IF i = 1 THEN 0 ELSE box[i - 1]
    <3>1. <<0>> \in Seq(Pay) /\ Len(<<0>>) = 1 /\ <<0>>[1] = 0  BY Bounds
    <3>2. /\ Len(b) = Len(<<0>>) + Len(box)
          /\ \A i \in 1..Len(<<0>>) + Len(box) :
                b[i] = IF i <= Len(<<0>>) THEN <<0>>[i] ELSE box[i - Len(<<0>>)]
      BY <1>1, <3>1, ConcatProperties
    <3> QED BY <1>1, <3>1, <3>2
  <2> HIDE DEF b
  <2>3. desk' = [desk EXCEPT !.id = links', !.seq = 0, !.last = 0, !.up = TRUE, !.outbox = b]
    BY <2>1 DEF b
  <2>4. desk'.outbox = b  BY <1>1, <2>3 DEF Desks
  <2>5. \A i \in 1..Len(b) : b[i] > 0 => i - 1 \in 1..Len(box) /\ b[i] = box[i - 1]
    BY <1>1, <2>2
  <2>6. \A i \in 1..Len(b) : b[i] = 0 \/ (i - 1 \in 1..Len(box) /\ b[i] = box[i - 1])
    <3> TAKE i \in 1..Len(b)
    <3>1. CASE i = 1  BY <2>2, <3>1
    <3>2. CASE i # 1
      <4>1. i - 1 \in 1..Len(box)  BY <1>1, <2>2, <3>2
      <4> QED BY <2>2, <3>2, <4>1
    <3> QED BY <3>1, <3>2
  <2>7. \A i \in 1..Len(b) :
            /\ b[i] <= says
            /\ b[i] > 0 => \A s \in sealed : s.dir = "d2p" => s.pay < b[i]
    BY <1>1, <1>2, <2>5, <2>6
  <2>8. \A i, j \in 1..Len(b) : (i < j /\ b[i] > 0 /\ b[j] > 0) => b[i] < b[j]
    <3> TAKE i, j \in 1..Len(b)
    <3>1. i < j => i - 1 < j - 1  BY <1>1, <2>2
    <3> QED BY <1>2, <2>5, <3>1
  <2> QED BY <1>2, <2>1, <2>4, <2>7, <2>8 DEF Waiting, InOrder
<1>10. CASE DeskCmd
  <2> DEFINE c == evs["desk"][1]
  <2>1. /\ UNCHANGED <<says, asks, sealed>> /\ c \in Cmds
        /\ Opened1(c) \/ UNCHANGED desk
    BY <1>1, <1>10, DeskCmdStep, DeskTakes
  <2> HIDE DEF c
  <2>2. CASE UNCHANGED desk.outbox  BY <1>3, <2>1, <2>2
  <2>3. CASE desk' = [desk EXCEPT !.last = c.seq, !.allow = @ - 1, !.outbox = Append(@, -c.pay)]
    <3>1. PICK y \in Int : y = -c.pay /\ y \in Pay /\ y <= 0
      BY <2>1, Bounds DEF Cmds, Pay
    <3>2. desk'.outbox = Append(box, y)  BY <1>1, <2>3, <3>1 DEF Desks, box
    <3>3. PICK r : r = Append(box, y)  OBVIOUS
    <3>4. Ended(box, r, Len(box), y)  BY <1>1, <3>1, <3>3, AddsOne
    <3>5. UNCHANGED <<asks, sealed>> /\ says' = says /\ desk'.outbox = r  BY <2>1, <3>2, <3>3
    <3> QED BY <1>5, <3>1, <3>4, <3>5
  <2>4. CASE desk' = [desk EXCEPT !.last = c.seq]
    BY <1>1, <2>2, <2>4 DEF Desks
  <2> QED BY <2>1, <2>2, <2>3, <2>4 DEF Opened1
<1>11. CASE Flush
  <2>1. UNCHANGED <<says, asks>> /\ (Sends \/ Keeps)  BY <1>1, <1>11, FlushStep
  <2>2. CASE Keeps  BY <1>4, <2>1, <2>2 DEF Keeps, box
  <2>3. CASE Sends
    <3>1. /\ desk'.outbox = <<>>
          /\ sealed' = sealed \cup {Sealed("d2p", desk.id, desk.seq + i, box[i]) : i \in 1..Len(box)}
      BY <1>1, <2>3 DEF Sends, Desks, box
    <3>2. \A s \in sealed' : s.pay <= IF s.dir = "d2p" THEN says ELSE asks
      BY <1>2, <3>1 DEF Sealed
    <3> QED BY <2>1, <3>1, <3>2 DEF Waiting, InOrder
  <2> QED BY <2>1, <2>2, <2>3
<1>12. CASE TakeOver
  <2>1. desk'.outbox = <<>> /\ UNCHANGED <<says, asks, sealed>>  BY <1>12 DEF TakeOver, DeskOn
  <2> QED BY <1>2, <2>1 DEF Waiting, InOrder
<1>13. CASE PhoneStep
  BY <1>3, <1>13 DEF PhoneStep, PhoneOpen, Ask, PhoneLost, PhoneEvt, PhoneGap, PhoneNext
<1>14. CASE PhoneSay
  <2>1. /\ UNCHANGED <<desk, says>> /\ asks' = asks + 1
        /\ sealed' = sealed \cup {Sealed("p2d", phone.desk, phone.seq + 1, asks + 1)}
    BY <1>1, <1>14, PhoneSayStep
  <2>2. \A s \in sealed : s.pay \in Int  BY <1>1 DEF Seals
  <2>3. \A s \in sealed' : /\ s.pay <= IF s.dir = "d2p" THEN says' ELSE asks'
                           /\ s.dir = "d2p" => s \in sealed
    BY <1>1, <1>2, <2>1, <2>2 DEF Sealed
  <2> QED BY <1>2, <2>1, <2>3 DEF Waiting, InOrder, box
<1> QED BY <1>6, <1>7, <1>8, <1>9, <1>10, <1>11, <1>12, <1>13, <1>14 DEF Next, DeskStep

LEMMA Lengths ==
    ASSUME Types
    PROVE  /\ Len(log) \in Nat /\ \A n \in 1..Len(log) : log[n] \in Evts
           /\ Len(out["desk"]) \in Nat /\ \A i \in 1..Len(out["desk"]) : out["desk"][i] \in Pubs
           /\ Len(out["phone"]) \in Nat /\ \A i \in 1..Len(out["phone"]) : out["phone"][i] \in Asked
           /\ Len(evs["desk"]) \in Nat /\ \A i \in 1..Len(evs["desk"]) : evs["desk"][i] \in DeskEvents
           /\ Len(evs["phone"]) \in Nat /\ \A i \in 1..Len(evs["phone"]) : evs["phone"][i] \in PhoneEvents
<1>1. /\ log \in Seq(Evts) /\ out["desk"] \in Seq(Pubs) /\ out["phone"] \in Seq(Asked)
      /\ evs["desk"] \in Seq(DeskEvents) /\ evs["phone"] \in Seq(PhoneEvents)
  BY DEF Types, DeskOut, PhoneOut, DeskIn, PhoneIn, Asked, DeskEvents, PhoneEvents
<1> QED BY <1>1, LenProperties, ElementOfSeq

\* A frame is made under a seal, and passed on as it is.
LEMMA UnderwayStep == Always /\ [Next]_vars => Underway'
<1> SUFFICES ASSUME Always, [Next]_vars PROVE Underway'
  OBVIOUS
<1> DEFINE S(dir, f) == Sealing(dir, f) \in sealed'
           LogOk == \A n \in 1..Len(log') : S("d2p", log'[n])
           PubsOk == \A i \in 1..Len(out'["desk"]) : S("d2p", out'["desk"][i])
           AsksOk == \A i \in 1..Len(out'["phone"]) :
                        out'["phone"][i].t = "cmd" => S("p2d", out'["phone"][i])
           CmdsOk == \A i \in 1..Len(evs'["desk"]) :
                        evs'["desk"][i].t = "cmd" => S("p2d", evs'["desk"][i])
           TakenOk == \A c \in carried' : S("p2d", c)
<1>1. Types /\ Underway /\ sealed \subseteq sealed'
  <2>1. ASSUME PhoneStep PROVE sealed' = sealed
    BY <2>1 DEF PhoneStep, PhoneOpen, Ask, PhoneLost, PhoneEvt, PhoneGap, PhoneNext
  <2>2. ASSUME Say \/ DeskOpen \/ DeskLost \/ DeskCmd \/ Drained \/ Refill \/ TakeOver
        PROVE  sealed' = sealed
    BY <2>2 DEF Say, DeskOpen, DeskLost, DeskCmd, DeskNext, Drained, Refill, TakeOver
  <2>3. ASSUME Wire \/ UNCHANGED vars PROVE sealed' = sealed
    BY <2>3 DEF Wire, ends_vars, vars
  <2>4. ASSUME Flush \/ PhoneSay PROVE sealed \subseteq sealed'
    BY <2>4 DEF Flush, PhoneSay
  <2> QED BY <2>1, <2>2, <2>3, <2>4 DEF Always, Next, DeskStep
<1>2. /\ Len(log) \in Nat /\ Len(out["desk"]) \in Nat /\ Len(out["phone"]) \in Nat
      /\ Len(evs["desk"]) \in Nat
  BY <1>1, Lengths
<1>3. ASSUME LogOk, PubsOk, AsksOk, CmdsOk, TakenOk PROVE Underway'
  BY <1>3 DEF Underway, Was
<1>4. log' = log => LogOk  BY <1>1 DEF Underway, Was
<1>5. out'["desk"] = out["desk"] \/ Of(out["desk"], out'["desk"]) => PubsOk
  BY <1>1 DEF Underway, Was, Of
<1>6. out'["phone"] = out["phone"] \/ Of(out["phone"], out'["phone"]) => AsksOk
  BY <1>1 DEF Underway, Was, Of
<1>7. evs'["desk"] = evs["desk"] \/ Of(evs["desk"], evs'["desk"]) => CmdsOk
  BY <1>1 DEF Underway, Was, Of
<1>8. \A x : Plus(evs["desk"], evs'["desk"], x) /\ (x.t = "cmd" => S("p2d", x)) => CmdsOk
  BY <1>1 DEF Underway, Was, Plus
<1>9. carried' \subseteq carried => TakenOk
  BY <1>1 DEF Underway, Was
<1> HIDE DEF LogOk, PubsOk, AsksOk, CmdsOk, TakenOk
<1>10. ASSUME NEW e \in Ends, Connect(e) \/ DialFails(e) \/ Break(e) PROVE Underway'
  <2>1. /\ SocketMoves(e) /\ UNCHANGED <<log, carried>>
        /\ \A d \in Ends : d # e => evs'[d] = evs[d] /\ out'[d] = out[d]
    BY <1>1, <1>10, SocketStep
  <2>2. CASE e = "desk"
    <3>1. PICK k, sent \in Nat, x \in {Open, Lost} :
            Ended(evs["desk"], evs'["desk"], k, x) /\ Cut(out["desk"], out'["desk"], sent)
      BY <2>1, <2>2, DeskMoves
    <3>2. Of(out["desk"], out'["desk"])  BY <1>2, <3>1, CutOf
    <3>3. Plus(evs["desk"], evs'["desk"], x)  BY <1>2, <3>1, EndedPlus
    <3>4. x.t # "cmd"  BY <3>1 DEF Open, Lost
    <3>5. CmdsOk  BY <1>8, <3>3, <3>4
    <3> QED BY <1>3, <1>4, <1>5, <1>6, <1>9, <2>1, <2>2, <3>2, <3>5 DEF Ends
  <2>3. CASE e = "phone"
    <3>1. PICK k, sent \in Nat, x \in {Open, Lost} : Moved(k, sent, x)
      BY <1>1, <2>1, <2>3, PhoneMoves
    <3>2. \A i \in 1..Len(out'["phone"]) :
             /\ i + sent \in 1..Len(out["phone"])
             /\ out'["phone"][i].t = "cmd" => out'["phone"][i] = out["phone"][i + sent]
      BY <3>1 DEF Moved
    <3>3. AsksOk  BY <1>1, <3>2 DEF Underway, Was, AsksOk
    <3> QED BY <1>3, <1>4, <1>5, <1>7, <1>9, <2>1, <2>3, <3>3 DEF Ends
  <2> QED BY <2>2, <2>3 DEF Ends
<1>11. CASE Publish
  <2> DEFINE p == out["desk"][1]
  <2>1. /\ 1 \in 1..Len(out["desk"]) /\ Ended(log, log', Len(log), Stored(p))
        /\ Cut(out["desk"], out'["desk"], 1) /\ out'["phone"] = out["phone"]
        /\ evs'["desk"] = evs["desk"] /\ carried' = carried
    BY <1>1, <1>11, PublishStep
  <2>2. S("d2p", Stored(p))
    <3>1. S("d2p", p)  BY <1>1, <2>1 DEF Underway, Was
    <3> QED BY <3>1 DEF Sealing, Stored
  <2>3. LogOk
    <3>1. Plus(log, log', Stored(p))  BY <1>2, <2>1, EndedPlus
    <3> QED BY <1>1, <2>2, <3>1 DEF Underway, Was, Plus, LogOk
  <2>4. Of(out["desk"], out'["desk"])  BY <1>2, <2>1, CutOf
  <2> QED BY <1>3, <1>5, <1>6, <1>7, <1>9, <2>1, <2>3, <2>4
<1>12. CASE Refuse
  <2>1. /\ UNCHANGED <<log, evs, carried>> /\ out'["phone"] = out["phone"]
        /\ Cut(out["desk"], out'["desk"], 1)
    BY <1>1, <1>12, RefuseStep
  <2>2. Of(out["desk"], out'["desk"])  BY <1>2, <2>1, CutOf
  <2> QED BY <1>3, <1>4, <1>5, <1>6, <1>7, <1>9, <2>1, <2>2
<1>13. CASE Subscribe
  <2>1. /\ UNCHANGED <<log, carried>> /\ out'["desk"] = out["desk"]
        /\ evs'["desk"] = evs["desk"] /\ Cut(out["phone"], out'["phone"], 1)
    BY <1>1, <1>13, SubscribeStep
  <2>2. Of(out["phone"], out'["phone"])  BY <1>2, <2>1, CutOf
  <2> QED BY <1>3, <1>4, <1>5, <1>6, <1>7, <1>9, <2>1, <2>2
<1>14. CASE Command
  <2> DEFINE c == out["phone"][1]
  <2>1. /\ 1 \in 1..Len(out["phone"]) /\ c \in Cmds /\ log' = log
        /\ Cut(out["phone"], out'["phone"], 1) /\ out'["desk"] = out["desk"]
        /\ \/ evs' = evs /\ carried' = carried
           \/ /\ Ended(evs["desk"], evs'["desk"], Len(evs["desk"]), c)
              /\ carried' = carried \cup {c}
    BY <1>1, <1>14, CommandStep
  <2>2. S("p2d", c)  BY <1>1, <2>1 DEF Underway, Was, Cmds
  <2> HIDE DEF c
  <2>3. Of(out["phone"], out'["phone"])  BY <1>2, <2>1, CutOf
  <2>4. CmdsOk
    <3>1. evs' = evs \/ Plus(evs["desk"], evs'["desk"], c)  BY <1>2, <2>1, EndedPlus
    <3> QED BY <1>7, <1>8, <2>2, <3>1
  <2>5. TakenOk
    <3>1. \A d \in carried' : d \in carried \/ d = c  BY <2>1
    <3> QED BY <1>1, <2>2, <3>1 DEF Underway, Was, TakenOk
  <2> QED BY <1>3, <1>4, <1>5, <1>6, <2>1, <2>3, <2>4, <2>5
<1>15. CASE Again
  <2>1. PICK c \in carried : Ended(evs["desk"], evs'["desk"], Len(evs["desk"]), c)
    BY <1>1, <1>15, AgainStep
  <2>2. UNCHANGED <<log, out>> /\ carried' \subseteq carried  BY <1>1, <1>15, AgainStep
  <2>3. CmdsOk
    <3>1. Plus(evs["desk"], evs'["desk"], c)  BY <1>2, <2>1, EndedPlus
    <3>2. S("p2d", c)  BY <1>1 DEF Underway, Was
    <3> QED BY <1>8, <3>1, <3>2
  <2> QED BY <1>3, <1>4, <1>5, <1>6, <1>9, <2>2, <2>3
<1>16. CASE Tidy \/ Calm \/ Say \/ Refill \/ Drained \/ UNCHANGED vars
  <2>1. UNCHANGED <<log, out, evs, carried>>
    BY <1>16 DEF Tidy, Calm, Say, Refill, Drained, vars, relay_vars
  <2> QED BY <1>3, <1>4, <1>5, <1>6, <1>7, <1>9, <2>1
<1>17. CASE DeskOpen \/ DeskLost \/ DeskCmd
  <2>1. PICK t : DeskNext(t)  BY <1>17 DEF DeskOpen, DeskLost, DeskCmd
  <2>2. UNCHANGED <<log, out, carried>> /\ Cut(evs["desk"], evs'["desk"], 1)
    BY <1>1, <2>1, DeskTakes
  <2>3. Of(evs["desk"], evs'["desk"])  BY <1>2, <2>2, CutOf
  <2> QED BY <1>3, <1>4, <1>5, <1>6, <1>7, <1>9, <2>2, <2>3
<1>18. CASE Flush
  <2>1. UNCHANGED <<log, evs, carried>> /\ (Sends \/ Keeps)  BY <1>1, <1>18, FlushStep
  <2>2. CASE Keeps  BY <1>3, <1>4, <1>5, <1>6, <1>7, <1>9, <2>1, <2>2 DEF Keeps
  <2>3. CASE Sends
    <3> DEFINE o == out["desk"]
               n == Len(desk.outbox)
    <3>1. n \in Nat
      <4>1. desk.outbox \in Seq(Pay)  BY <1>1 DEF Types, Desks
      <4> QED BY <4>1, LenProperties
    <3>2. /\ Len(out'["desk"]) = Len(o) + n
          /\ \A i \in 1..Len(o) : out'["desk"][i] = o[i]
          /\ \A i \in 1..n : out'["desk"][Len(o) + i] = FrameOf(i)
          /\ \A i \in 1..n : S("d2p", FrameOf(i))
          /\ out'["phone"] = out["phone"]
      BY <2>3 DEF Sends, Sealing, FrameOf
    <3> HIDE DEF n
    <3>3. PubsOk
      <4> SUFFICES ASSUME NEW i \in 1..Len(out'["desk"]) PROVE S("d2p", out'["desk"][i])
        BY DEF PubsOk
      <4>1. CASE i \in 1..Len(o)  BY <1>1, <3>2, <4>1 DEF Underway, Was
      <4>2. CASE i \notin 1..Len(o)
        <5>1. i - Len(o) \in 1..n /\ Len(o) + (i - Len(o)) = i  BY <1>2, <3>1, <3>2, <4>2
        <5>2. out'["desk"][i] = FrameOf(i - Len(o))  BY <3>2, <5>1
        <5> QED BY <3>2, <5>1, <5>2
      <4> QED BY <4>1, <4>2
    <3> QED BY <1>3, <1>4, <1>6, <1>7, <1>9, <2>1, <3>2, <3>3
  <2> QED BY <2>1, <2>2, <2>3
<1>19. CASE TakeOver
  <2>1. /\ out'["desk"] = <<>> /\ out'["phone"] = out["phone"]
        /\ evs'["desk"] = <<>> /\ UNCHANGED <<log, carried>>
    BY <1>1, <1>19 DEF TakeOver, Types
  <2>2. PubsOk /\ CmdsOk  BY <2>1 DEF PubsOk, CmdsOk
  <2> QED BY <1>3, <1>4, <1>6, <1>9, <2>1, <2>2
<1>20. CASE PhoneStep
  <2>1. PICK t : PhoneNext(t)
    BY <1>20 DEF PhoneStep, PhoneOpen, Ask, PhoneLost, PhoneEvt, PhoneGap
  <2>2. evs'["desk"] = evs["desk"] /\ UNCHANGED <<log, carried>>  BY <1>1, <2>1, PhoneTakes
  <2>3. CASE PhoneOpen
    <3>1. /\ out'["desk"] = out["desk"] /\ Wants \in Subs
          /\ Ended(out["phone"], out'["phone"], Len(out["phone"]), Wants)
      BY <1>1, <2>3, PhoneOpenStep
    <3>2. Plus(out["phone"], out'["phone"], Wants) /\ Wants.t # "cmd"
      BY <1>2, <3>1, EndedPlus DEF Wants
    <3>3. AsksOk  BY <1>1, <3>2 DEF Underway, Was, Plus, AsksOk
    <3> QED BY <1>3, <1>4, <1>5, <1>7, <1>9, <2>2, <3>1, <3>3
  <2>4. CASE ~PhoneOpen
    <3>1. out' = out  BY <1>20, <2>4 DEF PhoneStep, PhoneLost, PhoneEvt, PhoneGap
    <3> QED BY <1>3, <1>4, <1>5, <1>6, <1>7, <1>9, <2>2, <3>1
  <2> QED BY <2>3, <2>4
<1>21. CASE PhoneSay
  <2>1. /\ out'["desk"] = out["desk"] /\ UNCHANGED <<log, evs, carried>>
        /\ Ended(out["phone"], out'["phone"], Len(out["phone"]), Typed)
        /\ sealed' = sealed \cup {Sealed("p2d", phone.desk, phone.seq + 1, asks + 1)}
    BY <1>1, <1>21, PhoneSayStep
  <2>2. Plus(out["phone"], out'["phone"], Typed) /\ S("p2d", Typed)
    <3>1. Sealing("p2d", Typed) = Sealed("p2d", phone.desk, phone.seq + 1, asks + 1)
      BY DEF Sealing, Typed
    <3> QED BY <1>2, <2>1, <3>1, EndedPlus
  <2>3. AsksOk  BY <1>1, <2>2 DEF Underway, Was, Plus, AsksOk
  <2> QED BY <1>3, <1>4, <1>5, <1>7, <1>9, <2>1, <2>3
<1> QED BY <1>10, <1>11, <1>12, <1>13, <1>14, <1>15, <1>16, <1>17, <1>18, <1>19, <1>20, <1>21
        DEF Next, Wire, Hub, DeskStep

\* What is sealed now comes after all that was.
LEMMA NewIsLater ==
    ASSUME Types, Counted, NEW s \in sealed, s.dir = "d2p", NEW i \in 1..Len(desk.outbox)
    PROVE  Before(s, FrameOf(i))
<1>1. UpTo(s, DeskAt)  BY DEF Counted, InTurn
<1>2. s.link \in Nat /\ s.seq \in Nat /\ desk.id \in Nat /\ desk.seq \in Nat /\ i \in Nat /\ i > 0
  <2>1. desk \in Desks /\ sealed \subseteq Seals  BY DEF Types
  <2>2. desk.outbox \in Seq(Pay)  BY <2>1 DEF Desks
  <2> QED BY <2>1, <2>2, LenProperties DEF Desks, Seals
<1> QED BY <1>1, <1>2 DEF UpTo, Before, FrameOf, DeskAt, At

\* What is sent now comes after all that was.
LEMMA SentIsLater ==
    ASSUME Types, Counted, Sends, NEW s \in sealed, s.dir = "d2p"
    PROVE  \A i \in 1..Len(out'["desk"]) : i > Len(out["desk"]) => Before(s, out'["desk"][i])
<1> DEFINE n == Len(desk.outbox)
           o == out["desk"]
<1>1. n \in Nat /\ Len(o) \in Nat
  <2>1. desk.outbox \in Seq(Pay)  BY DEF Types, Desks
  <2> QED BY <2>1, LenProperties, Lengths
<1>2. Len(out'["desk"]) = Len(o) + n /\ \A i \in 1..n : out'["desk"][Len(o) + i] = FrameOf(i)
  BY DEF Sends
<1>3. \A i \in 1..n : Before(s, FrameOf(i))  BY NewIsLater
<1> HIDE DEF n, o
<1> SUFFICES ASSUME NEW i \in 1..Len(out'["desk"]), i > Len(o) PROVE Before(s, out'["desk"][i])
  BY DEF o
<1>4. i - Len(o) \in 1..n /\ Len(o) + (i - Len(o)) = i  BY <1>1, <1>2
<1> QED BY <1>2, <1>3, <1>4

\* Frames are stored in the order in which they were sealed.
LEMMA AlongStep == Always /\ [Next]_vars => Along'
<1> SUFFICES ASSUME Always, [Next]_vars PROVE Along'
  OBVIOUS
<1> DEFINE o == out["desk"]
<1>1. Types /\ Along /\ Len(log) \in Nat /\ Len(o) \in Nat
  BY Lengths DEF Always
<1>2. /\ \A n \in 1..Len(log) : log[n].n = n
      /\ \A m, n \in 1..Len(log) : m < n => Before(log[m], log[n])
      /\ \A i, j \in 1..Len(o) : i < j => Before(o[i], o[j])
      /\ \A n \in 1..Len(log), i \in 1..Len(o) : Before(log[n], o[i])
  BY <1>1 DEF Along
<1>3. ASSUME log' = log, out'["desk"] = o PROVE Along'
  BY <1>2, <1>3 DEF Along
<1>4. ASSUME log' = log, NEW k \in Nat, Cut(o, out'["desk"], k) PROVE Along'
  <2> DEFINE r == out'["desk"]
  <2>1. \A i \in 1..Len(r) : i + k \in 1..Len(o) /\ r[i] = o[i + k]
    BY <1>1, <1>4, CutOf
  <2>2. Len(r) \in Nat  BY <1>1, <1>4, CutOf
  <2> HIDE DEF r
  <2>3. \A i, j \in 1..Len(r) : i < j => Before(r[i], r[j])
    <3>1. \A i, j \in 1..Len(r) : i < j => i + k < j + k  BY <1>4, <2>2
    <3> QED BY <1>2, <2>1, <3>1 DEF o
  <2>4. \A n \in 1..Len(log), i \in 1..Len(r) : Before(log[n], r[i])
    BY <1>2, <2>1 DEF o
  <2> QED BY <1>2, <1>4, <2>3, <2>4 DEF Along, r
<1> HIDE DEF o
<1>5. CASE Publish
  <2> DEFINE p == o[1]
             r == out'["desk"]
             x == Stored(p)
  <2>1. /\ 1 \in 1..Len(o) /\ Ended(log, log', Len(log), x) /\ Cut(o, r, 1)
    BY <1>1, <1>5, PublishStep DEF o
  <2>2. x.n = Len(log) + 1 /\ x.link = p.link /\ x.seq = p.seq  BY DEF Stored
  <2>3. \A f : (Before(f, p) <=> Before(f, x)) /\ (Before(p, f) <=> Before(x, f))
    BY <2>2 DEF Before
  <2>4. /\ Len(r) \in Nat /\ \A i \in 1..Len(r) : i + 1 \in 1..Len(o) /\ r[i] = o[i + 1]
    BY <1>1, <2>1, CutOf DEF o
  <2>5. /\ Len(log') = Len(log) + 1 /\ log'[Len(log) + 1] = x
        /\ \A n \in 1..Len(log') : n # Len(log) + 1 => n \in 1..Len(log) /\ log'[n] = log[n]
    BY <1>1, <2>1, EndedPlus
  <2> HIDE DEF r, x, p
  <2>6. \A n \in 1..Len(log') : log'[n].n = n  BY <1>2, <2>2, <2>5
  <2>7. \A m, n \in 1..Len(log') : m < n => Before(log'[m], log'[n])
    <3>1. \A m, n \in 1..Len(log') : m < n => m # Len(log) + 1  BY <1>1, <2>5
    <3>2. \A m \in 1..Len(log) : Before(log[m], x)  BY <1>2, <2>1, <2>3 DEF o, p
    <3> QED BY <1>2, <2>5, <3>1, <3>2
  <2>8. \A i, j \in 1..Len(r) : i < j => Before(r[i], r[j])
    <3>1. \A i, j \in 1..Len(r) : i < j => i + 1 < j + 1  BY <2>4
    <3> QED BY <1>2, <2>4, <3>1 DEF o
  <2>9. \A n \in 1..Len(log'), i \in 1..Len(r) : Before(log'[n], r[i])
    <3>1. \A i \in 1..Len(r) : 1 < i + 1  BY <2>4
    <3>2. \A i \in 1..Len(r) : Before(x, r[i])
      BY <1>2, <2>1, <2>3, <2>4, <3>1 DEF o, p
    <3>3. \A n \in 1..Len(log), i \in 1..Len(r) : Before(log[n], r[i])
      BY <1>2, <2>4 DEF o
    <3> QED BY <2>5, <3>2, <3>3
  <2> QED BY <2>6, <2>7, <2>8, <2>9 DEF Along, r
<1>6. CASE Refuse  BY <1>1, <1>4, <1>6, RefuseStep DEF o
<1>7. CASE Subscribe  BY <1>1, <1>3, <1>7, SubscribeStep DEF o
<1>8. CASE Command  BY <1>1, <1>3, <1>8, CommandStep DEF o
<1>9. CASE Again \/ Tidy \/ Calm \/ Say \/ Refill \/ Drained \/ UNCHANGED vars
  BY <1>3, <1>9 DEF Again, Tidy, Calm, Say, Refill, Drained, vars, relay_vars, o
<1>10. ASSUME NEW e \in Ends, Connect(e) \/ DialFails(e) \/ Break(e) PROVE Along'
  <2>1. /\ SocketMoves(e) /\ log' = log
        /\ \A d \in Ends : d # e => out'[d] = out[d]
    BY <1>1, <1>10, SocketStep
  <2>2. CASE e = "desk"
    <3>1. PICK sent \in Nat : Cut(o, out'["desk"], sent)  BY <2>1, <2>2, DeskMoves DEF o
    <3> QED BY <1>4, <2>1, <3>1
  <2>3. CASE e = "phone"  BY <1>3, <2>1, <2>3 DEF Ends, o
  <2> QED BY <2>2, <2>3 DEF Ends
<1>11. CASE DeskOpen \/ DeskLost \/ DeskCmd
  BY <1>3, <1>11 DEF DeskOpen, DeskLost, DeskCmd, DeskNext, o
<1>12. CASE Flush
  <2>1. log' = log /\ (Sends \/ Keeps)  BY <1>1, <1>12, FlushStep
  <2>2. CASE Keeps  BY <1>3, <2>1, <2>2 DEF Keeps, o
  <2>3. CASE Sends
    <3> DEFINE n == Len(desk.outbox)
               r == out'["desk"]
    <3>1. Counted /\ Underway /\ n \in Nat
      <4>1. desk.outbox \in Seq(Pay)  BY <1>1 DEF Types, Desks
      <4> QED BY <4>1, LenProperties DEF Always
    <3>2. /\ Len(r) = Len(o) + n /\ \A i \in 1..Len(o) : r[i] = o[i]
          /\ \A i \in 1..n : r[Len(o) + i] = FrameOf(i)
      BY <2>3 DEF Sends, o
    <3>3. ASSUME NEW s \in sealed, s.dir = "d2p"
          PROVE  \A i \in 1..Len(r) : i > Len(o) => Before(s, r[i])
      BY <1>1, <2>3, <3>1, <3>3, SentIsLater DEF o
    <3> HIDE DEF n, r
    <3>4. ASSUME NEW f, Was("d2p", f), NEW i \in 1..Len(r), i > Len(o) PROVE Before(f, r[i])
      <4>1. Before(Sealing("d2p", f), r[i])
        BY <3>3, <3>4 DEF Was, Sealing, Sealed
      <4> QED BY <4>1 DEF Before, Sealing, Sealed
    <3>5. \A m \in 1..Len(log), i \in 1..Len(r) : Before(log[m], r[i])
      <4> TAKE m \in 1..Len(log), i \in 1..Len(r)
      <4>1. CASE i > Len(o)  BY <3>1, <3>4, <4>1 DEF Underway
      <4>2. CASE ~(i > Len(o))
        <5>1. i \in 1..Len(o)  BY <1>1, <3>1, <3>2, <4>2
        <5> QED BY <1>2, <3>2, <5>1
      <4> QED BY <4>1, <4>2
    <3>6. \A i, j \in 1..Len(r) : i < j => Before(r[i], r[j])
      <4> SUFFICES ASSUME NEW i \in 1..Len(r), NEW j \in 1..Len(r), i < j PROVE Before(r[i], r[j])
        OBVIOUS
      <4>1. CASE i \in 1..Len(o) /\ j > Len(o)
        <5>1. Was("d2p", o[i]) /\ r[i] = o[i]  BY <3>1, <3>2, <4>1 DEF Underway, o
        <5> QED BY <3>4, <4>1, <5>1
      <4>2. CASE ~(j > Len(o))
        <5>1. i \in 1..Len(o) /\ j \in 1..Len(o)  BY <1>1, <3>1, <3>2, <4>2
        <5> QED BY <1>2, <3>2, <5>1
      <4>3. CASE i \notin 1..Len(o)
        <5>1. PICK a \in 1..n, b \in 1..n : i = Len(o) + a /\ j = Len(o) + b /\ a < b
          <6>1. /\ i - Len(o) \in 1..n /\ j - Len(o) \in 1..n
                /\ i = Len(o) + (i - Len(o)) /\ j = Len(o) + (j - Len(o))
                /\ i - Len(o) < j - Len(o)
            BY <1>1, <3>1, <3>2, <4>3
          <6> QED BY <6>1
        <5>2. r[i] = FrameOf(a) /\ r[j] = FrameOf(b)  BY <3>2, <5>1
        <5>3. desk.seq \in Nat /\ desk.id \in Nat  BY <1>1 DEF Types, Desks
        <5>4. Before(FrameOf(a), FrameOf(b))  BY <3>1, <5>1, <5>3 DEF Before, FrameOf
        <5> QED BY <5>2, <5>4
      <4> QED BY <4>1, <4>2, <4>3
    <3> QED BY <1>2, <2>1, <3>5, <3>6 DEF Along, r
  <2> QED BY <2>1, <2>2, <2>3
<1>13. CASE TakeOver
  <2>1. out'["desk"] = <<>> /\ log' = log  BY <1>1, <1>13 DEF TakeOver, Types
  <2> QED BY <1>2, <2>1 DEF Along
<1>14. CASE PhoneStep
  <2>1. PICK t : PhoneNext(t)
    BY <1>14 DEF PhoneStep, PhoneOpen, Ask, PhoneLost, PhoneEvt, PhoneGap
  <2>2. log' = log  BY <1>1, <2>1, PhoneTakes
  <2>3. out'["desk"] = o
    <3>1. CASE PhoneOpen  BY <1>1, <3>1, PhoneOpenStep DEF o
    <3>2. CASE ~PhoneOpen
      BY <1>14, <3>2 DEF PhoneStep, PhoneLost, PhoneEvt, PhoneGap, o
    <3> QED BY <3>1, <3>2
  <2> QED BY <1>3, <2>2, <2>3
<1>15. CASE PhoneSay  BY <1>1, <1>3, <1>15, PhoneSayStep DEF o
<1> QED BY <1>5, <1>6, <1>7, <1>8, <1>9, <1>10, <1>11, <1>12, <1>13, <1>14, <1>15
        DEF Next, Wire, Hub, DeskStep

\* What a replay is made of.
Replayed(s, q, r) ==
    LET g == Left(s)
        first == After(s)
        last == LastOf(s)
    IN  /\ g \in {0, 1} /\ first \in Nat /\ last \in Int
        /\ first > s /\ first >= 1 /\ last <= Len(log) /\ last >= 0
        /\ g = 1 => /\ first = oldest /\ oldest \in 1..Len(log) /\ s > 0 /\ first <= last
                    /\ r[Len(q) + 1] = [t |-> "gap", from |-> oldest] /\ Len(q) + 1 \in 1..Len(r)
        /\ g = 0 => s = 0 \/ Oldest = 0 \/ first = s + 1
        /\ Len(r) \in Nat
        /\ \A i \in 1..Len(q) : i \in 1..Len(r) /\ r[i] = q[i]
        /\ \A i \in 1..Len(r) :
              \/ i \in 1..Len(q)
              \/ g = 1 /\ i = Len(q) + 1
              \/ /\ i > Len(q) + g
                 /\ \E n \in first..last : n = first + (i - (Len(q) + g)) - 1 /\ r[i] = log[n]
        /\ \A n \in first..last : \E i \in 1..Len(r) : i > Len(q) + g /\ r[i] = log[n]
LEMMA ReplayIs ==
    ASSUME Types, NEW s \in Nat, NEW q, NEW r, Len(q) \in Nat, Replay(s, q, r)
    PROVE  Replayed(s, q, r)
<1> DEFINE g == Left(s)
           first == After(s)
           last == LastOf(s)
<1>1. Len(log) \in Nat /\ oldest \in 1..Len(log) + 1 /\ Limit \in Nat /\ Limit >= 1
  BY Lengths, Bounds DEF Types
<1>2. first = IF s + 1 >= oldest THEN s + 1 ELSE oldest
  BY <1>1, MaxOfTwo DEF After
<1>3. first \in Nat /\ first > s /\ first >= 1  BY <1>1, <1>2
<1>4. last = IF Len(log) <= first + Limit - 1 THEN Len(log) ELSE first + Limit - 1
  <2> HIDE DEF first
  <2>1. first + Limit - 1 \in Int  BY <1>1, <1>3
  <2> QED BY <1>1, <2>1, MinOfTwo DEF LastOf, first
<1>5. last \in Int /\ last <= Len(log) /\ last >= 0
  <2> HIDE DEF first, last
  <2> QED BY <1>1, <1>3, <1>4
<1>6. /\ g \in {0, 1}
      /\ g = 1 => first = oldest /\ oldest \in 1..Len(log) /\ s > 0
      /\ g = 0 => s = 0 \/ Oldest = 0 \/ first = s + 1
  <2>1. Oldest = IF oldest > Len(log) THEN 0 ELSE oldest  BY DEF Oldest
  <2>2. g = IF s > 0 /\ Oldest > s + 1 THEN 1 ELSE 0  BY DEF Left
  <2> HIDE DEF g, first
  <2>3. CASE oldest > Len(log)
    <3>1. Oldest = 0 /\ ~(0 > s + 1)  BY <2>1, <2>3
    <3> QED BY <2>2, <3>1
  <2>4. CASE ~(oldest > Len(log))
    <3>1. Oldest = oldest /\ oldest \in 1..Len(log)  BY <1>1, <2>1, <2>4
    <3> QED BY <1>1, <1>2, <2>2, <3>1
  <2> QED BY <2>3, <2>4
<1>7. /\ Len(r) = Len(q) + g + (IF first <= last THEN last - first + 1 ELSE 0)
      /\ \A i \in 1..Len(q) : r[i] = q[i]
      /\ g = 1 => r[Len(q) + 1] = [t |-> "gap", from |-> oldest]
      /\ \A i \in Len(q) + g + 1..Len(r) : r[i] = log[first + (i - (Len(q) + g)) - 1]
  BY DEF Replay
<1> HIDE DEF g, first, last
<1>13. g = 1 => first <= last  BY <1>1, <1>3, <1>4, <1>6
<1>8. Len(r) \in Nat /\ Len(r) >= Len(q) + g  BY <1>3, <1>5, <1>6, <1>7
<1>9. \A i \in 1..Len(q) : i \in 1..Len(r) /\ r[i] = q[i]  BY <1>6, <1>7, <1>8
<1>10. g = 1 => Len(q) + 1 \in 1..Len(r)  BY <1>8
<1>11. ASSUME NEW i \in 1..Len(r)
       PROVE  \/ i \in 1..Len(q)
              \/ g = 1 /\ i = Len(q) + 1
              \/ /\ i > Len(q) + g
                 /\ \E n \in first..last : n = first + (i - (Len(q) + g)) - 1 /\ r[i] = log[n]
  <2>1. CASE i > Len(q) + g
    <3> DEFINE n == first + (i - (Len(q) + g)) - 1
    <3>1. i \in Len(q) + g + 1..Len(r)  BY <1>6, <1>8, <2>1
    <3>2. r[i] = log[n]  BY <1>7, <3>1
    <3>3. n \in first..last  BY <1>3, <1>5, <1>6, <1>7, <1>8, <2>1
    <3> QED BY <2>1, <3>2, <3>3
  <2>2. CASE ~(i > Len(q) + g)  BY <1>6, <1>8, <2>2
  <2> QED BY <2>1, <2>2
<1>12. ASSUME NEW n \in first..last
       PROVE  \E i \in 1..Len(r) : i > Len(q) + g /\ r[i] = log[n]
  <2> DEFINE i == Len(q) + g + (n - first) + 1
  <2>1. /\ i \in Len(q) + g + 1..Len(r) /\ i \in 1..Len(r) /\ i > Len(q) + g
        /\ first + (i - (Len(q) + g)) - 1 = n
    BY <1>3, <1>5, <1>6, <1>7, <1>8
  <2> HIDE DEF i
  <2>2. r[i] = log[n]  BY <1>7, <2>1
  <2> QED BY <2>1, <2>2
<1> QED BY <1>3, <1>5, <1>6, <1>7, <1>8, <1>9, <1>10, <1>11, <1>12, <1>13
       DEF Replayed, g, first, last

-----------------------------------------------------------------------------
(***************************************************************************)
(* What holds however late an asking comes.                                *)
(***************************************************************************)

\* The phone reads, and asks for, what the log has numbered.
LEMMA NumbersStep == Always /\ [Next]_vars => Numbers'
<1> SUFFICES ASSUME Always, [Next]_vars PROVE Numbers'
  OBVIOUS
<1> DEFINE q == evs["phone"]
           u == out["phone"]
           r == evs'["phone"]
           w == out'["phone"]
<1>1. /\ Types /\ Along
      /\ Len(log) \in Nat /\ Len(q) \in Nat /\ Len(u) \in Nat
      /\ phone.cursor \in Nat /\ phone \in Phones
  BY Lengths DEF Always, Types, Phones
<1>2. /\ phone.cursor <= Len(log)
      /\ \A i \in 1..Len(q) : Given(q[i], log)
      /\ \A i \in 1..Len(u) : Given(u[i], log)
  BY DEF Always, Numbers
<1>3. ASSUME \A f : Given(f, log) => Given(f, log'), phone'.cursor <= Len(log'),
             \A i \in 1..Len(r) : Given(r[i], log') \/ \E j \in 1..Len(q) : r[i] = q[j],
             \A i \in 1..Len(w) : Given(w[i], log') \/ \E j \in 1..Len(u) : w[i] = u[j]
      PROVE  Numbers'
  <2>1. \A i \in 1..Len(r) : Given(r[i], log')  BY <1>2, <1>3
  <2>2. \A i \in 1..Len(w) : Given(w[i], log')  BY <1>2, <1>3
  <2> QED BY <1>3, <2>1, <2>2 DEF Numbers
<1> HIDE DEF q, u, r, w
\* Steps that leave the log alone.
<1>4. ASSUME log' = log, phone'.cursor <= Len(log),
             r = q \/ Of(q, r) \/ \E x : Given(x, log) /\ Plus(q, r, x),
             w = u \/ Of(u, w) \/ \E x : Given(x, log) /\ Plus(u, w, x)
      PROVE  Numbers'
  <2>1. \A i \in 1..Len(r) : Given(r[i], log') \/ \E j \in 1..Len(q) : r[i] = q[j]
    BY <1>4 DEF Of, Plus
  <2>2. \A i \in 1..Len(w) : Given(w[i], log') \/ \E j \in 1..Len(u) : w[i] = u[j]
    BY <1>4 DEF Of, Plus
  <2> QED BY <1>3, <1>4, <2>1, <2>2
<1>5. Given(Open, log) /\ Given(Lost, log) /\ Given(Stale, log)
  BY DEF Given, Open, Lost, Stale
<1>6. CASE Wire
  <2>0. phone' = phone  BY <1>6 DEF Wire, ends_vars
  <2>1. CASE Publish
    <3> DEFINE x == Stored(out["desk"][1])
    <3>1. /\ Ended(log, log', Len(log), x) /\ w = u
          /\ Ended(q, r, Len(q), x) \/ r = q
      BY <1>1, <2>1, PublishStep DEF q, r, u, w
    <3>2. x.t = "evt" /\ x.n = Len(log) + 1  BY DEF Stored
    <3> HIDE DEF x
    <3>3. /\ Len(log') = Len(log) + 1 /\ log'[Len(log) + 1] = x
          /\ \A n \in 1..Len(log) : log'[n] = log[n]
      BY <3>1 DEF Ended
    <3>4. Given(x, log')  BY <1>1, <3>2, <3>3 DEF Given
    <3>5. ASSUME NEW f, Given(f, log) PROVE Given(f, log')
      <4>1. f.t = "evt" => f.n \in 1..Len(log') /\ f = log'[f.n]
        BY <1>1, <3>3, <3>5 DEF Given
      <4>2. f.t = "gap" => f.from \in 1..Len(log')  BY <1>1, <3>3, <3>5 DEF Given
      <4>3. f.t \in {"sub", "late"} => f.since \in 0..Len(log')
        BY <1>1, <3>3, <3>5 DEF Given
      <4> QED BY <4>1, <4>2, <4>3 DEF Given
    <3>6. r = q \/ Plus(q, r, x)  BY <1>1, <3>1, EndedPlus
    <3>7. phone'.cursor <= Len(log')  BY <1>1, <1>2, <2>0, <3>3
    <3> QED BY <1>3, <3>1, <3>4, <3>5, <3>6, <3>7 DEF Plus
  <2>2. CASE Refuse  BY <1>1, <1>2, <1>4, <2>0, <2>2, RefuseStep DEF q, r, u, w
  <2>3. CASE Subscribe
    <3>1. /\ log' = log /\ Cut(u, w, 1) /\ out["phone"][1] \in Subs
          /\ Replay(out["phone"][1].since, q, r) \/ r = q
      BY <1>1, <2>3, SubscribeStep DEF q, r, u, w, Listened
    <3>2. Of(u, w)  BY <1>1, <3>1, CutOf
    <3>3. CASE r = q  BY <1>2, <1>4, <2>0, <3>1, <3>2, <3>3
    <3>4. CASE Replay(out["phone"][1].since, q, r)
      <4> DEFINE s == out["phone"][1].since
      <4>1. s \in Nat  BY <3>1 DEF Subs
      <4>2. Replayed(s, q, r)  BY <1>1, <3>4, <4>1, ReplayIs
      <4> HIDE DEF s
      <4>3. /\ Left(s) \in {0, 1} /\ After(s) \in Nat /\ LastOf(s) \in Int
            /\ After(s) >= 1 /\ LastOf(s) <= Len(log)
            /\ Left(s) = 1 => oldest \in 1..Len(log)
                              /\ r[Len(q) + 1] = [t |-> "gap", from |-> oldest]
            /\ \A i \in 1..Len(q) : r[i] = q[i]
            /\ \A i \in 1..Len(r) :
                  \/ i \in 1..Len(q)
                  \/ Left(s) = 1 /\ i = Len(q) + 1
                  \/ \E n \in After(s)..LastOf(s) : r[i] = log[n]
        BY <4>2 DEF Replayed
      <4>4. \A n \in 1..Len(log) : Given(log[n], log)
        <5>1. \A n \in 1..Len(log) : log[n] \in Evts /\ log[n].n = n
          BY <1>1, Lengths DEF Along
        <5> QED BY <5>1 DEF Given, Evts
      <4>5. ASSUME NEW i \in 1..Len(r)
            PROVE  Given(r[i], log) \/ \E j \in 1..Len(q) : r[i] = q[j]
        <5>1. CASE i \in 1..Len(q)  BY <4>3, <5>1
        <5>2. CASE Left(s) = 1 /\ i = Len(q) + 1
          <6>1. r[i] = [t |-> "gap", from |-> oldest] /\ oldest \in 1..Len(log)
            BY <4>3, <5>2
          <6> QED BY <6>1 DEF Given
        <5>3. CASE \E n \in After(s)..LastOf(s) : r[i] = log[n]
          <6>1. PICK n \in After(s)..LastOf(s) : r[i] = log[n]  BY <5>3
          <6>2. n \in 1..Len(log)  BY <1>1, <4>3
          <6> QED BY <4>4, <6>1, <6>2
        <5> QED BY <4>3, <5>1, <5>2, <5>3
      <4> QED BY <1>2, <1>3, <2>0, <3>1, <3>2, <4>5 DEF Of
    <3> QED BY <3>1, <3>3, <3>4
  <2>4. CASE Command
    <3>1. log' = log /\ Cut(u, w, 1) /\ r = q
      BY <1>1, <2>4, CommandStep DEF q, r, u, w
    <3> QED BY <1>1, <1>2, <1>4, <2>0, <3>1, CutOf
  <2>5. CASE Again  BY <1>1, <1>2, <1>4, <2>0, <2>5, AgainStep DEF q, r, u, w
  <2>6. CASE Tidy \/ Calm  BY <1>2, <1>4, <2>0, <2>6 DEF Tidy, Calm, q, r, u, w
  <2>7. ASSUME NEW e \in Ends, Connect(e) \/ DialFails(e) \/ Break(e) PROVE Numbers'
    <3>1. /\ SocketMoves(e) /\ log' = log
          /\ \A d \in Ends : d # e => out'[d] = out[d] /\ evs'[d] = evs[d]
      BY <1>1, <2>7, SocketStep
    <3>2. CASE e = "desk"
      <4>1. r = q /\ w = u  BY <3>1, <3>2 DEF Ends, q, r, u, w
      <4> QED BY <1>2, <1>4, <2>0, <3>1, <4>1
    <3>3. CASE e = "phone"
      <4>1. PICK k, sent \in Nat, x \in {Open, Lost} : Moved(k, sent, x)
        BY <1>1, <3>1, <3>3, PhoneMoves
      <4>2. /\ Len(r) = k + 1 /\ r[k + 1] = x
            /\ \A i \in 1..k : i \in 1..Len(q) /\ (r[i] = q[i] \/ r[i] = Stale)
        BY <4>1 DEF Moved, q, r
      <4>3. \A i \in 1..Len(r) : i \in 1..k \/ i = k + 1  BY <4>2
      <4>4. \A i \in 1..Len(r) : Given(r[i], log') \/ \E j \in 1..Len(q) : r[i] = q[j]
        BY <1>5, <3>1, <4>2, <4>3
      <4>5. \A i \in 1..Len(w) :
               /\ i + sent \in 1..Len(u)
               /\ \/ w[i] = u[i + sent]
                  \/ u[i + sent].t = "sub" /\ w[i].t = "late" /\ w[i].since = u[i + sent].since
        BY <4>1 DEF Moved, u, w
      <4>6. ASSUME NEW i \in 1..Len(w)
            PROVE  Given(w[i], log') \/ \E j \in 1..Len(u) : w[i] = u[j]
        <5>1. CASE w[i] = u[i + sent]  BY <4>5, <5>1
        <5>2. CASE u[i + sent].t = "sub" /\ w[i].t = "late" /\ w[i].since = u[i + sent].since
          <6>1. u[i + sent].since \in 0..Len(log)  BY <1>2, <4>5, <5>2 DEF Given
          <6> QED BY <3>1, <5>2, <6>1 DEF Given
        <5> QED BY <4>5, <5>1, <5>2
      <4> QED BY <1>2, <1>3, <2>0, <3>1, <4>4, <4>6
    <3> QED BY <3>2, <3>3 DEF Ends
  <2> QED BY <1>6, <2>1, <2>2, <2>3, <2>4, <2>5, <2>6, <2>7 DEF Wire, Hub
<1>7. CASE Say \/ Refill \/ Drained \/ UNCHANGED vars
  <2>1. UNCHANGED <<log, out, evs, phone>>
    BY <1>7 DEF Say, Refill, Drained, vars, relay_vars, ends_vars
  <2> QED BY <1>2, <1>4, <2>1 DEF q, r, u, w
<1>8. CASE DeskOpen \/ DeskLost \/ DeskCmd
  <2>1. PICK t : DeskNext(t)  BY <1>8 DEF DeskOpen, DeskLost, DeskCmd
  <2>2. UNCHANGED <<log, out, phone>> /\ r = q  BY <1>1, <2>1, DeskTakes DEF q, r
  <2> QED BY <1>2, <1>4, <2>2 DEF u, w
<1>9. CASE Flush
  <2>1. UNCHANGED <<log, evs, phone>> /\ w = u
    BY <1>1, <1>9, FlushStep DEF Sends, Keeps, u, w
  <2> QED BY <1>2, <1>4, <2>1 DEF q, r
<1>10. CASE TakeOver
  <2>1. w = u /\ r = q /\ UNCHANGED <<log, phone>>
    BY <1>1, <1>10 DEF TakeOver, Types, q, r, u, w
  <2> QED BY <1>2, <1>4, <2>1
<1>11. CASE PhoneOpen
  <2>1. /\ PhoneNext(evs["phone"][1].t) /\ phone' = phone
        /\ Wants \in Subs /\ Ended(u, w, Len(u), Wants)
    BY <1>1, <1>11, PhoneOpenStep DEF u, w
  <2>2. log' = log /\ Cut(q, r, 1)  BY <1>1, <2>1, PhoneTakes DEF q, r
  <2>3. Given(Wants, log)  BY <1>1, <1>2 DEF Given, Wants
  <2>4. Of(q, r) /\ Plus(u, w, Wants)  BY <1>1, <2>1, <2>2, CutOf, EndedPlus
  <2> QED BY <1>2, <1>4, <2>1, <2>2, <2>3, <2>4
<1>12. CASE PhoneLost \/ PhoneEvt \/ PhoneGap
  <2>1. PICK t : PhoneNext(t)  BY <1>12 DEF PhoneLost, PhoneEvt, PhoneGap
  <2>2. log' = log /\ Cut(q, r, 1) /\ 1 \in 1..Len(q) /\ q[1] = Head(q)
    BY <1>1, <2>1, PhoneTakes DEF q, r
  <2>3. w = u  BY <1>12 DEF PhoneLost, PhoneEvt, PhoneGap, u, w
  <2>4. phone'.cursor <= Len(log)
    <3>1. CASE PhoneLost  BY <1>2, <3>1 DEF PhoneLost
    <3>2. CASE PhoneEvt
      <4>1. Arrives(q[1])  BY <3>2, Arrival DEF q
      <4>2. q[1].n \in 1..Len(log) /\ phone'.cursor = q[1].n  BY <4>1 DEF Arrives
      <4> QED BY <1>1, <4>2
    <3>3. CASE PhoneGap
      <4>1. q[1].t = "gap" /\ phone'.cursor = q[1].from
        BY <1>1, <2>2, <3>3 DEF PhoneGap, PhoneNext, Phones, q
      <4> QED BY <1>1, <1>2, <2>2, <4>1 DEF Given
    <3> QED BY <1>12, <3>1, <3>2, <3>3
  <2> QED BY <1>1, <1>4, <2>2, <2>3, <2>4, CutOf
<1>13. CASE PhoneSay
  <2>1. /\ log' = log /\ r = q /\ Ended(u, w, Len(u), Typed)
        /\ phone' = [phone EXCEPT !.seq = @ + 1]
    BY <1>1, <1>13, PhoneSayStep DEF q, r, u, w
  <2>2. phone'.cursor = phone.cursor  BY <1>1, <2>1 DEF Phones
  <2>3. Given(Typed, log)  BY DEF Given, Typed
  <2>4. Plus(u, w, Typed)  BY <1>1, <2>1, EndedPlus
  <2> QED BY <1>2, <1>4, <2>1, <2>2, <2>3, <2>4
<1> QED BY <1>6, <1>7, <1>8, <1>9, <1>10, <1>11, <1>12, <1>13
        DEF Next, DeskStep, PhoneStep

\* A gap comes with the frame it ends at, and one is not lost without the other
\* unless it is torn away.
LEMMA FollowedStep == Always /\ [Next]_vars => Followed'
<1> SUFFICES ASSUME Always, [Next]_vars PROVE Followed'
  OBVIOUS
<1> DEFINE q == evs["phone"]
           r == evs'["phone"]
<1>1. /\ Types /\ Along
      /\ Len(log) \in Nat /\ Len(q) \in Nat
      /\ \A i \in 1..Len(q) : q[i] \in PhoneEvents
      /\ \A n \in 1..Len(log) : log[n].t = "evt" /\ log[n].n = n
  <2>1. Types /\ Along  BY DEF Always
  <2>2. \A n \in 1..Len(log) : log[n] \in Evts /\ log[n].n = n  BY <2>1, Lengths DEF Along
  <2> QED BY <2>1, <2>2, Lengths DEF Evts
<1>2. /\ \A i \in 1..Len(q) : q[i].t = "gap" => q[i].from \in torn \/ Follows(q, q[i].from, i)
      /\ \A n \in told : n \in got \/ n \in torn \/ Follows(q, n, 0)
  BY DEF Always, Followed
<1> HIDE DEF q, r
\* Steps that add to what the phone has to read, or tear from it.
<1>3. ASSUME told' = told, got' = got, torn \subseteq torn',
             \A i \in 1..Len(q) : q[i].t = "evt" =>
                (i \in 1..Len(r) /\ r[i] = q[i]) \/ q[i].n \in torn',
             \A i \in 1..Len(r) : r[i].t = "gap" =>
                (i \in 1..Len(q) /\ r[i] = q[i]) \/ Follows(r, r[i].from, i)
      PROVE  Followed'
  <2>1. ASSUME NEW n, NEW i \in Nat, Follows(q, n, i) PROVE n \in torn' \/ Follows(r, n, i)
    <3>1. PICK j \in i + 1..Len(q) : q[j].t = "evt" /\ q[j].n = n  BY <2>1 DEF Follows
    <3>2. j \in 1..Len(q)  BY <1>1
    <3>3. n \in torn' \/ (j \in 1..Len(r) /\ r[j] = q[j])  BY <1>3, <3>1, <3>2
    <3>4. j \in 1..Len(r) => j \in i + 1..Len(r)  BY <1>1, <3>1
    <3> QED BY <3>1, <3>3, <3>4 DEF Follows
  <2>2. ASSUME NEW i \in 1..Len(r), r[i].t = "gap"
        PROVE  r[i].from \in torn' \/ Follows(r, r[i].from, i)
    <3>1. CASE i \in 1..Len(q) /\ r[i] = q[i]
      <4>1. q[i].from \in torn \/ Follows(q, q[i].from, i)  BY <1>2, <2>2, <3>1
      <4> QED BY <1>3, <2>1, <3>1, <4>1
    <3> QED BY <1>3, <2>2, <3>1
  <2>3. \A n \in told' : n \in got' \/ n \in torn' \/ Follows(r, n, 0)
    BY <1>2, <1>3, <2>1
  <2> QED BY <2>2, <2>3 DEF Followed, r
<1>4. ASSUME UNCHANGED <<told, got, torn>>, r = q PROVE Followed'
  BY <1>2, <1>4 DEF Followed, r
\* Steps of the phone, which read one event.
<1>5. ASSUME torn' = torn, got \subseteq got', Cut(q, r, 1), 1 \in 1..Len(q),
             q[1].t = "evt" => q[1].n \in got',
             \A n \in told' : n \in told \/ (q[1].t = "gap" /\ n = q[1].from)
      PROVE  Followed'
  <2>1. /\ Len(r) = Len(q) - 1 /\ Len(r) \in Nat
        /\ \A i \in 1..Len(r) : i + 1 \in 1..Len(q) /\ r[i] = q[i + 1]
    BY <1>1, <1>5, CutOf DEF Cut
  <2>2. ASSUME NEW n, NEW i \in Nat, Follows(q, n, i + 1) PROVE Follows(r, n, i)
    <3>1. PICK j \in (i + 1) + 1..Len(q) : q[j].t = "evt" /\ q[j].n = n  BY <2>2 DEF Follows
    <3>2. j - 1 \in i + 1..Len(r) /\ j - 1 \in 1..Len(r) /\ (j - 1) + 1 = j
      BY <1>1, <2>1
    <3>3. r[j - 1] = q[j]  BY <2>1, <3>2
    <3> QED BY <3>1, <3>2, <3>3 DEF Follows
  <2>3. ASSUME NEW i \in 1..Len(r), r[i].t = "gap"
        PROVE  r[i].from \in torn' \/ Follows(r, r[i].from, i)
    <3>1. i + 1 \in 1..Len(q) /\ r[i] = q[i + 1]  BY <2>1
    <3>2. r[i].from \in torn \/ Follows(q, r[i].from, i + 1)  BY <1>2, <2>3, <3>1
    <3> QED BY <1>5, <2>2, <3>2
  <2>4. ASSUME NEW n \in told' PROVE n \in got' \/ n \in torn' \/ Follows(r, n, 0)
    <3>1. CASE n \in told
      <4>1. CASE Follows(q, n, 0)
        <5>1. PICK j \in 0 + 1..Len(q) : q[j].t = "evt" /\ q[j].n = n  BY <4>1 DEF Follows
        <5>2. CASE j = 1  BY <1>5, <5>1, <5>2
        <5>3. CASE j # 1
          <6>1. j \in (0 + 1) + 1..Len(q)  BY <1>1, <5>3
          <6>2. Follows(q, n, 0 + 1)  BY <5>1, <6>1 DEF Follows
          <6> QED BY <2>2, <6>2
        <5> QED BY <5>2, <5>3
      <4> QED BY <1>2, <1>5, <3>1, <4>1
    <3>2. CASE q[1].t = "gap" /\ n = q[1].from
      <4>1. n \in torn \/ Follows(q, n, 0 + 1)  BY <1>2, <1>5, <3>2
      <4> QED BY <1>5, <2>2, <4>1
    <3> QED BY <1>5, <3>1, <3>2
  <2> QED BY <2>3, <2>4 DEF Followed, r
<1>6. CASE Wire
  <2>0. UNCHANGED <<told, got>>  BY <1>6 DEF Wire, ends_vars
  <2>1. CASE Publish
    <3> DEFINE x == Stored(out["desk"][1])
    <3>1. torn' = torn /\ (Ended(q, r, Len(q), x) \/ r = q)
      BY <1>1, <2>1, PublishStep DEF q, r
    <3>2. x.t = "evt"  BY DEF Stored
    <3> HIDE DEF x
    <3>3. CASE Ended(q, r, Len(q), x)
      <4>1. /\ Len(r) = Len(q) + 1 /\ r[Len(q) + 1] = x
            /\ \A i \in 1..Len(q) : r[i] = q[i]
        BY <3>3 DEF Ended
      <4>2. \A i \in 1..Len(q) : i \in 1..Len(r) /\ r[i] = q[i]  BY <1>1, <4>1
      <4>3. \A i \in 1..Len(r) : r[i].t = "gap" => i \in 1..Len(q) /\ r[i] = q[i]
        BY <1>1, <3>2, <4>1
      <4> QED BY <1>3, <2>0, <3>1, <4>2, <4>3
    <3> QED BY <1>4, <2>0, <3>1, <3>3
  <2>2. CASE Refuse  BY <1>1, <1>4, <2>0, <2>2, RefuseStep DEF q, r
  <2>3. CASE Subscribe
    <3> DEFINE s == out["phone"][1].since
    <3>1. /\ torn' = torn /\ s \in Nat
          /\ Replay(s, q, r) \/ r = q
      BY <1>1, <2>3, SubscribeStep DEF q, r, Listened, Subs
    <3> HIDE DEF s
    <3>2. CASE Replay(s, q, r)
      <4>1. Replayed(s, q, r)  BY <1>1, <3>1, <3>2, ReplayIs
      <4>2. /\ Left(s) \in {0, 1} /\ After(s) \in Nat /\ LastOf(s) \in Int
            /\ After(s) >= 1 /\ LastOf(s) <= Len(log)
            /\ Left(s) = 1 => /\ After(s) = oldest /\ After(s) <= LastOf(s)
                              /\ r[Len(q) + 1] = [t |-> "gap", from |-> oldest]
            /\ \A i \in 1..Len(q) : i \in 1..Len(r) /\ r[i] = q[i]
            /\ \A i \in 1..Len(r) :
                  \/ i \in 1..Len(q)
                  \/ Left(s) = 1 /\ i = Len(q) + 1
                  \/ \E n \in After(s)..LastOf(s) : r[i] = log[n]
            /\ \A n \in After(s)..LastOf(s) :
                  \E i \in 1..Len(r) : i > Len(q) + Left(s) /\ r[i] = log[n]
        BY <4>1 DEF Replayed
      <4>3. Left(s) = 1 => Follows(r, oldest, Len(q) + 1)
        <5> SUFFICES ASSUME Left(s) = 1 PROVE Follows(r, oldest, Len(q) + 1)
          OBVIOUS
        <5>1. oldest \in After(s)..LastOf(s) /\ oldest \in 1..Len(log)  BY <1>1, <4>2
        <5>2. PICK i \in 1..Len(r) : i > Len(q) + 1 /\ r[i] = log[oldest]  BY <4>2, <5>1
        <5>3. i \in (Len(q) + 1) + 1..Len(r)  BY <1>1, <5>2
        <5>4. r[i].t = "evt" /\ r[i].n = oldest  BY <1>1, <5>1, <5>2
        <5> QED BY <5>3, <5>4 DEF Follows
      <4>4. ASSUME NEW i \in 1..Len(r), r[i].t = "gap"
            PROVE  (i \in 1..Len(q) /\ r[i] = q[i]) \/ Follows(r, r[i].from, i)
        <5>1. CASE i \in 1..Len(q)  BY <4>2, <5>1
        <5>2. CASE Left(s) = 1 /\ i = Len(q) + 1
          <6>1. r[i].from = oldest  BY <4>2, <5>2
          <6> QED BY <4>3, <5>2, <6>1
        <5>3. CASE \E n \in After(s)..LastOf(s) : r[i] = log[n]
          <6>1. PICK n \in After(s)..LastOf(s) : r[i] = log[n]  BY <5>3
          <6>2. n \in 1..Len(log)  BY <1>1, <4>2
          <6> QED BY <1>1, <4>4, <6>1, <6>2
        <5> QED BY <4>2, <5>1, <5>2, <5>3
      <4> QED BY <1>3, <2>0, <3>1, <4>2, <4>4
    <3> QED BY <1>4, <2>0, <3>1, <3>2
  <2>4. CASE Command  BY <1>1, <1>4, <2>0, <2>4, CommandStep DEF q, r
  <2>5. CASE Again  BY <1>1, <1>4, <2>0, <2>5, AgainStep DEF q, r
  <2>6. CASE Tidy \/ Calm  BY <1>4, <2>0, <2>6 DEF Tidy, Calm, q, r
  <2>7. ASSUME NEW e \in Ends, Connect(e) \/ DialFails(e) \/ Break(e) PROVE Followed'
    <3>1. /\ SocketMoves(e) /\ torn \subseteq torn'
          /\ \A d \in Ends : d # e => evs'[d] = evs[d]
      BY <1>1, <2>7, SocketStep
    <3>2. CASE e = "desk"
      <4>1. r = q  BY <3>1, <3>2 DEF Ends, q, r
      <4> QED BY <1>3, <2>0, <3>1, <4>1
    <3>3. CASE e = "phone"
      <4>1. PICK k, sent \in Nat, x \in {Open, Lost} : Moved(k, sent, x)
        BY <1>1, <3>1, <3>3, PhoneMoves
      <4>2. /\ Len(r) = k + 1 /\ r[k + 1] = x
            /\ \A i \in 1..k : i \in 1..Len(q) /\ (r[i] = q[i] \/ (q[i].t = "open" /\ r[i] = Stale))
            /\ \A i \in k + 1..Len(q) : q[i].t = "evt" => q[i].n \in torn'
        BY <4>1 DEF Moved, q, r
      <4>3. x.t # "gap" /\ Stale.t # "gap"  BY <4>1 DEF Open, Lost, Stale
      <4>4. ASSUME NEW i \in 1..Len(q), q[i].t = "evt"
            PROVE  (i \in 1..Len(r) /\ r[i] = q[i]) \/ q[i].n \in torn'
        <5>1. CASE i \in 1..k  BY <4>2, <4>4, <5>1
        <5>2. CASE i \notin 1..k
          <6>1. i \in k + 1..Len(q)  BY <1>1, <5>2
          <6> QED BY <4>2, <4>4, <6>1
        <5> QED BY <5>1, <5>2
      <4>5. ASSUME NEW i \in 1..Len(r), r[i].t = "gap" PROVE i \in 1..Len(q) /\ r[i] = q[i]
        <5>1. i \in 1..k \/ i = k + 1  BY <4>2
        <5> QED BY <4>2, <4>3, <4>5, <5>1
      <4> QED BY <1>3, <2>0, <3>1, <4>4, <4>5
    <3> QED BY <3>2, <3>3 DEF Ends
  <2> QED BY <1>6, <2>1, <2>2, <2>3, <2>4, <2>5, <2>6, <2>7 DEF Wire, Hub
<1>7. CASE Say \/ Refill \/ Drained \/ UNCHANGED vars
  <2>1. UNCHANGED <<evs, told, got, torn>>
    BY <1>7 DEF Say, Refill, Drained, vars, relay_vars, ends_vars
  <2> QED BY <1>4, <2>1 DEF q, r
<1>8. CASE DeskOpen \/ DeskLost \/ DeskCmd
  <2>1. PICK t : DeskNext(t)  BY <1>8 DEF DeskOpen, DeskLost, DeskCmd
  <2>2. UNCHANGED <<told, got, torn>> /\ r = q  BY <1>1, <2>1, DeskTakes DEF q, r
  <2> QED BY <1>4, <2>2
<1>9. CASE Flush
  <2>1. UNCHANGED <<evs, told, got, torn>>  BY <1>9 DEF Flush
  <2> QED BY <1>4, <2>1 DEF q, r
<1>10. CASE TakeOver
  <2>1. UNCHANGED <<told, got, torn>> /\ r = q  BY <1>1, <1>10 DEF TakeOver, Types, q, r
  <2> QED BY <1>4, <2>1
<1>11. CASE PhoneOpen \/ PhoneLost \/ PhoneEvt \/ PhoneGap
  <2>1. PICK t : PhoneNext(t)  BY <1>11 DEF PhoneOpen, Ask, PhoneLost, PhoneEvt, PhoneGap
  <2>2. torn' = torn /\ Cut(q, r, 1) /\ 1 \in 1..Len(q) /\ q[1] = Head(q)
    BY <1>1, <2>1, PhoneTakes DEF q, r
  <2>3. CASE PhoneOpen \/ PhoneLost
    <3>1. UNCHANGED <<told, got>> /\ q[1].t # "evt"
      BY <2>2, <2>3 DEF PhoneOpen, PhoneLost, Ask, PhoneNext, q
    <3> QED BY <1>5, <2>2, <3>1
  <2>4. CASE PhoneEvt
    <3>1. told' = told /\ got' = got \cup {q[1].n}  BY <2>2, <2>4 DEF PhoneEvt, q
    <3> QED BY <1>5, <2>2, <3>1
  <2>5. CASE PhoneGap
    <3>1. q[1].t = "gap" /\ got' = got /\ told' = told \cup {q[1].from}
      BY <2>2, <2>5 DEF PhoneGap, PhoneNext, q
    <3> QED BY <1>5, <2>2, <3>1
  <2> QED BY <1>11, <2>3, <2>4, <2>5
<1>12. CASE PhoneSay
  <2>1. UNCHANGED <<evs, told, got, torn>>  BY <1>12 DEF PhoneSay
  <2> QED BY <1>4, <2>1 DEF q, r
<1> QED BY <1>6, <1>7, <1>8, <1>9, <1>10, <1>11, <1>12 DEF Next, DeskStep, PhoneStep

\* A command is acted on once, and in its turn.
LEMMA CommandedStep == Always /\ [Next]_vars => Commanded'
<1> SUFFICES ASSUME Always, [Next]_vars PROVE Commanded'
  OBVIOUS
<1> DEFINE q == evs["desk"]
           u == out["phone"]
           r == evs'["desk"]
           w == out'["phone"]
<1>1. /\ Types /\ Len(q) \in Nat /\ Len(u) \in Nat /\ desk \in Desks /\ asks \in Nat
      /\ acted \in Seq(Int) /\ Len(acted) \in Nat /\ \A k \in 1..Len(acted) : acted[k] \in Int
      /\ carried \subseteq Cmds /\ desk.id = links /\ links \in Nat
  <2>1. Types /\ acted \in Seq(Int) /\ asks \in 0..MaxCmd  BY DEF Always, Types
  <2> QED BY <2>1, Lengths, LenProperties, ElementOfSeq DEF Always, Types, Counted
<1>2. /\ ActsInTurn(acted, asks) /\ AsksInTurn(u, acted, carried, q)
      /\ OpensInTurn(q, desk, acted) /\ Awaited(carried, desk, sock["desk"], q)
  BY DEF Always, Commanded
\* Every command was typed, for a link there is.
<1>3. /\ \A c \in carried : c.pay \in Int /\ c.pay <= asks /\ c.link \in Nat /\ c.link <= links
      /\ \A i \in 1..Len(q) : q[i].t = "cmd" =>
            q[i] \in Cmds /\ q[i].pay \in Int /\ q[i].pay <= asks /\ q[i].link <= links
      /\ \A i \in 1..Len(u) : u[i].t = "cmd" =>
            u[i] \in Cmds /\ u[i].pay \in Int /\ u[i].pay <= asks
  <2>1. ASSUME NEW c \in Cmds, Was("p2d", c)
        PROVE  c.pay \in Int /\ c.pay <= asks /\ c.link \in Nat /\ c.link <= links
    <3> DEFINE s == Sealed("p2d", c.link, c.seq, c.pay)
    <3>1. s \in sealed /\ s.dir = "p2d" /\ s.pay = c.pay /\ s.link = c.link
      BY <2>1 DEF Was, Sealing, Sealed
    <3> HIDE DEF s
    <3>2. s.pay <= asks /\ s.link <= links
      BY <3>1 DEF Always, Waiting, Counted
    <3> QED BY <2>1, <3>1, <3>2 DEF Cmds
  <2>2. \A i \in 1..Len(q) : q[i].t = "cmd" => q[i] \in Cmds
    <3>1. \A f \in DeskEvents : f.t = "cmd" => f \in Cmds  BY DEF DeskEvents, Open, Lost
    <3>2. \A i \in 1..Len(q) : q[i] \in DeskEvents  BY <1>1, Lengths
    <3> QED BY <3>1, <3>2
  <2>3. \A i \in 1..Len(u) : u[i].t = "cmd" => u[i] \in Cmds
    BY <1>1, Lengths DEF Asked, Subs
  <2>4. /\ \A c \in carried : Was("p2d", c)
        /\ \A i \in 1..Len(q) : q[i].t = "cmd" => Was("p2d", q[i])
        /\ \A i \in 1..Len(u) : u[i].t = "cmd" => Was("p2d", u[i])
    BY DEF Always, Underway
  <2> QED BY <1>1, <2>1, <2>2, <2>3, <2>4
<1> HIDE DEF q, u, r, w
<1>4. ASSUME ActsInTurn(acted', asks'), AsksInTurn(w, acted', carried', r),
             OpensInTurn(r, desk', acted'), Awaited(carried', desk', sock'["desk"], r)
      PROVE  Commanded'
  BY <1>4 DEF Commanded, r, w
\* What the desktop has to read may change, what the phone has yet to send only
\* gets less.
<1>5. ASSUME NEW k \in Nat, Len(w) \in Nat,
             \A i \in 1..Len(w) : w[i].t = "cmd" => i + k \in 1..Len(u) /\ w[i] = u[i + k],
             acted' = acted, carried' \subseteq carried,
             \A i \in 1..Len(r) : r[i].t = "cmd" =>
                r[i] \in carried \/ \E j \in 1..Len(q) : r[i] = q[j]
      PROVE  AsksInTurn(w, acted', carried', r)
  <2> SUFFICES ASSUME NEW i \in 1..Len(w), w[i].t = "cmd"
               PROVE  /\ Latest(w[i], acted', carried', r)
                      /\ \A j \in 1..i - 1 : w[j].t = "cmd" => w[j].pay < w[i].pay
    BY DEF AsksInTurn
  <2>1. i + k \in 1..Len(u) /\ w[i] = u[i + k]  BY <1>5
  <2>2. /\ Latest(w[i], acted, carried, q)
        /\ \A j \in 1..i + k - 1 : u[j].t = "cmd" => u[j].pay < w[i].pay
    BY <1>2, <2>1 DEF AsksInTurn
  <2>3. Latest(w[i], acted', carried', r)  BY <1>5, <2>2 DEF Latest
  <2>4. ASSUME NEW j \in 1..i - 1, w[j].t = "cmd" PROVE w[j].pay < w[i].pay
    <3>1. j \in 1..Len(w) /\ j + k \in 1..i + k - 1  BY <1>5
    <3>2. w[j] = u[j + k]  BY <1>5, <2>4, <3>1
    <3> QED BY <2>2, <2>4, <3>1, <3>2
  <2> QED BY <2>3, <2>4
<1>6. \A d : (desk'.id = desk.id /\ desk'.last = desk.last) => (Live(d, desk') <=> Live(d, desk))
  BY DEF Live
\* Steps that the desktop's queue and what it knows have no part in.
<1>7. ASSUME NEW k \in Nat, Len(w) \in Nat,
             \A i \in 1..Len(w) : w[i].t = "cmd" => i + k \in 1..Len(u) /\ w[i] = u[i + k],
             UNCHANGED <<acted, asks, carried>>, r = q, sock'["desk"] = sock["desk"],
             desk'.id = desk.id, desk'.last = desk.last
      PROVE  Commanded'
  <2>1. AsksInTurn(w, acted', carried', r)  BY <1>5, <1>7
  <2>2. OpensInTurn(r, desk', acted') /\ Awaited(carried', desk', sock'["desk"], r)
    BY <1>2, <1>6, <1>7 DEF OpensInTurn, Awaited
  <2> QED BY <1>2, <1>4, <1>7, <2>1, <2>2
<1>8. ASSUME w = u, UNCHANGED <<acted, asks, carried>>, r = q, sock'["desk"] = sock["desk"],
             desk'.id = desk.id, desk'.last = desk.last
      PROVE  Commanded'
  <2>1. 0 \in Nat /\ Len(w) \in Nat /\ \A i \in 1..Len(w) : i + 0 = i  BY <1>1, <1>8
  <2> QED BY <1>7, <1>8, <2>1
<1>9. ASSUME Cut(u, w, 1), UNCHANGED <<acted, asks, carried>>, r = q,
             sock'["desk"] = sock["desk"], desk' = desk
      PROVE  Commanded'
  <2>1. 1 \in Nat /\ Len(w) \in Nat
        /\ \A i \in 1..Len(w) : i + 1 \in 1..Len(u) /\ w[i] = u[i + 1]
    BY <1>1, <1>9, CutOf
  <2> QED BY <1>7, <1>9, <2>1
<1>10. CASE Wire
  <2>0. UNCHANGED <<desk, acted, asks>>  BY <1>10 DEF Wire, ends_vars
  <2>1. CASE Publish
    <3>1. UNCHANGED <<carried, sock>> /\ r = q /\ w = u
      BY <1>1, <2>1, PublishStep DEF q, r, u, w
    <3> QED BY <1>8, <2>0, <3>1
  <2>2. CASE Refuse  BY <1>1, <1>8, <2>0, <2>2, RefuseStep DEF q, r, u, w
  <2>3. CASE Subscribe
    <3>1. UNCHANGED <<carried, sock>> /\ r = q /\ Cut(u, w, 1)
      BY <1>1, <2>3, SubscribeStep DEF q, r, u, w
    <3> QED BY <1>9, <2>0, <3>1
  <2>4. CASE Command
    <3> DEFINE c == u[1]
    <3>1. /\ 1 \in 1..Len(u) /\ c \in Cmds /\ Cut(u, w, 1) /\ sock' = sock
          /\ \/ r = q /\ carried' = carried
             \/ Ended(q, r, Len(q), c) /\ carried' = carried \cup {c}
      BY <1>1, <2>4, CommandStep DEF q, r, u, w
    <3> HIDE DEF c
    <3>2. CASE r = q /\ carried' = carried  BY <1>9, <2>0, <3>1, <3>2
    <3>3. CASE Ended(q, r, Len(q), c) /\ carried' = carried \cup {c}
      <4>1. /\ Len(r) = Len(q) + 1 /\ r[Len(q) + 1] = c
            /\ \A i \in 1..Len(q) : r[i] = q[i]
            /\ \A i \in 1..Len(r) : i \in 1..Len(q) \/ i = Len(q) + 1
        BY <1>1, <3>3 DEF Ended
      <4>2. /\ Len(w) \in Nat
            /\ \A i \in 1..Len(w) : i + 1 \in 1..Len(u) /\ w[i] = u[i + 1]
        BY <1>1, <3>1, CutOf
      <4>3. c.t = "cmd"  BY <3>1 DEF Cmds
      <4>4. Latest(c, acted, carried, q)  BY <1>2, <3>1, <4>3 DEF AsksInTurn, c
      <4>5. AsksInTurn(w, acted', carried', r)
        <5> SUFFICES ASSUME NEW i \in 1..Len(w), w[i].t = "cmd"
                     PROVE  /\ Latest(w[i], acted, carried', r)
                            /\ \A j \in 1..i - 1 : w[j].t = "cmd" => w[j].pay < w[i].pay
          BY <2>0 DEF AsksInTurn
        <5>1. i + 1 \in 1..Len(u) /\ w[i] = u[i + 1] /\ 1 \in 1..(i + 1) - 1  BY <4>2
        <5>2. /\ Latest(w[i], acted, carried, q)
              /\ \A j \in 1..(i + 1) - 1 : u[j].t = "cmd" => u[j].pay < w[i].pay
          BY <1>2, <5>1 DEF AsksInTurn
        <5>3. c.pay < w[i].pay  BY <4>3, <5>1, <5>2 DEF c
        <5>4. Latest(w[i], acted, carried', r)  BY <3>3, <4>1, <5>2, <5>3 DEF Latest
        <5>5. ASSUME NEW j \in 1..i - 1, w[j].t = "cmd" PROVE w[j].pay < w[i].pay
          <6>1. j \in 1..Len(w) /\ j + 1 \in 1..(i + 1) - 1  BY <4>2
          <6> QED BY <4>2, <5>2, <5>5, <6>1
        <5> QED BY <5>4, <5>5
      <4>6. OpensInTurn(r, desk', acted')
        <5> SUFFICES ASSUME NEW i \in 1..Len(r), Live(r[i], desk)
                     PROVE  /\ \A k \in 1..Len(acted) : acted[k] < r[i].pay
                            /\ \A j \in 1..i - 1 : Live(r[j], desk) => r[j].pay < r[i].pay
          BY <2>0 DEF OpensInTurn
        <5>1. CASE i \in 1..Len(q)
          <6>1. r[i] = q[i] /\ \A j \in 1..i - 1 : r[j] = q[j]  BY <1>1, <4>1, <5>1
          <6> QED BY <1>2, <5>1, <6>1 DEF OpensInTurn
        <5>2. CASE i = Len(q) + 1
          <6>1. r[i] = c /\ \A j \in 1..i - 1 : j \in 1..Len(q) /\ r[j] = q[j]
            BY <1>1, <4>1, <5>2
          <6> QED BY <4>4, <6>1 DEF Latest, Live
        <5> QED BY <4>1, <5>1, <5>2
      <4>7. Awaited(carried', desk', sock'["desk"], r)
        <5>1. \A i \in 1..Len(q) : i \in 1..Len(r)  BY <1>1, <4>1
        <5>2. Len(q) + 1 \in 1..Len(r)  BY <1>1, <4>1
        <5> QED BY <1>2, <2>0, <3>1, <3>3, <4>1, <5>1, <5>2 DEF Awaited
      <4> QED BY <1>2, <1>4, <2>0, <4>5, <4>6, <4>7
    <3> QED BY <3>1, <3>2, <3>3
  <2>5. CASE Again
    <3>1. PICK c \in carried :
             /\ Ended(q, r, Len(q), c) /\ carried' = carried \ {c}
             /\ sock["desk"] /\ q = <<>> /\ w = u /\ sock' = sock
      BY <1>1, <2>5, AgainStep DEF q, r, u, w
    <3>2. Len(q) = 0  BY <3>1
    <3>3. Len(r) = 1 /\ r[1] = c  BY <3>1, <3>2 DEF Ended
    <3>4. \A d \in carried : ~Live(d, desk)  BY <1>2, <3>1, <3>2 DEF Awaited
    <3>5. AsksInTurn(w, acted', carried', r)
      <4>1. 0 \in Nat /\ Len(w) \in Nat /\ \A i \in 1..Len(w) : i + 0 = i  BY <1>1, <3>1
      <4>2. \A i \in 1..Len(r) : r[i] \in carried  BY <3>1, <3>3
      <4> QED BY <1>5, <2>0, <3>1, <4>1, <4>2
    <3>6. OpensInTurn(r, desk', acted')
      <4>1. \A i \in 1..Len(r) : ~Live(r[i], desk)  BY <3>3, <3>4
      <4> QED BY <2>0, <4>1 DEF OpensInTurn
    <3>7. Awaited(carried', desk', sock'["desk"], r)  BY <2>0, <3>1, <3>4 DEF Awaited
    <3> QED BY <1>2, <1>4, <2>0, <3>5, <3>6, <3>7
  <2>6. CASE Tidy \/ Calm  BY <1>8, <2>0, <2>6 DEF Tidy, Calm, q, r, u, w
  <2>7. ASSUME NEW e \in Ends, Connect(e) \/ DialFails(e) \/ Break(e) PROVE Commanded'
    <3>1. /\ SocketMoves(e) /\ carried' = carried
          /\ \A d \in Ends : d # e => /\ out'[d] = out[d] /\ evs'[d] = evs[d]
                                       /\ sock'[d] = sock[d]
      BY <1>1, <2>7, SocketStep
    <3>2. CASE e = "phone"
      <4>1. r = q /\ sock'["desk"] = sock["desk"]  BY <3>1, <3>2 DEF Ends, q, r
      <4>2. PICK k, sent \in Nat, x \in {Open, Lost} : Moved(k, sent, x)
        BY <1>1, <3>1, <3>2, PhoneMoves
      <4>3. /\ Len(w) \in Nat
            /\ \A i \in 1..Len(w) : w[i].t = "cmd" => i + sent \in 1..Len(u) /\ w[i] = u[i + sent]
        BY <4>2 DEF Moved, u, w
      <4> QED BY <1>7, <2>0, <3>1, <4>1, <4>3
    <3>3. CASE e = "desk"
      <4>1. PICK k, sent \in Nat, x \in {Open, Lost} :
               /\ Ended(q, r, k, x)
               /\ x = Open => k = Len(q)
               /\ x = Lost => ~sock'["desk"]
        BY <3>1, <3>3, DeskMoves DEF q, r
      <4>2. w = u  BY <3>1, <3>3 DEF Ends, u, w
      <4>3. /\ k \in 0..Len(q) /\ Len(r) = k + 1 /\ r[k + 1] = x /\ x.t # "cmd"
            /\ \A i \in 1..k : i \in 1..Len(q) /\ r[i] = q[i]
            /\ \A i \in 1..Len(r) : i \in 1..k \/ i = k + 1
        BY <1>1, <4>1 DEF Ended, Open, Lost
      <4>4. AsksInTurn(w, acted', carried', r)
        <5>1. 0 \in Nat /\ Len(w) \in Nat /\ \A i \in 1..Len(w) : i + 0 = i  BY <1>1, <4>2
        <5>2. \A i \in 1..Len(r) : r[i].t = "cmd" => \E j \in 1..Len(q) : r[i] = q[j]
          BY <4>3
        <5> QED BY <1>5, <2>0, <3>1, <4>2, <5>1, <5>2
      <4>5. OpensInTurn(r, desk', acted')
        <5> SUFFICES ASSUME NEW i \in 1..Len(r), Live(r[i], desk)
                     PROVE  /\ \A n \in 1..Len(acted) : acted[n] < r[i].pay
                            /\ \A j \in 1..i - 1 : Live(r[j], desk) => r[j].pay < r[i].pay
          BY <2>0 DEF OpensInTurn
        <5>1. i \in 1..k  BY <4>3 DEF Live
        <5>2. \A j \in 1..i - 1 : j \in 1..k  BY <5>1
        <5> QED BY <1>2, <4>3, <5>1, <5>2 DEF OpensInTurn
      <4>6. Awaited(carried', desk', sock'["desk"], r)
        <5>1. CASE x = Lost  BY <4>1, <5>1 DEF Awaited
        <5>2. CASE x = Open
          <6>1. k + 1 \in 1..Len(r) /\ r[k + 1].t = "open"  BY <4>3, <5>2 DEF Open
          <6> QED BY <6>1 DEF Awaited
        <5> QED BY <5>1, <5>2
      <4> QED BY <1>2, <1>4, <2>0, <4>4, <4>5, <4>6
    <3> QED BY <3>2, <3>3 DEF Ends
  <2> QED BY <1>10, <2>1, <2>2, <2>3, <2>4, <2>5, <2>6, <2>7 DEF Wire, Hub
<1>11. CASE Say \/ Refill \/ Drained \/ UNCHANGED vars
  <2>1. UNCHANGED <<out, evs, sock, acted, asks, carried>>
    BY <1>11 DEF Say, Refill, Drained, vars, relay_vars, ends_vars
  <2>2. desk'.id = desk.id /\ desk'.last = desk.last
    BY <1>1, <1>11 DEF Say, Refill, Drained, vars, ends_vars, Desks
  <2> QED BY <1>8, <2>1, <2>2 DEF q, r, u, w
<1>12. CASE Flush
  <2>1. UNCHANGED <<evs, sock, acted, asks, carried>> /\ w = u /\ (Sends \/ Keeps)
    BY <1>1, <1>12, FlushStep DEF Sends, Keeps, u, w
  <2>2. desk'.id = desk.id /\ desk'.last = desk.last
    BY <1>1, <2>1 DEF Sends, Keeps, Desks
  <2> QED BY <1>8, <2>1, <2>2 DEF q, r
\* A new link is one that no command is for.
<1>13. ASSUME desk'.id = links + 1, UNCHANGED <<acted, asks, carried>>, w = u,
              Of(q, r)
       PROVE  Commanded'
  <2>1. /\ \A c \in carried : ~Live(c, desk')
        /\ \A i \in 1..Len(r) : ~Live(r[i], desk')
    <3>1. \A c \in carried : ~Live(c, desk')  BY <1>1, <1>3, <1>13 DEF Live, Opens
    <3>2. \A i \in 1..Len(q) : ~Live(q[i], desk')
      BY <1>1, <1>3, <1>13 DEF Live, Opens, Cmds
    <3> QED BY <1>13, <3>1, <3>2 DEF Of
  <2>2. AsksInTurn(w, acted', carried', r)
    <3>1. 0 \in Nat /\ Len(w) \in Nat /\ \A i \in 1..Len(w) : i + 0 = i  BY <1>1, <1>13
    <3> QED BY <1>5, <1>13, <3>1 DEF Of
  <2>3. OpensInTurn(r, desk', acted') /\ Awaited(carried', desk', sock'["desk"], r)
    BY <1>13, <2>1 DEF OpensInTurn, Awaited
  <2> QED BY <1>2, <1>4, <1>13, <2>2, <2>3
<1>14. CASE TakeOver
  <2>1. /\ r = <<>> /\ w = u /\ UNCHANGED <<acted, asks, carried>>
    BY <1>1, <1>14 DEF TakeOver, Types, q, r, u, w
  <2>2. desk'.id = links + 1  BY <1>14, NewLink
  <2>3. Of(q, r)  BY <2>1 DEF Of
  <2> QED BY <1>13, <2>1, <2>2, <2>3
<1>15. CASE DeskOpen
  <2>1. DeskNext("open") /\ acted' = acted  BY <1>15 DEF DeskOpen
  <2>2. UNCHANGED <<out, asks, carried>> /\ Cut(q, r, 1)  BY <1>1, <2>1, DeskTakes DEF q, r
  <2>3. desk'.id = links + 1  BY <1>15, NewLink
  <2> QED BY <1>1, <1>13, <2>1, <2>2, <2>3, CutOf DEF u, w
<1>16. CASE DeskLost
  <2>1. /\ DeskNext("lost") /\ acted' = acted
        /\ desk'.id = desk.id /\ desk'.last = desk.last
    BY <1>1, <1>16 DEF DeskLost, Desks
  <2>2. /\ UNCHANGED <<out, asks, carried, sock>> /\ Cut(q, r, 1) /\ q[1].t = "lost"
    BY <1>1, <2>1, DeskTakes DEF q, r
  <2>3. /\ Len(r) \in Nat /\ Len(r) = Len(q) - 1
        /\ \A i \in 1..Len(r) : i + 1 \in 1..Len(q) /\ r[i] = q[i + 1]
    BY <1>1, <2>2, CutOf DEF Cut
  <2>4. AsksInTurn(w, acted', carried', r)
    <3>1. w = u /\ 0 \in Nat /\ Len(w) \in Nat /\ \A i \in 1..Len(w) : i + 0 = i
      BY <1>1, <2>2 DEF u, w
    <3> QED BY <1>5, <2>1, <2>2, <2>3, <3>1
  <2>5. OpensInTurn(r, desk', acted')
    <3> SUFFICES ASSUME NEW i \in 1..Len(r), Live(r[i], desk)
                 PROVE  /\ \A k \in 1..Len(acted) : acted[k] < r[i].pay
                        /\ \A j \in 1..i - 1 : Live(r[j], desk) => r[j].pay < r[i].pay
      BY <1>6, <2>1 DEF OpensInTurn
    <3>1. \A j \in 1..i - 1 : j \in 1..Len(r) /\ j + 1 \in 1..(i + 1) - 1  BY <2>3
    <3> QED BY <1>2, <2>3, <3>1 DEF OpensInTurn
  <2>6. Awaited(carried', desk', sock'["desk"], r)
    <3> SUFFICES ASSUME NEW c \in carried, Live(c, desk), sock["desk"]
                 PROVE  \E i \in 1..Len(r) : r[i].t = "open" \/ r[i] = c
      BY <1>6, <2>1, <2>2 DEF Awaited
    <3>1. PICK i \in 1..Len(q) : q[i].t = "open" \/ q[i] = c  BY <1>2 DEF Awaited
    <3>2. c.t # "lost"  BY DEF Live
    <3>3. i # 1  BY <2>2, <3>1, <3>2
    <3>4. i - 1 \in 1..Len(r) /\ (i - 1) + 1 = i  BY <1>1, <2>3, <3>3
    <3>5. r[i - 1] = q[i]  BY <2>3, <3>4
    <3> QED BY <3>1, <3>4, <3>5
  <2> QED BY <1>2, <1>4, <2>1, <2>2, <2>4, <2>5, <2>6
<1>17. CASE DeskCmd
  <2> DEFINE c == q[1]
  <2>1. /\ DeskNext("cmd") /\ 1 \in 1..Len(q) /\ c \in Cmds
        /\ Opened1(c) \/ (~Opens(c, desk.id, desk.last) /\ UNCHANGED <<desk, acted>>)
    BY <1>1, <1>17, DeskCmdStep DEF q
  <2>2. UNCHANGED <<out, asks, carried, sock>> /\ Cut(q, r, 1)  BY <1>1, <2>1, DeskTakes DEF q, r
  <2>3. /\ Len(r) \in Nat /\ Len(r) = Len(q) - 1
        /\ \A i \in 1..Len(r) : i + 1 \in 1..Len(q) /\ r[i] = q[i + 1]
    BY <1>1, <2>2, CutOf DEF Cut
  <2>4. w = u /\ 0 \in Nat /\ Len(w) \in Nat /\ \A i \in 1..Len(w) : i + 0 = i
    BY <1>1, <2>2 DEF u, w
  <2>5. c.t = "cmd" /\ c.seq \in Nat /\ c.pay \in Int /\ c.pay <= asks
    BY <1>3, <2>1 DEF Cmds
  <2> HIDE DEF c
  <2>6. /\ desk'.id = desk.id /\ desk'.last \in Nat /\ desk.last \in Nat
        /\ desk.last <= desk'.last /\ ~Opens(c, desk'.id, desk'.last)
        /\ acted' = acted \/ (Live(c, desk) /\ acted' = Append(acted, c.pay))
    <3>1. CASE ~Opens(c, desk.id, desk.last) /\ UNCHANGED <<desk, acted>>
      BY <1>1, <3>1 DEF Desks
    <3>2. CASE Opened1(c)
      <4> DEFINE box == Append(desk.outbox, -c.pay)
      <4>1. \/ desk' = [desk EXCEPT !.last = c.seq]
            \/ desk' = [desk EXCEPT !.last = c.seq, !.allow = @ - 1, !.outbox = box]
        BY <3>2 DEF Opened1
      <4> HIDE DEF box
      <4>2. desk'.id = desk.id /\ desk'.last = c.seq  BY <1>1, <4>1 DEF Desks
      <4>3. Opens(c, desk.id, desk.last) /\ (acted' = acted \/ acted' = Append(acted, c.pay))
        BY <3>2 DEF Opened1
      <4> QED BY <1>1, <2>5, <4>2, <4>3 DEF Opens, Live, Desks
    <3> QED BY <2>1, <3>1, <3>2
  <2>7. \A d \in Cmds : Live(d, desk') => Live(d, desk)
    BY <2>6 DEF Live, Opens, Cmds
  <2>8. \A i \in 1..Len(q) : Live(q[i], desk') => Live(q[i], desk) /\ q[i] \in Cmds
    BY <1>3, <2>7 DEF Live
  <2>9. /\ \A k \in 1..Len(acted') :
               \/ k \in 1..Len(acted) /\ acted'[k] = acted[k]
               \/ Live(c, desk) /\ k = Len(acted) + 1 /\ acted'[k] = c.pay
        /\ Len(acted') \in Nat
    <3>1. CASE acted' = acted  BY <1>1, <3>1
    <3>2. CASE Live(c, desk) /\ acted' = Append(acted, c.pay)
      <4>1. Ended(acted, acted', Len(acted), c.pay)  BY <1>1, <2>5, <3>2, AddsOne
      <4> QED BY <1>1, <3>2, <4>1 DEF Ended
    <3> QED BY <2>6, <3>1, <3>2
  <2>10. Live(c, desk) => \A k \in 1..Len(acted) : acted[k] < c.pay
    BY <1>2, <2>1 DEF OpensInTurn, c
  <2>11. ActsInTurn(acted', asks')
    <3>1. \A k \in 1..Len(acted') : acted'[k] <= asks'
      BY <1>2, <2>2, <2>5, <2>9 DEF ActsInTurn
    <3>2. ASSUME NEW i \in 1..Len(acted'), NEW j \in 1..Len(acted'), i < j,
                 acted'[i] > 0, acted'[j] > 0
          PROVE  acted'[i] < acted'[j]
      <4>1. i \in 1..Len(acted) /\ acted'[i] = acted[i]  BY <1>1, <2>9, <3>2
      <4>2. CASE j \in 1..Len(acted) /\ acted'[j] = acted[j]
        BY <1>2, <3>2, <4>1, <4>2 DEF ActsInTurn, InOrder
      <4>3. CASE Live(c, desk) /\ acted'[j] = c.pay  BY <2>10, <4>1, <4>3
      <4> QED BY <2>9, <4>2, <4>3
    <3> QED BY <3>1, <3>2 DEF ActsInTurn, InOrder
  <2>12. AsksInTurn(w, acted', carried', r)
    <3> SUFFICES ASSUME NEW i \in 1..Len(u), u[i].t = "cmd"
                 PROVE  /\ Latest(u[i], acted', carried, r)
                        /\ \A j \in 1..i - 1 : u[j].t = "cmd" => u[j].pay < u[i].pay
      BY <2>2, <2>4 DEF AsksInTurn
    <3>1. /\ Latest(u[i], acted, carried, q)
          /\ \A j \in 1..i - 1 : u[j].t = "cmd" => u[j].pay < u[i].pay
      BY <1>2 DEF AsksInTurn
    <3>2. c.pay < u[i].pay  BY <2>1, <2>5, <3>1 DEF Latest, c
    <3>3. \A k \in 1..Len(acted') : acted'[k] < u[i].pay  BY <2>9, <3>1, <3>2 DEF Latest
    <3>4. \A j \in 1..Len(r) : r[j].t = "cmd" => r[j].pay < u[i].pay
      BY <2>3, <3>1 DEF Latest
    <3>5. Latest(u[i], acted', carried, r)  BY <3>1, <3>3, <3>4 DEF Latest
    <3> QED BY <3>1, <3>5
  <2>13. OpensInTurn(r, desk', acted')
    <3> SUFFICES ASSUME NEW i \in 1..Len(r), Live(r[i], desk')
                 PROVE  /\ \A k \in 1..Len(acted') : acted'[k] < r[i].pay
                        /\ \A j \in 1..i - 1 : Live(r[j], desk') => r[j].pay < r[i].pay
      BY DEF OpensInTurn
    <3>1. i + 1 \in 1..Len(q) /\ r[i] = q[i + 1] /\ Live(q[i + 1], desk) /\ 1 \in 1..(i + 1) - 1
      BY <2>3, <2>8
    <3>2. /\ \A k \in 1..Len(acted) : acted[k] < r[i].pay
          /\ \A j \in 1..(i + 1) - 1 : Live(q[j], desk) => q[j].pay < r[i].pay
      BY <1>2, <3>1 DEF OpensInTurn
    <3>3. \A k \in 1..Len(acted') : acted'[k] < r[i].pay  BY <2>9, <3>1, <3>2 DEF c
    <3>4. ASSUME NEW j \in 1..i - 1, Live(r[j], desk') PROVE r[j].pay < r[i].pay
      <4>1. j \in 1..Len(r) /\ j + 1 \in 1..(i + 1) - 1  BY <2>3
      <4>2. r[j] = q[j + 1] /\ Live(q[j + 1], desk)  BY <2>3, <2>8, <3>4, <4>1
      <4> QED BY <3>2, <4>1, <4>2
    <3> QED BY <3>3, <3>4
  <2>14. Awaited(carried', desk', sock'["desk"], r)
    <3> SUFFICES ASSUME NEW d \in carried, Live(d, desk'), sock["desk"]
                 PROVE  \E i \in 1..Len(r) : r[i].t = "open" \/ r[i] = d
      BY <2>2 DEF Awaited
    <3>1. Live(d, desk)  BY <1>1, <2>7
    <3>2. PICK i \in 1..Len(q) : q[i].t = "open" \/ q[i] = d  BY <1>2, <3>1 DEF Awaited
    <3>3. i # 1  BY <2>5, <2>6, <3>2 DEF Live, c
    <3>4. i - 1 \in 1..Len(r) /\ (i - 1) + 1 = i  BY <1>1, <2>3, <3>3
    <3>5. r[i - 1] = q[i]  BY <2>3, <3>4
    <3> QED BY <3>2, <3>4, <3>5
  <2> QED BY <1>4, <2>11, <2>12, <2>13, <2>14
<1>18. CASE PhoneOpen
  <2>1. /\ PhoneNext(evs["phone"][1].t) /\ Wants \in Subs /\ Ended(u, w, Len(u), Wants)
    BY <1>1, <1>18, PhoneOpenStep DEF u, w
  <2>2. UNCHANGED <<acted, asks, carried, sock, desk>> /\ r = q
    BY <1>1, <2>1, PhoneTakes DEF q, r
  <2>3. 0 \in Nat /\ Len(w) \in Nat /\ \A i \in 1..Len(w) : w[i].t = "cmd" => i + 0 \in 1..Len(u) /\ w[i] = u[i + 0]
    <3>1. /\ Len(w) = Len(u) + 1 /\ w[Len(u) + 1] = Wants
          /\ \A i \in 1..Len(w) : i # Len(u) + 1 => i \in 1..Len(u) /\ w[i] = u[i]
      BY <1>1, <2>1, EndedPlus
    <3>2. Wants.t # "cmd"  BY <2>1 DEF Subs
    <3>3. \A i \in 1..Len(w) : i + 0 = i  BY <1>1, <3>1
    <3> QED BY <1>1, <3>1, <3>2, <3>3
  <2> QED BY <1>7, <2>2, <2>3
<1>19. CASE PhoneLost \/ PhoneEvt \/ PhoneGap
  <2>1. PICK t : PhoneNext(t)  BY <1>19 DEF PhoneLost, PhoneEvt, PhoneGap
  <2>2. UNCHANGED <<acted, asks, carried, sock, desk>> /\ r = q
    BY <1>1, <2>1, PhoneTakes DEF q, r
  <2>3. w = u  BY <1>19 DEF PhoneLost, PhoneEvt, PhoneGap, u, w
  <2> QED BY <1>8, <2>2, <2>3
<1>20. CASE PhoneSay
  <2>1. /\ Ended(u, w, Len(u), Typed) /\ asks' = asks + 1
        /\ r = q /\ UNCHANGED <<acted, carried, sock, desk>>
    BY <1>1, <1>20, PhoneSayStep DEF q, r, u, w
  <2>2. Typed.pay = asks + 1  BY DEF Typed
  <2>3. /\ Len(w) = Len(u) + 1 /\ w[Len(u) + 1] = Typed
        /\ \A i \in 1..Len(w) : i # Len(u) + 1 => i \in 1..Len(u) /\ w[i] = u[i]
    BY <1>1, <2>1, EndedPlus
  <2>4. ActsInTurn(acted', asks')  BY <1>1, <1>2, <2>1 DEF ActsInTurn
  <2>5. AsksInTurn(w, acted', carried', r)
    <3> SUFFICES ASSUME NEW i \in 1..Len(w), w[i].t = "cmd"
                 PROVE  /\ Latest(w[i], acted, carried, q)
                        /\ \A j \in 1..i - 1 : w[j].t = "cmd" => w[j].pay < w[i].pay
      BY <2>1 DEF AsksInTurn
    <3>0. \A j \in 1..i - 1 : j \in 1..Len(u) /\ w[j] = u[j]  BY <1>1, <2>3
    <3>1. CASE i = Len(u) + 1
      <4>1. w[i].pay = asks + 1  BY <2>2, <2>3, <3>1
      <4>2. Latest(w[i], acted, carried, q)
        BY <1>1, <1>2, <1>3, <4>1 DEF Latest, ActsInTurn
      <4>3. ASSUME NEW j \in 1..i - 1, w[j].t = "cmd" PROVE w[j].pay < w[i].pay
        <5>1. j \in 1..Len(u) /\ w[j] = u[j]  BY <3>0
        <5>2. u[j].pay \in Int /\ u[j].pay <= asks  BY <1>3, <4>3, <5>1
        <5> QED BY <1>1, <4>1, <5>1, <5>2
      <4> QED BY <4>2, <4>3
    <3>2. CASE i # Len(u) + 1
      <4>1. i \in 1..Len(u) /\ w[i] = u[i]  BY <2>3, <3>2
      <4> QED BY <1>2, <3>0, <4>1 DEF AsksInTurn
    <3> QED BY <3>1, <3>2
  <2>6. OpensInTurn(r, desk', acted') /\ Awaited(carried', desk', sock'["desk"], r)
    BY <1>2, <2>1
  <2> QED BY <1>4, <2>4, <2>5, <2>6
<1> QED BY <1>10, <1>11, <1>12, <1>14, <1>15, <1>16, <1>17, <1>18, <1>19, <1>20
        DEF Next, DeskStep, PhoneStep

-----------------------------------------------------------------------------
(***************************************************************************)
(* What the phone has not read.                                            *)
(***************************************************************************)

LEMMA QueuedCut ==
    ASSUME NEW q, NEW r, NEW k, NEW lg, NEW at, NEW c,
           Len(q) \in Nat, QueuedIn(q, lg, at, c), Cut(q, r, k)
    PROVE  QueuedIn(r, lg, at, c)
<1>1. /\ k \in Nat /\ Len(r) \in Nat
      /\ \A i \in 1..Len(r) : i + k \in 1..Len(q) /\ r[i] = q[i + k]
  BY CutOf
<1>2. \A i, j \in 1..Len(r) : i < j => i + k < j + k  BY <1>1
<1> QED BY <1>1, <1>2 DEF QueuedIn

\* What a socket that opens or goes leaves of it is the front of it.
LEMMA QueuedFront ==
    ASSUME NEW q, NEW r, NEW lg, NEW at, NEW c, QueuedIn(q, lg, at, c),
           \A i \in 1..Len(r) : Numbered(r[i]) => i \in 1..Len(q) /\ r[i] = q[i]
    PROVE  QueuedIn(r, lg, at, c)
<1>1. \A i \in 1..Len(r) : Numbered(r[i]) => i \in 1..Len(q) /\ r[i] = q[i]
  OBVIOUS
<1>2. \A i \in 1..Len(r) : r[i].t = "evt" => Numbered(r[i])  BY DEF Numbered
<1> QED BY <1>1, <1>2 DEF QueuedIn

\* A log that grows keeps what it has.
LEMMA QueuedGrow ==
    ASSUME NEW q, NEW lg, NEW lh, NEW at, NEW c, NEW x, Len(lg) \in Nat, c \in Nat,
           QueuedIn(q, lg, at, c), Ended(lg, lh, Len(lg), x)
    PROVE  QueuedIn(q, lh, at, c)
<1>1. Len(lh) = Len(lg) + 1 /\ \A n \in 1..Len(lg) : n \in 1..Len(lh) /\ lh[n] = lg[n]
  BY DEF Ended
<1>2. \A n \in c..Len(lg) : n \in c..Len(lh)  BY <1>1
<1> QED BY <1>1, <1>2 DEF QueuedIn

LEMMA QueuedNext ==
    ASSUME NEW q, NEW r, NEW lg, NEW lh, NEW at, NEW c, NEW x, Len(lg) \in Nat, c \in Nat,
           Len(q) \in Nat, c <= Len(lg),
           QueuedIn(q, lg, at, c), Ended(lg, lh, Len(lg), x), Ended(q, r, Len(q), x),
           x.t = "evt", x.n = Len(lg) + 1, Before(at, x)
    PROVE  QueuedIn(r, lh, at, c)
<1>1. QueuedIn(q, lh, at, c)  BY QueuedGrow
<1>2. /\ Len(r) = Len(q) + 1 /\ r[Len(q) + 1] = x
      /\ \A i \in 1..Len(r) : i # Len(q) + 1 => i \in 1..Len(q) /\ r[i] = q[i]
  BY EndedPlus
<1>3. x.n \in 1..Len(lh) /\ lh[x.n] = x /\ x.n \in c..Len(lh) /\ Num(x) = x.n
  BY DEF Ended, Num
<1>4. \A i \in 1..Len(q) : Numbered(q[i]) => Num(q[i]) < x.n
  BY DEF QueuedIn
<1>5. \A i \in 1..Len(q) : q[i].t = "evt" => q[i].n < x.n
  BY DEF QueuedIn
<1>6. \A i \in 1..Len(r) :
          /\ r[i].t = "evt" => r[i].n \in 1..Len(lh) /\ r[i] = lh[r[i].n] /\ Before(at, r[i])
          /\ Numbered(r[i]) => Num(r[i]) \in c..Len(lh)
  BY <1>1, <1>2, <1>3 DEF QueuedIn
<1>7. \A i, j \in 1..Len(r) : i < j => i # Len(q) + 1
  BY <1>2
<1>8. \A i, j \in 1..Len(r) : (i < j /\ Numbered(r[i]) /\ Numbered(r[j])) =>
          /\ Num(r[i]) <= Num(r[j])
          /\ (r[i].t = "evt" /\ r[j].t = "evt") => r[i].n < r[j].n
  <2> SUFFICES ASSUME NEW i \in 1..Len(r), NEW j \in 1..Len(r), i < j, Numbered(r[i]), Numbered(r[j])
               PROVE  /\ Num(r[i]) <= Num(r[j])
                      /\ (r[i].t = "evt" /\ r[j].t = "evt") => r[i].n < r[j].n
    OBVIOUS
  <2>1. i \in 1..Len(q) /\ r[i] = q[i]  BY <1>2, <1>7
  <2>2. CASE j = Len(q) + 1
    <3>1. r[j] = x /\ Num(q[i]) < x.n /\ Num(r[j]) = x.n  BY <1>2, <1>3, <1>4, <2>1, <2>2
    <3>2. Num(q[i]) \in Int  BY <2>1 DEF QueuedIn
    <3>3. x.n \in Int  OBVIOUS
    <3> QED BY <1>5, <2>1, <3>1, <3>2, <3>3
  <2>3. CASE j # Len(q) + 1  BY <1>1, <1>2, <2>1, <2>3 DEF QueuedIn
  <2> QED BY <2>2, <2>3
<1> QED BY <1>6, <1>8 DEF QueuedIn

LEMMA MovedFront ==
    ASSUME NEW k \in Nat, NEW sent, NEW x \in {Open, Lost}, Moved(k, sent, x)
    PROVE  \A i \in 1..Len(evs'["phone"]) : Numbered(evs'["phone"][i]) =>
              i \in 1..Len(evs["phone"]) /\ evs'["phone"][i] = evs["phone"][i]
<1> DEFINE q == evs["phone"]
           r == evs'["phone"]
<1>1. /\ Len(r) = k + 1 /\ r[k + 1] = x
      /\ \A i \in 1..k : i \in 1..Len(q) /\ (r[i] = q[i] \/ (q[i].t = "open" /\ r[i] = Stale))
  BY DEF Moved
<1>2. ~Numbered(x) /\ ~Numbered(Stale)  BY DEF Numbered, Open, Lost, Stale
<1> HIDE DEF q, r
<1>3. \A i \in 1..Len(r) : i \in 1..k \/ i = k + 1  BY <1>1
<1> QED BY <1>1, <1>2, <1>3 DEF q, r

\* As long as no asking came late, one the hub listens to is the only one there is.
LEMMA AskedFor ==
    ASSUME Always, Asking, Subscribe, ~late'
    PROVE  \/ UNCHANGED <<evs, att, skipped>>
           \/ /\ 1 \in 1..Len(out["phone"]) /\ out["phone"][1].t = "sub"
              /\ out["phone"][1].since = phone.cursor
              /\ sock["phone"] /\ ~att.sub
              /\ OnceIn(out["phone"], "sub", 1) /\ NoneIn(evs["phone"], "open")
              /\ \A j \in 1..Len(evs["phone"]) : ~Numbered(evs["phone"][j])
              /\ Listened(phone.cursor) /\ Replay(phone.cursor, evs["phone"], evs'["phone"])
<1>1. /\ 1 \in 1..Len(out["phone"]) /\ out["phone"][1].t \in {"sub", "late"}
      /\ \/ Listened(out["phone"][1].since) /\ late' = (late \/ out["phone"][1].t = "late")
         \/ UNCHANGED <<evs, att, skipped, late>>
  BY SubscribeStep DEF Always
<1>2. CASE UNCHANGED <<evs, att, skipped>>  BY <1>2
<1>3. CASE Listened(out["phone"][1].since) /\ late' = (late \/ out["phone"][1].t = "late")
  <2>1. out["phone"][1].t = "sub"  BY <1>1, <1>3
  <2> QED BY <1>1, <1>3, <2>1 DEF Asking, Listened
<1> QED BY <1>1, <1>2, <1>3

\* What is not read lies past what was heard.
LEMMA AheadStep ==
    ASSUME Always, InTime, [Next]_vars, ~late'
    PROVE  Ahead'
<1> DEFINE o == out["desk"]
           q == evs["phone"]
<1>1. /\ Types /\ Along /\ Counted /\ Underway
      /\ Len(log) \in Nat /\ Len(o) \in Nat /\ Len(q) \in Nat /\ phone.cursor \in Nat
      /\ phone \in Phones
  BY Lengths DEF Always, Types, Phones
<1>2. /\ phone.cursor <= Len(log)
      /\ QueuedIn(q, log, HeardAt, phone.cursor)
      /\ \A n \in 1..Len(log) : n > phone.cursor => Before(HeardAt, log[n])
      /\ \A i \in 1..Len(o) : Before(HeardAt, o[i])
  BY DEF InTime, Ahead
<1> HIDE DEF q, o
\* Steps that leave the log and the phone alone.
<1>3. ASSUME log' = log, HeardAt' = HeardAt, phone'.cursor = phone.cursor,
             QueuedIn(evs'["phone"], log, HeardAt, phone.cursor),
             \A i \in 1..Len(out'["desk"]) : Before(HeardAt, out'["desk"][i])
      PROVE  Ahead'
  BY <1>2, <1>3 DEF Ahead
<1>4. ASSUME log' = log, HeardAt' = HeardAt, phone'.cursor = phone.cursor,
             evs'["phone"] = q \/ \E k : Cut(q, evs'["phone"], k),
             out'["desk"] = o \/ \E k : Cut(o, out'["desk"], k)
      PROVE  Ahead'
  <2>1. QueuedIn(evs'["phone"], log, HeardAt, phone.cursor)
    BY <1>1, <1>2, <1>4, QueuedCut
  <2>2. out'["desk"] = o \/ Of(o, out'["desk"])
    BY <1>1, <1>4, CutOf
  <2>3. \A i \in 1..Len(out'["desk"]) : Before(HeardAt, out'["desk"][i])
    BY <1>2, <2>2 DEF Of
  <2> QED BY <1>3, <1>4, <2>1, <2>3
<1>5. CASE Wire
  <2>0. phone' = phone /\ HeardAt' = HeardAt  BY <1>5 DEF Wire, ends_vars, HeardAt
  <2>1. CASE Publish
    <3> DEFINE p == o[1]
               x == Stored(p)
    <3>1. /\ 1 \in 1..Len(o) /\ Ended(log, log', Len(log), x) /\ Cut(o, out'["desk"], 1)
          /\ Ended(q, evs'["phone"], Len(q), x) \/ evs'["phone"] = q
      BY <1>1, <2>1, PublishStep DEF o, q
    <3>2. x.t = "evt" /\ x.n = Len(log) + 1 /\ x.link = p.link /\ x.seq = p.seq
      BY DEF Stored
    <3>3. Before(HeardAt, x)
      <4>1. Before(HeardAt, p)  BY <1>2, <3>1
      <4> QED BY <3>2, <4>1 DEF Before
    <3> HIDE DEF p, x
    <3>4. QueuedIn(evs'["phone"], log', HeardAt, phone.cursor)
      <4>1. CASE evs'["phone"] = q  BY <1>1, <1>2, <3>1, <4>1, QueuedGrow
      <4>2. CASE Ended(q, evs'["phone"], Len(q), x)
        BY <1>1, <1>2, <3>1, <3>2, <3>3, <4>2, QueuedNext
      <4> QED BY <3>1, <4>1, <4>2
    <3>5. /\ Len(log') = Len(log) + 1 /\ log'[Len(log) + 1] = x
          /\ \A n \in 1..Len(log') : n # Len(log) + 1 => n \in 1..Len(log) /\ log'[n] = log[n]
      BY <1>1, <3>1, EndedPlus
    <3>6. \A n \in 1..Len(log') : n > phone.cursor => Before(HeardAt, log'[n])
      BY <1>2, <3>3, <3>5
    <3>7. \A i \in 1..Len(out'["desk"]) : Before(HeardAt, out'["desk"][i])
      <4>1. Of(o, out'["desk"])  BY <1>1, <3>1, CutOf
      <4> QED BY <1>2, <4>1 DEF Of
    <3>8. phone.cursor <= Len(log')  BY <1>1, <1>2, <3>5
    <3> QED BY <2>0, <3>4, <3>6, <3>7, <3>8 DEF Ahead
  <2>2. CASE Refuse  BY <1>1, <1>4, <2>0, <2>2, RefuseStep DEF o, q
  <2>3. CASE Subscribe
    <3>1. /\ UNCHANGED log /\ out'["desk"] = o
          /\ \/ evs' = evs
             \/ /\ Replay(phone.cursor, q, evs'["phone"])
                /\ \A j \in 1..Len(q) : ~Numbered(q[j])
      BY <1>1, <2>3, SubscribeStep, AskedFor DEF InTime, o, q
    <3>2. CASE evs' = evs  BY <1>4, <2>0, <3>1, <3>2 DEF q
    <3>3. CASE /\ Replay(phone.cursor, q, evs'["phone"])
               /\ \A j \in 1..Len(q) : ~Numbered(q[j])
      <4> DEFINE r == evs'["phone"]
                 c == phone.cursor
                 g == Left(c)
                 first == After(c)
                 last == LastOf(c)
                 gap == [t |-> "gap", from |-> oldest]
      <4>1. /\ g \in {0, 1} /\ first \in Nat /\ last \in Int
            /\ first > c /\ first >= 1 /\ last <= Len(log)
            /\ g = 1 => first = oldest /\ oldest \in 1..Len(log) /\ r[Len(q) + 1] = gap
            /\ Len(r) \in Nat
            /\ \A i \in 1..Len(q) : r[i] = q[i]
            /\ \A i \in 1..Len(r) :
                  \/ i \in 1..Len(q)
                  \/ g = 1 /\ i = Len(q) + 1
                  \/ /\ i > Len(q) + g
                     /\ \E n \in first..last : n = first + (i - (Len(q) + g)) - 1 /\ r[i] = log[n]
        <5>1. Replayed(phone.cursor, q, evs'["phone"])  BY <1>1, <3>3, ReplayIs
        <5> QED BY <5>1 DEF Replayed
      <4>2. ~\E i \in 1..Len(q) : Numbered(r[i])  BY <3>3, <4>1
      <4>3. \A n \in first..last : /\ n \in 1..Len(log) /\ log[n].n = n /\ log[n].t = "evt"
                                   /\ n > c /\ Numbered(log[n]) /\ Num(log[n]) = n
        <5> SUFFICES ASSUME NEW n \in first..last
                     PROVE  /\ n \in 1..Len(log) /\ log[n].n = n /\ log[n].t = "evt"
                            /\ n > c /\ Numbered(log[n]) /\ Num(log[n]) = n
          OBVIOUS
        <5> HIDE DEF first, last, c
        <5>1. n \in 1..Len(log) /\ n > c  BY <1>1, <4>1 DEF c
        <5>2. log[n].n = n /\ log[n].t = "evt"
          <6>1. log[n] \in Evts  BY <1>1, <5>1, Lengths
          <6> QED BY <1>1, <5>1, <6>1 DEF Along, Evts
        <5> QED BY <5>1, <5>2 DEF Numbered, Num
      <4> HIDE DEF r, g, first, last
      <4>4. gap.t = "gap" /\ Num(gap) = oldest  BY DEF Num
      <4> HIDE DEF gap
      <4>5. ASSUME NEW i \in 1..Len(r)
            PROVE  /\ r[i].t = "evt" => r[i].n \in 1..Len(log) /\ r[i] = log[r[i].n]
                                         /\ Before(HeardAt, r[i])
                   /\ Numbered(r[i]) => Num(r[i]) \in c..Len(log)
        <5>1. CASE i \in 1..Len(q)  BY <4>2, <5>1 DEF Numbered
        <5>2. CASE g = 1 /\ i = Len(q) + 1
          <6>1. r[i].t # "evt" /\ Num(r[i]) = oldest  BY <4>1, <4>4, <5>2
          <6>2. oldest \in c..Len(log)  BY <1>1, <4>1, <5>2
          <6> QED BY <6>1, <6>2
        <5>3. CASE \E n \in first..last : r[i] = log[n]
          <6>1. PICK n \in first..last : r[i] = log[n]  BY <5>3
          <6>2. n \in 1..Len(log) /\ n > c /\ r[i].n = n /\ Num(r[i]) = n  BY <4>3, <6>1
          <6> QED BY <1>1, <1>2, <6>1, <6>2
        <5> QED BY <4>1, <5>1, <5>2, <5>3
      <4>6. ASSUME NEW i \in 1..Len(r), NEW j \in 1..Len(r), i < j,
                   Numbered(r[i]), Numbered(r[j])
            PROVE  /\ Num(r[i]) <= Num(r[j])
                   /\ (r[i].t = "evt" /\ r[j].t = "evt") => r[i].n < r[j].n
        <5>1. i \notin 1..Len(q) /\ j \notin 1..Len(q)  BY <4>2, <4>6
        <5>2. ~(g = 1 /\ j = Len(q) + 1)  BY <1>1, <4>1, <4>6, <5>1
        <5>3. PICK n \in first..last : n = first + (j - (Len(q) + g)) - 1 /\ r[j] = log[n]
          BY <4>1, <5>1, <5>2
        <5>4. Num(r[j]) = n /\ r[j].n = n  BY <4>3, <5>3
        <5>5. CASE g = 1 /\ i = Len(q) + 1
          <6>1. r[i].t # "evt" /\ Num(r[i]) = oldest /\ oldest = first  BY <4>1, <4>4, <5>5
          <6>2. oldest <= n  BY <4>1, <6>1
          <6> QED BY <5>4, <6>1, <6>2
        <5>6. CASE ~(g = 1 /\ i = Len(q) + 1)
          <6>1. PICK m \in first..last : m = first + (i - (Len(q) + g)) - 1 /\ r[i] = log[m]
            BY <4>1, <5>1, <5>6
          <6>2. Num(r[i]) = m /\ r[i].n = m  BY <4>3, <6>1
          <6>3. m < n  BY <1>1, <4>1, <4>6, <5>3, <6>1
          <6> QED BY <5>4, <6>2, <6>3
        <5> QED BY <5>5, <5>6
      <4>7. QueuedIn(r, log, HeardAt, c)  BY <4>5, <4>6 DEF QueuedIn
      <4> QED BY <1>2, <1>3, <2>0, <3>1, <4>7 DEF r
    <3> QED BY <3>1, <3>2, <3>3
  <2>4. CASE Command  BY <1>1, <1>4, <2>0, <2>4, CommandStep DEF o, q
  <2>5. CASE Again  BY <1>1, <1>4, <2>0, <2>5, AgainStep DEF o, q
  <2>6. CASE Tidy \/ Calm  BY <1>4, <2>0, <2>6 DEF Tidy, Calm, o, q
  <2>7. ASSUME NEW e \in Ends, Connect(e) \/ DialFails(e) \/ Break(e) PROVE Ahead'
    <3>1. /\ SocketMoves(e) /\ log' = log
          /\ \A d \in Ends : d # e => out'[d] = out[d] /\ evs'[d] = evs[d]
      BY <1>1, <2>7, SocketStep
    <3>3. CASE e = "desk"
      <4>1. /\ \E sent : Cut(o, out'["desk"], sent)
            /\ evs'["phone"] = q
        BY <3>1, <3>3, DeskMoves DEF Ends, o, q
      <4> QED BY <1>4, <2>0, <3>1, <4>1
    <3>4. CASE e = "phone"
      <4>1. out'["desk"] = o  BY <3>1, <3>4 DEF Ends, o
      <4>2. PICK k, sent \in Nat, x \in {Open, Lost} : Moved(k, sent, x)
        BY <1>1, <3>1, <3>4, PhoneMoves
      <4>3. QueuedIn(evs'["phone"], log, HeardAt, phone.cursor)
        BY <1>2, <4>2, MovedFront, QueuedFront DEF q
      <4> QED BY <1>2, <1>3, <2>0, <3>1, <4>1, <4>3
    <3> QED BY <3>3, <3>4 DEF Ends
  <2> QED BY <1>5, <2>1, <2>2, <2>3, <2>4, <2>5, <2>6, <2>7 DEF Wire, Hub
<1>6. CASE Say \/ Refill \/ Drained \/ UNCHANGED vars
  <2>1. UNCHANGED <<log, out, evs, phone>>
    BY <1>6 DEF Say, Refill, Drained, vars, relay_vars, ends_vars
  <2> QED BY <1>4, <2>1 DEF o, q, HeardAt
<1>7. CASE DeskOpen \/ DeskLost \/ DeskCmd
  <2>1. PICK t : DeskNext(t)  BY <1>7 DEF DeskOpen, DeskLost, DeskCmd
  <2>2. UNCHANGED <<log, out, phone>> /\ evs'["phone"] = q  BY <1>1, <2>1, DeskTakes DEF q
  <2> QED BY <1>4, <2>2 DEF o, HeardAt
<1>8. CASE Flush
  <2>1. UNCHANGED <<log, evs, phone>> /\ (Sends \/ Keeps)  BY <1>1, <1>8, FlushStep
  <2>2. CASE Keeps  BY <1>4, <2>1, <2>2 DEF Keeps, o, q, HeardAt
  <2>3. CASE Sends
    <3> DEFINE n == Len(desk.outbox)
               r == out'["desk"]
    <3>1. n \in Nat
      <4>1. desk.outbox \in Seq(Pay)  BY <1>1 DEF Types, Desks
      <4> QED BY <4>1, LenProperties
    <3>2. /\ Len(r) = Len(o) + n /\ \A i \in 1..Len(o) : r[i] = o[i]
          /\ \A i \in 1..n : r[Len(o) + i] = FrameOf(i)
      BY <2>3 DEF Sends, o
    <3>3. \A i \in 1..n : Before(HeardAt, FrameOf(i))
      <4>1. UpTo(HeardAt, DeskAt) /\ desk.id \in Nat /\ desk.seq \in Nat
        BY <1>1 DEF InTime, Heard, Types, Desks
      <4> QED BY <1>1, <3>1, <4>1 DEF UpTo, Before, HeardAt, DeskAt, At, FrameOf, Phones
    <3> HIDE DEF n, r
    <3>4. ASSUME NEW i \in 1..Len(r) PROVE Before(HeardAt, r[i])
      <4>1. CASE i \in 1..Len(o)  BY <1>2, <3>2, <4>1
      <4>2. CASE i \notin 1..Len(o)
        <5>1. i - Len(o) \in 1..n /\ Len(o) + (i - Len(o)) = i  BY <1>1, <3>1, <3>2, <4>2
        <5> QED BY <3>2, <3>3, <5>1
      <4> QED BY <4>1, <4>2
    <3> QED BY <1>2, <1>3, <2>1, <3>4 DEF q, r, HeardAt
  <2> QED BY <2>1, <2>2, <2>3
<1>9. CASE TakeOver
  <2>1. out'["desk"] = <<>> /\ evs'["phone"] = q /\ UNCHANGED <<log, phone>>
    BY <1>1, <1>9 DEF TakeOver, Types, q
  <2> QED BY <1>2, <1>3, <2>1 DEF HeardAt
<1>10. CASE PhoneOpen \/ PhoneLost
  <2>1. PICK t : PhoneNext(t)  BY <1>10 DEF PhoneOpen, Ask, PhoneLost
  <2>2. log' = log /\ Cut(q, evs'["phone"], 1)  BY <1>1, <2>1, PhoneTakes DEF q
  <2>3. UNCHANGED phone  BY <1>10 DEF PhoneOpen, PhoneLost
  <2>4. out'["desk"] = o  BY <1>1, <1>10, PhoneOpenStep DEF PhoneLost, o
  <2> QED BY <1>4, <2>2, <2>3, <2>4 DEF HeardAt
<1>11. CASE PhoneEvt
  <2> DEFINE f == q[1]
             r == evs'["phone"]
  <2>1. /\ PhoneNext("evt") /\ 1 \in 1..Len(q) /\ f.t = "evt" /\ Reads(f)
    BY <1>11, PhoneEvtStep DEF InTime, q
  <2>2. log' = log /\ Cut(q, r, 1)  BY <1>1, <2>1, PhoneTakes DEF q
  <2>3. /\ f.n \in 1..Len(log) /\ f = log[f.n] /\ f.n >= phone.cursor
        /\ phone'.cursor = f.n /\ phone'.desk = f.link /\ phone'.last = f.seq
        /\ out' = out
    BY <2>1 DEF Reads
  <2>4. /\ Len(r) \in Nat
        /\ \A i \in 1..Len(r) : i + 1 \in 1..Len(q) /\ r[i] = q[i + 1]
    BY <1>1, <2>2, CutOf
  <2>5. \A n \in 1..Len(log) : n > f.n => Before(f, log[n])
    BY <1>1, <2>3 DEF Along
  <2>6. \A x : Before(HeardAt', x) <=> Before(f, x)
    BY <2>3 DEF HeardAt, At, Before
  <2>7. Num(f) = f.n /\ Numbered(f)  BY <2>1 DEF Num, Numbered
  <2> HIDE DEF f, r
  <2>8. ASSUME NEW i \in 1..Len(r), Numbered(r[i])
        PROVE  /\ f.n <= Num(r[i])
               /\ r[i].t = "evt" => f.n < r[i].n
               /\ Num(r[i]) \in phone.cursor..Len(log)
    <3>1. 1 < i + 1 /\ i + 1 \in 1..Len(q) /\ r[i] = q[i + 1]  BY <2>4
    <3> QED BY <1>2, <2>1, <2>7, <2>8, <3>1 DEF QueuedIn, f
  <2>9. QueuedIn(r, log, HeardAt, phone.cursor)  BY <1>1, <1>2, <2>2, QueuedCut
  <2>10. ASSUME NEW i \in 1..Len(r)
         PROVE  /\ r[i].t = "evt" => r[i].n \in 1..Len(log) /\ r[i] = log[r[i].n]
                                      /\ Before(HeardAt', r[i])
                /\ Numbered(r[i]) => Num(r[i]) \in f.n..Len(log)
    <3>1. r[i].t = "evt" => r[i].n \in 1..Len(log) /\ r[i] = log[r[i].n]
      BY <2>9 DEF QueuedIn
    <3>2. r[i].t = "evt" => Before(f, r[i])
      <4>1. r[i].t = "evt" => Numbered(r[i])  BY DEF Numbered
      <4> QED BY <2>5, <2>8, <3>1, <4>1
    <3>3. Numbered(r[i]) => Num(r[i]) \in f.n..Len(log)
      BY <2>3, <2>8
    <3> QED BY <2>6, <3>1, <3>2, <3>3
  <2>11. QueuedIn(r, log, HeardAt', f.n)
    BY <2>9, <2>10 DEF QueuedIn
  <2>12. \A i \in 1..Len(o) : Before(f, o[i])
    BY <1>1, <2>3 DEF Along, o
  <2>13. f.n <= Len(log)  BY <2>3
  <2> QED BY <2>2, <2>3, <2>5, <2>6, <2>11, <2>12, <2>13 DEF Ahead, r, o
<1>12. CASE PhoneGap
  <2> DEFINE f == q[1]
             r == evs'["phone"]
  <2>1. PhoneNext("gap")  BY <1>12 DEF PhoneGap
  <2>2. /\ log' = log /\ Cut(q, r, 1) /\ 1 \in 1..Len(q) /\ f.t = "gap" /\ f = Head(q)
    BY <1>1, <2>1, PhoneTakes DEF q
  <2>3. /\ phone'.cursor = f.from /\ phone'.desk = phone.desk /\ phone'.last = phone.last
        /\ out' = out
    BY <1>1, <1>12, <2>2 DEF PhoneGap, Phones, q
  <2>4. Numbered(f) /\ Num(f) = f.from  BY <2>2 DEF Numbered, Num
  <2>5. f.from \in phone.cursor..Len(log)  BY <1>2, <2>2, <2>4 DEF QueuedIn
  <2>6. /\ Len(r) \in Nat
        /\ \A i \in 1..Len(r) : i + 1 \in 1..Len(q) /\ r[i] = q[i + 1]
    BY <1>1, <2>2, CutOf
  <2>7. QueuedIn(r, log, HeardAt, phone.cursor)  BY <1>1, <1>2, <2>2, QueuedCut
  <2> HIDE DEF f, r
  <2>8. ASSUME NEW i \in 1..Len(r), Numbered(r[i]) PROVE Num(r[i]) \in f.from..Len(log)
    <3>1. 1 < i + 1 /\ i + 1 \in 1..Len(q) /\ r[i] = q[i + 1]  BY <2>6
    <3>2. Num(f) <= Num(r[i])  BY <1>2, <2>2, <2>4, <2>8, <3>1 DEF QueuedIn, f
    <3>3. Num(r[i]) \in phone.cursor..Len(log)  BY <2>7, <2>8 DEF QueuedIn
    <3> QED BY <1>1, <2>4, <2>5, <3>2, <3>3
  <2>9. QueuedIn(r, log, HeardAt, f.from)  BY <2>7, <2>8 DEF QueuedIn
  <2>10. HeardAt' = HeardAt  BY <2>3 DEF HeardAt, At
  <2>11. /\ f.from <= Len(log)
         /\ \A n \in 1..Len(log) : n > f.from => Before(HeardAt, log[n])
    BY <1>1, <1>2, <2>5
  <2> QED BY <1>2, <2>2, <2>3, <2>9, <2>10, <2>11 DEF Ahead, r, o
<1>13. CASE PhoneSay
  <2>1. /\ log' = log /\ evs'["phone"] = q /\ out'["desk"] = o
        /\ phone' = [phone EXCEPT !.seq = @ + 1]
    BY <1>1, <1>13, PhoneSayStep DEF o, q
  <2>2. phone'.cursor = phone.cursor /\ HeardAt' = HeardAt
    BY <1>1, <2>1 DEF HeardAt, At, Phones
  <2> QED BY <1>4, <2>1, <2>2
<1> QED BY <1>5, <1>6, <1>7, <1>8, <1>9, <1>10, <1>11, <1>12, <1>13
        DEF Next, DeskStep, PhoneStep

-----------------------------------------------------------------------------
(***************************************************************************)
(* What the phone asks.                                                    *)
(***************************************************************************)

LEMMA CutSelf == ASSUME NEW q, Len(q) \in Nat PROVE Cut(q, q, 0)
BY DEF Cut

\* A phone asks once for each socket.
LEMMA AskingStep ==
    ASSUME Always, InTime, [Next]_vars, ~late'
    PROVE  Asking'
<1> DEFINE q == evs["phone"]
           u == out["phone"]
           r == evs'["phone"]
           w == out'["phone"]
<1>1. /\ Types /\ Len(q) \in Nat /\ Len(u) \in Nat /\ phone \in Phones
      /\ Cut(q, q, 0) /\ Cut(u, u, 0)
  BY Lengths, CutSelf DEF Always, Types
<1>2. /\ \A i \in 1..Len(q) : q[i].t = "open" =>
            /\ sock["phone"] /\ ~att.sub
            /\ OnceIn(q, "open", i) /\ NoneIn(u, "sub")
            /\ \A j \in i..Len(q) : ~Numbered(q[j])
      /\ \A i \in 1..Len(u) : u[i].t = "sub" =>
            /\ sock["phone"] /\ ~att.sub
            /\ OnceIn(u, "sub", i) /\ NoneIn(q, "open")
            /\ u[i].since = phone.cursor
            /\ \A j \in 1..Len(q) : ~Numbered(q[j])
  BY DEF InTime, Asking
<1>3. ASSUME /\ \A i \in 1..Len(r) : r[i].t = "open" =>
                   /\ sock'["phone"] /\ ~att'.sub
                   /\ OnceIn(r, "open", i) /\ NoneIn(w, "sub")
                   /\ \A j \in i..Len(r) : ~Numbered(r[j])
             /\ \A i \in 1..Len(w) : w[i].t = "sub" =>
                   /\ sock'["phone"] /\ ~att'.sub
                   /\ OnceIn(w, "sub", i) /\ NoneIn(r, "open")
                   /\ w[i].since = phone'.cursor
                   /\ \A j \in 1..Len(r) : ~Numbered(r[j])
      PROVE  Asking'
  BY <1>3 DEF Asking
<1> HIDE DEF q, u, r, w
<1>4. ASSUME NoneIn(r, "open"), NoneIn(w, "sub") PROVE Asking'
  BY <1>3, <1>4 DEF NoneIn
\* Steps that only take from the two queues.
<1>5. ASSUME sock'["phone"] = sock["phone"], att'.sub = att.sub,
             NEW k, Cut(q, r, k), NEW l \in Nat, Len(w) \in Nat,
             \A i \in 1..Len(w) : w[i].t = "sub" => i + l \in 1..Len(u) /\ w[i] = u[i + l],
             phone'.cursor = phone.cursor \/ \E i \in 1..Len(q) : Numbered(q[i])
      PROVE  Asking'
  <2>1. k \in Nat /\ Len(r) \in Nat /\ \A i \in 1..Len(r) : i + k \in 1..Len(q) /\ r[i] = q[i + k]
    BY <1>1, <1>5, CutOf
  <2>2. l \in Nat /\ Len(w) \in Nat
        /\ \A i \in 1..Len(w) : w[i].t = "sub" => i + l \in 1..Len(u) /\ w[i] = u[i + l]
    BY <1>5
  <2>3. ASSUME NoneIn(u, "sub") PROVE NoneIn(w, "sub")
    BY <2>2, <2>3 DEF NoneIn
  <2>4. ASSUME NoneIn(q, "open") PROVE NoneIn(r, "open")
    BY <2>1, <2>4 DEF NoneIn
  <2>5. ASSUME NEW i \in 1..Len(r), r[i].t = "open"
        PROVE  /\ sock'["phone"] /\ ~att'.sub
               /\ OnceIn(r, "open", i) /\ NoneIn(w, "sub")
               /\ \A j \in i..Len(r) : ~Numbered(r[j])
    <3>1. i + k \in 1..Len(q) /\ q[i + k].t = "open"  BY <2>1, <2>5
    <3>2. /\ sock["phone"] /\ ~att.sub /\ OnceIn(q, "open", i + k) /\ NoneIn(u, "sub")
          /\ \A j \in i + k..Len(q) : ~Numbered(q[j])
      BY <1>2, <3>1
    <3>3. OnceIn(r, "open", i)
      <4> SUFFICES ASSUME NEW j \in 1..Len(r), r[j].t = "open" PROVE j = i
        BY DEF OnceIn
      <4>1. j + k \in 1..Len(q) /\ q[j + k].t = "open"  BY <2>1
      <4>2. j + k = i + k  BY <3>2, <4>1 DEF OnceIn
      <4> QED BY <2>1, <4>2
    <3>4. \A j \in i..Len(r) : j \in 1..Len(r) /\ j + k \in i + k..Len(q) /\ r[j] = q[j + k]
      BY <2>1
    <3> QED BY <1>5, <2>3, <3>2, <3>3, <3>4
  <2>6. ASSUME NEW i \in 1..Len(w), w[i].t = "sub"
        PROVE  /\ sock'["phone"] /\ ~att'.sub
               /\ OnceIn(w, "sub", i) /\ NoneIn(r, "open")
               /\ w[i].since = phone'.cursor
               /\ \A j \in 1..Len(r) : ~Numbered(r[j])
    <3>1. i + l \in 1..Len(u) /\ u[i + l].t = "sub" /\ w[i] = u[i + l]  BY <2>2, <2>6
    <3>2. /\ sock["phone"] /\ ~att.sub /\ OnceIn(u, "sub", i + l) /\ NoneIn(q, "open")
          /\ u[i + l].since = phone.cursor
          /\ \A j \in 1..Len(q) : ~Numbered(q[j])
      BY <1>2, <3>1
    <3>3. OnceIn(w, "sub", i)
      <4> SUFFICES ASSUME NEW j \in 1..Len(w), w[j].t = "sub" PROVE j = i
        BY DEF OnceIn
      <4>1. j + l \in 1..Len(u) /\ u[j + l].t = "sub"  BY <2>2
      <4>2. j + l = i + l  BY <3>2, <4>1 DEF OnceIn
      <4> QED BY <2>2, <4>2
    <3> QED BY <1>5, <2>1, <2>4, <3>1, <3>2, <3>3
  <2> QED BY <1>3, <2>5, <2>6
<1>6. ASSUME sock'["phone"] = sock["phone"], att'.sub = att.sub,
             NEW k, Cut(q, r, k), NEW l, Cut(u, w, l),
             phone'.cursor = phone.cursor \/ \E i \in 1..Len(q) : Numbered(q[i])
      PROVE  Asking'
  <2>1. /\ l \in Nat /\ Len(w) \in Nat
        /\ \A i \in 1..Len(w) : i + l \in 1..Len(u) /\ w[i] = u[i + l]
    BY <1>1, <1>6, CutOf
  <2> QED BY <1>5, <1>6, <2>1
<1>7. CASE Wire
  <2>0. phone' = phone  BY <1>7 DEF Wire, ends_vars
  <2>1. CASE Publish
    <3> DEFINE x == Stored(out["desk"][1])
    <3>1. /\ w = u /\ UNCHANGED <<att, sock>>
          /\ IF sock["phone"] /\ att.sub THEN Ended(q, r, Len(q), x) ELSE evs' = evs
      BY <1>1, <2>1, PublishStep DEF q, u, r, w
    <3>2. x.t = "evt"  BY DEF Stored
    <3> HIDE DEF x
    <3>3. CASE sock["phone"] /\ att.sub
      <4>1. NoneIn(q, "open") /\ NoneIn(u, "sub")  BY <1>2, <3>3 DEF NoneIn
      <4>2. Plus(q, r, x)  BY <1>1, <3>1, <3>3, EndedPlus
      <4>3. NoneIn(r, "open")  BY <3>2, <4>1, <4>2 DEF NoneIn, Plus
      <4> QED BY <1>4, <3>1, <4>1, <4>3
    <3>4. CASE ~(sock["phone"] /\ att.sub)
      <4>1. r = q  BY <3>1, <3>4 DEF q, r
      <4> QED BY <1>1, <1>6, <2>0, <3>1, <4>1
    <3> QED BY <3>3, <3>4
  <2>2. CASE Refuse
    <3>1. r = q /\ w = u /\ UNCHANGED <<att, sock>>  BY <1>1, <2>2, RefuseStep DEF q, u, r, w
    <3> QED BY <1>1, <1>6, <2>0, <3>1
  <2>3. CASE Subscribe
    <3>0. Cut(u, w, 1) /\ sock' = sock  BY <1>1, <2>3, SubscribeStep DEF u, w
    <3>5. CASE UNCHANGED <<evs, att, skipped>>
      <4>1. r = q /\ att' = att  BY <3>5 DEF q, r
      <4> QED BY <1>1, <1>6, <2>0, <3>0, <4>1
    <3> SUFFICES ASSUME ~UNCHANGED <<evs, att, skipped>> PROVE Asking'
      BY <3>5
    <3>1. /\ 1 \in 1..Len(u) /\ OnceIn(u, "sub", 1) /\ NoneIn(q, "open") /\ Cut(u, w, 1)
          /\ Replay(phone.cursor, q, r)
      BY <2>3, <3>0, AskedFor DEF InTime, q, u, r
    <3>2. NoneIn(w, "sub")
      <4>1. \A i \in 1..Len(w) : i + 1 \in 1..Len(u) /\ w[i] = u[i + 1] /\ i + 1 # 1
        BY <1>1, <3>1, CutOf
      <4> QED BY <3>1, <4>1 DEF NoneIn, OnceIn
    <3>3. CASE Replay(phone.cursor, q, r)
      <4> DEFINE g == Left(phone.cursor)
                 first == After(phone.cursor)
                 last == LastOf(phone.cursor)
      <4>1. /\ \A i \in 1..Len(q) : r[i] = q[i]
            /\ g = 1 => r[Len(q) + 1] = [t |-> "gap", from |-> oldest]
            /\ \A i \in 1..Len(r) :
                  \/ i \in 1..Len(q)
                  \/ g = 1 /\ i = Len(q) + 1
                  \/ \E n \in first..last : r[i] = log[n]
            /\ first \in Nat /\ first >= 1 /\ last <= Len(log) /\ last \in Int
        <5>1. phone.cursor \in Nat  BY <1>1 DEF Phones
        <5>2. Replayed(phone.cursor, q, r)  BY <1>1, <3>3, <5>1, ReplayIs
        <5> QED BY <5>2 DEF Replayed
      <4>2. \A n \in first..last : log[n].t = "evt"
        <5> HIDE DEF first, last
        <5>1. \A n \in 1..Len(log) : log[n] \in Evts  BY <1>1, Lengths
        <5>2. Len(log) \in Nat  BY <1>1, Lengths
        <5> QED BY <4>1, <5>1, <5>2 DEF Evts
      <4> HIDE DEF g, first, last
      <4>3. NoneIn(r, "open")  BY <3>1, <4>1, <4>2 DEF NoneIn
      <4> QED BY <1>4, <3>2, <4>3
    <3> QED BY <3>1, <3>3
  <2>4. CASE Command
    <3>1. r = q /\ Cut(u, w, 1) /\ UNCHANGED <<att, sock>>
      BY <1>1, <2>4, CommandStep DEF q, u, r, w
    <3> QED BY <1>1, <1>6, <2>0, <3>1
  <2>5. CASE Again
    <3>1. r = q /\ w = u /\ UNCHANGED <<att, sock>>
      BY <1>1, <2>5, AgainStep DEF q, u, r, w
    <3> QED BY <1>1, <1>6, <2>0, <3>1
  <2>6. CASE Tidy \/ Calm
    <3>1. r = q /\ w = u /\ sock' = sock /\ att'.sub = att.sub
      BY <1>1, <2>6 DEF Tidy, Calm, Types, q, u, r, w
    <3> QED BY <1>1, <1>6, <2>0, <3>1
  <2>7. ASSUME NEW e \in Ends, Connect(e) \/ DialFails(e) \/ Break(e) PROVE Asking'
    <3>1. /\ SocketMoves(e)
          /\ att' = att \/ (e = "phone" /\ att' = Fresh)
          /\ \A d \in Ends : d # e => evs'[d] = evs[d] /\ out'[d] = out[d] /\ sock'[d] = sock[d]
      BY <1>1, <2>7, SocketStep
    <3>2. CASE e = "desk"
      <4>1. r = q /\ w = u /\ sock'["phone"] = sock["phone"] /\ att' = att
        BY <3>1, <3>2 DEF Ends, q, u, r, w
      <4> QED BY <1>1, <1>6, <2>0, <4>1
    <3>3. CASE e = "phone"
      <4>1. PICK k, sent \in Nat, x \in {Open, Lost} : Moved(k, sent, x)
        BY <1>1, <3>1, <3>3, PhoneMoves
      <4>2. /\ Len(r) = k + 1 /\ r[k + 1] = x /\ k <= Len(q)
            /\ \A i \in 1..Len(r) : i \in 1..k \/ i = k + 1
            /\ (x = Open \/ ~sock["phone"]) =>
                  /\ ~sock["phone"]
                  /\ \A i \in 1..k : i \in 1..Len(q) /\ r[i] = q[i]
                  /\ \A i \in 1..Len(w) : i \in 1..Len(u) /\ w[i] = u[i]
            /\ x = Open => sock'["phone"] /\ ~att'.sub
            /\ (x = Lost /\ sock["phone"]) => /\ \A i \in 1..k : r[i].t # "open"
                                             /\ \A i \in 1..Len(w) : w[i].t # "sub"
        <5>1. /\ Len(r) = k + 1 /\ r[k + 1] = x /\ k <= Len(q)
              /\ \A i \in 1..k : i \in 1..Len(q)
              /\ \A i \in 1..Len(w) : i + sent \in 1..Len(u)
              /\ (x = Open \/ ~sock["phone"]) =>
                    /\ ~sock["phone"] /\ sent = 0
                    /\ (\A i \in 1..k : r[i] = q[i]) /\ \A i \in 1..Len(w) : w[i] = u[i]
              /\ Len(w) \in Nat
              /\ x = Open => sock'["phone"] /\ ~att'.sub
              /\ (x = Lost /\ sock["phone"]) => /\ \A i \in 1..k : r[i].t # "open"
                                               /\ \A i \in 1..Len(w) : w[i].t # "sub"
          BY <4>1 DEF Moved, q, r, u, w
        <5>2. \A i \in 1..Len(r) : i \in 1..k \/ i = k + 1  BY <5>1
        <5>3. \A i \in 1..Len(w) : i + 0 = i  BY <5>1
        <5> QED BY <5>1, <5>2, <5>3
      <4>4. ~Numbered(x) /\ (x = Lost => x.t # "open") /\ (x = Open => x.t = "open")
        BY DEF Open, Lost, Numbered
      <4>3. ~sock["phone"] => NoneIn(q, "open") /\ NoneIn(u, "sub")  BY <1>2 DEF NoneIn
      <4>5. CASE x = Open
        <5>1. NoneIn(w, "sub")  BY <4>2, <4>3, <4>5 DEF NoneIn
        <5>2. \A i \in 1..Len(r) : r[i].t = "open" => i = k + 1  BY <4>2, <4>3, <4>5 DEF NoneIn
        <5>3. \A i \in 1..Len(r) : r[i].t = "open" => \A j \in i..Len(r) : ~Numbered(r[j])
          <6>1. \A j \in k + 1..Len(r) : j = k + 1  BY <4>1, <4>2
          <6> QED BY <4>2, <4>4, <5>2, <6>1
        <5> QED BY <1>3, <4>2, <4>5, <5>1, <5>2, <5>3 DEF OnceIn, NoneIn
      <4>6. CASE x = Lost
        <5>1. \A i \in 1..k : r[i].t # "open"  BY <4>2, <4>3, <4>6 DEF NoneIn
        <5>2. NoneIn(w, "sub")  BY <4>2, <4>3, <4>6 DEF NoneIn
        <5>3. NoneIn(r, "open")  BY <4>2, <4>4, <4>6, <5>1 DEF NoneIn
        <5> QED BY <1>4, <5>2, <5>3
      <4> QED BY <4>5, <4>6
    <3> QED BY <3>2, <3>3 DEF Ends
  <2> QED BY <1>7, <2>1, <2>2, <2>3, <2>4, <2>5, <2>6, <2>7 DEF Wire, Hub
<1>8. CASE Say \/ Refill \/ Drained \/ UNCHANGED vars
  <2>1. UNCHANGED <<att, sock, out, evs, phone>>
    BY <1>8 DEF Say, Refill, Drained, vars, relay_vars, ends_vars
  <2> QED BY <1>1, <1>6, <2>1 DEF q, u, r, w
<1>9. CASE DeskOpen \/ DeskLost \/ DeskCmd
  <2>1. PICK t : DeskNext(t)  BY <1>9 DEF DeskOpen, DeskLost, DeskCmd
  <2>2. UNCHANGED <<att, sock, out, phone>> /\ r = q  BY <1>1, <2>1, DeskTakes DEF q, r
  <2>3. w = u  BY <2>2 DEF w, u
  <2> QED BY <1>1, <1>6, <2>2, <2>3
<1>10. CASE Flush
  <2>1. UNCHANGED <<att, sock, evs, phone>> /\ w = u
    BY <1>1, <1>10, FlushStep DEF Sends, Keeps, w, u
  <2>2. r = q  BY <2>1 DEF r, q
  <2> QED BY <1>1, <1>6, <2>1, <2>2
<1>11. CASE TakeOver
  <2>1. r = q /\ w = u /\ UNCHANGED <<att, phone>> /\ sock'["phone"] = sock["phone"]
    BY <1>1, <1>11 DEF TakeOver, Types, q, r, u, w
  <2> QED BY <1>1, <1>6, <2>1
<1>12. CASE PhoneOpen
  <2> DEFINE x == Wants
  <2>1. /\ PhoneNext(q[1].t) /\ phone' = phone /\ q[1].t \in {"open", "stale"}
        /\ Ended(u, w, Len(u), x)
    BY <1>1, <1>12, PhoneOpenStep DEF q, u, w
  <2>2. UNCHANGED <<att, sock>> /\ Cut(q, r, 1) /\ 1 \in 1..Len(q)
    BY <1>1, <2>1, PhoneTakes DEF q, r
  <2>3. x.since = phone.cursor /\ x.t = IF q[1].t = "open" THEN "sub" ELSE "late"
    BY DEF Wants, q
  <2> HIDE DEF x
  <2>4. /\ Len(w) = Len(u) + 1 /\ w[Len(u) + 1] = x
        /\ \A i \in 1..Len(w) : i # Len(u) + 1 => i \in 1..Len(u) /\ w[i] = u[i]
    BY <1>1, <2>1, EndedPlus
  <2>5. CASE q[1].t = "open"
    <3>1. /\ sock["phone"] /\ ~att.sub /\ OnceIn(q, "open", 1) /\ NoneIn(u, "sub")
          /\ \A j \in 1..Len(q) : ~Numbered(q[j])
      BY <1>2, <2>2, <2>5
    <3>2. \A i \in 1..Len(r) : i + 1 \in 1..Len(q) /\ r[i] = q[i + 1] /\ i + 1 # 1
      BY <1>1, <2>2, CutOf
    <3>3. NoneIn(r, "open") /\ \A j \in 1..Len(r) : ~Numbered(r[j])
      BY <3>1, <3>2 DEF NoneIn, OnceIn
    <3>4. \A i \in 1..Len(w) : w[i].t = "sub" => i = Len(u) + 1 /\ w[i] = x
      BY <2>4, <3>1 DEF NoneIn
    <3> QED BY <1>3, <2>1, <2>2, <2>3, <3>1, <3>3, <3>4 DEF NoneIn, OnceIn
  <2>6. CASE q[1].t = "stale"
    <3>1. x.t # "sub"  BY <2>3, <2>6
    <3>2. /\ 0 \in Nat /\ Len(w) \in Nat
          /\ \A i \in 1..Len(w) : w[i].t = "sub" => i + 0 \in 1..Len(u) /\ w[i] = u[i + 0]
      BY <1>1, <2>4, <3>1
    <3> QED BY <1>5, <2>1, <2>2, <3>2
  <2> QED BY <2>1, <2>5, <2>6
<1>13. CASE PhoneLost \/ PhoneEvt \/ PhoneGap
  <2>1. PICK t : PhoneNext(t) /\ t \in {"lost", "evt", "gap"} /\ (t = "lost" => phone' = phone)
    BY <1>13 DEF PhoneLost, PhoneEvt, PhoneGap
  <2>2. UNCHANGED <<att, sock>> /\ Cut(q, r, 1) /\ 1 \in 1..Len(q) /\ q[1].t = t
    BY <1>1, <2>1, PhoneTakes DEF q, r
  <2>3. w = u  BY <1>13 DEF PhoneLost, PhoneEvt, PhoneGap, w, u
  <2>4. phone'.cursor = phone.cursor \/ Numbered(q[1])  BY <2>1, <2>2 DEF Numbered
  <2> QED BY <1>1, <1>6, <2>2, <2>3, <2>4
<1>14. CASE PhoneSay
  <2>1. /\ r = q /\ UNCHANGED <<att, sock>> /\ Ended(u, w, Len(u), Typed)
        /\ phone'.cursor = phone.cursor
    BY <1>1, <1>14, PhoneSayStep DEF q, r, u, w, Phones
  <2>2. \A i \in 1..Len(w) : w[i].t = "sub" => i \in 1..Len(u) /\ w[i] = u[i]
    <3>1. /\ w[Len(u) + 1] = Typed
          /\ \A i \in 1..Len(w) : i # Len(u) + 1 => i \in 1..Len(u) /\ w[i] = u[i]
      BY <1>1, <2>1, EndedPlus
    <3>2. Typed.t # "sub"  BY DEF Typed
    <3> QED BY <3>1, <3>2
  <2>3. /\ 0 \in Nat /\ Len(w) \in Nat
        /\ \A i \in 1..Len(w) : w[i].t = "sub" => i + 0 \in 1..Len(u) /\ w[i] = u[i + 0]
    BY <1>1, <2>1, <2>2, EndedPlus
  <2> QED BY <1>1, <1>5, <2>1, <2>3
<1> QED BY <1>7, <1>8, <1>9, <1>10, <1>11, <1>12, <1>13, <1>14
        DEF Next, DeskStep, PhoneStep

-----------------------------------------------------------------------------
(***************************************************************************)
(* What was shown and what was acted on.                                   *)
(***************************************************************************)

LEMMA BeforeAll ==
    ASSUME NEW a, NEW b, NEW c,
           a.link \in Nat, a.seq \in Nat, b.link \in Nat, b.seq \in Nat,
           c.link \in Nat, c.seq \in Nat, UpTo(a, b), Before(b, c)
    PROVE  Before(a, c)
<1>1. a.link <= b.link /\ b.link <= c.link  BY DEF UpTo, Before
<1>2. CASE a.link < c.link  BY <1>2 DEF Before
<1>3. CASE a.link = c.link
  <2>1. a.link = b.link /\ b.link = c.link  BY <1>1, <1>3
  <2>2. a.seq <= b.seq /\ b.seq < c.seq  BY <2>1 DEF UpTo, Before
  <2> QED BY <1>3, <2>2 DEF Before
<1> QED BY <1>1, <1>2, <1>3

\* Of payloads that were sealed no later than what was opened last, and in
\* order, one that is sealed later is the next.
Behind(pays, at, S) == \A i \in 1..Len(pays) : \E s \in S :
    s.dir = "d2p" /\ s.pay = pays[i] /\ UpTo(s, at)
LEMMA OpensNext ==
    ASSUME Types, Counted, NEW pays \in Seq(Int), NEW at,
           at.link \in Nat, at.seq \in Nat,
           Behind(pays, at, sealed), InOrder(pays),
           NEW s \in sealed, s.dir = "d2p", Before(at, s)
    PROVE  Behind(Append(pays, s.pay), At(s.link, s.seq), sealed)
           /\ InOrder(Append(pays, s.pay))
<1> DEFINE new == Append(pays, s.pay)
<1>1. /\ \A t \in sealed : t.link \in Nat /\ t.seq \in Nat /\ t.pay \in Int
      /\ \A a, b \in sealed : (a.dir = "d2p" /\ b.dir = "d2p") =>
            IF Before(a, b) THEN Rising(a, b) ELSE Before(b, a) \/ a = b
  BY DEF Types, Seals, Counted, InTurn
<1>2. Len(pays) \in Nat /\ \A i \in 1..Len(pays) : pays[i] \in Int
  BY LenProperties, ElementOfSeq
<1>3. Ended(pays, new, Len(pays), s.pay)
  BY <1>1, AddsOne
<1>4. /\ Len(new) = Len(pays) + 1 /\ new[Len(pays) + 1] = s.pay
      /\ \A i \in 1..Len(new) : i # Len(pays) + 1 => i \in 1..Len(pays) /\ new[i] = pays[i]
  BY <1>2, <1>3, EndedPlus
<1> HIDE DEF new
<1>5. ASSUME NEW i \in 1..Len(pays)
      PROVE  \E t \in sealed : t.dir = "d2p" /\ t.pay = pays[i] /\ UpTo(t, At(s.link, s.seq))
                               /\ Rising(t, s)
  <2>1. PICK t \in sealed : t.dir = "d2p" /\ t.pay = pays[i] /\ UpTo(t, at)  BY DEF Behind
  <2>2. Before(t, s)
    <3>1. /\ t.link \in Nat /\ t.seq \in Nat /\ s.link \in Nat /\ s.seq \in Nat
          /\ at.link \in Nat /\ at.seq \in Nat /\ UpTo(t, at) /\ Before(at, s)
      BY <1>1, <2>1
    <3> QED BY <3>1, BeforeAll
  <2>3. UpTo(t, At(s.link, s.seq))  BY <1>1, <2>2 DEF Before, UpTo, At
  <2> QED BY <1>1, <2>1, <2>2, <2>3
<1>6. UpTo(s, At(s.link, s.seq))  BY <1>1 DEF UpTo, At
<1>7. Behind(new, At(s.link, s.seq), sealed)
  BY <1>4, <1>5, <1>6 DEF Behind
<1>8. ASSUME NEW i \in 1..Len(new), NEW j \in 1..Len(new), i < j, new[i] > 0, new[j] > 0
      PROVE  new[i] < new[j]
  <2>1. i \in 1..Len(pays) /\ new[i] = pays[i]  BY <1>2, <1>4, <1>8
  <2>2. CASE j = Len(pays) + 1  BY <1>4, <1>5, <1>8, <2>1, <2>2 DEF Rising
  <2>3. CASE j # Len(pays) + 1  BY <1>4, <1>8, <2>1, <2>3 DEF InOrder
  <2> QED BY <2>2, <2>3
<1> QED BY <1>7, <1>8 DEF InOrder, new

\* What was opened keeps its order, as more is sealed and opened.
LEMMA BehindStays ==
    ASSUME NEW pays, NEW a, NEW b, NEW S, NEW T, S \subseteq T,
           \A s \in S : s.link \in Nat /\ s.seq \in Nat,
           a.link \in Nat, a.seq \in Nat, b.link \in Nat, b.seq \in Nat,
           Behind(pays, a, S), UpTo(a, b)
    PROVE  Behind(pays, b, T)
<1>1. \A s \in S : UpTo(s, a) => UpTo(s, b)  BY DEF UpTo
<1> QED BY <1>1 DEF Behind

LEMMA OpenedStep ==
    ASSUME Always, InTime, [Next]_vars, ~late'
    PROVE  Opened'
<1>1. /\ Types /\ Counted /\ desk \in Desks /\ phone \in Phones /\ shown \in Seq(Int)
      /\ \A s \in sealed : s.link \in Nat /\ s.seq \in Nat
  BY DEF Always, Types, Seals
<1>2. Behind(shown, HeardAt, sealed) /\ InOrder(shown)
  BY DEF InTime, Opened, Behind
<1>3. ASSUME Behind(shown', HeardAt', sealed'), InOrder(shown')
      PROVE  Opened'
  BY <1>3 DEF Opened, Behind, InOrder
<1>4. HeardAt.link \in Nat /\ HeardAt.seq \in Nat
  BY <1>1 DEF HeardAt, At, Phones
<1>5. ASSUME UNCHANGED <<shown, phone.desk, phone.last>>, sealed \subseteq sealed'
      PROVE  Opened'
  <2>1. HeardAt' = HeardAt  BY <1>5 DEF HeardAt, At
  <2>2. UpTo(HeardAt, HeardAt)  BY <1>4 DEF UpTo
  <2> QED BY <1>1, <1>2, <1>3, <1>4, <1>5, <2>1, <2>2, BehindStays
<1>6. CASE Wire \/ UNCHANGED vars
  BY <1>5, <1>6 DEF Wire, ends_vars, vars
<1>7. CASE Say \/ DeskOpen \/ DeskLost \/ DeskCmd \/ Drained \/ Refill \/ TakeOver
  BY <1>5, <1>7 DEF Say, DeskOpen, DeskLost, DeskCmd, DeskNext, Drained, Refill, TakeOver
<1>8. CASE Flush
  <2>1. UNCHANGED <<shown, phone>> /\ (Sends \/ Keeps)  BY <1>1, <1>8, FlushStep
  <2>2. sealed \subseteq sealed'  BY <2>1 DEF Sends, Keeps
  <2> QED BY <1>5, <2>1, <2>2
<1>9. CASE PhoneOpen \/ PhoneLost \/ PhoneGap
  <2>1. UNCHANGED <<shown, sealed>>
    BY <1>9 DEF PhoneOpen, Ask, PhoneLost, PhoneGap, PhoneNext
  <2>2. phone'.desk = phone.desk /\ phone'.last = phone.last
    BY <1>1, <1>9 DEF PhoneOpen, PhoneLost, PhoneGap, Phones
  <2> QED BY <1>5, <2>1, <2>2
<1>10. CASE PhoneEvt
  <2> DEFINE f == evs["phone"][1]
             s == Sealing("d2p", f)
  <2>1. Reads(f) /\ UNCHANGED sealed
    BY <1>1, <1>10, PhoneEvtStep, PhoneTakes DEF InTime
  <2>2. s.dir = "d2p" /\ s.link = f.link /\ s.seq = f.seq /\ s.pay = f.pay
    BY DEF Sealing, Sealed
  <2>3. s \in sealed /\ Before(HeardAt, f)  BY <2>1 DEF Reads, Was
  <2> HIDE DEF f, s
  <2>4. Before(HeardAt, s)  BY <2>2, <2>3 DEF Before
  <2>5. HeardAt' = At(s.link, s.seq)  BY <2>1, <2>2 DEF Reads, HeardAt
  <2>6. shown' = Append(shown, s.pay)  BY <2>1, <2>2 DEF Reads
  <2>7. /\ Behind(Append(shown, s.pay), At(s.link, s.seq), sealed)
        /\ InOrder(Append(shown, s.pay))
    BY <1>1, <1>2, <1>4, <2>2, <2>3, <2>4, OpensNext
  <2> QED BY <1>3, <2>1, <2>5, <2>6, <2>7
<1>11. CASE PhoneSay
  <2>1. sealed \subseteq sealed' /\ UNCHANGED shown /\ phone' = [phone EXCEPT !.seq = @ + 1]
    BY <1>1, <1>11, PhoneSayStep
  <2>2. phone'.desk = phone.desk /\ phone'.last = phone.last  BY <1>1, <2>1 DEF Phones
  <2> QED BY <1>5, <2>1, <2>2
<1> QED BY <1>6, <1>7, <1>8, <1>9, <1>10, <1>11 DEF Next, DeskStep, PhoneStep

-----------------------------------------------------------------------------
(***************************************************************************)
(* Nothing is missing that was not told.                                   *)
(***************************************************************************)

\* A queue that is as it was up to a place covers what it did.
LEMMA CoversAsBefore ==
    ASSUME NEW q, NEW r, NEW m, NEW i, \A j \in 1..i - 1 : r[j] = q[j]
    PROVE  (Seen(q, m, i) <=> Seen(r, m, i)) /\ (Fore(q, m, i) <=> Fore(r, m, i))
BY DEF Seen, Fore

\* And so does one where an Open that a socket left behind goes by another name.
LEMMA CoversFront ==
    ASSUME NEW q, NEW r, NEW m, NEW i,
           \A j \in 1..i - 1 : r[j] = q[j] \/ (q[j].t = "open" /\ r[j] = Stale)
    PROVE  (Seen(q, m, i) => Seen(r, m, i)) /\ (Fore(q, m, i) => Fore(r, m, i))
<1>1. Stale.t = "stale"  BY DEF Stale
<1>2. ASSUME Seen(q, m, i) PROVE Seen(r, m, i)
  <2>1. PICK j \in 1..i - 1 : \/ (q[j].t = "evt" /\ q[j].n = m)
                             \/ (q[j].t = "gap" /\ m <= q[j].from)
    BY <1>2 DEF Seen
  <2>2. r[j] = q[j]  BY <2>1
  <2> QED BY <2>1, <2>2 DEF Seen
<1>3. ASSUME Fore(q, m, i) PROVE Fore(r, m, i)
  BY <1>1, <1>3 DEF Fore
<1> QED BY <1>2, <1>3

\* One more at the end.
LEMMA CoversMore ==
    ASSUME NEW q, NEW r, NEW x, NEW m, Len(q) \in Nat, Ended(q, r, Len(q), x)
    PROVE  /\ Seen(q, m, Len(q) + 1) => Seen(r, m, Len(r) + 1)
           /\ x.t = "evt" /\ x.n = m => Seen(r, m, Len(r) + 1)
           /\ Fore(q, m, Len(q) + 1) /\ (x.t = "evt" => m < x.n) => Fore(r, m, Len(r) + 1)
<1>1. /\ Len(r) = Len(q) + 1 /\ r[Len(q) + 1] = x
      /\ \A i \in 1..Len(q) : r[i] = q[i]
  BY DEF Ended
<1>2. /\ \A j \in 1..(Len(q) + 1) - 1 : j \in 1..(Len(r) + 1) - 1 /\ r[j] = q[j]
      /\ Len(q) + 1 \in 1..(Len(r) + 1) - 1
      /\ \A j \in 1..(Len(r) + 1) - 1 : j = Len(q) + 1 \/ j \in 1..(Len(q) + 1) - 1
  BY <1>1
<1>3. Seen(q, m, Len(q) + 1) => Seen(r, m, Len(r) + 1)
  BY <1>2 DEF Seen
<1>4. x.t = "evt" /\ x.n = m => Seen(r, m, Len(r) + 1)
  BY <1>1, <1>2 DEF Seen
<1>5. Fore(q, m, Len(q) + 1) /\ (x.t = "evt" => m < x.n) => Fore(r, m, Len(r) + 1)
  BY <1>1, <1>2 DEF Fore
<1> QED BY <1>3, <1>4, <1>5

\* The first is gone, which was not what covers it.
LEMMA CoversLess ==
    ASSUME NEW q, NEW r, NEW m, Len(q) \in Nat, Cut(q, r, 1), NEW i \in 1..Len(r) + 1,
           ~(q[1].t = "evt" /\ q[1].n = m), ~(q[1].t = "gap" /\ m <= q[1].from)
    PROVE  /\ Seen(q, m, i + 1) => Seen(r, m, i)
           /\ Fore(q, m, i + 1) => Fore(r, m, i)
<1>1. /\ Len(r) \in Nat /\ \A j \in 1..Len(r) : j + 1 \in 1..Len(q) /\ r[j] = q[j + 1]
  BY CutOf
<1>2. \A j \in 1..(i + 1) - 1 : j # 1 => j - 1 \in 1..i - 1 /\ r[j - 1] = q[j]
  <2> SUFFICES ASSUME NEW j \in 1..(i + 1) - 1, j # 1 PROVE j - 1 \in 1..i - 1 /\ r[j - 1] = q[j]
    OBVIOUS
  <2>1. j - 1 \in 1..i - 1 /\ j - 1 \in 1..Len(r) /\ (j - 1) + 1 = j  BY <1>1
  <2> QED BY <1>1, <2>1
<1>3. \A j \in 1..i - 1 : j + 1 \in 1..(i + 1) - 1 /\ r[j] = q[j + 1]
  BY <1>1
<1> QED BY <1>2, <1>3 DEF Seen, Fore

LEMMA KeptStep ==
    ASSUME Always, InTime, [Next]_vars, ~late'
    PROVE  Kept' /\ Passed'
<1> DEFINE q == evs["phone"]
           r == evs'["phone"]
           c == phone.cursor
           On == sock["phone"] /\ att.sub
           Covers(u, m, i) == m \in skipped' \/ Seen(u, m, i) \/ (got' = {} /\ Fore(u, m, i))
<1>1. /\ Types /\ Len(q) \in Nat /\ Len(log) \in Nat /\ phone \in Phones /\ c \in Nat
  BY Lengths DEF Always, Types, Phones
<1>2. /\ \A k \in got : k \in 1..c
      /\ \A i \in 1..Len(q) : q[i].t = "evt" => \A m \in c + 1..q[i].n - 1 : Covered(q, m, i)
      /\ On => \A m \in c + 1..Len(log) : Covered(q, m, Len(q) + 1)
      /\ \A n \in 1..c : n \in skipped \/ Told(n)
      /\ QueuedIn(q, log, HeardAt, c)
  BY DEF InTime, Kept, Passed, Ahead
<1>3. ASSUME \A k \in got' : k \in 1..phone'.cursor,
             \A i \in 1..Len(r) : r[i].t = "evt" =>
                \A m \in phone'.cursor + 1..r[i].n - 1 : Covers(r, m, i),
             On' => \A m \in phone'.cursor + 1..Len(log') : Covers(r, m, Len(r) + 1),
             \A n \in 1..phone'.cursor : n \in skipped' \/ Told(n)'
      PROVE  Kept' /\ Passed'
  BY <1>3 DEF Kept, Passed, Covered
<1> HIDE DEF q, r, c, On, Covers
<1>4. ASSUME UNCHANGED <<log, got, told>>, skipped \subseteq skipped', r = q, phone'.cursor = c, On' => On
      PROVE  Kept' /\ Passed'
  <2>1. \A m, i : Covered(q, m, i) => Covers(r, m, i)
    BY <1>4 DEF Covered, Covers
  <2>2. \A n \in 1..c : n \in skipped' \/ Told(n)'
    BY <1>2, <1>4 DEF Told
  <2> QED BY <1>2, <1>3, <1>4, <2>1, <2>2
<1>5. CASE Wire
  <2>0. UNCHANGED <<phone, got, told>> /\ phone'.cursor = c  BY <1>5 DEF Wire, ends_vars, c
  <2>1. CASE Publish
    <3> DEFINE x == Stored(out["desk"][1])
    <3>1. /\ UNCHANGED <<att, sock, skipped>> /\ Ended(log, log', Len(log), x)
          /\ IF On THEN Ended(q, r, Len(q), x) ELSE evs' = evs
      BY <1>1, <2>1, PublishStep DEF On, q, r
    <3>2. x.t = "evt" /\ x.n = Len(log) + 1 /\ Len(log') = Len(log) + 1
      BY <1>1, <3>1, EndedPlus DEF Stored
    <3> HIDE DEF x
    <3>3. On' <=> On  BY <3>1 DEF On
    <3>4. \A m, i : Covered(q, m, i) => Covers(q, m, i)
      BY <2>0, <3>1 DEF Covered, Covers
    <3>5. \A n \in 1..c : n \in skipped' \/ Told(n)'
      BY <1>2, <2>0, <3>1 DEF Told
    <3>6. CASE ~On
      <4>1. r = q  BY <3>1, <3>6 DEF q, r
      <4> QED BY <1>2, <1>3, <2>0, <3>3, <3>4, <3>5, <3>6, <4>1
    <3>7. CASE On
      <4>1. /\ Len(r) = Len(q) + 1 /\ r[Len(q) + 1] = x
            /\ \A i \in 1..Len(r) : i # Len(q) + 1 => i \in 1..Len(q) /\ r[i] = q[i]
        BY <1>1, <3>1, <3>7, EndedPlus
      <4>2. ASSUME NEW i \in 1..Len(q) + 1, NEW m, Covers(q, m, i)
            PROVE  Covers(r, m, i)
        <5>1. \A j \in 1..i - 1 : r[j] = q[j]  BY <1>1, <4>1
        <5> QED BY <4>2, <5>1, CoversAsBefore DEF Covers
      <4>3. ASSUME NEW i \in 1..Len(r), r[i].t = "evt", NEW m \in c + 1..r[i].n - 1
            PROVE  Covers(r, m, i)
        <5>1. CASE i = Len(q) + 1
          <6>1. m \in c + 1..Len(log)  BY <1>1, <3>2, <4>1, <4>3, <5>1
          <6> QED BY <1>1, <1>2, <3>4, <3>7, <4>2, <5>1, <6>1
        <5>2. CASE i # Len(q) + 1
          <6>1. i \in 1..Len(q) /\ r[i] = q[i] /\ i \in 1..Len(q) + 1  BY <1>1, <4>1, <5>2
          <6> QED BY <1>2, <3>4, <4>2, <4>3, <6>1
        <5> QED BY <5>1, <5>2
      <4>4. ASSUME NEW m \in c + 1..Len(log') PROVE Covers(r, m, Len(r) + 1)
        <5>1. CASE m = Len(log) + 1
          BY <1>1, <3>1, <3>2, <3>7, <5>1, CoversMore DEF Covers
        <5>2. CASE m # Len(log) + 1
          <6>1. m \in c + 1..Len(log) /\ m < x.n  BY <1>1, <3>2, <5>2
          <6>2. Covers(q, m, Len(q) + 1)  BY <1>2, <3>4, <3>7, <6>1
          <6> QED BY <1>1, <3>1, <3>7, <6>1, <6>2, CoversMore DEF Covers
        <5> QED BY <5>1, <5>2
      <4> QED BY <1>2, <1>3, <2>0, <3>5, <4>3, <4>4
    <3> QED BY <3>6, <3>7
  <2>2. CASE Refuse
    <3>1. r = q /\ UNCHANGED <<log, skipped>> /\ On' = On
      BY <1>1, <2>2, RefuseStep DEF On, q, r
    <3> QED BY <1>4, <2>0, <3>1
  <2>3. CASE Subscribe
    <3>1. /\ UNCHANGED <<log, oldest, sock>>
          /\ \/ /\ \A j \in 1..Len(q) : ~Numbered(q[j])
                /\ Listened(c) /\ Replay(c, q, r)
             \/ UNCHANGED <<evs, att, skipped>>
      BY <1>1, <2>3, SubscribeStep, AskedFor DEF InTime, c, q, r
    <3>2. CASE UNCHANGED <<evs, att, skipped>>
      BY <1>4, <2>0, <3>1, <3>2 DEF On, q, r
    <3>3. CASE /\ \A j \in 1..Len(q) : ~Numbered(q[j])
               /\ Listened(c) /\ Replay(c, q, r)
      <4> DEFINE g == Left(c)
                 first == After(c)
                 last == LastOf(c)
      <4>1. Replayed(c, q, r)  BY <1>1, <3>3, ReplayIs
      <4>2. /\ g \in {0, 1} /\ first \in Nat /\ last \in Int
            /\ first > c /\ first >= 1 /\ last <= Len(log) /\ last >= 0
            /\ g = 1 => /\ first = oldest /\ r[Len(q) + 1] = [t |-> "gap", from |-> oldest]
                        /\ Len(q) + 1 \in 1..Len(r)
            /\ g = 0 => c = 0 \/ Oldest = 0 \/ first = c + 1
            /\ Len(r) \in Nat
            /\ \A i \in 1..Len(q) : i \in 1..Len(r) /\ r[i] = q[i]
        BY <4>1 DEF Replayed
      <4>3. \A i \in 1..Len(r) :
              \/ i \in 1..Len(q)
              \/ g = 1 /\ i = Len(q) + 1
              \/ /\ i > Len(q) + g
                 /\ \E n \in first..last : n = first + (i - (Len(q) + g)) - 1 /\ r[i] = log[n]
        BY <4>1 DEF Replayed
      <4>4. \A n \in first..last : \E i \in 1..Len(r) : i > Len(q) + g /\ r[i] = log[n]
        BY <4>1 DEF Replayed
      <4>5. skipped' = skipped \cup IF Oldest = 0 THEN c + 1..Len(log) ELSE last + 1..Len(log)
        BY <3>3 DEF Listened
      <4> HIDE DEF g, first, last
      <4>6. \A n \in first..last : log[n].n = n /\ log[n].t = "evt" /\ n \in 1..Len(log)
        <5> TAKE n \in first..last
        <5>1. n \in 1..Len(log)  BY <1>1, <4>2
        <5>2. log[n] \in Evts  BY <1>1, <5>1, Lengths
        <5> QED BY <5>1, <5>2 DEF Always, Along, Evts
      <4>7. got' = got /\ (c = 0 => got' = {})
        <5>1. c = 0 => got = {}  BY <1>1, <1>2
        <5> QED BY <2>0, <5>1
      \* Each place of the replay, and the end of it.
      <4>8. ASSUME NEW i \in 1..Len(r) + 1, i > Len(q) + g, NEW m \in c + 1..Len(log),
                   m < first + (i - (Len(q) + g)) - 1, m <= last
            PROVE  Covers(r, m, i)
        <5>1. CASE m >= first
          <6> DEFINE j == Len(q) + g + (m - first) + 1
          <6>1. /\ j \in 1..i - 1 /\ j \in 1..Len(r) /\ j > Len(q) + g /\ j \notin 1..Len(q)
                /\ ~(g = 1 /\ j = Len(q) + 1)
                /\ first + (j - (Len(q) + g)) - 1 = m
            BY <1>1, <4>2, <4>8, <5>1
          <6> HIDE DEF j
          <6>2. r[j] = log[m] /\ m \in first..last  BY <4>2, <4>3, <4>8, <5>1, <6>1
          <6>3. r[j].t = "evt" /\ r[j].n = m  BY <4>6, <6>2
          <6> QED BY <6>1, <6>3 DEF Covers, Seen
        <5>2. CASE m < first /\ g = 1
          <6>1. Len(q) + 1 \in 1..i - 1  BY <1>1, <4>2, <4>8, <5>2
          <6>2. r[Len(q) + 1].t = "gap" /\ r[Len(q) + 1].from = first /\ m <= first
            BY <4>2, <5>2
          <6> QED BY <6>1, <6>2 DEF Covers, Seen
        <5>3. CASE m < first /\ g = 0
          <6>1. c = 0 \/ Oldest = 0  BY <1>1, <4>2, <4>8, <5>3
          <6>2. CASE Oldest = 0  BY <4>5, <4>8, <6>2 DEF Covers
          <6>3. CASE c = 0
            <7>1. got' = {}  BY <4>7, <6>3
            <7>2. ASSUME NEW j \in 1..i - 1, r[j].t = "evt" PROVE m < r[j].n
              <8>1. j \in 1..Len(r)  BY <1>1, <4>2, <4>8
              <8>2. j \notin 1..Len(q)  BY <3>3, <4>2, <7>2 DEF Numbered
              <8>3. PICK n \in first..last : r[j] = log[n]  BY <4>3, <5>3, <8>1, <8>2
              <8>4. r[j].n = n /\ n >= first  BY <4>2, <4>6, <8>3
              <8> QED BY <4>2, <4>8, <5>3, <8>3, <8>4
            <7> QED BY <7>1, <7>2 DEF Covers, Fore
          <6> QED BY <6>1, <6>2, <6>3
        <5> QED BY <4>2, <5>1, <5>2, <5>3
      <4>9. ASSUME NEW i \in 1..Len(r), r[i].t = "evt", NEW m \in c + 1..r[i].n - 1
            PROVE  Covers(r, m, i)
        <5>1. i \notin 1..Len(q)  BY <3>3, <4>2, <4>9 DEF Numbered
        <5>2. ~(g = 1 /\ i = Len(q) + 1)  BY <4>2, <4>9
        <5>3. i > Len(q) + g  BY <4>3, <5>1, <5>2
        <5>4. PICK n \in first..last : n = first + (i - (Len(q) + g)) - 1 /\ r[i] = log[n]
          BY <4>3, <5>1, <5>2
        <5>5. r[i].n = n /\ n \in 1..Len(log)  BY <4>6, <5>4
        <5>6. /\ m \in c + 1..Len(log) /\ m < n /\ m <= last /\ i \in 1..Len(r) + 1
          BY <1>1, <4>2, <4>9, <5>4, <5>5
        <5> QED BY <4>8, <5>3, <5>4, <5>6
      <4>10. ASSUME NEW m \in c + 1..Len(log) PROVE Covers(r, m, Len(r) + 1)
        <5>1. CASE Oldest = 0 \/ m > last  BY <1>1, <4>2, <4>5, <5>1 DEF Covers
        <5>2. CASE Oldest # 0 /\ ~(m > last)
          <6>1. Len(r) = Len(q) + g + (IF first <= last THEN last - first + 1 ELSE 0)
            BY <3>3 DEF Replay, g, first, last
          <6> DEFINE i == Len(r) + 1
          <6>2. CASE first <= last
            <7>1. i > Len(q) + g /\ m < first + (i - (Len(q) + g)) - 1 /\ m <= last
              BY <1>1, <4>2, <5>2, <6>1, <6>2
            <7>2. i \in 1..Len(r) + 1  BY <4>2
            <7> QED BY <4>8, <7>1, <7>2
          <6>3. CASE ~(first <= last)
            <7>1. m < first /\ i = Len(q) + g + 1
              BY <1>1, <4>2, <5>2, <6>1, <6>3
            <7>2. i > Len(q) + g /\ m < first + (i - (Len(q) + g)) - 1 /\ m <= last
              BY <1>1, <4>2, <5>2, <7>1
            <7>3. i \in 1..Len(r) + 1  BY <4>2
            <7> QED BY <4>8, <7>2, <7>3
          <6> QED BY <6>2, <6>3
        <5> QED BY <5>1, <5>2
      <4>11. \A n \in 1..c : n \in skipped' \/ Told(n)'
        BY <1>2, <2>0, <4>5 DEF Told
      <4> QED BY <1>2, <1>3, <2>0, <3>1, <4>9, <4>10, <4>11
    <3> QED BY <3>1, <3>2, <3>3
  <2>4. CASE Command
    <3>1. r = q /\ UNCHANGED <<log, skipped>> /\ On' = On
      BY <1>1, <2>4, CommandStep DEF On, q, r
    <3> QED BY <1>4, <2>0, <3>1
  <2>5. CASE Again
    <3>1. r = q /\ UNCHANGED <<log, skipped>> /\ On' = On
      BY <1>1, <2>5, AgainStep DEF On, q, r
    <3> QED BY <1>4, <2>0, <3>1
  <2>6. CASE Tidy \/ Calm
    <3>1. r = q /\ UNCHANGED <<log, skipped>> /\ On' = On
      BY <1>1, <2>6 DEF Tidy, Calm, Types, On, q, r
    <3> QED BY <1>4, <2>0, <3>1
  <2>7. ASSUME NEW e \in Ends, Connect(e) \/ DialFails(e) \/ Break(e)
        PROVE  Kept' /\ Passed'
    <3>1. /\ SocketMoves(e) /\ UNCHANGED <<log, skipped>>
          /\ att' = att \/ (e = "phone" /\ att' = Fresh)
          /\ \A d \in Ends : d # e => evs'[d] = evs[d] /\ sock'[d] = sock[d]
      BY <1>1, <2>7, SocketStep
    <3>2. CASE e = "desk"
      <4>1. r = q /\ On' = On  BY <3>1, <3>2 DEF Ends, q, r, On
      <4> QED BY <1>4, <2>0, <3>1, <4>1
    <3>3. CASE e = "phone"
      <4>0. PICK k, sent \in Nat, x \in {Open, Lost} : Moved(k, sent, x)
        BY <1>1, <3>1, <3>3, PhoneMoves
      <4>1. x.t # "evt" /\ Stale.t # "evt"  BY DEF Open, Lost, Stale
      <4>2. ~On'  BY <4>0 DEF Moved, On
      <4>3. /\ Len(r) = k + 1 /\ r[k + 1] = x /\ k <= Len(q)
            /\ \A i \in 1..k : i \in 1..Len(q) /\ (r[i] = q[i] \/ (q[i].t = "open" /\ r[i] = Stale))
        BY <4>0 DEF Moved, q, r
      <4>4. \A m, i : Covered(q, m, i) => Covers(q, m, i)
        BY <2>0, <3>1 DEF Covered, Covers
      <4>5. ASSUME NEW i \in 1..Len(r), r[i].t = "evt", NEW m \in c + 1..r[i].n - 1
            PROVE  Covers(r, m, i)
        <5>1. i \in 1..k /\ i \in 1..Len(q) /\ r[i] = q[i]  BY <4>1, <4>3, <4>5
        <5>2. \A j \in 1..i - 1 : j \in 1..k /\ j \in 1..Len(q)
                                  /\ (r[j] = q[j] \/ (q[j].t = "open" /\ r[j] = Stale))
          BY <4>3, <5>1
        <5>3. Covers(q, m, i)  BY <1>2, <4>4, <4>5, <5>1
        <5> QED BY <5>2, <5>3, CoversFront DEF Covers
      <4>7. \A n \in 1..c : n \in skipped' \/ Told(n)'
        BY <1>2, <2>0, <3>1 DEF Told
      <4> QED BY <1>2, <1>3, <2>0, <3>1, <4>2, <4>5, <4>7
    <3> QED BY <3>2, <3>3 DEF Ends
  <2> QED BY <1>5, <2>1, <2>2, <2>3, <2>4, <2>5, <2>6, <2>7 DEF Wire, Hub
<1>6. CASE Say \/ Refill \/ Drained \/ UNCHANGED vars
  <2>1. UNCHANGED <<log, att, sock, evs, phone, got, told, skipped>>
    BY <1>6 DEF Say, Refill, Drained, vars, relay_vars, ends_vars
  <2> QED BY <1>4, <2>1 DEF q, r, c, On
<1>7. CASE DeskOpen \/ DeskLost \/ DeskCmd
  <2>1. PICK t : DeskNext(t)  BY <1>7 DEF DeskOpen, DeskLost, DeskCmd
  <2>2. UNCHANGED <<log, att, sock, phone, got, told, skipped>> /\ r = q
    BY <1>1, <2>1, DeskTakes DEF q, r
  <2> QED BY <1>4, <2>2 DEF c, On
<1>8. CASE Flush
  <2>1. UNCHANGED <<log, att, sock, evs, phone, got, told, skipped>>
    BY <1>1, <1>8, FlushStep
  <2> QED BY <1>4, <2>1 DEF q, r, c, On
<1>9. CASE TakeOver
  <2>1. UNCHANGED <<log, att, phone, got, told, skipped>> /\ r = q /\ sock'["phone"] = sock["phone"]
    BY <1>1, <1>9 DEF TakeOver, Types, q, r
  <2> QED BY <1>4, <2>1 DEF c, On
<1>10. CASE PhoneSay
  <2>1. /\ UNCHANGED <<log, att, sock, evs, got, told, skipped>>
        /\ phone' = [phone EXCEPT !.seq = @ + 1]
    BY <1>1, <1>10, PhoneSayStep
  <2>2. phone'.cursor = c  BY <1>1, <2>1 DEF Phones, c
  <2> QED BY <1>4, <2>1, <2>2 DEF q, r, On
\* The phone reads what comes first.
<1>11. ASSUME UNCHANGED <<log, att, sock, skipped>>, Cut(q, r, 1), 1 \in 1..Len(q),
              phone'.cursor \in Nat, phone'.cursor >= c,
              q[1].t = "evt" => phone'.cursor = q[1].n,
              q[1].t = "gap" => phone'.cursor = q[1].from /\ got' = got,
              q[1].t \notin {"evt", "gap"} => got' = got,
              \A k \in got' : k \in 1..phone'.cursor,
              \A n \in 1..phone'.cursor : n \in skipped' \/ Told(n)'
       PROVE  Kept' /\ Passed'
  <2> DEFINE d == phone'.cursor
  <2>1. On' <=> On  BY <1>11 DEF On
  <2>2. /\ Len(r) \in Nat /\ Len(q) = Len(r) + 1
        /\ \A j \in 1..Len(r) : j + 1 \in 1..Len(q) /\ r[j] = q[j + 1]
    <3>1. Len(q) = Len(r) + 1  BY <1>1, <1>11 DEF Cut
    <3> QED BY <1>1, <1>11, <3>1, CutOf
  <2>3. ASSUME NEW i \in 1..Len(r) + 1, NEW m \in Nat, m > d, Covered(q, m, i + 1)
        PROVE  Covers(r, m, i)
    <3>1. ~(q[1].t = "evt" /\ q[1].n = m) /\ ~(q[1].t = "gap" /\ m <= q[1].from)
      BY <1>11, <2>3
    <3>2. /\ Seen(q, m, i + 1) => Seen(r, m, i)
          /\ Fore(q, m, i + 1) => Fore(r, m, i)
      BY <1>1, <1>11, <3>1, CoversLess
    <3>3. q[1].t = "evt" => ~Fore(q, m, i + 1)
      <4>1. 1 \in 1..(i + 1) - 1  BY <2>2
      <4>2. ASSUME q[1].t = "evt", Fore(q, m, i + 1) PROVE m < q[1].n
        BY <4>1, <4>2 DEF Fore
      <4>3. q[1].t = "evt" => q[1].n = d /\ d \in Nat  BY <1>11
      <4> HIDE DEF d
      <4> QED BY <2>3, <4>2, <4>3
    <3> QED BY <1>11, <2>3, <3>2, <3>3 DEF Covered, Covers
  <2>4. ASSUME NEW i \in 1..Len(r), r[i].t = "evt", NEW m \in d + 1..r[i].n - 1
        PROVE  Covers(r, m, i)
    <3>1. i + 1 \in 1..Len(q) /\ r[i] = q[i + 1] /\ i \in 1..Len(r) + 1  BY <2>2
    <3>2. r[i].n \in Nat  BY <1>2, <2>4, <3>1 DEF QueuedIn
    <3>3. m \in c + 1..q[i + 1].n - 1 /\ m \in Nat /\ m > d  BY <1>1, <1>11, <2>4, <3>1, <3>2
    <3>4. Covered(q, m, i + 1)  BY <1>2, <2>4, <3>1, <3>3
    <3> QED BY <2>3, <3>1, <3>3, <3>4
  <2>5. ASSUME On', NEW m \in d + 1..Len(log) PROVE Covers(r, m, Len(r) + 1)
    <3>1. m \in c + 1..Len(log) /\ m \in Nat /\ m > d  BY <1>1, <1>11
    <3>2. Covered(q, m, Len(q) + 1)  BY <1>2, <2>1, <2>5, <3>1
    <3>3. Len(r) + 1 \in 1..Len(r) + 1 /\ (Len(r) + 1) + 1 = Len(q) + 1  BY <2>2
    <3> QED BY <2>3, <3>1, <3>2, <3>3
  <2> QED BY <1>3, <1>11, <2>4, <2>5
<1>12. CASE PhoneOpen \/ PhoneLost
  <2>1. PICK t \in {"open", "stale", "lost"} : PhoneNext(t)
    BY <1>12 DEF PhoneOpen, Ask, PhoneLost
  <2>2. UNCHANGED <<log, att, sock, skipped>> /\ Cut(q, r, 1) /\ 1 \in 1..Len(q) /\ q[1].t = t
    BY <1>1, <2>1, PhoneTakes DEF q, r
  <2>3. UNCHANGED <<phone, got, told>>  BY <1>12 DEF PhoneOpen, PhoneLost
  <2>4. \A n \in 1..c : n \in skipped' \/ Told(n)'  BY <1>2, <2>2, <2>3 DEF Told
  <2>5. phone'.cursor = c  BY <2>3 DEF c
  <2> QED BY <1>1, <1>2, <1>11, <2>2, <2>3, <2>4, <2>5
<1>13. CASE PhoneEvt
  <2> DEFINE f == q[1]
  <2>1. PhoneNext("evt") /\ 1 \in 1..Len(q) /\ f.t = "evt" /\ Reads(f)
    BY <1>13, PhoneEvtStep DEF InTime, q
  <2>2. UNCHANGED <<log, att, sock, skipped>> /\ Cut(q, r, 1)
    BY <1>1, <2>1, PhoneTakes DEF q, r
  <2>3. /\ f.n \in 1..Len(log) /\ f.n >= c /\ phone'.cursor = f.n
        /\ got' = got \cup {f.n} /\ told' = told
    BY <2>1 DEF Reads, c
  <2>4. ASSUME NEW n \in 1..f.n PROVE n \in skipped' \/ Told(n)'
    <3>1. CASE n = f.n  BY <2>3, <3>1 DEF Told
    <3>2. CASE n \in 1..c /\ n # f.n
      <4>1. n \in skipped \/ Told(n)  BY <1>2, <3>2
      <4>2. n < f.n
        <5>1. f.n \in Nat  BY <2>3
        <5> QED BY <3>2, <5>1
      <4> QED BY <2>2, <2>3, <4>1, <4>2 DEF Told
    <3>3. CASE n \in c + 1..f.n - 1
      <4>1. Covered(q, n, 1)  BY <1>2, <2>1, <3>3
      <4>2. ~Seen(q, n, 1)  BY DEF Seen
      <4>3. n \in skipped \/ got = {}  BY <4>1, <4>2 DEF Covered
      <4> QED BY <2>2, <2>3, <3>3, <4>3 DEF Told
    <3> QED BY <1>1, <2>3, <3>1, <3>2, <3>3
  <2>5. \A k \in got' : k \in 1..f.n  BY <1>1, <1>2, <2>3
  <2>6. f.n \in Nat  BY <2>3
  <2> QED BY <1>11, <2>1, <2>2, <2>3, <2>4, <2>5, <2>6
<1>14. CASE PhoneGap
  <2> DEFINE f == q[1]
  <2>1. PhoneNext("gap")  BY <1>14 DEF PhoneGap
  <2>2. /\ UNCHANGED <<log, att, sock, skipped>> /\ Cut(q, r, 1) /\ 1 \in 1..Len(q)
        /\ f.t = "gap" /\ f = Head(q)
    BY <1>1, <2>1, PhoneTakes DEF q, r
  <2>3. phone'.cursor = f.from /\ told' = told \cup {f.from} /\ got' = got
    BY <1>1, <1>14, <2>2 DEF PhoneGap, Phones, q
  <2>4. f.from \in c..Len(log)  BY <1>2, <2>2 DEF QueuedIn, Numbered, Num
  <2>5. \A n \in 1..f.from : Told(n)'  BY <2>3 DEF Told
  <2>6. \A k \in got' : k \in 1..f.from  BY <1>1, <1>2, <2>3, <2>4
  <2>7. f.from \in Nat /\ f.from >= c  BY <1>1, <2>4
  <2> QED BY <1>11, <2>2, <2>3, <2>5, <2>6, <2>7
<1> QED BY <1>5, <1>6, <1>7, <1>8, <1>9, <1>10, <1>12, <1>13, <1>14
        DEF Next, DeskStep, PhoneStep

-----------------------------------------------------------------------------
(***************************************************************************)
(* The invariant.                                                          *)
(***************************************************************************)

\* It holds at the start: nothing was said, sent or read.
LEMMA InvInit == Init => IInv
<1> SUFFICES ASSUME Init PROVE IInv
  OBVIOUS
<1>1. Types  BY TypesInit
<1>2. /\ log = <<>> /\ evs = [desk |-> <<>>, phone |-> <<>>]
      /\ out = [desk |-> <<>>, phone |-> <<>>] /\ att = Fresh
      /\ sock = [desk |-> FALSE, phone |-> FALSE]
      /\ carried = {} /\ skipped = {} /\ sealed = {}
      /\ shown = <<>> /\ acted = <<>> /\ got = {} /\ told = {}
      /\ desk.id = 1 /\ desk.seq = 0 /\ desk.last = 0 /\ desk.outbox = <<>> /\ links = 1
      /\ phone.cursor = 0 /\ phone.desk = 0 /\ phone.last = 0 /\ phone.seq = 0
  BY DEF Init, RelayInit, DeskOn, Ends
<1>3. Len(log) = 0 /\ Len(evs["desk"]) = 0 /\ Len(evs["phone"]) = 0 /\ Len(out["desk"]) = 0
      /\ Len(out["phone"]) = 0 /\ Len(shown) = 0 /\ Len(acted) = 0 /\ Len(desk.outbox) = 0
  BY <1>2
<1>4. Counted  BY <1>2 DEF Counted, InTurn
<1>5. Waiting  BY <1>2, <1>3 DEF Waiting, InOrder
<1>6. Underway  BY <1>2, <1>3 DEF Underway
<1>7. Along  BY <1>3 DEF Along
<1>8. Numbers  BY <1>2, <1>3 DEF Numbers
<1>9. Followed  BY <1>2, <1>3 DEF Followed
<1>10. Commanded
  BY <1>2, <1>3 DEF Commanded, ActsInTurn, AsksInTurn, OpensInTurn, Awaited, InOrder
<1>11. Heard  BY <1>2 DEF Heard, InTurn, UpTo, HeardAt, DeskAt, At
<1>12. Ahead  BY <1>2, <1>3 DEF Ahead, QueuedIn
<1>13. Asking  BY <1>3 DEF Asking
<1>14. Opened  BY <1>3 DEF Opened, InOrder
<1>15. Kept /\ Passed  BY <1>2, <1>3 DEF Kept, Passed
<1> QED BY <1>1, <1>4, <1>5, <1>6, <1>7, <1>8, <1>9, <1>10, <1>11, <1>12, <1>13, <1>14, <1>15
        DEF IInv, Always, InTime

\* An asking that came late stays so.
LEMMA LateStays == ASSUME Always, [Next]_vars, late PROVE late'
<1>1. Types  BY DEF Always
<1>2. CASE Wire
  <2>1. CASE Subscribe  BY <1>1, <2>1, SubscribeStep
  <2>2. ASSUME NEW e \in Ends, Connect(e) \/ DialFails(e) \/ Break(e)
        PROVE  late'
    BY <1>1, <2>2, SocketStep
  <2> QED BY <1>2, <2>1, <2>2 DEF Wire, Hub, Publish, Refuse, Command, Tidy, Calm, Again
<1>3. CASE Next /\ ~Wire
  BY <1>3 DEF Next, DeskStep, PhoneStep, Say, DeskOpen, DeskLost, DeskCmd, DeskNext, Drained,
     Flush, Refill, TakeOver, PhoneOpen, Ask, PhoneLost, PhoneEvt, PhoneGap, PhoneNext, PhoneSay,
     relay_vars
<1>4. CASE UNCHANGED vars  BY <1>4 DEF vars, relay_vars
<1> QED BY <1>2, <1>3, <1>4

\* Every step keeps what always holds, and the rest as long as no asking is late.
LEMMA InvStep == IInv /\ [Next]_vars => IInv'
<1> SUFFICES ASSUME IInv, [Next]_vars PROVE IInv'
  OBVIOUS
<1>1. Always  BY DEF IInv
<1>2. Always'
  <2>1. Types' /\ Counted' /\ Waiting' /\ Underway'
    BY <1>1, TypesStep, CountedStep, WaitingStep, UnderwayStep
  <2>2. Along' /\ Numbers' /\ Followed' /\ Commanded'
    BY <1>1, AlongStep, NumbersStep, FollowedStep, CommandedStep
  <2> QED BY <2>1, <2>2 DEF Always
<1>3. ASSUME ~late' PROVE InTime'
  <2>1. ~late  BY <1>1, <1>3, LateStays
  <2>2. InTime  BY <2>1 DEF IInv
  <2>3. Heard'  BY <1>1, <2>2, HeardStep DEF InTime
  <2>4. Ahead' /\ Asking'  BY <1>1, <1>3, <2>2, AheadStep, AskingStep
  <2>5. Opened'  BY <1>1, <1>3, <2>2, OpenedStep
  <2>6. Kept' /\ Passed'  BY <1>1, <1>3, <2>2, KeptStep
  <2> QED BY <2>3, <2>4, <2>5, <2>6 DEF InTime
<1> QED BY <1>2, <1>3 DEF IInv

LEMMA InvHolds == Spec => []IInv
<1>1. Init => IInv  BY InvInit
<1>2. IInv /\ [Next]_vars => IInv'  BY InvStep
<1> QED BY <1>1, <1>2, PTL DEF Spec

\* The shape of the state: a phone's cursors are numbers the log has given, and
\* the link it heard last one that was drawn.
THEOREM TypeCorrect == Spec => []TypeOK
<1>1. IInv => TypeOK
  <2> SUFFICES ASSUME IInv PROVE TypeOK
    OBVIOUS
  <2>1. Types /\ Counted /\ Along /\ Numbers  BY DEF IInv, Always
  <2>2. /\ att \in [sub : BOOLEAN, since : 0..Len(log), recent : BOOLEAN]
        /\ oldest \in 1..Len(log) + 1 /\ \A n \in 1..Len(log) : log[n].n = n
    BY <2>1 DEF Types, Along
  <2>3. /\ desk.id \in Nat /\ desk.last \in Nat /\ desk.allow \in 0..Burst
        /\ desk.outbox \in Seq(-MaxCmd..MaxPay) /\ links \in Nat \ {0}
    BY <2>1 DEF Types, Desks, Pay
  <2>4. phone.cursor \in Nat /\ phone.desk \in Nat /\ phone.cursor <= Len(log) /\ Len(log) \in Nat
    BY <2>1, Lengths DEF Types, Phones, Numbers
  <2>5. desk.id = links /\ phone.desk <= links  BY <2>1 DEF Counted
  <2>6. desk.id \in 1..links  BY <2>3, <2>5
  <2>7. phone.cursor \in 0..Len(log) /\ phone.desk \in 0..links  BY <2>3, <2>4, <2>5
  <2> QED BY <2>2, <2>3, <2>6, <2>7 DEF TypeOK
<1> QED BY <1>1, InvHolds, PTL

\* What the sessions say is shown in the order it was said and once (arrived in
\* phone.rs, Opener::open): replays, breaks and take-overs never show a payload
\* twice or an old one late, unless an asking outlived its socket (run in link.rs).
THEOREM ShownInOrderHolds == Spec => []ShownInOrder
<1>1. IInv => ShownInOrder  BY DEF IInv, InTime, Opened, ShownInOrder
<1> QED BY <1>1, InvHolds, PTL

\* A command is acted on once and in the order typed (answer in publisher.rs),
\* also when the hub hands it on again from what it kept, and whatever askings
\* outlive their socket.
THEOREM CommandOnceHolds == Spec => []CommandOnce
<1>1. IInv => CommandOnce  BY DEF IInv, Always, Commanded, ActsInTurn, CommandOnce
<1> QED BY <1>1, InvHolds, PTL

\* No number seals two payloads under one key (Sealer::seal, link_key): not when
\* links change, nor when the phone comes back to count anew.  The desktop's side
\* holds always, the phone's unless an asking outlived its socket.
THEOREM NonceOnceHolds == Spec => []NonceOnce
<1>1. IInv => NonceOnce
  <2> SUFFICES ASSUME IInv, NEW a \in sealed, NEW b \in sealed, SameKey(a, b), a.seq = b.seq,
                      ~(late /\ a.dir = "p2d")
               PROVE  a = b
    BY DEF NonceOnce
  <2>1. a \in Seals /\ b \in Seals  BY DEF IInv, Always, Types
  <2>2. a.link = b.link /\ a.dir = b.dir  BY DEF SameKey
  <2>3. ~Before(a, b) /\ ~Before(b, a)  BY <2>1, <2>2 DEF Before, Seals
  <2>4. CASE a.dir = "d2p"  BY <2>2, <2>3, <2>4 DEF IInv, Always, Counted, InTurn
  <2>5. CASE a.dir = "p2d"
    <3>1. ~late  BY <2>5
    <3> QED BY <2>2, <2>3, <2>5, <3>1 DEF IInv, InTime, Heard, InTurn
  <2> QED BY <2>1, <2>4, <2>5 DEF Seals
<1> QED BY <1>1, InvHolds, PTL

\* Of every frame before its cursor a phone got it, or was told of a gap over it,
\* or had got nothing at all when it was passed, or a replay of the hub went past
\* it (subscribe in hub.rs); the frame that a gap ends at comes behind it unless a
\* socket broke between the two (arrived in phone.rs moves the cursor to it).
THEOREM KeptOrToldHolds == Spec => []KeptOrTold
<1>1. IInv => KeptOrTold
  <2> SUFFICES ASSUME IInv, ~late, NEW n \in 1..phone.cursor
               PROVE  n \in skipped \/ HeardOf(n) \/ (n \in told /\ n \in torn)
    BY DEF KeptOrTold
  <2>1. n \in skipped \/ Told(n)  BY DEF IInv, InTime, Passed
  <2>2. told \subseteq Nat /\ n \in Nat /\ evs["phone"] \in Seq(PhoneEvents)
    BY DEF IInv, Always, Types, Phones, PhoneIn, PhoneEvents
  <2>3. CASE n \in told
    <3>1. n \in got \/ n \in torn \/ Follows(evs["phone"], n, 0)
      BY <2>3 DEF IInv, Always, Followed
    <3>2. Follows(evs["phone"], n, 0) => Comes(n)
      <4>1. \A j \in 1..Len(evs["phone"]) : evs["phone"][j] \in ToSet(evs["phone"])
        BY <2>2, LenProperties DEF ToSet
      <4> QED BY <4>1 DEF Follows, Comes
    <3> QED BY <2>3, <3>1, <3>2 DEF HeardOf
  <2>4. CASE n \notin told
    <3>1. \A from \in told : n <= from => n < from  BY <2>2, <2>4
    <3> QED BY <2>1, <3>1 DEF Told, HeardOf
  <2> QED BY <2>3, <2>4
<1> QED BY <1>1, InvHolds, PTL
=============================================================================
