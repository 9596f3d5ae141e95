------------------------------- MODULE Remote -------------------------------
(***************************************************************************)
(* A desktop and a phone over a relay.  The desktop is the thread of       *)
(* Publisher (ah/src/remote/publisher.rs): it reads what its link has,     *)
(* seals what it has to say and hands it to the link.  The phone is the    *)
(* one of ah-remote/examples/phone.rs.  Sealing numbers what it seals;     *)
(* opening refuses a number it has passed (ah-remote/src/crypto.rs).       *)
(* A payload is a number: the greeting is 0, what the sessions say is      *)
(* 1, 2, ..., the answer to command c is -c.                               *)
(***************************************************************************)
EXTENDS Relay

CONSTANTS
    MaxPay,       \* bound: what the sessions say
    MaxCmd,       \* bound: what the phone asks
    MaxSaid,      \* bound: both together
    OutboxKeep,   \* RemoteSettings::outbox_bytes, in payloads
    Burst         \* Allowance::BURST

ASSUME RemoteAssumption ==
    {MaxPay, MaxCmd, MaxSaid, OutboxKeep, Burst} \subseteq Nat

VARIABLES
    desk,     \* the locals of run and Shared
    links,    \* how many links were drawn: each is new
    says,     \* how much the sessions said
    phone,    \* Phone
    asks,     \* how much was typed on it
    sealed,   \* history: what was sealed, under which key and number
    shown,    \* history: what the phone showed
    acted,    \* history: the commands that were acted on
    got,      \* history: the numbers of the frames the phone received
    told      \* history: the gaps it was told of

ends_vars == <<desk, links, says, phone, asks, sealed, shown, acted, got, told>>
vars == <<relay_vars, ends_vars>>

DeskOn(id) == [id |-> id, seq |-> 0, up |-> FALSE, outbox |-> <<>>, last |-> 0,
               allow |-> Burst, at |-> "drain"]

Init ==
    /\ RelayInit
    /\ desk = DeskOn(1) /\ links = 1 /\ says = 0
    /\ phone = [cursor |-> 0, desk |-> 0, last |-> 0, seq |-> 0]
    /\ asks = 0
    /\ sealed = {} /\ shown = <<>> /\ acted = <<>> /\ got = {} /\ told = {}

-----------------------------------------------------------------------------
(* The desktop. *)

\* observe and ahead: a session says something, which waits for the next pass.
Say ==
    /\ says < MaxPay /\ says + asks < MaxSaid
    /\ says' = says + 1
    /\ desk' = [desk EXCEPT !.outbox = Append(@, says')]
    /\ UNCHANGED <<relay_vars, links, phone, asks, sealed, shown, acted, got, told>>

DeskNext(t) ==
    /\ desk.at = "drain" /\ evs["desk"] # <<>> /\ Head(evs["desk"]).t = t
    /\ evs' = [evs EXCEPT !["desk"] = Tail(@)]
    /\ UNCHANGED <<log, oldest, att, sock, out, faults, carried, skipped, torn, late, says, phone, asks,
                   sealed, shown, got, told>>

\* A mutant: the old link goes on, numbered again.
DeskOpenSameLink ==
    /\ DeskNext("open")
    /\ desk' = [desk EXCEPT !.seq = 0, !.last = 0, !.up = TRUE, !.outbox = <<0>> \o @]
    /\ UNCHANGED <<links, acted>>

\* Event::Open: a new link, numbered from the start, that knows no phone.
DeskOpen ==
    /\ DeskNext("open")
    /\ links' = links + 1
    /\ desk' = [desk EXCEPT !.id = links', !.seq = 0, !.last = 0, !.up = TRUE,
                            !.outbox = <<0>> \o @]
    /\ UNCHANGED acted

DeskLost ==
    /\ DeskNext("lost")
    /\ desk' = [desk EXCEPT !.up = FALSE]
    /\ UNCHANGED <<links, acted>>

\* A mutant: the opener is made anew for each command.
DeskCmdAnew ==
    /\ DeskNext("cmd")
    /\ LET c == Head(evs["desk"])
       IN  IF c.link # desk.id \/ desk.allow = 0 THEN UNCHANGED <<desk, acted>>
           ELSE /\ desk' = [desk EXCEPT !.allow = @ - 1, !.outbox = Append(@, -c.pay)]
                /\ acted' = Append(acted, c.pay)
    /\ UNCHANGED links


\* Opener::open: under the key of its link, and by a number past the last one
\* that opened; what does not open moves nothing.
Opens(frame, link, last) == frame.link = link /\ frame.seq > last

\* answer: a command under the link that is live and a number past the last one
\* opens; with an allowance left it is acted on and answered.
DeskCmd ==
    /\ DeskNext("cmd")
    /\ LET c == Head(evs["desk"])
       IN  IF ~Opens(c, desk.id, desk.last) THEN UNCHANGED <<desk, acted>>
           ELSE IF desk.allow = 0
                THEN desk' = [desk EXCEPT !.last = c.seq] /\ UNCHANGED acted
                ELSE /\ desk' = [desk EXCEPT !.last = c.seq, !.allow = @ - 1,
                                             !.outbox = Append(@, -c.pay)]
                     /\ acted' = Append(acted, c.pay)
    /\ UNCHANGED links

\* Allowance::take adds what the time since was worth.
Refill ==
    /\ desk.allow < Burst
    /\ desk' = [desk EXCEPT !.allow = @ + 1]
    /\ UNCHANGED <<relay_vars, links, says, phone, asks, sealed, shown, acted, got, told>>

\* The link has nothing more: on to the outbox, with up as it was.
Drained ==
    /\ desk.at = "drain" /\ evs["desk"] = <<>>
    /\ desk.outbox # <<>>
    /\ desk' = [desk EXCEPT !.at = "send"]
    /\ UNCHANGED <<relay_vars, links, says, phone, asks, sealed, shown, acted, got, told>>

Frames(d) == [i \in 1..Len(d.outbox) |->
    [t |-> "pub", link |-> d.id, seq |-> d.seq + i, pay |-> d.outbox[i]]]
Sealed(dir, link, seq, pay) == [dir |-> dir, link |-> link, seq |-> seq, pay |-> pay]

\* link_key: a key for each direction of each link, and of each phone's, of which
\* there is one here.
SameKey(a, b) == a.dir = b.dir /\ a.link = b.link

\* Sealed in order and handed to the link, or kept, the newest of it.
Flush ==
    /\ desk.at = "send"
    /\ LET n == Len(desk.outbox) IN
       IF desk.up
       THEN /\ out' = [out EXCEPT !["desk"] = @ \o Frames(desk)]
            /\ sealed' = sealed \cup
                  {Sealed("d2p", desk.id, desk.seq + i, desk.outbox[i]) : i \in 1..n}
            /\ desk' = [desk EXCEPT !.at = "drain", !.outbox = <<>>, !.seq = @ + n]
       ELSE /\ desk' = [desk EXCEPT !.at = "drain",
                  !.outbox = SubSeq(@, Max({1, n - Max({1, OutboxKeep}) + 1}), n)]
            /\ UNCHANGED <<out, sealed>>
    /\ UNCHANGED <<log, oldest, att, sock, evs, faults, carried, skipped, torn, late, links, says, phone, asks,
                   shown, acted, got, told>>

\* The desktop dies, or stands down, and another takes the pairing: what it had
\* not sent is gone.
TakeOver ==
    /\ faults < MaxFaults
    /\ faults' = faults + 1
    /\ links' = links + 1
    /\ desk' = DeskOn(links')
    /\ sock' = [sock EXCEPT !["desk"] = FALSE]
    /\ out' = [out EXCEPT !["desk"] = <<>>] /\ evs' = [evs EXCEPT !["desk"] = <<>>]
    /\ UNCHANGED <<log, oldest, att, carried, skipped, torn, late, says, phone, asks, sealed, shown,
                   acted, got, told>>

-----------------------------------------------------------------------------
(* The phone. *)

PhoneNext(t) ==
    /\ evs["phone"] # <<>> /\ Head(evs["phone"]).t = t
    /\ evs' = [evs EXCEPT !["phone"] = Tail(@)]
    /\ UNCHANGED <<log, oldest, att, sock, faults, carried, skipped, torn, late, desk, links, says, asks,
                   sealed, acted>>

\* It asks for everything since the last frame it received.
Ask(t, name) ==
    /\ PhoneNext(t)
    /\ out' = [out EXCEPT !["phone"] = Append(@, [t |-> name, since |-> phone.cursor])]
PhoneOpen ==
    /\ Ask("open", "sub") \/ Ask("stale", "late")
    /\ UNCHANGED <<phone, shown, got, told>>

PhoneLost == PhoneNext("lost") /\ UNCHANGED <<out, phone, shown, got, told>>

\* rekey: a frame of another link changes both keys.
Rekeyed(link) == IF phone.desk = link THEN phone
                 ELSE [phone EXCEPT !.desk = link, !.last = 0, !.seq = 0]

\* arrived, a frame: the cursor moves, and it is shown if it opens.
PhoneEvt ==
    /\ PhoneNext("evt")
    /\ LET f == Head(evs["phone"])
           p == [Rekeyed(f.link) EXCEPT !.cursor = f.n]
       IN  /\ IF Opens(f, p.desk, p.last)
              THEN phone' = [p EXCEPT !.last = f.seq] /\ shown' = Append(shown, f.pay)
              ELSE phone' = p /\ UNCHANGED shown
           /\ got' = got \cup {f.n}
    /\ UNCHANGED <<out, told>>

PhoneGap ==
    /\ PhoneNext("gap")
    /\ phone' = [phone EXCEPT !.cursor = Head(evs["phone"]).from]
    /\ told' = told \cup {Head(evs["phone"]).from}
    /\ UNCHANGED <<out, shown, got>>

\* say: a command, sealed for the link the phone last heard.
PhoneSay ==
    /\ asks < MaxCmd /\ says + asks < MaxSaid /\ phone.desk # 0
    /\ asks' = asks + 1
    /\ phone' = [phone EXCEPT !.seq = @ + 1]
    /\ out' = [out EXCEPT !["phone"] = Append(@,
                 [t |-> "cmd", link |-> phone.desk, seq |-> phone'.seq, pay |-> asks'])]
    /\ sealed' = sealed \cup {Sealed("p2d", phone.desk, phone'.seq, asks')}
    /\ UNCHANGED <<log, oldest, att, sock, evs, faults, carried, skipped, torn, late, desk, links, says,
                   shown, acted, got, told>>

-----------------------------------------------------------------------------
Wire == /\ \/ Hub \/ Tidy \/ Calm \/ Again
           \/ \E e \in Ends : Connect(e) \/ DialFails(e) \/ Break(e)
        /\ UNCHANGED ends_vars
DeskStep == DeskOpen \/ DeskLost \/ DeskCmd \/ Drained \/ Flush
PhoneStep == PhoneOpen \/ PhoneLost \/ PhoneEvt \/ PhoneGap
Next == Wire \/ Say \/ DeskStep \/ Refill \/ TakeOver \/ PhoneStep \/ PhoneSay

\* The threads of both ends run, the links dial until they are through, and the
\* hub serves.
HubServes == Hub /\ UNCHANGED ends_vars
Dials(e) == Connect(e) /\ UNCHANGED ends_vars
Fairness ==
    /\ WF_vars(DeskStep) /\ WF_vars(PhoneStep) /\ WF_vars(HubServes)
    /\ \A e \in Ends : WF_vars(Dials(e))
Spec == Init /\ [][Next]_vars /\ Fairness

-----------------------------------------------------------------------------
(* Properties. *)

\* The shape of the state (Attach, the locals of run, Phone): the cursors of a
\* phone and of its socket are numbers the log has given.
TypeOK ==
    /\ att \in [sub : BOOLEAN, since : 0..Len(log), recent : BOOLEAN]
    /\ \A n \in 1..Len(log) : log[n].n = n
    /\ oldest \in 1..Len(log) + 1
    /\ desk.id \in 1..links /\ desk.last \in Nat /\ desk.allow \in 0..Burst
    /\ desk.outbox \in Seq(-MaxCmd..MaxPay)
    /\ phone.cursor \in 0..Len(log) /\ phone.desk \in 0..links

InOrder(pays) == \A i, j \in 1..Len(pays) :
    (i < j /\ pays[i] > 0 /\ pays[j] > 0) => pays[i] < pays[j]

\* What the sessions say is shown in the order it was said, and once, whatever
\* breaks on the way and however often it is replayed.  The exception is the
\* code's: an asking that outlived its socket has the hub replay what the phone
\* is past, and the phone opens it anew.
ShownInOrder == late \/ InOrder(shown)

\* No number seals two payloads under one key; on the phone's side unless such
\* a replay took it back to a link that it left, whose numbers it then starts anew.
NonceOnce == \A a, b \in sealed :
    (SameKey(a, b) /\ a.seq = b.seq) => a = b \/ (late /\ a.dir = "p2d")

\* A command is acted on once, in the order they were typed, also when it is
\* handed on again.
CommandOnce == InOrder(acted)

\* "Past those, nothing fails quietly" (docs/remote.md:470): a frame before the
\* cursor was received, or lies before a gap that was told, or ends one and comes
\* behind it, or lies before all that the phone ever got.
Comes(n) == \E f \in ToSet(evs["phone"]) : f.t = "evt" /\ f.n = n
HeardOf(n) ==
    \/ n \in got
    \/ \E from \in told : n < from
    \/ n \in told /\ Comes(n)
    \/ \A k \in got : n < k
NoneSkipped == \A n \in 1..phone.cursor : HeardOf(n)

\* The same of all but what the code passes over: frames past the most that one
\* replay holds and those of a log that aged out whole, and the frame a gap ends
\* at, which the cursor counts as received before it is.  An asking that outlived
\* its socket may be one from before the phone got anything, and is told no gap.
KeptOrTold == late \/ \A n \in 1..phone.cursor :
    n \in skipped \/ HeardOf(n) \/ (n \in told /\ n \in torn)

\* When sockets stop breaking the phone ends up with the newest frame that it
\* was not passed over with.
CatchesUp == <>[](desk.outbox = <<>> /\ phone.cursor + 1..Len(log) \subseteq skipped)
=============================================================================
