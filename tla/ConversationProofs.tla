------------------------- MODULE ConversationProofs -------------------------
(***************************************************************************)
(* Proofs about the conversation of a turn and the file it is kept in, for *)
(* any number of requests, tries, calls, turns and crashes.                *)
(*                                                                         *)
(* Neither property is inductive.  Between a reply and the last answer to  *)
(* it the conversation is complete but for that reply, which has its first *)
(* answers behind it and calls left (Waits, Unsettled); what is answered   *)
(* next is numbered from there.  And the file is, at every step, some      *)
(* lines, the last reset and the messages of the session at rest (Filed),  *)
(* which the conversation of a turn that was not compacted begins with.    *)
(***************************************************************************)
EXTENDS Conversation, FiniteSetTheorems, SequenceTheorems, TLAPS

Msgs == [role : {"user", "summary", "assistant", "tool"}, n : Nat, call : Nat, calls : Nat]
Lines == {Whole(m) : m \in Msgs \cup {Reset}}

-----------------------------------------------------------------------------
(* The invariant. *)

\* The calls of message i have their answers behind it, and it is one itself.
Called(s, i) == s[i].role = "assistant" => \A c \in 1..s[i].calls :
    i + c <= Len(s) /\ s[i + c] = Result(s[i].n, c)
Behind(s, i) == s[i].role = "tool" => \E j \in 1..(i - 1) :
    s[j] = Reply(s[i].n, s[j].calls) /\ i - j = s[i].call

\* What follows reply a are its first answers, and it has calls left.
Answers(s, a) ==
    /\ a \in 1..Len(s) /\ s[a] = Reply(s[a].n, s[a].calls)
    /\ \A c \in 1..Len(s) - a : s[a + c] = Result(s[a].n, c)
Waits(s, a) == Answers(s, a) /\ Len(s) - a < s[a].calls

Settled(s) == \A i \in 1..Len(s) : Called(s, i) /\ Behind(s, i)
Unsettled(s) == \A i \in 1..Len(s) : (Called(s, i) \/ Waits(s, i)) /\ Behind(s, i)

\* The file ends in the messages of s, behind the last reset.
Filed(file, s) ==
    /\ file \in Seq(Lines)
    /\ \E r \in 0..Len(file) :
          /\ r > 0 => file[r] = Whole(Reset)
          /\ Len(s) = Len(file) - r
          /\ \A k \in 1..Len(s) : file[r + k] = Whole(s[k])

Begun(conv, s) == Len(s) <= Len(conv) /\ \A i \in 1..Len(s) : conv[i] = s[i]

Types ==
    /\ talk_pc \in {"idle", "top", "stream", "tools", "batch", "save"}
    /\ talk_reset \in BOOLEAN /\ talk_next \in Nat /\ talk_tries \in Nat
    /\ talk_tears \in Nat /\ talk_crashes \in Nat /\ (talk_crashes = 0 => talk_tears = 0)
    /\ talk_tears = 0 => talk_conv \in Seq(Msgs) /\ talk_sess \in Seq(Msgs)

\* One try of a request says something, the last.
OneTry == talk_words \subseteq {talk_tries}

OnFile == talk_tears = 0 =>
    /\ Filed(talk_file, talk_sess)
    /\ talk_pc # "idle" /\ ~talk_reset => Begun(talk_conv, talk_sess)

\* While calls are answered one reply waits, for what runs and more.
Underway == talk_tears = 0 /\ talk_pc \in {"tools", "batch"} => \E a \in 1..Len(talk_conv) :
    /\ Waits(talk_conv, a)
    /\ talk_pc = "batch" =>
          /\ talk_batch \in Seq({"runs", "refused", "done", "died"}) /\ talk_batch # <<>>
          /\ Len(talk_conv) - a + Len(talk_batch) <= talk_conv[a].calls

Complete == talk_crashes = 0 =>
    /\ Settled(talk_sess)
    /\ talk_pc \in {"top", "stream", "save"} => Settled(talk_conv)
    /\ talk_pc \in {"tools", "batch"} => Unsettled(talk_conv)

TalkInv == Types /\ OneTry /\ OnFile /\ Underway /\ Complete

-----------------------------------------------------------------------------
(* Messages and sequences of them. *)

LEMMA MessageFacts ==
    ASSUME NEW n \in Nat, NEW k \in Nat
    PROVE  /\ User(n) \in Msgs /\ User(n).role = "user"
           /\ Summary(n) \in Msgs /\ Summary(n).role = "summary"
           /\ Reply(n, k) \in Msgs /\ Reply(n, k).role = "assistant"
           /\ Reply(n, k).n = n /\ Reply(n, k).calls = k
           /\ Result(n, k) \in Msgs /\ Result(n, k).role = "tool"
           /\ Result(n, k).n = n /\ Result(n, k).call = k
BY DEF Msgs, User, Summary, Reply, Result

\* A reply is known by its number and its calls.
LEMMA ReplyFacts ==
    ASSUME NEW m \in Msgs, NEW s, NEW i, s[i] = m
    PROVE  /\ m.n \in Nat /\ m.calls \in Nat
           /\ m.role = "assistant" /\ m.call = 0 => m = Reply(m.n, m.calls)
BY DEF Msgs, Reply

LEMMA ResetFacts == \A m \in Msgs : m # Reset
BY DEF Msgs, Reset

LEMMA Appended ==
    ASSUME NEW S, NEW s \in Seq(S), NEW m \in S
    PROVE  /\ Append(s, m) \in Seq(S) /\ Len(Append(s, m)) = Len(s) + 1
           /\ \A i \in 1..Len(s) : Append(s, m)[i] = s[i]
           /\ Append(s, m)[Len(s) + 1] = m
BY AppendProperties

LEMMA Joined ==
    ASSUME NEW S, NEW s \in Seq(S), NEW u \in Seq(S)
    PROVE  /\ s \o u \in Seq(S) /\ Len(s \o u) = Len(s) + Len(u)
           /\ \A i \in 1..Len(s) : (s \o u)[i] = s[i]
           /\ \A i \in 1..Len(u) : (s \o u)[Len(s) + i] = u[i]
<1>1. Len(s) \in Nat /\ Len(u) \in Nat  BY LenProperties
<1>2. /\ s \o u \in Seq(S) /\ Len(s \o u) = Len(s) + Len(u)
      /\ \A i \in 1..Len(s) + Len(u) : (s \o u)[i] = IF i <= Len(s) THEN s[i] ELSE u[i - Len(s)]
  BY ConcatProperties
<1>3. ASSUME NEW i \in 1..Len(u) PROVE (s \o u)[Len(s) + i] = u[i]
  <2>1. /\ Len(s) + i \in 1..Len(s) + Len(u) /\ ~(Len(s) + i <= Len(s))
        /\ (Len(s) + i) - Len(s) = i
    BY <1>1
  <2> QED BY <1>2, <2>1
<1>4. ASSUME NEW i \in 1..Len(s) PROVE (s \o u)[i] = s[i]
  BY <1>1, <1>2
<1> QED BY <1>2, <1>3, <1>4

\* What begins with a session goes on beginning with it.
LEMMA BegunStays ==
    ASSUME NEW s \in Seq(Msgs), NEW u \in Seq(Msgs), NEW t \in Seq(Msgs),
           Begun(u, s), Len(u) <= Len(t), \A i \in 1..Len(u) : t[i] = u[i]
    PROVE  Begun(t, s)
BY DEF Begun

\* A message without calls leaves a settled conversation settled.
LEMMA SettledGrows ==
    ASSUME NEW s \in Seq(Msgs), NEW m \in Msgs, Settled(s), m.role # "tool",
           m.role = "assistant" => m.calls = 0
    PROVE  Settled(Append(s, m))
<1> DEFINE t == Append(s, m)
<1>1. /\ t \in Seq(Msgs) /\ Len(t) = Len(s) + 1
      /\ \A i \in 1..Len(s) : t[i] = s[i]
      /\ t[Len(s) + 1] = m
  BY Appended
<1> HIDE DEF t
<1> SUFFICES ASSUME NEW i \in 1..Len(t) PROVE Called(t, i) /\ Behind(t, i)
  BY DEF Settled, t
<1>2. CASE i = Len(s) + 1
  BY <1>1, <1>2 DEF Called, Behind
<1>3. CASE i \in 1..Len(s)
  <2>0. s[i] \in Msgs  BY <1>3
  <2>1. Called(s, i) /\ Behind(s, i) /\ t[i] = s[i] /\ s[i].calls \in Nat
    <3>1. s[i].calls \in Nat  BY <2>0 DEF Msgs
    <3> QED BY <1>1, <1>3, <3>1 DEF Settled
  <2>2. Called(t, i)
    <3> SUFFICES ASSUME s[i].role = "assistant", NEW c \in 1..s[i].calls
                 PROVE  i + c <= Len(t) /\ t[i + c] = Result(s[i].n, c)
      BY <2>1 DEF Called
    <3>1. i + c <= Len(s) /\ s[i + c] = Result(s[i].n, c)  BY <2>1 DEF Called
    <3>2. i + c \in 1..Len(s)  BY <3>1, <1>3, <2>1
    <3> QED BY <1>1, <3>1, <3>2
  <2>3. Behind(t, i)
    <3> SUFFICES ASSUME s[i].role = "tool"
                 PROVE  \E j \in 1..(i - 1) : t[j] = Reply(s[i].n, t[j].calls) /\ i - j = s[i].call
      BY <2>1 DEF Behind
    <3>1. PICK j \in 1..(i - 1) : s[j] = Reply(s[i].n, s[j].calls) /\ i - j = s[i].call
      BY <2>1 DEF Behind
    <3>2. t[j] = s[j]  BY <1>1, <1>3
    <3> QED BY <3>1, <3>2
  <2> QED BY <2>2, <2>3
<1> QED BY <1>1, <1>2, <1>3

\* A reply with calls leaves a settled conversation unsettled, and waits.
LEMMA ReplyWaits ==
    ASSUME NEW s \in Seq(Msgs), NEW n \in Nat, NEW k \in Nat \ {0}
    PROVE  LET t == Append(s, Reply(n, k)) IN
           /\ Waits(t, Len(s) + 1)
           /\ Settled(s) => Unsettled(t)
<1> DEFINE t == Append(s, Reply(n, k))
<1>0. Reply(n, k) \in Msgs /\ Reply(n, k).role = "assistant" /\ Reply(n, k).calls = k
  BY MessageFacts
<1>1. /\ t \in Seq(Msgs) /\ Len(t) = Len(s) + 1
      /\ \A i \in 1..Len(s) : t[i] = s[i]
      /\ t[Len(s) + 1] = Reply(n, k)
  BY <1>0, Appended
<1> HIDE DEF t
<1>2. Waits(t, Len(s) + 1)
  <2>1. Reply(n, k).n = n  BY MessageFacts
  <2> QED BY <1>0, <1>1, <2>1 DEF Waits, Answers
<1>3. ASSUME Settled(s) PROVE Unsettled(t)
  <2>1. SUFFICES ASSUME NEW i \in 1..Len(s)
                 PROVE  Called(t, i) /\ Behind(t, i)
    <3>1. Behind(t, Len(s) + 1)  BY <1>0, <1>1 DEF Behind
    <3> QED BY <1>1, <1>2, <3>1 DEF Unsettled
  <2>2. s[i] \in Msgs  OBVIOUS
  <2>3. Called(s, i) /\ Behind(s, i) /\ t[i] = s[i] /\ s[i].calls \in Nat
    <3>1. s[i].calls \in Nat  BY <2>2 DEF Msgs
    <3> QED BY <1>1, <1>3, <3>1 DEF Settled
  <2>4. Called(t, i)
    <3> SUFFICES ASSUME s[i].role = "assistant", NEW c \in 1..s[i].calls
                 PROVE  i + c <= Len(t) /\ t[i + c] = Result(s[i].n, c)
      BY <2>3 DEF Called
    <3>1. i + c <= Len(s) /\ s[i + c] = Result(s[i].n, c)  BY <2>3 DEF Called
    <3>2. i + c \in 1..Len(s)  BY <3>1, <2>3
    <3> QED BY <1>1, <3>1, <3>2
  <2>5. Behind(t, i)
    <3> SUFFICES ASSUME s[i].role = "tool"
                 PROVE  \E j \in 1..(i - 1) : t[j] = Reply(s[i].n, t[j].calls) /\ i - j = s[i].call
      BY <2>3 DEF Behind
    <3>1. PICK j \in 1..(i - 1) : s[j] = Reply(s[i].n, s[j].calls) /\ i - j = s[i].call
      BY <2>3 DEF Behind
    <3>2. t[j] = s[j]  BY <1>1
    <3> QED BY <3>1, <3>2
  <2> QED BY <2>4, <2>5
<1> QED BY <1>2, <1>3 DEF t

\* The reply whose answers end the conversation is one.
LEMMA OneWaits ==
    ASSUME NEW s \in Seq(Msgs), NEW a, Answers(s, a), NEW i \in 1..Len(s),
           s[i].role = "assistant", \A j \in 1..Len(s) : j > i => s[j].role = "tool"
    PROVE  i = a
<1>1. a \in 1..Len(s) /\ s[a].role = "assistant"  BY DEF Answers, Reply
<1>2. CASE i < a  BY <1>1, <1>2
<1>3. CASE i > a
  <2>1. i - a \in 1..Len(s) - a  BY <1>1, <1>3
  <2>2. s[a + (i - a)] = Result(s[a].n, i - a) /\ a + (i - a) = i  BY <1>1, <2>1 DEF Answers
  <2> QED BY <2>2 DEF Result
<1> QED BY <1>1, <1>2, <1>3

LEMMA AskingIs ==
    ASSUME talk_conv \in Seq(Msgs), NEW a, Answers(talk_conv, a)
    PROVE  Asking = a
<1>1. DOMAIN talk_conv = 1..Len(talk_conv)  OBVIOUS
<1>2. a \in 1..Len(talk_conv) /\ talk_conv[a].role = "assistant"  BY DEF Answers, Reply
<1>3. ASSUME NEW j \in 1..Len(talk_conv), j > a PROVE talk_conv[j].role = "tool"
  <2>1. j - a \in 1..Len(talk_conv) - a /\ a + (j - a) = j  BY <1>2, <1>3
  <2>2. talk_conv[j] = Result(talk_conv[a].n, j - a)  BY <2>1 DEF Answers
  <2> QED BY <2>2 DEF Result
<1>4. \A i \in 1..Len(talk_conv) :
        talk_conv[i].role = "assistant" /\ (\A j \in 1..Len(talk_conv) : j > i => talk_conv[j].role = "tool")
        => i = a
  BY OneWaits
<1> QED BY <1>1, <1>2, <1>3, <1>4 DEF Asking

\* The next p answers go behind those that are there.
NextAnswers(s, a, p, more) ==
    /\ Waits(s, a) /\ Len(s) - a + p <= s[a].calls
    /\ Len(more) = p /\ \A i \in 1..p : more[i] = Result(s[a].n, Len(s) - a + i)
AnsweredOn(s, a, p, t) ==
    /\ t \in Seq(Msgs) /\ Len(t) = Len(s) + p /\ \A i \in 1..Len(s) : t[i] = s[i]
    /\ Answers(t, a)
    /\ Unsettled(s) => IF Len(s) - a + p = s[a].calls THEN Settled(t) ELSE Unsettled(t)

LEMMA AnswersGrow ==
    ASSUME NEW s \in Seq(Msgs), NEW a, NEW p \in Nat, NEW more \in Seq(Msgs),
           NextAnswers(s, a, p, more)
    PROVE  AnsweredOn(s, a, p, s \o more)
<1> USE DEF NextAnswers
<1> DEFINE t == s \o more
<1>0. /\ a \in 1..Len(s) /\ s[a] = Reply(s[a].n, s[a].calls) /\ s[a] \in Msgs
      /\ \A c \in 1..Len(s) - a : s[a + c] = Result(s[a].n, c)
  BY DEF Waits, Answers
<1>00. s[a].n \in Nat /\ s[a].calls \in Nat
  <2>1. \A m \in Msgs : m.n \in Nat /\ m.calls \in Nat  BY DEF Msgs
  <2> QED BY <1>0, <2>1
<1>1. /\ t \in Seq(Msgs) /\ Len(t) = Len(s) + p
      /\ \A i \in 1..Len(s) : t[i] = s[i]
      /\ \A i \in 1..p : t[Len(s) + i] = more[i]
  <2>0. \A u, v \in Seq(Msgs) :
            /\ u \o v \in Seq(Msgs) /\ Len(u \o v) = Len(u) + Len(v)
            /\ \A i \in 1..Len(u) : (u \o v)[i] = u[i]
            /\ \A i \in 1..Len(v) : (u \o v)[Len(u) + i] = v[i]
    BY Joined
  <2>1. /\ t \in Seq(Msgs) /\ Len(t) = Len(s) + Len(more)
        /\ \A i \in 1..Len(s) : t[i] = s[i]
        /\ \A i \in 1..Len(more) : t[Len(s) + i] = more[i]
    BY <2>0
  <2> HIDE DEF t
  <2> QED BY <2>1
<1> HIDE DEF t
<1>2. ASSUME NEW c \in 1..Len(t) - a PROVE t[a + c] = Result(s[a].n, c)
  <2>1. CASE a + c <= Len(s)
    <3>1. a + c \in 1..Len(s) /\ c \in 1..Len(s) - a  BY <1>0, <1>1, <2>1
    <3> QED BY <1>0, <1>1, <3>1
  <2>2. CASE a + c > Len(s)
    <3> DEFINE i == a + c - Len(s)
    <3>1. i \in 1..p /\ Len(s) + i = a + c /\ Len(s) - a + i = c
      <4> DEFINE ls == Len(s)
      <4>1. ls \in Nat /\ a \in 1..ls /\ c \in 1..(ls + p) - a /\ a + c > ls /\ i = a + c - ls
        BY <1>0, <1>1, <2>2
      <4> HIDE DEF ls, i
      <4>2. i \in 1..p /\ ls + i = a + c /\ ls - a + i = c  BY <4>1
      <4> QED BY <4>2 DEF ls
    <3> HIDE DEF i
    <3> QED BY <1>1, <3>1
  <2> QED BY <1>0, <2>1, <2>2
<1>3. Answers(t, a)
  BY <1>0, <1>1, <1>2 DEF Answers
<1>4. ASSUME Unsettled(s), NEW i \in 1..Len(t) PROVE Behind(t, i)
  <2>1. CASE i \in 1..Len(s)
    <3>1. Behind(s, i) /\ t[i] = s[i]  BY <1>1, <1>4, <2>1 DEF Unsettled
    <3> SUFFICES ASSUME s[i].role = "tool"
                 PROVE  \E j \in 1..(i - 1) : t[j] = Reply(s[i].n, t[j].calls) /\ i - j = s[i].call
      BY <3>1 DEF Behind
    <3>2. PICK j \in 1..(i - 1) : s[j] = Reply(s[i].n, s[j].calls) /\ i - j = s[i].call
      BY <3>1 DEF Behind
    <3>3. t[j] = s[j]  BY <1>1, <2>1
    <3> QED BY <3>2, <3>3
  <2>2. CASE i > Len(s)
    <3> DEFINE c == i - a
    <3>1. c \in 1..Len(t) - a /\ a + c = i /\ a \in 1..(i - 1)  BY <1>0, <1>1, <2>2
    <3>2. t[i] = Result(s[a].n, c)  BY <1>2, <3>1
    <3>3. t[i].n = s[a].n /\ t[i].call = c  BY <3>2 DEF Result
    <3>4. t[a] = s[a]  BY <1>0, <1>1
    <3> QED BY <1>0, <3>1, <3>3, <3>4 DEF Behind
  <2> QED BY <1>1, <2>1, <2>2
<1>5. ASSUME Unsettled(s), NEW i \in 1..Len(t), i # a PROVE Called(t, i)
  <2>1. CASE i > a
    <3>1. i - a \in 1..Len(t) - a /\ a + (i - a) = i  BY <1>0, <1>1, <2>1
    <3>2. t[i] = Result(s[a].n, i - a)  BY <1>2, <3>1
    <3> QED BY <3>2 DEF Called, Result
  <2>2. CASE i < a
    <3>1. i \in 1..Len(s) /\ t[i] = s[i] /\ s[i] \in Msgs  BY <1>0, <1>1, <2>2
    <3>2. ~Waits(s, i)
      <4>1. ASSUME NEW j \in 1..Len(s), j > a PROVE s[j].role = "tool"
        <5>1. j - a \in 1..Len(s) - a /\ a + (j - a) = j  BY <1>0, <4>1
        <5>2. s[j] = Result(s[a].n, j - a)  BY <1>0, <5>1
        <5> QED BY <5>2 DEF Result
      <4>2. s[a].role = "assistant"  BY <1>0 DEF Reply
      <4>3. Answers(s, i) => a = i  BY <1>0, <3>1, <4>1, <4>2, OneWaits
      <4> QED BY <2>2, <4>3, <1>0 DEF Waits
    <3>3. Called(s, i)  BY <1>5, <3>1, <3>2 DEF Unsettled
    <3>4. s[i].calls \in Nat  BY <3>1 DEF Msgs
    <3> SUFFICES ASSUME s[i].role = "assistant", NEW c \in 1..s[i].calls
                 PROVE  i + c <= Len(t) /\ t[i + c] = Result(s[i].n, c)
      BY <3>1 DEF Called
    <3>5. i + c <= Len(s) /\ s[i + c] = Result(s[i].n, c)  BY <3>3 DEF Called
    <3>6. i + c \in 1..Len(s)  BY <3>1, <3>4, <3>5
    <3> QED BY <1>1, <3>5, <3>6
  <2> QED BY <1>0, <1>1, <1>5, <2>1, <2>2
<1>6. t[a] = s[a]  BY <1>0, <1>1
<1>7. CASE Len(s) - a + p = s[a].calls
  <2>1. Called(t, a)  BY <1>0, <1>00, <1>1, <1>2, <1>6, <1>7 DEF Called
  <2>2. Unsettled(s) => Settled(t)  BY <1>4, <1>5, <2>1 DEF Settled
  <2> QED BY <1>1, <1>3, <1>7, <2>2 DEF t, AnsweredOn
<1>8. CASE Len(s) - a + p # s[a].calls
  <2>1. Len(t) - a = Len(s) - a + p  BY <1>0, <1>1
  <2>2. Len(t) - a < t[a].calls
    <3> DEFINE x == Len(t) - a
               y == s[a].calls
    <3>1. x \in Int /\ y \in Nat /\ x <= y /\ x # y  BY <1>0, <1>00, <1>1, <1>8, <2>1
    <3>2. x < y
      <4> HIDE DEF x, y
      <4> QED BY <3>1
    <3> QED BY <1>6, <3>2
  <2>3. Waits(t, a)  BY <1>3, <2>2 DEF Waits
  <2>4. Unsettled(s) => Unsettled(t)  BY <1>4, <1>5, <2>3 DEF Unsettled
  <2> QED BY <1>1, <1>3, <1>8, <2>4 DEF t, AnsweredOn
<1> QED BY <1>7, <1>8

-----------------------------------------------------------------------------
(* The file. *)

LEMMA LineFacts ==
    /\ \A l \in Lines : /\ l.ended /\ ~l.half /\ Len(l.of) = 1
                        /\ \E m \in Msgs \cup {Reset} : l = Whole(m)
    /\ \A m \in Msgs \cup {Reset} : Whole(m) \in Lines
    /\ \A m : Whole(m).of[1] = m
<1>1. \A m : Whole(m).ended /\ ~Whole(m).half /\ Len(Whole(m).of) = 1 /\ Whole(m).of[1] = m
  BY DEF Whole
<1>2. \A l \in Lines : \E m \in Msgs \cup {Reset} : l = Whole(m)
  BY DEF Lines
<1>3. \A m \in Msgs \cup {Reset} : Whole(m) \in Lines
  BY DEF Lines
<1> QED BY <1>1, <1>2, <1>3

LEMMA Marked == \A m : Marks(Whole(m)) <=> m = Reset
BY DEF Marks, Readable, Whole

LEMMA EmptyLen == \A S : \A q \in Seq(S) : Len(q) = 0 <=> q = <<>>
OBVIOUS

\* What is put goes to lines of its own, behind those that are there.
LEMMA Puts ==
    ASSUME NEW file \in Seq(Lines), NEW ms \in Seq(Msgs \cup {Reset})
    PROVE  LET f == PutAll(file, ms) IN
           /\ f \in Seq(Lines) /\ Len(f) = Len(file) + Len(ms)
           /\ \A i \in 1..Len(file) : f[i] = file[i]
           /\ \A i \in 1..Len(ms) : f[Len(file) + i] = Whole(ms[i])
<1> DEFINE f == PutAll(file, ms)
<1>1. CASE ms = <<>>
  <2>1. f = file /\ Len(ms) = 0  BY <1>1 DEF PutAll
  <2> QED BY <2>1
<1>2. CASE ms # <<>>
  <2> DEFINE one == Append(file, Whole(ms[1]))
             rest == [i \in 1..Len(ms) - 1 |-> Whole(ms[i + 1])]
  <2>1. Len(ms) \in Nat /\ Len(ms) > 0 /\ Len(file) \in Nat  BY <1>2, EmptyLen
  <2>2. ~(file # <<>> /\ ~Last(file).ended)
    <3> SUFFICES ASSUME file # <<>> PROVE Last(file).ended
      OBVIOUS
    <3>1. Len(file) \in 1..Len(file)  BY <2>1, EmptyLen
    <3>2. Last(file) \in Lines  BY <3>1 DEF Last
    <3> QED BY <3>2, LineFacts
  <2>3. f = one \o rest  BY <1>2, <2>2 DEF PutAll, Put
  <2>4. \A i \in 1..Len(ms) : Whole(ms[i]) \in Lines  BY LineFacts
  <2>5. rest \in [1..Len(ms) - 1 -> Lines] /\ Len(ms) - 1 \in Nat  BY <2>1, <2>4
  <2>6. rest \in Seq(Lines) /\ Len(rest) = Len(ms) - 1
    <3>0. \A n \in Nat : \A q \in [1..n -> Lines] : q \in Seq(Lines)  BY SeqDef
    <3>1. rest \in Seq(Lines)  BY <2>5, <3>0
    <3>2. DOMAIN rest = 1..Len(ms) - 1  BY <2>5
    <3> HIDE DEF rest
    <3> QED BY <2>5, <3>1, <3>2, LenProperties
  <2>7. one \in Seq(Lines) /\ Len(one) = Len(file) + 1
        /\ (\A i \in 1..Len(file) : one[i] = file[i]) /\ one[Len(file) + 1] = Whole(ms[1])
    BY <2>1, <2>4, Appended
  <2>8. \A i \in 1..Len(ms) - 1 : rest[i] = Whole(ms[i + 1])  OBVIOUS
  <2> HIDE DEF one, rest, f
  <2>9. /\ one \o rest \in Seq(Lines) /\ Len(one \o rest) = Len(one) + Len(rest)
        /\ \A i \in 1..Len(one) : (one \o rest)[i] = one[i]
        /\ \A i \in 1..Len(rest) : (one \o rest)[Len(one) + i] = rest[i]
    <3>1. \A u, v \in Seq(Lines) :
              /\ u \o v \in Seq(Lines) /\ Len(u \o v) = Len(u) + Len(v)
              /\ \A i \in 1..Len(u) : (u \o v)[i] = u[i]
              /\ \A i \in 1..Len(v) : (u \o v)[Len(u) + i] = v[i]
      BY Joined
    <3> QED BY <2>6, <2>7, <3>1
  <2>10. f \in Seq(Lines) /\ Len(f) = Len(file) + Len(ms)
    BY <2>1, <2>3, <2>6, <2>7, <2>9
  <2>11. ASSUME NEW i \in 1..Len(file) PROVE f[i] = file[i]
    <3>1. i \in 1..Len(one)  BY <2>1, <2>7
    <3> QED BY <2>3, <2>7, <2>9, <3>1
  <2>12. ASSUME NEW i \in 1..Len(ms) PROVE f[Len(file) + i] = Whole(ms[i])
    <3>1. CASE i = 1
      <4>1. Len(file) + 1 \in 1..Len(one)  BY <2>1, <2>7
      <4> QED BY <2>3, <2>7, <2>9, <3>1, <4>1
    <3>2. CASE i # 1
      <4> DEFINE k == i - 1
      <4>1. k \in 1..Len(rest) /\ Len(one) + k = Len(file) + i /\ k + 1 = i
        BY <2>1, <2>6, <2>7, <3>2
      <4> HIDE DEF k
      <4>2. f[Len(one) + k] = rest[k]  BY <2>3, <2>9, <4>1
      <4>3. rest[k] = Whole(ms[k + 1])  BY <2>6, <2>8, <4>1
      <4> QED BY <4>1, <4>2, <4>3
    <3> QED BY <3>1, <3>2
  <2> QED BY <2>10, <2>11, <2>12 DEF f
<1> QED BY <1>1, <1>2

\* A file reads as what it ends in.
LEMMA Reads ==
    ASSUME NEW file, NEW s \in Seq(Msgs), Filed(file, s)
    PROVE  Loaded(file) = s
<1>1. PICK r \in 0..Len(file) :
         /\ r > 0 => file[r] = Whole(Reset)
         /\ Len(s) = Len(file) - r
         /\ \A k \in 1..Len(s) : file[r + k] = Whole(s[k])
  BY DEF Filed
<1>2. file \in Seq(Lines) /\ Len(file) \in Nat /\ Len(s) \in Nat /\ DOMAIN file = 1..Len(file)
  BY LenProperties DEF Filed
<1>3. ASSUME NEW i \in 1..Len(file) PROVE Readable(file[i])
  BY <1>2, LineFacts DEF Readable
<1>4. ASSUME NEW i \in 1..Len(file), i > r PROVE ~Marks(file[i])
  <2> DEFINE k == i - r
  <2>1. k \in 1..Len(s) /\ r + k = i  BY <1>1, <1>2, <1>4
  <2> HIDE DEF k
  <2>2. file[i] = Whole(s[k])  BY <1>1, <2>1
  <2>3. s[k] # Reset
    <3>1. s[k] \in Msgs  BY <2>1, ElementOfSeq
    <3> QED BY <3>1, ResetFacts
  <2> QED BY <2>2, <2>3, Marked
<1>5. Kept(file) = r + 1..Len(file)
  <2>1. ASSUME NEW i \in 1..Len(file), i > r PROVE i \in Kept(file)
    BY <1>2, <1>3, <1>4, <2>1 DEF Kept
  <2>2. ASSUME NEW i \in Kept(file) PROVE i \in 1..Len(file) /\ i > r
    <3>1. i \in 1..Len(file) /\ ~Marks(file[i])
          /\ \A j \in 1..Len(file) : j > i => ~Marks(file[j])
      BY <1>2 DEF Kept
    <3> SUFFICES ASSUME i <= r PROVE FALSE
      BY <3>1
    <3>2. r \in 1..Len(file) /\ Marks(file[r])  BY <1>1, <3>1, Marked
    <3> QED BY <3>1, <3>2
  <2>3. r \in Nat  BY <1>2
  <2>4. \A i : i \in Kept(file) <=> i \in r + 1..Len(file)  BY <1>2, <2>1, <2>2, <2>3
  <2> QED BY <2>4
<1>6. Cardinality(Kept(file)) = Len(s)
  <2>1. r + 1 \in Int /\ Len(file) \in Int /\ r <= Len(file)  BY <1>2
  <2>2. Cardinality(r + 1..Len(file)) = IF r + 1 > Len(file) THEN 0 ELSE Len(file) - (r + 1) + 1
    BY <2>1, FS_Interval
  <2> QED BY <1>1, <1>2, <1>5, <2>1, <2>2
<1>7. ASSUME NEW k \in 1..Len(s)
      PROVE  (CHOOSE i \in Kept(file) : Cardinality({j \in Kept(file) : j <= i}) = k) = r + k
  <2>1. ASSUME NEW i \in Kept(file) PROVE Cardinality({j \in Kept(file) : j <= i}) = i - r
    <3>1. {j \in Kept(file) : j <= i} = r + 1..i /\ i \in Int /\ r + 1 \in Int /\ i >= r + 1
      BY <1>1, <1>2, <1>5
    <3>2. Cardinality(r + 1..i) = IF r + 1 > i THEN 0 ELSE i - (r + 1) + 1
      BY <3>1, FS_Interval
    <3>3. Cardinality(r + 1..i) = i - r  BY <3>1, <3>2
    <3> DEFINE low == {j \in Kept(file) : j <= i}
    <3>4. low = r + 1..i  BY <3>1
    <3> HIDE DEF low
    <3>5. Cardinality(low) = i - r  BY <3>3, <3>4
    <3> QED BY <3>5 DEF low
  <2>2. r + k \in Kept(file)  BY <1>1, <1>2, <1>5
  <2>3. ASSUME NEW i \in Kept(file) PROVE i - r = k <=> i = r + k
    <3>1. i \in Int /\ r \in Int /\ k \in Int  BY <1>2, <1>5
    <3> QED BY <3>1
  <2> QED BY <2>1, <2>2, <2>3
<1>8. Loaded(file) = [k \in 1..Len(s) |-> file[r + k].of[1]]
  <2> DEFINE line(k) == CHOOSE i \in Kept(file) : Cardinality({j \in Kept(file) : j <= i}) = k
  <2>1. Loaded(file) = [k \in 1..Cardinality(Kept(file)) |-> file[line(k)].of[1]]
    BY DEF Loaded
  <2>2. \A k \in 1..Len(s) : line(k) = r + k  BY <1>7
  <2> HIDE DEF line
  <2> QED BY <1>6, <2>1, <2>2
<1>9. ASSUME NEW k \in 1..Len(s) PROVE file[r + k].of[1] = s[k]
  BY <1>1, LineFacts
<1>10. s = [k \in 1..Len(s) |-> s[k]]
  BY LenProperties
<1> QED BY <1>8, <1>9, <1>10

\* The first k of what a turn has to save make the file one of a conversation
\* that is the first of it, and all of them of the whole.
LEMMA SavesMore ==
    ASSUME NEW file, NEW s \in Seq(Msgs), NEW conv \in Seq(Msgs), Filed(file, s), Begun(conv, s),
           NEW k \in 0..Len(conv) - Len(s)
    PROVE  LET todo == SubSeq(conv, Len(s) + 1, Len(conv))
               t    == SubSeq(conv, 1, Len(s) + k) IN
           /\ Len(todo) = Len(conv) - Len(s) /\ t \in Seq(Msgs)
           /\ Filed(PutAll(file, SubSeq(todo, 1, k)), t)
<1> DEFINE todo == SubSeq(conv, Len(s) + 1, Len(conv))
           ms   == SubSeq(todo, 1, k)
           t    == SubSeq(conv, 1, Len(s) + k)
           f    == PutAll(file, ms)
<1>1. PICK r \in 0..Len(file) :
         /\ r > 0 => file[r] = Whole(Reset)
         /\ Len(s) = Len(file) - r
         /\ \A i \in 1..Len(s) : file[r + i] = Whole(s[i])
  BY DEF Filed
<1>2. /\ file \in Seq(Lines) /\ Len(file) \in Nat /\ Len(s) \in Nat /\ Len(conv) \in Nat
      /\ r \in Nat /\ k \in Nat /\ Len(s) + k <= Len(conv)
      /\ \A i \in 1..Len(s) : conv[i] = s[i]
  BY LenProperties DEF Filed, Begun
<1>3. /\ todo \in Seq(Msgs) /\ Len(todo) = Len(conv) - Len(s)
      /\ \A i \in 1..Len(todo) : todo[i] = conv[Len(s) + i]
  <2>1. \A i \in Len(s) + 1..Len(conv) : conv[i] \in Msgs
    <3>1. \A i \in 1..Len(conv) : conv[i] \in Msgs  BY ElementOfSeq
    <3> QED BY <1>2, <3>1
  <2>2. /\ todo \in Seq(Msgs)
        /\ Len(todo) = IF Len(s) + 1 <= Len(conv) THEN Len(conv) - (Len(s) + 1) + 1 ELSE 0
        /\ \A i \in 1..Len(conv) - (Len(s) + 1) + 1 : todo[i] = conv[Len(s) + 1 + i - 1]
    <3>1. Len(s) + 1 \in Int /\ Len(conv) \in Int  BY <1>2
    <3> QED BY <2>1, <3>1, SubSeqProperties
  <2> HIDE DEF todo
  <2>3. Len(todo) = Len(conv) - Len(s)  BY <1>2, <2>2
  <2>4. ASSUME NEW i \in 1..Len(todo) PROVE todo[i] = conv[Len(s) + i]
    <3>1. i \in 1..Len(conv) - (Len(s) + 1) + 1 /\ Len(s) + 1 + i - 1 = Len(s) + i  BY <1>2, <2>3
    <3> QED BY <2>2, <3>1
  <2> QED BY <2>2, <2>3, <2>4
<1> HIDE DEF todo
<1>4. /\ ms \in Seq(Msgs \cup {Reset}) /\ Len(ms) = k
      /\ \A i \in 1..k : ms[i] = conv[Len(s) + i]
  <2>1. \A i \in 1..k : todo[i] \in Msgs \cup {Reset}
    <3>1. \A i \in 1..Len(todo) : todo[i] \in Msgs  BY <1>3, ElementOfSeq
    <3> QED BY <1>2, <1>3, <3>1
  <2>2. /\ ms \in Seq(Msgs \cup {Reset}) /\ Len(ms) = IF 1 <= k THEN k - 1 + 1 ELSE 0
        /\ \A i \in 1..k - 1 + 1 : ms[i] = todo[1 + i - 1]
    <3>1. 1 \in Int /\ k \in Int  BY <1>2
    <3> QED BY <2>1, <3>1, SubSeqProperties
  <2> HIDE DEF ms
  <2>3. ASSUME NEW i \in 1..k PROVE ms[i] = conv[Len(s) + i]
    <3>1. i \in 1..k - 1 + 1 /\ 1 + i - 1 = i /\ i \in 1..Len(todo)  BY <1>2, <1>3
    <3> QED BY <1>3, <2>2, <3>1
  <2> QED BY <1>2, <2>2, <2>3
<1> HIDE DEF ms
<1>5. /\ f \in Seq(Lines) /\ Len(f) = Len(file) + k
      /\ \A i \in 1..Len(file) : f[i] = file[i]
      /\ \A i \in 1..k : f[Len(file) + i] = Whole(ms[i])
  BY <1>2, <1>4, Puts
<1> HIDE DEF f
<1>6. /\ t \in Seq(Msgs) /\ Len(t) = Len(s) + k
      /\ \A i \in 1..Len(s) + k : t[i] = conv[i]
  <2>1. \A i \in 1..Len(s) + k : conv[i] \in Msgs
    <3>1. \A i \in 1..Len(conv) : conv[i] \in Msgs  BY ElementOfSeq
    <3> QED BY <1>2, <3>1
  <2>2. /\ t \in Seq(Msgs) /\ Len(t) = IF 1 <= Len(s) + k THEN Len(s) + k - 1 + 1 ELSE 0
        /\ \A i \in 1..Len(s) + k - 1 + 1 : t[i] = conv[1 + i - 1]
    <3>1. 1 \in Int /\ Len(s) + k \in Int  BY <1>2
    <3> QED BY <2>1, <3>1, SubSeqProperties
  <2> HIDE DEF t
  <2>3. ASSUME NEW i \in 1..Len(s) + k PROVE t[i] = conv[i]
    <3>1. i \in 1..Len(s) + k - 1 + 1 /\ 1 + i - 1 = i  BY <1>2
    <3> QED BY <2>2, <3>1
  <2> QED BY <1>2, <2>2, <2>3
<1> HIDE DEF t
<1>7. Filed(f, t)
  <2>1. ASSUME NEW i \in 1..Len(t) PROVE f[r + i] = Whole(t[i])
    <3>1. CASE i <= Len(s)
      <4>1. i \in 1..Len(s) /\ r + i \in 1..Len(file)  BY <1>1, <1>2, <3>1
      <4>2. f[r + i] = Whole(s[i])  BY <1>1, <1>5, <4>1
      <4>3. t[i] = s[i]  BY <1>2, <1>6, <4>1
      <4> QED BY <4>2, <4>3
    <3>2. CASE i > Len(s)
      <4> DEFINE c == i - Len(s)
      <4>1. c \in 1..k /\ Len(file) + c = r + i /\ Len(s) + c = i  BY <1>1, <1>2, <1>6, <3>2
      <4> HIDE DEF c
      <4>2. f[Len(file) + c] = Whole(conv[Len(s) + c])  BY <1>4, <1>5, <4>1
      <4>3. t[i] = conv[i]  BY <1>6
      <4> QED BY <4>1, <4>2, <4>3
    <3> QED BY <1>2, <3>1, <3>2
  <2>2. r \in 0..Len(f) /\ Len(t) = Len(f) - r  BY <1>1, <1>2, <1>5, <1>6
  <2>3. r > 0 => f[r] = Whole(Reset)
    <3>1. r > 0 => r \in 1..Len(file)  BY <1>2
    <3> QED BY <1>1, <1>5, <3>1
  <2> QED BY <1>5, <2>1, <2>2, <2>3 DEF Filed
<1> QED BY <1>3, <1>6, <1>7 DEF f, ms, t, todo

LEMMA SavesAnew ==
    ASSUME NEW file \in Seq(Lines), NEW conv \in Seq(Msgs), NEW k \in 1..Len(conv) + 1
    PROVE  LET todo == <<Reset>> \o conv
               t    == SubSeq(conv, 1, k - 1) IN
           /\ Len(todo) = Len(conv) + 1 /\ t \in Seq(Msgs)
           /\ Filed(PutAll(file, SubSeq(todo, 1, k)), t)
<1> DEFINE todo == <<Reset>> \o conv
           ms   == SubSeq(todo, 1, k)
           t    == SubSeq(conv, 1, k - 1)
           f    == PutAll(file, ms)
<1>1. Len(file) \in Nat /\ Len(conv) \in Nat /\ k \in Nat /\ k - 1 \in Nat /\ k <= Len(conv) + 1
  BY LenProperties
<1>2. /\ todo \in Seq(Msgs \cup {Reset}) /\ Len(todo) = Len(conv) + 1 /\ todo[1] = Reset
      /\ \A i \in 1..Len(conv) : todo[i + 1] = conv[i]
  <2> DEFINE one == <<Reset>>
  <2>1. one \in Seq(Msgs \cup {Reset}) /\ Len(one) = 1 /\ one[1] = Reset  OBVIOUS
  <2>2. conv \in Seq(Msgs \cup {Reset})  BY SeqMonotonic
  <2>3. \A u, v \in Seq(Msgs \cup {Reset}) :
            /\ u \o v \in Seq(Msgs \cup {Reset}) /\ Len(u \o v) = Len(u) + Len(v)
            /\ \A i \in 1..Len(u) : (u \o v)[i] = u[i]
            /\ \A i \in 1..Len(v) : (u \o v)[Len(u) + i] = v[i]
    BY Joined
  <2> HIDE DEF one
  <2>4. /\ one \o conv \in Seq(Msgs \cup {Reset}) /\ Len(one \o conv) = 1 + Len(conv)
        /\ (one \o conv)[1] = Reset
        /\ \A i \in 1..Len(conv) : (one \o conv)[1 + i] = conv[i]
    <3>1. /\ one \o conv \in Seq(Msgs \cup {Reset}) /\ Len(one \o conv) = Len(one) + Len(conv)
          /\ \A i \in 1..Len(one) : (one \o conv)[i] = one[i]
          /\ \A i \in 1..Len(conv) : (one \o conv)[Len(one) + i] = conv[i]
      BY <2>1, <2>2, <2>3
    <3>2. 1 \in 1..Len(one)  BY <2>1
    <3> QED BY <2>1, <3>1, <3>2
  <2>5. \A i \in 1..Len(conv) : 1 + i = i + 1  OBVIOUS
  <2> QED BY <1>1, <2>4, <2>5 DEF one
<1> HIDE DEF todo
<1>3. /\ ms \in Seq(Msgs \cup {Reset}) /\ Len(ms) = k
      /\ \A i \in 1..k : ms[i] = todo[i]
  <2>1. \A i \in 1..k : todo[i] \in Msgs \cup {Reset}
    <3>1. \A i \in 1..Len(todo) : todo[i] \in Msgs \cup {Reset}  BY <1>2, ElementOfSeq
    <3> QED BY <1>1, <1>2, <3>1
  <2>2. /\ ms \in Seq(Msgs \cup {Reset}) /\ Len(ms) = IF 1 <= k THEN k - 1 + 1 ELSE 0
        /\ \A i \in 1..k - 1 + 1 : ms[i] = todo[1 + i - 1]
    <3>1. 1 \in Int /\ k \in Int  BY <1>1
    <3> QED BY <2>1, <3>1, SubSeqProperties
  <2> HIDE DEF ms
  <2>3. ASSUME NEW i \in 1..k PROVE ms[i] = todo[i]
    <3>1. i \in 1..k - 1 + 1 /\ 1 + i - 1 = i  BY <1>1
    <3> QED BY <2>2, <3>1
  <2> QED BY <1>1, <2>2, <2>3
<1> HIDE DEF ms
<1>4. /\ f \in Seq(Lines) /\ Len(f) = Len(file) + k
      /\ \A i \in 1..k : f[Len(file) + i] = Whole(ms[i])
  BY <1>3, Puts
<1> HIDE DEF f
<1>5. /\ t \in Seq(Msgs) /\ Len(t) = k - 1
      /\ \A i \in 1..k - 1 : t[i] = conv[i]
  <2>1. \A i \in 1..k - 1 : conv[i] \in Msgs
    <3>1. \A i \in 1..Len(conv) : conv[i] \in Msgs  BY ElementOfSeq
    <3> QED BY <1>1, <3>1
  <2>2. /\ t \in Seq(Msgs) /\ Len(t) = IF 1 <= k - 1 THEN k - 1 - 1 + 1 ELSE 0
        /\ \A i \in 1..k - 1 - 1 + 1 : t[i] = conv[1 + i - 1]
    <3>1. 1 \in Int /\ k - 1 \in Int  BY <1>1
    <3> QED BY <2>1, <3>1, SubSeqProperties
  <2> HIDE DEF t
  <2>3. ASSUME NEW i \in 1..k - 1 PROVE t[i] = conv[i]
    <3>1. i \in 1..k - 1 - 1 + 1 /\ 1 + i - 1 = i  BY <1>1
    <3> QED BY <2>2, <3>1
  <2> QED BY <1>1, <2>2, <2>3
<1> HIDE DEF t
<1>6. Filed(f, t)
  <2> DEFINE r == Len(file) + 1
  <2>1. r \in 0..Len(f) /\ Len(t) = Len(f) - r  BY <1>1, <1>4, <1>5
  <2>2. f[r] = Whole(Reset)
    <3>1. 1 \in 1..k  BY <1>1
    <3> QED BY <1>2, <1>3, <1>4, <3>1
  <2>3. ASSUME NEW i \in 1..Len(t) PROVE f[r + i] = Whole(t[i])
    <3>1. /\ i + 1 \in 1..k /\ Len(file) + (i + 1) = r + i
          /\ i \in 1..Len(conv) /\ i \in 1..k - 1
      BY <1>1, <1>5
    <3> HIDE DEF r
    <3>2. f[r + i] = Whole(todo[i + 1])  BY <1>3, <1>4, <3>1
    <3> QED BY <1>2, <1>5, <3>1, <3>2
  <2> HIDE DEF r
  <2> QED BY <1>4, <2>1, <2>2, <2>3 DEF Filed
<1> QED BY <1>2, <1>5, <1>6 DEF f, ms, t, todo

LEMMA Saves ==
    ASSUME talk_conv \in Seq(Msgs), talk_sess \in Seq(Msgs), Filed(talk_file, talk_sess),
           talk_reset \/ Begun(talk_conv, talk_sess),
           NEW k \in 0..Len(ToSave(talk_conv))
    PROVE  \E t \in Seq(Msgs) :
             /\ Filed(PutAll(talk_file, SubSeq(ToSave(talk_conv), 1, k)), t)
             /\ k = Len(ToSave(talk_conv)) => t = talk_conv
<1>0. /\ Len(talk_conv) \in Nat /\ Len(talk_sess) \in Nat /\ talk_file \in Seq(Lines)
      /\ SubSeq(talk_conv, 1, Len(talk_conv)) = talk_conv
  BY LenProperties, SubSeqFull DEF Filed
<1>1. CASE talk_reset /\ k > 0
  <2>1. ToSave(talk_conv) = <<Reset>> \o talk_conv  BY <1>1 DEF ToSave
  <2>2. Len(<<Reset>> \o talk_conv) = Len(talk_conv) + 1
    <3>1. 1 \in 1..Len(talk_conv) + 1  BY <1>0
    <3> QED BY <1>0, <3>1, SavesAnew
  <2>3. k \in 1..Len(talk_conv) + 1  BY <1>0, <1>1, <2>1, <2>2
  <2> DEFINE t == SubSeq(talk_conv, 1, k - 1)
  <2>4. t \in Seq(Msgs) /\ Filed(PutAll(talk_file, SubSeq(<<Reset>> \o talk_conv, 1, k)), t)
    BY <1>0, <2>3, SavesAnew
  <2>5. k = Len(talk_conv) + 1 => t = talk_conv
    <3> SUFFICES ASSUME k = Len(talk_conv) + 1 PROVE t = talk_conv
      OBVIOUS
    <3>1. k - 1 = Len(talk_conv)  BY <1>0
    <3> QED BY <1>0, <3>1
  <2> HIDE DEF t
  <2> QED BY <2>1, <2>2, <2>4, <2>5
<1>2. CASE talk_reset /\ k = 0
  <2>1. SubSeq(ToSave(talk_conv), 1, k) = <<>>  BY <1>2, SubSeqEmpty
  <2>2. PutAll(talk_file, <<>>) = talk_file  BY DEF PutAll
  <2>3. ToSave(talk_conv) = <<Reset>> \o talk_conv  BY <1>2 DEF ToSave
  <2>4. Len(<<Reset>> \o talk_conv) = Len(talk_conv) + 1
    <3>1. 1 \in 1..Len(talk_conv) + 1  BY <1>0
    <3> QED BY <1>0, <3>1, SavesAnew
  <2>5. k # Len(ToSave(talk_conv))  BY <1>0, <1>2, <2>3, <2>4
  <2> QED BY <2>1, <2>2, <2>5
<1>3. CASE ~talk_reset
  <2> DEFINE todo == SubSeq(talk_conv, Len(talk_sess) + 1, Len(talk_conv))
  <2>1. ToSave(talk_conv) = todo  BY <1>3 DEF ToSave
  <2>2. Begun(talk_conv, talk_sess) /\ Len(talk_sess) <= Len(talk_conv)  BY <1>3 DEF Begun
  <2>3. Len(todo) = Len(talk_conv) - Len(talk_sess)
    <3>1. 0 \in 0..Len(talk_conv) - Len(talk_sess)  BY <1>0, <2>2
    <3> QED BY <2>2, <3>1, SavesMore
  <2>4. k \in 0..Len(talk_conv) - Len(talk_sess)  BY <2>1, <2>3
  <2> DEFINE t == SubSeq(talk_conv, 1, Len(talk_sess) + k)
  <2>5. t \in Seq(Msgs) /\ Filed(PutAll(talk_file, SubSeq(todo, 1, k)), t)
    BY <2>2, <2>4, SavesMore
  <2> HIDE DEF todo
  <2>6. k = Len(todo) => t = talk_conv
    <3> SUFFICES ASSUME k = Len(todo) PROVE t = talk_conv
      OBVIOUS
    <3>1. Len(talk_sess) + k = Len(talk_conv)  BY <1>0, <2>3
    <3> QED BY <1>0, <3>1
  <2> HIDE DEF t
  <2> QED BY <2>1, <2>5, <2>6
<1> QED BY <1>0, <1>1, <1>2, <1>3

-----------------------------------------------------------------------------
(* Steps. *)

LEMMA NothingSettled == Settled(<<>>)
BY DEF Settled

\* The engine comes to rest with conversation t.
LEMMA RestStep ==
    ASSUME TalkInv, NEW t, Rests(t), talk_tears' \in Nat, talk_crashes' \in Nat,
           talk_crashes' = 0 => talk_tears' = 0 /\ Settled(t),
           talk_tears' = 0 => t \in Seq(Msgs) /\ Filed(talk_file', t)
    PROVE  TalkInv'
<1>1. /\ talk_sess' = t /\ talk_conv' = <<>> /\ talk_reset' = FALSE /\ talk_pc' = "idle"
      /\ talk_tries' = 0 /\ talk_words' = {} /\ talk_next' = talk_next
  BY DEF Rests
<1>2. Types'
  <2>1. <<>> \in Seq(Msgs)  BY EmptySeq
  <2> QED BY <1>1, <2>1 DEF TalkInv, Types
<1>3. OneTry'  BY <1>1 DEF OneTry
<1>4. OnFile'  BY <1>1 DEF OnFile
<1>5. Underway'  BY <1>1 DEF Underway
<1>6. Complete'  BY <1>1 DEF Complete
<1> QED BY <1>2, <1>3, <1>4, <1>5, <1>6 DEF TalkInv

\* It begins with conv', of which the session is the beginning unless it is reset.
LEMMA BeginStep ==
    ASSUME TalkInv, Begins, talk_pc' \in {"top", "save"}, talk_next' \in Nat, talk_reset' \in BOOLEAN,
           talk_tears = 0 => talk_conv' \in Seq(Msgs) /\ (talk_reset' \/ Begun(talk_conv', talk_sess)),
           talk_crashes = 0 => Settled(talk_conv')
    PROVE  TalkInv'
<1>1. UNCHANGED <<talk_sess, talk_file, talk_crashes, talk_tears, talk_words, talk_tries>>
  BY DEF Begins, talk_run
<1>2. Types'  BY <1>1 DEF TalkInv, Types
<1>3. OneTry'  BY <1>1 DEF TalkInv, OneTry
<1>4. OnFile'  BY <1>1 DEF TalkInv, OnFile
<1>5. Underway'  BY DEF Underway
<1>6. Complete'  BY <1>1 DEF TalkInv, Complete
<1> QED BY <1>2, <1>3, <1>4, <1>5, <1>6 DEF TalkInv

\* A turn goes on: its conversation grows, or begins anew.
Grown(u, t) == Len(u) <= Len(t) /\ \A i \in 1..Len(u) : t[i] = u[i]
LEMMA RunStep ==
    ASSUME TalkInv, UNCHANGED talk_disk, talk_pc # "idle",
           talk_pc' \in {"top", "stream", "tools", "batch", "save"},
           talk_next' \in Nat, talk_reset' \in BOOLEAN, talk_tries' \in Nat, OneTry', Underway',
           talk_tears = 0 => talk_conv' \in Seq(Msgs)
                             /\ (talk_reset' \/ (~talk_reset /\ Grown(talk_conv, talk_conv'))),
           talk_crashes = 0 => IF talk_pc' \in {"tools", "batch"} THEN Unsettled(talk_conv')
                               ELSE Settled(talk_conv')
    PROVE  TalkInv'
<1>1. UNCHANGED <<talk_sess, talk_file, talk_crashes, talk_tears>>
  BY DEF talk_disk
<1>2. Types'  BY <1>1 DEF TalkInv, Types
<1>3. OnFile'
  <2> SUFFICES ASSUME talk_tears = 0
               PROVE  /\ Filed(talk_file, talk_sess)
                      /\ ~talk_reset' => Begun(talk_conv', talk_sess)
    BY <1>1 DEF OnFile
  <2>1. /\ talk_conv \in Seq(Msgs) /\ talk_sess \in Seq(Msgs) /\ talk_conv' \in Seq(Msgs)
        /\ Filed(talk_file, talk_sess)
        /\ ~talk_reset => Begun(talk_conv, talk_sess)
    BY DEF TalkInv, Types, OnFile
  <2>2. ASSUME ~talk_reset' PROVE Begun(talk_conv', talk_sess)
    <3>1. ~talk_reset /\ Grown(talk_conv, talk_conv')  BY <2>2
    <3> QED BY <2>1, <3>1, BegunStays DEF Grown
  <2> QED BY <2>1, <2>2
<1>4. Complete'  BY <1>1 DEF TalkInv, Complete
<1> QED BY <1>2, <1>3, <1>4 DEF TalkInv

LEMMA GrownSelf == \A t \in Seq(Msgs) : Grown(t, t)
BY LenProperties DEF Grown

\* The steps of a turn that leave its conversation as it is.
LEMMA SameStep ==
    ASSUME TalkInv, UNCHANGED <<talk_disk, talk_conv, talk_reset, talk_next>>,
           talk_pc \in {"top", "stream"}, talk_pc' \in {"top", "stream", "save"},
           talk_tries' \in Nat, OneTry'
    PROVE  TalkInv'
<1>1. talk_next' \in Nat /\ talk_reset' \in BOOLEAN /\ talk_tears' = talk_tears
  BY DEF TalkInv, Types, talk_disk
<1>2. Underway'  BY DEF Underway
<1>3. talk_tears = 0 => talk_conv' \in Seq(Msgs)
                        /\ (talk_reset' \/ (~talk_reset /\ Grown(talk_conv, talk_conv')))
  BY GrownSelf DEF TalkInv, Types
<1>4. talk_crashes = 0 => Settled(talk_conv')  BY DEF TalkInv, Complete
<1> QED BY <1>1, <1>2, <1>3, <1>4, RunStep

LEMMA TopStep == ASSUME TalkInv, TalkTop PROVE TalkInv'
<1>0. UNCHANGED <<talk_cancel, talk_disk>> /\ talk_pc = "top"  BY DEF TalkTop
<1>1. CASE talk_pc' = "save" /\ UNCHANGED <<talk_conv, talk_reset, talk_next, talk_run>>
  <2>1. talk_tries' \in Nat /\ OneTry'  BY <1>1 DEF TalkInv, Types, OneTry, talk_run
  <2> QED BY <1>0, <1>1, <2>1, SameStep
<1>2. ASSUME talk_pc' = "stream", talk_tries' = 0, talk_words' = {}, talk_next' = talk_next + 2,
             NEW full \in BOOLEAN, NEW mail \in BOOLEAN, talk_reset' = (talk_reset \/ full),
             talk_conv' = LET conv == IF full THEN <<Summary(talk_next)>> ELSE talk_conv
                          IN  IF mail THEN Append(conv, User(talk_next + 1)) ELSE conv
      PROVE  TalkInv'
  <2> DEFINE conv == IF full THEN <<Summary(talk_next)>> ELSE talk_conv
             user == User(talk_next + 1)
             summary == Summary(talk_next)
  <2>1. /\ talk_next \in Nat /\ talk_next + 1 \in Nat /\ talk_next' \in Nat /\ talk_reset' \in BOOLEAN
        /\ talk_tries' \in Nat /\ OneTry' /\ Underway'
    BY <1>2 DEF TalkInv, Types, OneTry, Underway
  <2>2. user \in Msgs /\ summary \in Msgs /\ user.role = "user" /\ summary.role = "summary"
    BY <2>1, MessageFacts
  <2>3. talk_conv' = IF mail THEN Append(conv, user) ELSE conv  BY <1>2
  <2>4. Settled(<<summary>>)
    <3>1. <<summary>> = Append(<<>>, summary) /\ <<>> \in Seq(Msgs)  OBVIOUS
    <3> QED BY <2>2, <3>1, NothingSettled, SettledGrows
  <2> HIDE DEF user, summary
  <2>5. talk_tears = 0 => conv \in Seq(Msgs) /\ (~full => Grown(talk_conv, conv))
    <3>1. <<summary>> \in Seq(Msgs)  BY <2>2
    <3> QED BY <3>1, GrownSelf DEF TalkInv, Types, summary
  <2>6. talk_crashes = 0 => talk_tears = 0 /\ Settled(conv)
    BY <1>0, <2>4 DEF TalkInv, Types, Complete, summary
  <2> HIDE DEF conv
  <2>7. talk_tears = 0 => /\ talk_conv' \in Seq(Msgs)
                          /\ talk_reset' \/ (~talk_reset /\ Grown(talk_conv, talk_conv'))
    <3> SUFFICES ASSUME talk_tears = 0
                 PROVE  /\ talk_conv' \in Seq(Msgs)
                        /\ ~full => Grown(talk_conv, talk_conv')
      BY <1>2
    <3>1. conv \in Seq(Msgs) /\ (~full => Grown(talk_conv, conv))  BY <2>5
    <3>2. CASE ~mail  BY <2>3, <3>1, <3>2
    <3>3. CASE mail
      <4>1. talk_conv' = Append(conv, user)  BY <2>3, <3>3
      <4>2. talk_conv \in Seq(Msgs)  BY DEF TalkInv, Types
      <4>3. /\ talk_conv' \in Seq(Msgs) /\ Len(talk_conv') = Len(conv) + 1
            /\ \A i \in 1..Len(conv) : talk_conv'[i] = conv[i]
        BY <2>2, <3>1, <4>1, Appended
      <4> QED BY <3>1, <4>2, <4>3, LenProperties DEF Grown
    <3> QED BY <3>2, <3>3
  <2>8. talk_crashes = 0 => Settled(talk_conv')
    BY <2>2, <2>3, <2>5, <2>6, SettledGrows
  <2> QED BY <1>0, <1>2, <2>1, <2>7, <2>8, RunStep
<1> QED BY <1>1, <1>2 DEF TalkTop

LEMMA StreamStep ==
    ASSUME TalkInv, TalkCompactionCancelled \/ TalkWords \/ TalkRetry \/ TalkCutOff
    PROVE  TalkInv'
<1>1. talk_tries \in Nat /\ talk_words \subseteq {talk_tries}  BY DEF TalkInv, Types, OneTry
<1>2. CASE TalkCompactionCancelled
  BY <1>1, <1>2, SameStep DEF TalkCompactionCancelled, talk_run, OneTry
<1>3. CASE TalkWords
  BY <1>1, <1>3, SameStep DEF TalkWords, OneTry
<1>4. CASE TalkRetry
  <2>1. talk_words = {}  BY <1>1, <1>4 DEF TalkRetry, MayRetry, GotAny
  <2> QED BY <1>1, <1>4, <2>1, SameStep DEF TalkRetry, OneTry
<1>5. CASE TalkCutOff
  BY <1>1, <1>5, SameStep DEF TalkCutOff, OneTry
<1> QED BY <1>2, <1>3, <1>4, <1>5

\* A reply to a request, with its calls or none.
LEMMA ReplyStep ==
    ASSUME TalkInv, NEW k \in Nat, talk_pc = "stream",
           talk_conv' = Append(talk_conv, Reply(talk_next, k)), talk_next' = talk_next + 1,
           talk_pc' = IF k = 0 THEN "save" ELSE "tools",
           UNCHANGED <<talk_reset, talk_run, talk_disk>>
    PROVE  TalkInv'
<1> DEFINE reply == Reply(talk_next, k)
<1>1. /\ talk_next \in Nat /\ talk_next' \in Nat /\ talk_reset' \in BOOLEAN
      /\ talk_tries' \in Nat /\ OneTry' /\ UNCHANGED <<talk_tears, talk_crashes>>
  BY DEF TalkInv, Types, OneTry, talk_run, talk_disk
<1>2. reply \in Msgs /\ reply.role = "assistant" /\ reply.calls = k  BY <1>1, MessageFacts
<1>3. talk_tears = 0 => /\ talk_conv \in Seq(Msgs) /\ talk_conv' \in Seq(Msgs)
                        /\ Len(talk_conv') = Len(talk_conv) + 1
                        /\ Grown(talk_conv, talk_conv')
  <2> SUFFICES ASSUME talk_tears = 0
               PROVE  /\ talk_conv \in Seq(Msgs) /\ talk_conv' \in Seq(Msgs)
                      /\ Len(talk_conv') = Len(talk_conv) + 1 /\ Grown(talk_conv, talk_conv')
    OBVIOUS
  <2>1. talk_conv \in Seq(Msgs)  BY DEF TalkInv, Types
  <2> HIDE DEF reply
  <2>2. /\ Append(talk_conv, reply) \in Seq(Msgs)
        /\ Len(Append(talk_conv, reply)) = Len(talk_conv) + 1
        /\ \A i \in 1..Len(talk_conv) : Append(talk_conv, reply)[i] = talk_conv[i]
    BY <1>2, <2>1, Appended
  <2> QED BY <2>1, <2>2, LenProperties DEF Grown, reply
<1>4. talk_crashes = 0 => talk_tears = 0 /\ Settled(talk_conv)
  BY DEF TalkInv, Types, Complete
<1>5. Underway'
  <2> SUFFICES ASSUME talk_tears = 0, k # 0
               PROVE  \E a \in 1..Len(talk_conv') : Waits(talk_conv', a)
    BY <1>1 DEF Underway
  <2>1. Waits(talk_conv', Len(talk_conv) + 1)  BY <1>1, <1>3, ReplyWaits
  <2> QED BY <2>1 DEF Waits, Answers
<1>6. talk_crashes = 0 => IF talk_pc' \in {"tools", "batch"} THEN Unsettled(talk_conv')
                          ELSE Settled(talk_conv')
  <2>1. CASE k = 0
    <3>1. talk_crashes = 0 => Settled(talk_conv')
      BY <1>2, <1>3, <1>4, <2>1, SettledGrows
    <3> QED BY <2>1, <3>1
  <2>2. CASE k # 0
    <3>1. talk_crashes = 0 => Unsettled(talk_conv')  BY <1>1, <1>3, <1>4, <2>2, ReplyWaits
    <3> QED BY <2>2, <3>1
  <2> QED BY <2>1, <2>2
<1>7. talk_pc' \in {"save", "tools"}  OBVIOUS
<1> QED BY <1>1, <1>3, <1>5, <1>6, <1>7, RunStep

LEMMA FailsStep == ASSUME TalkInv, TalkFails PROVE TalkInv'
<1>1. CASE talk_conv' = Append(talk_conv, Reply(talk_next, 0))
  BY <1>1, ReplyStep DEF TalkFails
<1>2. CASE talk_conv' = talk_conv
  <2>1. /\ talk_next' \in Nat /\ talk_reset' \in BOOLEAN /\ talk_tries' \in Nat /\ OneTry'
        /\ Underway' /\ talk_pc = "stream" /\ talk_pc' = "save" /\ UNCHANGED talk_disk
    BY <1>2 DEF TalkFails, TalkInv, Types, OneTry, Underway, talk_run
  <2>2. talk_tears = 0 => talk_conv' \in Seq(Msgs)
                          /\ (talk_reset' \/ (~talk_reset /\ Grown(talk_conv, talk_conv')))
    BY <1>2, GrownSelf DEF TalkInv, Types, TalkFails
  <2>3. talk_crashes = 0 => Settled(talk_conv')  BY <1>2, <2>1 DEF TalkInv, Complete
  <2> QED BY <2>1, <2>2, <2>3, RunStep
<1> QED BY <1>1, <1>2 DEF TalkFails

\* What waits, while calls are answered.
LEMMA Waiting ==
    ASSUME TalkInv, talk_tears = 0, talk_pc \in {"tools", "batch"}
    PROVE  \E a \in 1..Len(talk_conv) :
             /\ talk_conv \in Seq(Msgs) /\ Waits(talk_conv, a) /\ Asking = a
             /\ talk_conv[a].n \in Nat /\ talk_conv[a].calls \in Nat /\ Len(talk_conv) \in Nat
             /\ Done = Len(talk_conv) - a /\ Calls = talk_conv[a].calls
             /\ talk_pc = "batch" =>
                  /\ talk_batch \in Seq({"runs", "refused", "done", "died"}) /\ talk_batch # <<>>
                  /\ Done + Len(talk_batch) <= Calls
<1>1. talk_conv \in Seq(Msgs)  BY DEF TalkInv, Types
<1>2. PICK a \in 1..Len(talk_conv) :
        /\ Waits(talk_conv, a)
        /\ talk_pc = "batch" =>
             /\ talk_batch \in Seq({"runs", "refused", "done", "died"}) /\ talk_batch # <<>>
             /\ Len(talk_conv) - a + Len(talk_batch) <= talk_conv[a].calls
  BY DEF TalkInv, Underway
<1>3. Asking = a  BY <1>1, <1>2, AskingIs DEF Waits
<1>4. talk_conv[a].n \in Nat /\ talk_conv[a].calls \in Nat /\ Len(talk_conv) \in Nat
  <2>1. talk_conv[a] \in Msgs  BY <1>1, ElementOfSeq
  <2>2. \A m \in Msgs : m.n \in Nat /\ m.calls \in Nat  BY DEF Msgs
  <2> QED BY <1>1, <2>1, <2>2, LenProperties
<1> QED BY <1>1, <1>2, <1>3, <1>4 DEF Done, Calls

\* The next p calls are answered.
LEMMA AnswerStep ==
    ASSUME TalkInv, talk_pc \in {"tools", "batch"}, NEW p \in Nat \ {0}, NEW cs,
           talk_conv' = talk_conv \o Results(cs), talk_pc' \in {"top", "tools", "save"},
           talk_tears = 0 => /\ cs = [i \in 1..p |-> Done + i] /\ Done + p <= Calls
                             /\ (talk_pc' = "tools") <=> (Done + p < Calls),
           UNCHANGED <<talk_reset, talk_next, talk_disk, talk_tries, talk_words>>
    PROVE  TalkInv'
<1>1. /\ talk_next' \in Nat /\ talk_reset' \in BOOLEAN /\ talk_tries' \in Nat /\ OneTry'
      /\ UNCHANGED <<talk_tears, talk_crashes>>
  BY DEF TalkInv, Types, OneTry, talk_disk
<1>2. ASSUME talk_tears = 0
      PROVE  /\ talk_conv' \in Seq(Msgs) /\ Grown(talk_conv, talk_conv')
             /\ talk_pc' = "tools" => \E a \in 1..Len(talk_conv') : Waits(talk_conv', a)
             /\ Unsettled(talk_conv) => IF talk_pc' = "tools" THEN Unsettled(talk_conv')
                                        ELSE Settled(talk_conv')
  <2>1. PICK a \in 1..Len(talk_conv) :
             /\ talk_conv \in Seq(Msgs) /\ Waits(talk_conv, a) /\ Asking = a
             /\ talk_conv[a].n \in Nat /\ talk_conv[a].calls \in Nat /\ Len(talk_conv) \in Nat
             /\ Done = Len(talk_conv) - a /\ Calls = talk_conv[a].calls
    BY <1>2, Waiting
  <2> DEFINE d == Done
             more == [i \in 1..p |-> Result(talk_conv[a].n, d + i)]
  <2>2. d \in Nat /\ d + p <= talk_conv[a].calls  BY <1>2, <2>1
  <2>3. Results(cs) = more
    <3>1. cs = [i \in 1..p |-> d + i]  BY <1>2
    <3> HIDE DEF d
    <3>2. Len(cs) = p /\ \A i \in 1..p : cs[i] = d + i  BY <3>1
    <3>3. Results(cs) = [i \in 1..Len(cs) |-> Result(talk_conv[a].n, cs[i])]
      BY <2>1 DEF Results
    <3> QED BY <3>2, <3>3
  <2> HIDE DEF d
  <2>4. more \in Seq(Msgs) /\ Len(more) = p
    <3>1. ASSUME NEW i \in 1..p PROVE Result(talk_conv[a].n, d + i) \in Msgs
      <4>1. d + i \in Nat  BY <2>2
      <4> QED BY <2>1, <4>1, MessageFacts
    <3>2. more \in [1..p -> Msgs]  BY <3>1
    <3>3. \A q \in [1..p -> Msgs] : q \in Seq(Msgs)  BY SeqDef
    <3>4. more \in Seq(Msgs) /\ DOMAIN more = 1..p  BY <3>2, <3>3
    <3> HIDE DEF more
    <3> QED BY <3>4, LenProperties
  <2>5. \A i \in 1..p : more[i] = Result(talk_conv[a].n, d + i)  OBVIOUS
  <2> HIDE DEF more
  <2>6. /\ talk_conv' = talk_conv \o more /\ d = Len(talk_conv) - a
    BY <2>1, <2>3 DEF d
  <2>7. /\ talk_conv' \in Seq(Msgs) /\ Len(talk_conv') = Len(talk_conv) + p
        /\ \A i \in 1..Len(talk_conv) : talk_conv'[i] = talk_conv[i]
        /\ Answers(talk_conv', a)
        /\ Unsettled(talk_conv) => IF Len(talk_conv) - a + p = talk_conv[a].calls
                                   THEN Settled(talk_conv') ELSE Unsettled(talk_conv')
    <3>1. Len(talk_conv) - a + p <= talk_conv[a].calls  BY <2>2, <2>6
    <3>2. \A i \in 1..p : more[i] = Result(talk_conv[a].n, Len(talk_conv) - a + i)  BY <2>5, <2>6
    <3>3. NextAnswers(talk_conv, a, p, more)  BY <2>1, <2>4, <3>1, <3>2 DEF NextAnswers
    <3>4. p \in Nat  OBVIOUS
    <3>5. AnsweredOn(talk_conv, a, p, talk_conv \o more)  BY <2>1, <2>4, <3>3, <3>4, AnswersGrow
    <3> QED BY <2>6, <3>5 DEF AnsweredOn
  <2>8. /\ (talk_pc' = "tools") <=> (d + p < talk_conv[a].calls)
        /\ (talk_pc' = "tools") <=> (Len(talk_conv) - a + p # talk_conv[a].calls)
    <3> DEFINE l == Len(talk_conv)
               c == talk_conv[a].calls
    <3>1. (talk_pc' = "tools") <=> (d + p < c)  BY <1>2, <2>1 DEF d
    <3>2. l \in Nat /\ a \in 1..l /\ c \in Nat /\ d = l - a /\ d + p <= c  BY <2>1, <2>2, <2>6
    <3> HIDE DEF l, c
    <3>3. (talk_pc' = "tools") <=> (l - a + p # c)  BY <3>1, <3>2
    <3> QED BY <3>1, <3>3 DEF l, c
  <2>9. talk_pc' = "tools" => a \in 1..Len(talk_conv') /\ Waits(talk_conv', a)
    <3> SUFFICES ASSUME talk_pc' = "tools" PROVE a \in 1..Len(talk_conv') /\ Waits(talk_conv', a)
      OBVIOUS
    <3>1. a \in 1..Len(talk_conv') /\ Len(talk_conv') - a = d + p  BY <2>1, <2>6, <2>7
    <3>2. talk_conv'[a].calls = talk_conv[a].calls  BY <2>1, <2>7
    <3>3. d + p < talk_conv[a].calls  BY <2>8
    <3> QED BY <2>7, <3>1, <3>2, <3>3 DEF Waits
  <2>10. Grown(talk_conv, talk_conv')  BY <2>1, <2>7 DEF Grown
  <2> QED BY <2>7, <2>8, <2>9, <2>10
<1>3. Underway'
  BY <1>1, <1>2 DEF Underway
<1>4. talk_crashes = 0 => IF talk_pc' \in {"tools", "batch"} THEN Unsettled(talk_conv')
                          ELSE Settled(talk_conv')
  <2> SUFFICES ASSUME talk_crashes = 0
               PROVE  IF talk_pc' \in {"tools", "batch"} THEN Unsettled(talk_conv')
                      ELSE Settled(talk_conv')
    OBVIOUS
  <2>1. talk_tears = 0 /\ Unsettled(talk_conv)  BY DEF TalkInv, Types, Complete
  <2> QED BY <1>2, <2>1
<1>5. talk_tears = 0 => talk_conv' \in Seq(Msgs)
                        /\ (talk_reset' \/ (~talk_reset /\ Grown(talk_conv, talk_conv')))
  BY <1>2 DEF TalkInv, Types
<1> QED BY <1>1, <1>3, <1>4, <1>5, RunStep

LEMMA CancelledStep == ASSUME TalkInv, TalkCancelled PROVE TalkInv'
<1> DEFINE p  == IF talk_tears = 0 THEN Calls - Done ELSE 1
           cs == [i \in 1..(Calls - Done) |-> Done + i]
<1>1. /\ talk_conv' = talk_conv \o Results(cs) /\ talk_pc' = "save" /\ talk_pc = "tools"
      /\ UNCHANGED <<talk_reset, talk_next, talk_disk, talk_tries, talk_words>>
  BY DEF TalkCancelled, talk_run
<1>2. talk_tears = 0 => Done \in Nat /\ Calls \in Nat /\ Done < Calls
  BY <1>1, Waiting DEF Waits
<1>3. p \in Nat \ {0}  BY <1>2
<1>4. talk_tears = 0 => /\ cs = [i \in 1..p |-> Done + i] /\ Done + p <= Calls
                        /\ (talk_pc' = "tools") <=> (Done + p < Calls)
  <2> DEFINE d == Done
             c == Calls
  <2>1. talk_tears = 0 => d \in Nat /\ c \in Nat /\ p = c - d  BY <1>2
  <2>2. talk_tears = 0 => p = c - d /\ cs = [i \in 1..p |-> d + i]  OBVIOUS
  <2> HIDE DEF d, c, p, cs
  <2>3. talk_tears = 0 => d + p <= c /\ ~(d + p < c)  BY <2>1
  <2> QED BY <1>1, <2>2, <2>3 DEF d, c
<1> HIDE DEF p, cs
<1> QED BY <1>1, <1>3, <1>4, AnswerStep

LEMMA BatchEndsStep == ASSUME TalkInv, TalkBatchEnds PROVE TalkInv'
<1> DEFINE p  == IF talk_tears = 0 THEN Len(talk_batch) ELSE 1
           cs == [i \in DOMAIN talk_batch |-> Done + i]
<1>1. /\ talk_conv' = talk_conv \o Results(cs) /\ talk_pc = "batch"
      /\ talk_pc' = IF Done + Len(talk_batch) = Calls THEN "top" ELSE "tools"
      /\ UNCHANGED <<talk_reset, talk_next, talk_disk, talk_tries, talk_words>>
  BY DEF TalkBatchEnds
<1>2. talk_tears = 0 => /\ Done \in Nat /\ Calls \in Nat /\ Done + Len(talk_batch) <= Calls
                        /\ talk_batch \in Seq({"runs", "refused", "done", "died"}) /\ talk_batch # <<>>
  BY <1>1, Waiting
<1>3. talk_tears = 0 => /\ Len(talk_batch) \in Nat \ {0} /\ DOMAIN talk_batch = 1..Len(talk_batch)
  <2>1. \A b \in Seq({"runs", "refused", "done", "died"}) :
          b # <<>> => Len(b) \in Nat \ {0} /\ DOMAIN b = 1..Len(b)
    BY EmptySeq, LenProperties
  <2> QED BY <1>2, <2>1
<1>4. p \in Nat \ {0}  BY <1>3
<1>5. talk_tears = 0 => /\ cs = [i \in 1..p |-> Done + i] /\ Done + p <= Calls
                        /\ (talk_pc' = "tools") <=> (Done + p < Calls)
  <2> DEFINE d == Done
             c == Calls
  <2>1. talk_tears = 0 => d \in Nat /\ c \in Nat /\ d + p <= c  BY <1>2
  <2>2. talk_tears = 0 => p = Len(talk_batch) /\ cs = [i \in 1..p |-> d + i]  BY <1>3
  <2>3. talk_tears = 0 => talk_pc' = IF d + p = c THEN "top" ELSE "tools"  BY <1>1
  <2>4. p \in Nat  BY <1>4
  <2> HIDE DEF d, c, p, cs
  <2>5. talk_tears = 0 => (d + p # c <=> d + p < c)  BY <2>1, <2>4
  <2> QED BY <2>1, <2>2, <2>3, <2>5 DEF d, c
<1>6. talk_pc' \in {"top", "tools", "save"}  BY <1>1
<1> HIDE DEF p, cs
<1> QED BY <1>1, <1>4, <1>5, <1>6, AnswerStep

\* The steps in which calls run, or the user cancels.
LEMMA CallsStep ==
    ASSUME TalkInv, UNCHANGED <<talk_disk, talk_conv, talk_reset, talk_next, talk_tries, talk_words>>,
           talk_pc # "idle", talk_pc' = talk_pc \/ (talk_pc = "tools" /\ talk_pc' = "batch"),
           Underway'
    PROVE  TalkInv'
<1>1. /\ talk_next' \in Nat /\ talk_reset' \in BOOLEAN /\ talk_tries' \in Nat /\ OneTry'
      /\ talk_pc' \in {"top", "stream", "tools", "batch", "save"} /\ UNCHANGED talk_disk
  BY DEF TalkInv, Types, OneTry
<1>2. talk_tears = 0 => talk_conv' \in Seq(Msgs)
                        /\ (talk_reset' \/ (~talk_reset /\ Grown(talk_conv, talk_conv')))
  BY GrownSelf DEF TalkInv, Types
<1>3. talk_crashes = 0 => IF talk_pc' \in {"tools", "batch"} THEN Unsettled(talk_conv')
                          ELSE Settled(talk_conv')
  BY DEF TalkInv, Types, Complete
<1> QED BY <1>1, <1>2, <1>3, RunStep

LEMMA BatchStep == ASSUME TalkInv, TalkBatch PROVE TalkInv'
<1>1. /\ UNCHANGED <<talk_disk, talk_conv, talk_reset, talk_next, talk_tries, talk_words>>
      /\ talk_pc = "tools" /\ talk_pc' = "batch"
  BY DEF TalkBatch
<1>2. PICK n \in 1..TalkParallel : Done + n <= Calls /\ talk_batch' \in [1..n -> {"runs", "refused"}]
  BY DEF TalkBatch
<1>3. /\ talk_batch' \in Seq({"runs", "refused", "done", "died"})
      /\ Len(talk_batch') = n /\ talk_batch' # <<>>
  <2>1. n \in Nat \ {0}  BY TalkAssumption
  <2>2. talk_batch' \in [1..n -> {"runs", "refused", "done", "died"}]  BY <1>2
  <2>3. \A q \in [1..n -> {"runs", "refused", "done", "died"}] :
          q \in Seq({"runs", "refused", "done", "died"})
    BY <2>1, SeqDef
  <2>4. talk_batch' \in Seq({"runs", "refused", "done", "died"}) /\ DOMAIN talk_batch' = 1..n
    BY <2>2, <2>3
  <2>5. Len(talk_batch') = n  BY <2>1, <2>4, LenProperties
  <2> QED BY <2>1, <2>4, <2>5, EmptySeq
<1>4. Underway'
  <2> SUFFICES ASSUME talk_tears = 0
               PROVE  \E a \in 1..Len(talk_conv) :
                        Waits(talk_conv, a) /\ Len(talk_conv) - a + n <= talk_conv[a].calls
    BY <1>1, <1>3 DEF Underway, talk_disk
  <2> QED BY <1>1, <1>2, Waiting
<1> QED BY <1>1, <1>4, CallsStep

LEMMA ToolEndsStep == ASSUME TalkInv, NEW i, TalkToolEnds(i) PROVE TalkInv'
<1>1. /\ UNCHANGED <<talk_disk, talk_conv, talk_reset, talk_next, talk_tries, talk_words>>
      /\ talk_pc = "batch" /\ talk_pc' = "batch" /\ i \in DOMAIN talk_batch
  BY DEF TalkToolEnds
<1>2. PICK how \in {"done", "died"} : talk_batch' = [talk_batch EXCEPT ![i] = how]
  BY DEF TalkToolEnds
<1>3. ASSUME talk_batch \in Seq({"runs", "refused", "done", "died"}), talk_batch # <<>>
      PROVE  /\ talk_batch' \in Seq({"runs", "refused", "done", "died"})
             /\ talk_batch' # <<>> /\ Len(talk_batch') = Len(talk_batch)
  <2>1. i \in 1..Len(talk_batch) /\ how \in {"runs", "refused", "done", "died"}
    BY <1>1, <1>3, LenProperties
  <2> QED BY <1>2, <1>3, <2>1, ExceptSeq, EmptySeq
<1>4. Underway'
  BY <1>1, <1>3 DEF TalkInv, Underway, talk_disk
<1> QED BY <1>1, <1>4, CallsStep

LEMMA CancelStep == ASSUME TalkInv, TalkCancel PROVE TalkInv'
<1>1. /\ UNCHANGED <<talk_disk, talk_conv, talk_reset, talk_next, talk_tries, talk_words, talk_batch>>
      /\ talk_pc # "idle" /\ talk_pc' = talk_pc
  BY DEF TalkCancel, talk_run
<1>2. Underway'  BY <1>1 DEF TalkInv, Underway, talk_disk
<1> QED BY <1>1, <1>2, CallsStep

LEMMA TurnStep == ASSUME TalkInv, TalkTurn PROVE TalkInv'
<1>1. Begins /\ talk_pc' = "top" /\ talk_next' = talk_next + 2 /\ talk_pc = "idle"
  BY DEF TalkTurn, Begins
<1>2. PICK full \in {FALSE, talk_sess # <<>>} :
        /\ \E said \in {<<>>, <<User(talk_next + 1)>>} :
             talk_conv' = (IF full THEN <<Summary(talk_next)>> ELSE talk_sess) \o said
        /\ talk_reset' = full
  BY DEF TalkTurn
<1>3. PICK said \in {<<>>, <<User(talk_next + 1)>>} :
        talk_conv' = (IF full THEN <<Summary(talk_next)>> ELSE talk_sess) \o said
  BY <1>2
<1> DEFINE user == User(talk_next + 1)
           summary == Summary(talk_next)
           first == IF full THEN <<summary>> ELSE talk_sess
<1>4. talk_next \in Nat /\ talk_next + 1 \in Nat /\ talk_next' \in Nat /\ talk_reset' \in BOOLEAN
  <2>1. full \in BOOLEAN
    <3>1. full = FALSE \/ full = (talk_sess # <<>>)  BY <1>2
    <3>2. (talk_sess # <<>>) \in BOOLEAN  OBVIOUS
    <3> QED BY <3>1, <3>2
  <2>2. talk_next \in Nat  BY DEF TalkInv, Types
  <2> QED BY <1>1, <1>2, <2>1, <2>2
<1>5. user \in Msgs /\ summary \in Msgs /\ user.role = "user" /\ summary.role = "summary"
  BY <1>4, MessageFacts
<1>6. talk_conv' = first \o said /\ (said = <<>> \/ said = <<user>>)  BY <1>3
<1> HIDE DEF user, summary
<1>7. <<summary>> \in Seq(Msgs) /\ Settled(<<summary>>)
  <2>1. <<summary>> = Append(<<>>, summary) /\ <<>> \in Seq(Msgs)  OBVIOUS
  <2>2. Settled(Append(<<>>, summary))
    BY <1>5, <2>1, NothingSettled, SettledGrows
  <2>3. <<summary>> \in Seq(Msgs)  BY <1>5
  <2> QED BY <2>1, <2>2, <2>3
<1>8. talk_tears = 0 => first \in Seq(Msgs) /\ (full \/ Grown(talk_sess, first))
  BY <1>7, GrownSelf DEF TalkInv, Types
<1>9. talk_crashes = 0 => talk_tears = 0 /\ Settled(first)
  BY <1>7 DEF TalkInv, Types, Complete
<1> HIDE DEF first
<1>10. ASSUME talk_tears = 0
       PROVE  talk_conv' = first \/ talk_conv' = Append(first, user)
  <2>1. \A t \in Seq(Msgs) : t \o <<>> = t /\ t \o <<user>> = Append(t, user)
    BY <1>5, ConcatEmptySeq, AppendIsConcat
  <2> QED BY <1>6, <1>8, <1>10, <2>1
<1>11. talk_tears = 0 => talk_conv' \in Seq(Msgs) /\ (talk_reset' \/ Begun(talk_conv', talk_sess))
  <2> SUFFICES ASSUME talk_tears = 0
               PROVE  talk_conv' \in Seq(Msgs) /\ (full \/ Grown(talk_sess, talk_conv'))
    BY <1>2 DEF Grown, Begun
  <2>1. first \in Seq(Msgs) /\ (full \/ Grown(talk_sess, first)) /\ talk_sess \in Seq(Msgs)
    BY <1>8 DEF TalkInv, Types
  <2>2. /\ Append(first, user) \in Seq(Msgs) /\ Len(Append(first, user)) = Len(first) + 1
        /\ \A i \in 1..Len(first) : Append(first, user)[i] = first[i]
    BY <1>5, <2>1, Appended
  <2>3. Len(first) \in Nat /\ Len(talk_sess) \in Nat  BY <2>1, LenProperties
  <2>4. talk_conv' = first \/ talk_conv' = Append(first, user)  BY <1>10
  <2>5. CASE talk_conv' = first  BY <2>1, <2>5
  <2>6. CASE talk_conv' = Append(first, user)
    <3>1. Grown(first, talk_conv')  BY <2>2, <2>3, <2>6 DEF Grown
    <3>2. Grown(talk_sess, first) => Grown(talk_sess, talk_conv')  BY <2>3, <3>1 DEF Grown
    <3>3. talk_conv' \in Seq(Msgs)  BY <2>2, <2>6
    <3> QED BY <2>1, <3>2, <3>3
  <2> QED BY <2>4, <2>5, <2>6
<1>12. talk_crashes = 0 => Settled(talk_conv')
  BY <1>5, <1>8, <1>9, <1>10, SettledGrows
<1> QED BY <1>1, <1>4, <1>11, <1>12, BeginStep

\* Compact and Clear begin anew.
LEMMA AnewStep == ASSUME TalkInv, TalkCompact \/ TalkClear PROVE TalkInv'
<1>1. talk_next \in Nat  BY DEF TalkInv, Types
<1> DEFINE summary == Summary(talk_next)
<1>2. summary \in Msgs /\ summary.role = "summary"  BY <1>1, MessageFacts
<1>3. /\ Begins /\ talk_pc' = "save" /\ talk_next' \in Nat /\ talk_reset' = TRUE
      /\ talk_conv' = <<>> \/ talk_conv' = <<summary>>
  BY <1>1 DEF TalkCompact, TalkClear
<1> HIDE DEF summary
<1>4. <<summary>> = Append(<<>>, summary) /\ <<>> \in Seq(Msgs) /\ <<summary>> \in Seq(Msgs)
  BY <1>2, EmptySeq
<1>5. talk_conv' \in Seq(Msgs) /\ Settled(talk_conv')
  BY <1>2, <1>3, <1>4, NothingSettled, SettledGrows
<1> QED BY <1>3, <1>5, BeginStep

LEMMA ToSaveIs ==
    ASSUME talk_conv \in Seq(Msgs), talk_sess \in Seq(Msgs), Len(talk_sess) <= Len(talk_conv) \/ talk_reset
    PROVE  ToSave(talk_conv) \in Seq(Msgs \cup {Reset})
<1>1. talk_conv \in Seq(Msgs \cup {Reset})  BY SeqMonotonic
<1>2. CASE talk_reset
  <2>1. \A u, v \in Seq(Msgs \cup {Reset}) : u \o v \in Seq(Msgs \cup {Reset})  BY Joined
  <2>2. <<Reset>> \in Seq(Msgs \cup {Reset})  OBVIOUS
  <2> QED BY <1>1, <1>2, <2>1, <2>2 DEF ToSave
<1>3. CASE ~talk_reset
  <2> DEFINE m == Len(talk_sess) + 1
             n == Len(talk_conv)
  <2>1. m \in 1..n + 1 /\ n \in Nat  BY <1>3, LenProperties
  <2>2. \A i \in m..n : talk_conv[i] \in Msgs \cup {Reset}
    <3>1. \A i \in 1..n : talk_conv[i] \in Msgs \cup {Reset}  BY <1>1, ElementOfSeq
    <3> HIDE DEF m, n
    <3> QED BY <2>1, <3>1
  <2>3. SubSeq(talk_conv, m, n) \in Seq(Msgs \cup {Reset})
    <3>1. m \in Int /\ n \in Int  BY <2>1
    <3> HIDE DEF m, n
    <3> QED BY <2>2, <3>1, SubSeqProperties
  <2> QED BY <1>3, <2>3 DEF ToSave
<1> QED BY <1>2, <1>3

LEMMA SaveStep == ASSUME TalkInv, TalkSave PROVE TalkInv'
<1>1. /\ talk_pc = "save" /\ Rests(talk_conv) /\ talk_file' = PutAll(talk_file, ToSave(talk_conv))
      /\ UNCHANGED <<talk_crashes, talk_tears>>
  BY DEF TalkSave
<1>2. /\ talk_tears' \in Nat /\ talk_crashes' \in Nat
      /\ talk_crashes' = 0 => talk_tears' = 0 /\ Settled(talk_conv)
  BY <1>1 DEF TalkInv, Types, Complete
<1>3. ASSUME talk_tears = 0 PROVE talk_conv \in Seq(Msgs) /\ Filed(talk_file', talk_conv)
  <2>1. /\ talk_conv \in Seq(Msgs) /\ talk_sess \in Seq(Msgs) /\ Filed(talk_file, talk_sess)
        /\ talk_reset \/ Begun(talk_conv, talk_sess)
    BY <1>1, <1>3 DEF TalkInv, Types, OnFile
  <2> DEFINE todo == ToSave(talk_conv)
             k == Len(todo)
  <2>2. todo \in Seq(Msgs \cup {Reset})
    BY <2>1, ToSaveIs DEF Begun
  <2>3. k \in 0..Len(todo) /\ SubSeq(todo, 1, k) = todo
    BY <2>2, LenProperties, SubSeqFull
  <2>4. \E t \in Seq(Msgs) : Filed(PutAll(talk_file, SubSeq(todo, 1, k)), t) /\ (k = Len(todo) => t = talk_conv)
    BY <2>1, <2>3, Saves
  <2> QED BY <1>1, <2>1, <2>3, <2>4
<1> QED BY <1>1, <1>2, <1>3, RestStep

LEMMA CrashStep == ASSUME TalkInv, TalkCrash PROVE TalkInv'
<1> DEFINE todo == IF talk_pc = "save" THEN ToSave(talk_conv) ELSE <<>>
<1>1. /\ talk_pc # "idle" /\ talk_crashes' = talk_crashes + 1 /\ Rests(Loaded(talk_file'))
      /\ talk_tears' \in {talk_tears, talk_tears + 1}
  BY DEF TalkCrash
<1>2. talk_tears \in Nat /\ talk_crashes \in Nat /\ talk_tears' \in Nat /\ talk_crashes' \in Nat \ {0}
  BY <1>1 DEF TalkInv, Types
<1>3. ASSUME talk_tears' = 0 PROVE Loaded(talk_file') \in Seq(Msgs) /\ Filed(talk_file', Loaded(talk_file'))
  <2>1. talk_tears = 0  BY <1>1, <1>2, <1>3
  <2>2. PICK k \in 0..Len(todo) : talk_file' = PutAll(talk_file, SubSeq(todo, 1, k))
    BY <1>2, <1>3, <2>1 DEF TalkCrash
  <2>3. /\ talk_conv \in Seq(Msgs) /\ talk_sess \in Seq(Msgs) /\ Filed(talk_file, talk_sess)
        /\ talk_reset \/ Begun(talk_conv, talk_sess)
    BY <1>1, <2>1 DEF TalkInv, Types, OnFile
  <2>4. \E t \in Seq(Msgs) : Filed(talk_file', t)
    <3>1. CASE talk_pc = "save"
      <4>1. todo = ToSave(talk_conv)  BY <3>1
      <4> QED BY <2>2, <2>3, <4>1, Saves
    <3>2. CASE talk_pc # "save"
      <4>1. todo = <<>>  BY <3>2
      <4>2. k = 0  BY <2>2, <4>1, EmptyLen
      <4>3. SubSeq(todo, 1, k) = <<>>  BY <4>2, SubSeqEmpty
      <4>4. talk_file' = talk_file  BY <2>2, <4>3 DEF PutAll
      <4> QED BY <2>3, <4>4
    <3> QED BY <3>1, <3>2
  <2> QED BY <2>4, Reads
<1> QED BY <1>1, <1>2, <1>3, RestStep

\* While nothing is torn the session is what the file reads as.
LEMMA ResumeStep == ASSUME TalkInv, TalkResume PROVE TalkInv'
<1>1. /\ talk_pc = "idle" /\ talk_sess # Loaded(talk_file) /\ Rests(Loaded(talk_file))
      /\ UNCHANGED <<talk_file, talk_crashes, talk_tears>>
  BY DEF TalkResume
<1>2. talk_tears # 0
  <2>1. talk_tears = 0 => talk_sess \in Seq(Msgs) /\ Filed(talk_file, talk_sess)
    BY DEF TalkInv, Types, OnFile
  <2> QED BY <1>1, <2>1, Reads
<1>3. talk_tears' \in Nat /\ talk_crashes' \in Nat /\ talk_tears' # 0 /\ talk_crashes' # 0
  BY <1>1, <1>2 DEF TalkInv, Types
<1> QED BY <1>1, <1>3, RestStep

-----------------------------------------------------------------------------
(* The theorems. *)

LEMMA TalkInvInit == TalkInit => TalkInv
<1> SUFFICES ASSUME TalkInit PROVE TalkInv
  OBVIOUS
<1>1. <<>> \in Seq(Msgs) /\ <<>> \in Seq(Lines) /\ Len(<<>>) = 0  BY EmptySeq
<1>2. Filed(<<>>, <<>>)  BY <1>1 DEF Filed
<1>3. Types  BY <1>1 DEF TalkInit, Types
<1>4. OneTry /\ Underway  BY DEF TalkInit, OneTry, Underway
<1>5. OnFile  BY <1>2 DEF TalkInit, OnFile
<1>6. Complete  BY NothingSettled DEF TalkInit, Complete
<1> QED BY <1>3, <1>4, <1>5, <1>6 DEF TalkInv

LEMMA TalkInvStep == TalkInv /\ [TalkNext]_talk_vars => TalkInv'
<1> SUFFICES ASSUME TalkInv, [TalkNext]_talk_vars PROVE TalkInv'
  OBVIOUS
<1>1. CASE UNCHANGED talk_vars
  <2>1. /\ UNCHANGED <<talk_pc, talk_conv, talk_reset, talk_next, talk_tries, talk_words, talk_batch>>
        /\ UNCHANGED <<talk_sess, talk_file, talk_crashes, talk_tears>>
    BY <1>1 DEF talk_vars, talk_run, talk_disk
  <2>2. Types' /\ OneTry'  BY <2>1 DEF TalkInv, Types, OneTry
  <2>3. OnFile'  BY <2>1 DEF TalkInv, OnFile
  <2>4. Underway'  BY <2>1 DEF TalkInv, Underway
  <2>5. Complete'  BY <2>1 DEF TalkInv, Complete
  <2> QED BY <2>2, <2>3, <2>4, <2>5 DEF TalkInv
<1>2. CASE TalkTurn  BY <1>2, TurnStep
<1>3. CASE TalkTop  BY <1>3, TopStep
<1>4. CASE TalkCompactionCancelled \/ TalkWords \/ TalkRetry \/ TalkCutOff  BY <1>4, StreamStep
<1>5. CASE TalkFails  BY <1>5, FailsStep
<1>6. ASSUME NEW k \in 0..TalkCalls, TalkReply(k) PROVE TalkInv'
  <2>1. k \in Nat  BY TalkAssumption
  <2> QED BY <1>6, <2>1, ReplyStep DEF TalkReply
<1>7. CASE TalkCancelled  BY <1>7, CancelledStep
<1>8. CASE TalkBatch  BY <1>8, BatchStep
<1>9. ASSUME NEW i \in 1..TalkParallel, TalkToolEnds(i) PROVE TalkInv'
  BY <1>9, ToolEndsStep
<1>10. CASE TalkBatchEnds  BY <1>10, BatchEndsStep
<1>11. CASE TalkCancel  BY <1>11, CancelStep
<1>12. CASE TalkSave  BY <1>12, SaveStep
<1>13. CASE TalkCrash  BY <1>13, CrashStep
<1>14. CASE TalkCompact \/ TalkClear  BY <1>14, AnewStep
<1>15. CASE TalkResume  BY <1>15, ResumeStep
<1> QED
  BY <1>1, <1>2, <1>3, <1>4, <1>5, <1>6, <1>7, <1>8, <1>9, <1>10, <1>11, <1>12, <1>13, <1>14, <1>15
  DEF TalkNext

\* The invariant holds at every step.
THEOREM TalkInvHolds == TalkSpec => []TalkInv
BY TalkInvInit, TalkInvStep, PTL DEF TalkSpec

\* Whatever was refused, died, was cut off, tried again or cancelled, what a
\* request carries and what is kept has every call answered right behind it, in
\* order, and one answer to each request (run_turn, run_batch,
\* stream_with_retry).
THEOREM AnswersCompleteHolds == TalkSpec => []AnswersComplete
<1>1. TalkInv => AnswersComplete
  <2> SUFFICES ASSUME TalkInv PROVE AnsweredInOrder /\ OneAnswer
    BY DEF AnswersComplete
  <2>1. OneAnswer
    <3>1. talk_words \subseteq {talk_tries}  BY DEF TalkInv, OneTry
    <3>2. IsFiniteSet({talk_tries}) /\ Cardinality({talk_tries}) = 1  BY FS_Singleton
    <3>3. Cardinality(talk_words) <= Cardinality({talk_tries})  BY <3>1, <3>2, FS_Subset
    <3> QED BY <3>2, <3>3 DEF OneAnswer
  <2>2. AnsweredInOrder
    <3> SUFFICES ASSUME talk_pc \in {"stream", "save"}, talk_crashes = 0, NEW i \in DOMAIN talk_conv
                 PROVE  /\ talk_conv[i].role = "assistant" => \A c \in 1..talk_conv[i].calls :
                             i + c \in DOMAIN talk_conv /\ talk_conv[i + c] = Result(talk_conv[i].n, c)
                        /\ talk_conv[i].role = "tool" => \E j \in 1..(i - 1) :
                             talk_conv[j] = Reply(talk_conv[i].n, talk_conv[j].calls)
                             /\ i - j = talk_conv[i].call
      BY DEF AnsweredInOrder
    <3>1. talk_conv \in Seq(Msgs) /\ Settled(talk_conv)  BY DEF TalkInv, Types, Complete
    <3>2. i \in 1..Len(talk_conv) /\ DOMAIN talk_conv = 1..Len(talk_conv)  BY <3>1, LenProperties
    <3>3. Called(talk_conv, i) /\ Behind(talk_conv, i)  BY <3>1, <3>2 DEF Settled
    <3>4. talk_conv[i].calls \in Nat
      <4>1. talk_conv[i] \in Msgs  BY <3>1, <3>2, ElementOfSeq
      <4>2. \A m \in Msgs : m.calls \in Nat  BY DEF Msgs
      <4> QED BY <4>1, <4>2
    <3>5. ASSUME talk_conv[i].role = "assistant", NEW c \in 1..talk_conv[i].calls
          PROVE  i + c \in DOMAIN talk_conv /\ talk_conv[i + c] = Result(talk_conv[i].n, c)
      <4>1. i + c <= Len(talk_conv) /\ talk_conv[i + c] = Result(talk_conv[i].n, c)
        BY <3>3, <3>5 DEF Called
      <4>2. i + c \in 1..Len(talk_conv)  BY <3>1, <3>2, <3>4, <4>1, LenProperties
      <4> QED BY <3>2, <4>1, <4>2
    <3> QED BY <3>3, <3>5 DEF Behind
  <2> QED BY <2>1, <2>2
<1> QED BY <1>1, TalkInvHolds, PTL

\* As long as no crash left a line without its end, the session file reads, at
\* rest, as the conversation that is held: through every compaction, clear,
\* resume and crash between two lines (Session::push, write_marker, open).
THEOREM FileIsConversationHolds == TalkSpec => []FileIsConversation
<1>1. TalkInv => FileIsConversation
  <2> SUFFICES ASSUME TalkInv, talk_tears = 0 PROVE Loaded(talk_file) = talk_sess
    BY DEF FileIsConversation
  <2>1. talk_sess \in Seq(Msgs) /\ Filed(talk_file, talk_sess)  BY DEF TalkInv, Types, OnFile
  <2> QED BY <2>1, Reads
<1> QED BY <1>1, TalkInvHolds, PTL
=============================================================================
