----------------------------- MODULE PromptProofs -----------------------------
(***************************************************************************)
(* A question that waits can be answered, and one that is over is on no    *)
(* screen, for any number of questions, turns, stops and answers.          *)
(***************************************************************************)
EXTENDS Prompt, TLAPS

-----------------------------------------------------------------------------
(* The invariant.  An event goes out, passes the forwarder and then the UI; *)
(* what the screens will show is what they show now and what is under way.  *)

Asking == at \in {"waiting", "answered"}
\* The question the engine waits on, or has just heard the answer of.
Current(i) == Asking /\ i = next
\* The last event of q asks question i.
LastAsks(q, i) == q # <<>> /\ q[Len(q)] = Asked(i)
\* Behind place j of q comes the news that question i is over.
OverIn(q, i, j) == \E k \in 1..Len(q) : k > j /\ q[k] = Answered(i)
\* Behind place j of q comes the news that some question is over.
SomeOver(q, j) == \E k \in 1..Len(q) : k > j /\ q[k].is = "answered"

Types ==
    /\ at \in {"idle", "turn", "ready", "waiting", "answered"}
    /\ next \in 0..MaxPrompts /\ (at \in {"ready", "waiting", "answered"} => next > 0)
    /\ kind \in [Prompts -> Kinds \cup {"none"}]
    /\ chan \in [Channels -> Seq(Prompts)]
    /\ prompt_out \in Seq(Events) /\ prompt_ui \in Seq(Events)
    /\ box \in [Channels -> 0..MaxPrompts]
    /\ prompt_pending \in 0..MaxPrompts /\ accepted \in 0..MaxPrompts

\* What the publisher will hold up once it has observed all that is said.
PendingTold ==
    /\ Asking => LastAsks(prompt_out, next) \/ (prompt_out = <<>> /\ prompt_pending = next)
    /\ ~Asking =>
          /\ prompt_pending # 0 => SomeOver(prompt_out, 0)
          /\ \A j \in 1..Len(prompt_out) :
                prompt_out[j].is = "asked" => SomeOver(prompt_out, j)

\* A question on the screen or on its way there is the current one, or the news
\* that it is over comes behind it.
OverComesBehind ==
    /\ \A c \in Channels : box[c] # 0 =>
          Current(box[c]) \/ OverIn(prompt_ui, box[c], 0) \/ OverIn(prompt_out, box[c], 0)
    /\ \A i \in Prompts : \A j \in 1..Len(prompt_ui) : prompt_ui[j] = Asked(i) =>
          Current(i) \/ OverIn(prompt_ui, i, j) \/ OverIn(prompt_out, i, 0)
    /\ \A i \in Prompts : \A j \in 1..Len(prompt_out) : prompt_out[j] = Asked(i) =>
          Current(i) \/ OverIn(prompt_out, i, j)

\* The question waited on is under way, on the screen, or answered.
Reaches ==
    at = "waiting" =>
        \/ LastAsks(prompt_out, next)
        \/ prompt_out = <<>> /\ LastAsks(prompt_ui, next)
        \/ prompt_out = <<>> /\ prompt_ui = <<>> /\ (box[Now] = next \/ chan[Now] # <<>>)

PromptInv == Types /\ PendingTold /\ OverComesBehind /\ Reaches

-----------------------------------------------------------------------------
(* Queues. *)

\* A queue is empty when its length is 0, and only then.
LEMMA EmptyQueue ==
  ASSUME NEW q \in Seq(Events)
  PROVE  Len(q) \in Nat /\ (q = <<>> <=> Len(q) = 0)
  OBVIOUS

\* An event put at the end of a queue of events.
LEMMA Put ==
  ASSUME NEW q \in Seq(Events), NEW e \in Events
  PROVE  /\ Append(q, e) \in Seq(Events) /\ Append(q, e) # <<>>
         /\ Len(q) \in Nat /\ Len(Append(q, e)) = Len(q) + 1
         /\ \A k \in 1..Len(q) : Append(q, e)[k] = q[k]
         /\ Append(q, e)[Len(q) + 1] = e
  <1>1. Len(q) \in Nat /\ Append(q, e) \in Seq(Events) /\ Len(Append(q, e)) = Len(q) + 1
    OBVIOUS
  <1>2. /\ \A k \in 1..Len(q) : Append(q, e)[k] = q[k]
        /\ Append(q, e)[Len(q) + 1] = e
    OBVIOUS
  <1>3. Append(q, e) # <<>>
    BY <1>1
  <1> QED
    BY <1>1, <1>2, <1>3

\* The first event taken off a queue of events.
LEMMA Taken ==
  ASSUME NEW q \in Seq(Events), q # <<>>
  PROVE  /\ Tail(q) \in Seq(Events) /\ Head(q) = q[1] /\ Head(q) \in Events
         /\ Len(q) \in Nat /\ Len(q) >= 1 /\ Len(Tail(q)) = Len(q) - 1
         /\ \A k \in 1..(Len(q) - 1) : Tail(q)[k] = q[k + 1]
         /\ Len(q) = 1 => Tail(q) = <<>>
  <1>1. Len(q) \in Nat /\ Len(q) >= 1
    OBVIOUS
  <1>2. Tail(q) \in Seq(Events) /\ Len(Tail(q)) = Len(q) - 1
    BY <1>1
  <1>3. Head(q) = q[1] /\ Head(q) \in Events
    BY <1>1
  <1>4. \A k \in 1..(Len(q) - 1) : Tail(q)[k] = q[k + 1]
    BY <1>1
  <1>5. \A t \in Seq(Events) : Len(t) = 0 => t = <<>>
    BY EmptyQueue
  <1>6. Len(q) = 1 => Len(Tail(q)) = 0
    BY <1>2
  <1>7. Len(q) = 1 => Tail(q) = <<>>
    BY <1>2, <1>5, <1>6, Zenon
  <1> QED
    BY <1>1, <1>2, <1>3, <1>4, <1>7

\* News once behind a place stays behind it when more comes.
LEMMA OverStays ==
  ASSUME NEW q \in Seq(Events), NEW e \in Events, NEW i, NEW j \in Nat
  PROVE  /\ OverIn(q, i, j) => OverIn(Append(q, e), i, j)
         /\ j <= Len(q) /\ e = Answered(i) => OverIn(Append(q, e), i, j)
         /\ SomeOver(q, j) => SomeOver(Append(q, e), j)
         /\ j <= Len(q) /\ e.is = "answered" => SomeOver(Append(q, e), j)
  <1> DEFINE p == Append(q, e)
  <1>1. /\ Len(q) \in Nat /\ Len(p) = Len(q) + 1
        /\ \A k \in 1..Len(q) : p[k] = q[k]
        /\ p[Len(q) + 1] = e
    BY Put
  <1> HIDE DEF p
  <1>2. \A k \in 1..Len(q) : k \in 1..Len(p)
    BY <1>1
  <1>3. Len(q) + 1 \in 1..Len(p) /\ (j <= Len(q) => Len(q) + 1 > j)
    BY <1>1
  <1> QED
    BY <1>1, <1>2, <1>3 DEF OverIn, SomeOver, p

\* News behind a place stays behind it when the queue moves up, and news
\* anywhere in a queue is what is taken off or stays in.
LEMMA OverMoves ==
  ASSUME NEW q \in Seq(Events), q # <<>>, NEW i
  PROVE  /\ \A j \in Nat : OverIn(q, i, j + 1) => OverIn(Tail(q), i, j)
         /\ \A j \in Nat : SomeOver(q, j + 1) => SomeOver(Tail(q), j)
         /\ OverIn(q, i, 0) => Head(q) = Answered(i) \/ OverIn(Tail(q), i, 0)
         /\ SomeOver(q, 0) => Head(q).is = "answered" \/ SomeOver(Tail(q), 0)
  <1> DEFINE t == Tail(q)
  <1>1. /\ Head(q) = q[1]
        /\ Len(q) \in Nat /\ Len(t) = Len(q) - 1
        /\ \A k \in 1..(Len(q) - 1) : t[k] = q[k + 1]
    BY Taken
  <1> HIDE DEF t
  <1>2. \A k \in 1..Len(q) : k # 1 => k - 1 \in 1..Len(t) /\ t[k - 1] = q[k]
    BY <1>1
  <1>3. \A j \in Nat : OverIn(q, i, j + 1) => OverIn(t, i, j)
    <2> SUFFICES ASSUME NEW j \in Nat, OverIn(q, i, j + 1) PROVE OverIn(t, i, j)
      OBVIOUS
    <2>1. PICK k \in 1..Len(q) : k > j + 1 /\ q[k] = Answered(i)
      BY DEF OverIn
    <2>2. k - 1 \in 1..Len(t) /\ t[k - 1] = q[k] /\ k - 1 > j
      BY <2>1, <1>1, <1>2
    <2> QED
      BY <2>1, <2>2 DEF OverIn
  <1>4. \A j \in Nat : SomeOver(q, j + 1) => SomeOver(t, j)
    <2> SUFFICES ASSUME NEW j \in Nat, SomeOver(q, j + 1) PROVE SomeOver(t, j)
      OBVIOUS
    <2>1. PICK k \in 1..Len(q) : k > j + 1 /\ q[k].is = "answered"
      BY DEF SomeOver
    <2>2. k - 1 \in 1..Len(t) /\ t[k - 1] = q[k] /\ k - 1 > j
      BY <2>1, <1>1, <1>2
    <2> QED
      BY <2>1, <2>2 DEF SomeOver
  <1>5. OverIn(q, i, 0) => Head(q) = Answered(i) \/ OverIn(t, i, 0)
    <2> SUFFICES ASSUME OverIn(q, i, 0), Head(q) # Answered(i) PROVE OverIn(t, i, 0)
      OBVIOUS
    <2>1. PICK k \in 1..Len(q) : q[k] = Answered(i)
      BY DEF OverIn
    <2>2. k # 1
      BY <2>1, <1>1
    <2>3. k - 1 \in 1..Len(t) /\ t[k - 1] = q[k] /\ k - 1 > 0
      BY <2>2, <1>1, <1>2
    <2> QED
      BY <2>1, <2>3 DEF OverIn
  <1>6. SomeOver(q, 0) => Head(q).is = "answered" \/ SomeOver(t, 0)
    <2> SUFFICES ASSUME SomeOver(q, 0), Head(q).is # "answered" PROVE SomeOver(t, 0)
      OBVIOUS
    <2>1. PICK k \in 1..Len(q) : q[k].is = "answered"
      BY DEF SomeOver
    <2>2. k # 1
      BY <2>1, <1>1
    <2>3. k - 1 \in 1..Len(t) /\ t[k - 1] = q[k] /\ k - 1 > 0
      BY <2>2, <1>1, <1>2
    <2> QED
      BY <2>1, <2>3 DEF SomeOver
  <1> QED
    BY <1>3, <1>4, <1>5, <1>6 DEF t

\* What is last in a queue stays last when the queue moves up, or was its head.
LEMMA LastMoves ==
  ASSUME NEW q \in Seq(Events), q # <<>>, NEW i
  PROVE  /\ LastAsks(q, i) => LastAsks(Tail(q), i) \/ (Tail(q) = <<>> /\ Head(q) = Asked(i))
  <1> DEFINE t == Tail(q)
  <1>1. /\ Head(q) = q[1] /\ t \in Seq(Events)
        /\ Len(q) \in Nat /\ Len(q) >= 1 /\ Len(t) = Len(q) - 1
        /\ \A k \in 1..(Len(q) - 1) : t[k] = q[k + 1]
        /\ Len(q) = 1 => t = <<>>
    BY Taken
  <1> HIDE DEF t
  <1>2. ASSUME LastAsks(q, i), Len(q) # 1 PROVE LastAsks(t, i)
    <2>1. Len(t) \in 1..(Len(q) - 1) /\ t[Len(t)] = q[Len(q)]
      BY <1>1, <1>2
    <2>2. t # <<>>
      BY <2>1, <1>1, EmptyQueue
    <2> QED
      BY <2>1, <2>2, <1>2 DEF LastAsks
  <1> QED
    BY <1>1, <1>2 DEF LastAsks, t

\* The three events are events, and no two are the same.
LEMMA EventKinds ==
  /\ \A i \in 0..MaxPrompts : Asked(i) \in Events /\ Answered(i) \in Events
  /\ \A i, j : Asked(i) # Answered(j) /\ Asked(i) # TurnOver /\ Answered(i) # TurnOver
  /\ \A i, j : Asked(i) = Asked(j) => i = j
  /\ \A i, j : Answered(i) = Answered(j) => i = j
  /\ \A i : Asked(i).is = "asked" /\ Answered(i).is = "answered" /\ TurnOver.is = "over"
  <1>1. \A i : /\ Asked(i).is = "asked" /\ Answered(i).is = "answered" /\ TurnOver.is = "over"
               /\ Asked(i).id = i /\ Answered(i).id = i
    BY DEF Asked, Answered, TurnOver
  <1>2. \A i \in 0..MaxPrompts : Asked(i) \in Events /\ Answered(i) \in Events
    BY DEF Asked, Answered, Events
  <1>3. \A i, j : Asked(i) # Answered(j) /\ Asked(i) # TurnOver /\ Answered(i) # TurnOver
    <2>1. "asked" # "answered" /\ "asked" # "over" /\ "answered" # "over"
      OBVIOUS
    <2> QED
      BY <1>1, <2>1
  <1>4. \A i, j : (Asked(i) = Asked(j) => i = j) /\ (Answered(i) = Answered(j) => i = j)
    BY <1>1
  <1> QED
    BY <1>1, <1>2, <1>3, <1>4

\* The end of a turn is an event too.
LEMMA OverIsEvent == TurnOver \in Events
  BY PromptAssumption DEF TurnOver, Events

-----------------------------------------------------------------------------
(* Types. *)

\* A question's channel is one of the two, and takes a question's answer.
LEMMA Channelled ==
  ASSUME NEW k
  PROVE  Channel(k) \in Channels
  BY DEF Channel, Channels

\* A box is told by its channel.
LEMMA TwoChannels == "perm" \in Channels /\ "ask" \in Channels
  BY DEF Channels

\* A channel with one answer more is not empty.
LEMMA Fuller ==
  ASSUME NEW s \in Seq(Prompts), NEW i \in Prompts
  PROVE  Append(s, i) \in Seq(Prompts) /\ Append(s, i) # <<>>
  <1>1. Append(s, i) \in Seq(Prompts) /\ Len(Append(s, i)) = Len(s) + 1
    OBVIOUS
  <1>2. Len(s) \in Nat
    OBVIOUS
  <1> QED
    BY <1>1, <1>2

\* An answer put in a channel is there.
LEMMA Answers ==
  ASSUME Types, NEW c \in Channels, NEW i \in Prompts, AnswerWith(c, i)
  PROVE  /\ chan' \in [Channels -> Seq(Prompts)]
         /\ chan'[c] # <<>>
         /\ \A d \in Channels : chan[d] # <<>> => chan'[d] # <<>>
  <1>1. chan[c] \in Seq(Prompts)
    BY DEF Types
  <1>2. Append(chan[c], i) \in Seq(Prompts) /\ Append(chan[c], i) # <<>>
    BY <1>1, Fuller
  <1>3. chan' = [chan EXCEPT ![c] = Append(chan[c], i)]
    BY DEF AnswerWith
  <1>4. chan \in [Channels -> Seq(Prompts)]
    BY DEF Types
  <1> QED
    BY <1>2, <1>3, <1>4

\* The first states.
LEMMA PromptBegins == PromptInit => PromptInv
  <1> SUFFICES ASSUME PromptInit PROVE PromptInv
    OBVIOUS
  <1> USE PromptAssumption
  <1>1. <<>> \in Seq(Events) /\ <<>> \in Seq(Prompts) /\ Len(<<>>) = 0
    OBVIOUS
  <1>2. Types
    BY <1>1 DEF PromptInit, Types
  <1>3. PendingTold
    BY <1>1 DEF PromptInit, PendingTold, Asking
  <1>4. OverComesBehind
    BY <1>1 DEF PromptInit, OverComesBehind
  <1>5. Reaches
    BY DEF PromptInit, Reaches
  <1> QED
    BY <1>2, <1>3, <1>4, <1>5 DEF PromptInv

\* Every step keeps the types.
LEMMA TypesStep == Types /\ [PromptNext]_prompt_vars => Types'
  <1> SUFFICES ASSUME Types, [PromptNext]_prompt_vars PROVE Types'
    OBVIOUS
  <1> USE PromptAssumption
  <1>0. /\ at \in {"idle", "turn", "ready", "waiting", "answered"}
        /\ next \in 0..MaxPrompts /\ (at \in {"ready", "waiting", "answered"} => next > 0)
        /\ kind \in [Prompts -> Kinds \cup {"none"}]
        /\ chan \in [Channels -> Seq(Prompts)]
        /\ prompt_out \in Seq(Events) /\ prompt_ui \in Seq(Events)
        /\ box \in [Channels -> 0..MaxPrompts]
        /\ prompt_pending \in 0..MaxPrompts /\ accepted \in 0..MaxPrompts
    BY DEF Types
  <1>a. next > 0 => next \in Prompts
    BY <1>0 DEF Prompts
  <1>b. \A i \in 0..MaxPrompts : i # 0 => i \in Prompts
    BY DEF Prompts
  <1>c. \A i \in Prompts : i \in 0..MaxPrompts
    BY DEF Prompts
  <1>1. CASE StartTurn
    BY <1>0, <1>1 DEF StartTurn, Types, screen, publisher
  <1>2. CASE Number
    <2>1. <<>> \in Seq(Prompts) /\ next + 1 \in 0..MaxPrompts /\ next + 1 > 0
      BY <1>0, <1>2 DEF Number
    <2>2. kind' \in [Prompts -> Kinds \cup {"none"}] /\ chan' \in [Channels -> Seq(Prompts)]
      BY <1>0, <1>2, <2>1 DEF Number
    <2> QED
      BY <1>0, <1>2, <2>1, <2>2 DEF Number, Types, screen, publisher
  <1>3. CASE PutOut
    <2>1. prompt_out' \in Seq(Events)
      BY <1>0, <1>3, EventKinds, Put DEF PutOut
    <2> QED
      BY <1>0, <1>3, <2>1 DEF PutOut, Types, screen, publisher
  <1>4. CASE Receive
    <2>1. Now \in Channels
      BY Channelled DEF Now
    <2>2. chan[Now] \in Seq(Prompts) /\ chan[Now] # <<>>
      BY <1>0, <1>4, <2>1 DEF Receive
    <2>3. Tail(chan[Now]) \in Seq(Prompts)
      BY <2>2
    <2>4. chan' \in [Channels -> Seq(Prompts)]
      BY <1>0, <1>4, <2>1, <2>3 DEF Receive
    <2> QED
      BY <1>0, <1>4, <2>4 DEF Receive, Types, screen, publisher
  <1>5. CASE PutDown
    <2>1. prompt_out' \in Seq(Events)
      BY <1>0, <1>5, EventKinds, Put DEF PutDown
    <2> QED
      BY <1>0, <1>5, <2>1 DEF PutDown, Types, screen, publisher
  <1>6. CASE EndTurn
    <2>1. prompt_out' \in Seq(Events)
      BY <1>0, <1>6, OverIsEvent, Put DEF EndTurn
    <2> QED
      BY <1>0, <1>6, <2>1 DEF EndTurn, Types, screen, publisher
  <1>7. CASE Forward
    <2>1. /\ Head(prompt_out) \in Events /\ prompt_out' \in Seq(Events)
      BY <1>0, <1>7, Taken DEF Forward
    <2>2. prompt_ui' \in Seq(Events)
      BY <1>0, <1>7, <2>1, Put DEF Forward
    <2>3. prompt_pending' \in 0..MaxPrompts
      BY <1>0, <1>7, <2>1 DEF Forward, Events
    <2> QED
      BY <1>0, <1>7, <2>1, <2>2, <2>3 DEF Forward, Types, engine, screen
  <1>8. CASE HandleAlways
    <2>1. PICK i \in Prompts : Handling(Asked(i)) /\ AnswerWith("perm", i) /\ UNCHANGED box
      BY <1>8 DEF HandleAlways
    <2>2. chan' \in [Channels -> Seq(Prompts)]
      BY <2>1, Answers, TwoChannels
    <2>3. prompt_ui' \in Seq(Events)
      BY <1>0, <2>1, Taken DEF Handling
    <2> QED
      BY <1>0, <2>1, <2>2, <2>3 DEF Handling, Types, engine, publisher
  <1>9. CASE HandleAsked
    <2>1. PICK i \in Prompts : /\ Handling(Asked(i)) /\ UNCHANGED chan
                               /\ box' = [box EXCEPT ![Channel(kind[i])] = i]
      BY <1>9 DEF HandleAsked
    <2>2. box' \in [Channels -> 0..MaxPrompts]
      BY <1>0, <1>c, <2>1
    <2>3. prompt_ui' \in Seq(Events)
      BY <1>0, <2>1, Taken DEF Handling
    <2> QED
      BY <1>0, <2>1, <2>2, <2>3 DEF Handling, Types, engine, publisher
  <1>10. CASE HandleAnswered
    <2>1. PICK i \in Prompts : /\ Handling(Answered(i)) /\ UNCHANGED chan
                               /\ box' = [c \in Channels |-> IF box[c] = i THEN 0 ELSE box[c]]
      BY <1>10 DEF HandleAnswered
    <2>2. box' \in [Channels -> 0..MaxPrompts]
      BY <1>0, <2>1
    <2>3. prompt_ui' \in Seq(Events)
      BY <1>0, <2>1, Taken DEF Handling
    <2> QED
      BY <1>0, <2>1, <2>2, <2>3 DEF Handling, Types, engine, publisher
  <1>11. CASE HandleOver
    <2>1. /\ Handling(TurnOver) /\ box' = [c \in Channels |-> 0]
          /\ IF box["ask"] # 0 THEN AnswerWith("ask", box["ask"]) ELSE UNCHANGED chan
      BY <1>11 DEF HandleOver
    <2>2. chan' \in [Channels -> Seq(Prompts)]
      BY <1>0, <1>b, <2>1, Answers, TwoChannels
    <2>3. box' \in [Channels -> 0..MaxPrompts]
      BY <2>1
    <2>4. prompt_ui' \in Seq(Events)
      BY <1>0, <2>1, Taken DEF Handling
    <2> QED
      BY <1>0, <2>1, <2>2, <2>3, <2>4 DEF Handling, Types, engine, publisher
  <1>12. CASE PressKey
    <2>1. PICK c \in Channels :
             /\ box[c] # 0 /\ AnswerWith(c, box[c]) /\ box' = [box EXCEPT ![c] = 0]
             /\ UNCHANGED <<engine, prompt_cancel, prompt_out, prompt_ui, publisher, prompt_stops, turns>>
      BY <1>12 DEF PressKey
    <2>2. chan' \in [Channels -> Seq(Prompts)]
      BY <1>0, <1>b, <2>1, Answers
    <2>3. box' \in [Channels -> 0..MaxPrompts]
      BY <1>0, <2>1
    <2> QED
      BY <1>0, <2>1, <2>2, <2>3 DEF Types, engine, publisher
  <1>13. CASE CancelTurn
    <2>1. \A c \in Channels : box[c] # 0 => Append(chan[c], box[c]) \in Seq(Prompts)
      BY <1>0, <1>b
    <2>2. chan' \in [Channels -> Seq(Prompts)]
      BY <1>0, <1>13, <2>1 DEF CancelTurn
    <2>3. box' \in [Channels -> 0..MaxPrompts]
      BY <1>13 DEF CancelTurn
    <2> QED
      BY <1>0, <1>13, <2>2, <2>3 DEF CancelTurn, Types, engine, publisher
  <1>14. CASE PhoneAnswer
    BY <1>0, <1>14 DEF PhoneAnswer, Types, engine, screen
  <1>15. CASE PhoneAct
    <2>1. Channel(kind[accepted]) \in Channels /\ accepted \in Prompts
      BY <1>0, <1>b, <1>15, Channelled DEF PhoneAct
    <2>2. chan' \in [Channels -> Seq(Prompts)]
      BY <1>15, <2>1, Answers DEF PhoneAct
    <2> QED
      BY <1>0, <1>15, <2>2 DEF PhoneAct, Types, engine, screen
  <1>16. CASE PhoneInterrupt
    BY <1>0, <1>16 DEF PhoneInterrupt, Types, engine, screen, publisher
  <1>17. CASE UNCHANGED prompt_vars
    BY <1>0, <1>17 DEF prompt_vars, Types, engine, screen, publisher
  <1> QED
    BY <1>1, <1>2, <1>3, <1>4, <1>5, <1>6, <1>7, <1>8, <1>9, <1>10, <1>11, <1>12,
       <1>13, <1>14, <1>15, <1>16, <1>17 DEF PromptNext, Engine, UI

-----------------------------------------------------------------------------
(* What the publisher holds up. *)

\* A step after which as much is said and as much is held up.
LEMMA PendingStays ==
  ASSUME PendingTold, UNCHANGED <<prompt_out, prompt_pending>>,
         Asking' <=> Asking, Asking => next' = next
  PROVE  PendingTold'
  BY DEF PendingTold, LastAsks, SomeOver, Asked

LEMMA PendingStep ==
  ASSUME Types, PendingTold, [PromptNext]_prompt_vars
  PROVE  PendingTold'
  <1> USE PromptAssumption
  <1>0. prompt_out \in Seq(Events) /\ next \in 0..MaxPrompts
    BY DEF Types
  <1>1. CASE StartTurn
    BY <1>1, PendingStays DEF StartTurn, Asking, screen, publisher
  <1>2. CASE Number
    BY <1>2, PendingStays DEF Number, Asking, screen, publisher
  <1>3. CASE PutOut
    <2>1. /\ prompt_out' = Append(prompt_out, Asked(next)) /\ Asked(next) \in Events
          /\ Asking' /\ next' = next
      BY <1>0, <1>3, EventKinds DEF PutOut, Asking
    <2>2. /\ prompt_out' # <<>> /\ Len(prompt_out') = Len(prompt_out) + 1
          /\ prompt_out'[Len(prompt_out) + 1] = Asked(next)
      BY <1>0, <2>1, Put
    <2>3. prompt_out'[Len(prompt_out')] = Asked(next')
      BY <2>1, <2>2
    <2> QED
      BY <2>1, <2>2, <2>3 DEF PendingTold, LastAsks, Asked
  <1>4. CASE Receive
    BY <1>4, PendingStays DEF Receive, Asking, screen, publisher
  <1>5. CASE PutDown
    <2>1. /\ prompt_out' = Append(prompt_out, Answered(next)) /\ Answered(next) \in Events
          /\ ~Asking'
      BY <1>0, <1>5, EventKinds DEF PutDown, Asking
    <2>2. /\ Len(prompt_out) \in Nat /\ Len(prompt_out') = Len(prompt_out) + 1
          /\ prompt_out'[Len(prompt_out) + 1] = Answered(next)
      BY <1>0, <2>1, Put
    <2>3. \A j \in Nat : j <= Len(prompt_out) => SomeOver(prompt_out', j)
      BY <1>0, <2>1, EventKinds, OverStays
    <2>4. \A j \in 1..Len(prompt_out') : prompt_out'[j].is = "asked" => j <= Len(prompt_out)
      BY <2>2, EventKinds
    <2>5. SomeOver(prompt_out', 0)
      BY <2>2, <2>3
    <2>6. \A j \in 1..Len(prompt_out') : prompt_out'[j].is = "asked" => SomeOver(prompt_out', j)
      BY <2>2, <2>3, <2>4
    <2> QED
      BY <2>1, <2>5, <2>6 DEF PendingTold, SomeOver
  <1>6. CASE EndTurn
    <2>1. /\ prompt_out' = Append(prompt_out, TurnOver) /\ TurnOver \in Events
          /\ ~Asking /\ ~Asking' /\ prompt_pending' = prompt_pending
      BY <1>0, <1>6, OverIsEvent DEF EndTurn, Asking, publisher
    <2>2. /\ Len(prompt_out) \in Nat /\ Len(prompt_out') = Len(prompt_out) + 1
          /\ \A k \in 1..Len(prompt_out) : prompt_out'[k] = prompt_out[k]
          /\ prompt_out'[Len(prompt_out) + 1] = TurnOver
      BY <1>0, <2>1, Put
    <2>3. \A j \in Nat : SomeOver(prompt_out, j) => SomeOver(prompt_out', j)
      BY <1>0, <2>1, OverStays
    <2>4. \A j \in 1..Len(prompt_out') : prompt_out'[j].is = "asked" =>
             j \in 1..Len(prompt_out) /\ prompt_out[j].is = "asked"
      BY <2>2, EventKinds
    <2>5. prompt_pending' # 0 => SomeOver(prompt_out', 0)
      BY <2>1, <2>3 DEF PendingTold
    <2>6. \A j \in 1..Len(prompt_out') : prompt_out'[j].is = "asked" => SomeOver(prompt_out', j)
      BY <2>1, <2>3, <2>4 DEF PendingTold
    <2> QED
      BY <2>1, <2>5, <2>6 DEF PendingTold, SomeOver
  <1>7. CASE Forward
    <2>1. /\ prompt_out # <<>> /\ prompt_out' = Tail(prompt_out)
          /\ prompt_pending' = IF Head(prompt_out).is = "asked" THEN Head(prompt_out).id
                               ELSE IF Head(prompt_out).is = "answered" THEN 0
                               ELSE prompt_pending
          /\ at' = at /\ next' = next
      BY <1>7 DEF Forward, engine
    <2>2. /\ Head(prompt_out) = prompt_out[1] /\ Len(prompt_out) \in Nat
          /\ Len(prompt_out) >= 1 /\ Len(prompt_out') = Len(prompt_out) - 1
          /\ \A k \in 1..(Len(prompt_out) - 1) : prompt_out'[k] = prompt_out[k + 1]
      BY <1>0, <2>1, Taken
    <2>3. CASE Asking
      <3>1. LastAsks(prompt_out, next)
        BY <2>1, <2>3 DEF PendingTold
      <3>2. \/ LastAsks(prompt_out', next)
            \/ prompt_out' = <<>> /\ Head(prompt_out) = Asked(next)
        BY <1>0, <2>1, <3>1, LastMoves
      <3>3. Head(prompt_out) = Asked(next) => prompt_pending' = next
        BY <2>1 DEF Asked
      <3> QED
        BY <2>1, <2>3, <3>2, <3>3 DEF PendingTold, Asking, LastAsks, Asked
    <2>4. CASE ~Asking
      <3>1. \A j \in 1..Len(prompt_out) : prompt_out[j].is = "asked" => SomeOver(prompt_out, j)
        BY <2>4 DEF PendingTold
      <3>2. /\ \A j \in Nat : SomeOver(prompt_out, j + 1) => SomeOver(prompt_out', j)
            /\ SomeOver(prompt_out, 0) =>
                  Head(prompt_out).is = "answered" \/ SomeOver(prompt_out', 0)
        BY <1>0, <2>1, OverMoves
      <3>3. prompt_pending' # 0 => SomeOver(prompt_out', 0)
        <4>1. CASE Head(prompt_out).is = "asked"
          <5>1. 1 \in 1..Len(prompt_out) /\ prompt_out[1].is = "asked"
            BY <2>2, <4>1
          <5>2. SomeOver(prompt_out, 0 + 1)
            BY <3>1, <5>1
          <5> QED
            BY <3>2, <5>2
        <4>2. CASE Head(prompt_out).is = "answered"
          BY <2>1, <4>2
        <4>3. CASE Head(prompt_out).is \notin {"asked", "answered"}
          BY <2>1, <2>4, <3>2, <4>3 DEF PendingTold
        <4> QED
          BY <4>1, <4>2, <4>3
      <3>4. \A j \in 1..Len(prompt_out') : prompt_out'[j].is = "asked" => SomeOver(prompt_out', j)
        <4> SUFFICES ASSUME NEW j \in 1..Len(prompt_out'), prompt_out'[j].is = "asked"
                     PROVE  SomeOver(prompt_out', j)
          OBVIOUS
        <4>1. j \in Nat /\ j + 1 \in 1..Len(prompt_out) /\ prompt_out[j + 1].is = "asked"
          BY <2>2
        <4> QED
          BY <3>1, <3>2, <4>1
      <3> QED
        BY <2>1, <2>4, <3>3, <3>4 DEF PendingTold, Asking, SomeOver
    <2> QED
      BY <2>3, <2>4
  <1>8. CASE UI
    <2>1. UNCHANGED <<prompt_out, prompt_pending, at, next>>
      BY <1>8 DEF UI, HandleAlways, HandleAsked, HandleAnswered, HandleOver, Handling,
                  engine, publisher
    <2> QED
      BY <2>1, PendingStays DEF Asking
  <1>9. CASE PressKey
    BY <1>9, PendingStays DEF PressKey, Asking, engine, publisher
  <1>10. CASE CancelTurn
    BY <1>10, PendingStays DEF CancelTurn, Asking, engine, publisher
  <1>11. CASE PhoneAnswer
    BY <1>11, PendingStays DEF PhoneAnswer, Asking, engine
  <1>12. CASE PhoneAct
    BY <1>12, PendingStays DEF PhoneAct, Asking, engine
  <1>13. CASE PhoneInterrupt
    BY <1>13, PendingStays DEF PhoneInterrupt, Asking, engine, publisher
  <1>14. CASE UNCHANGED prompt_vars
    BY <1>14, PendingStays DEF prompt_vars, Asking, engine, publisher
  <1> QED
    BY <1>1, <1>2, <1>3, <1>4, <1>5, <1>6, <1>7, <1>8, <1>9, <1>10, <1>11, <1>12,
       <1>13, <1>14 DEF PromptNext, Engine

-----------------------------------------------------------------------------
(* The news that a question is over. *)

\* Whether question i is the current one, or its end comes behind place j of
\* the UI's queue or anywhere in the forwarder's.
Settled(i, j) == Current(i) \/ OverIn(prompt_ui, i, j) \/ OverIn(prompt_out, i, 0)

\* A step that changes neither queue nor which question is current, and puts
\* up no box.
LEMMA OverRests ==
  ASSUME OverComesBehind, UNCHANGED <<prompt_out, prompt_ui>>,
         \A i : Current(i) => Current(i)',
         \A c \in Channels : box'[c] \in {0, box[c]}
  PROVE  OverComesBehind'
  <1>1. \A c \in Channels : box'[c] # 0 => (Settled(box[c], 0))' /\ box'[c] = box[c]
    BY DEF OverComesBehind, Settled, OverIn
  <1>2. \A i \in Prompts : \A j \in 1..Len(prompt_ui) : prompt_ui[j] = Asked(i) =>
          Current(i)' \/ OverIn(prompt_ui, i, j) \/ OverIn(prompt_out, i, 0)
    BY DEF OverComesBehind
  <1>3. \A i \in Prompts : \A j \in 1..Len(prompt_out) : prompt_out[j] = Asked(i) =>
          Current(i)' \/ OverIn(prompt_out, i, j)
    BY DEF OverComesBehind
  <1>4. \A i \in Prompts : \A j : /\ OverIn(prompt_ui, i, j) => OverIn(prompt_ui, i, j)'
                                  /\ OverIn(prompt_out, i, j) => OverIn(prompt_out, i, j)'
    BY DEF OverIn, Answered
  <1> QED
    BY <1>1, <1>2, <1>3, <1>4 DEF OverComesBehind, Settled, Asked

\* Question i is the current one after the step.
CurrentNext(i) == Asking' /\ i = next'

\* What is to be shown of a step, with the news after it spelt out.
LEMMA OverShown ==
  ASSUME \A c \in Channels : box'[c] # 0 =>
            \/ CurrentNext(box'[c])
            \/ OverIn(prompt_ui', box'[c], 0) \/ OverIn(prompt_out', box'[c], 0),
         \A i \in Prompts : \A j \in 1..Len(prompt_ui') : prompt_ui'[j] = Asked(i) =>
            CurrentNext(i) \/ OverIn(prompt_ui', i, j) \/ OverIn(prompt_out', i, 0),
         \A i \in Prompts : \A j \in 1..Len(prompt_out') : prompt_out'[j] = Asked(i) =>
            CurrentNext(i) \/ OverIn(prompt_out', i, j)
  PROVE  OverComesBehind'
  BY DEF OverComesBehind, CurrentNext, Current, OverIn, Asked, Answered

\* A step in which the engine says one thing more.
LEMMA OverWhenSaid ==
  ASSUME Types, OverComesBehind, UNCHANGED <<prompt_ui, box>>,
         NEW e \in Events, prompt_out' = Append(prompt_out, e),
         \A i : Current(i) => CurrentNext(i) \/ e = Answered(i),
         \A i : e = Asked(i) => CurrentNext(i)
  PROVE  OverComesBehind'
  <1>0. prompt_out \in Seq(Events) /\ prompt_ui \in Seq(Events)
    BY DEF Types
  <1>1. /\ Len(prompt_out) \in Nat /\ Len(prompt_out') = Len(prompt_out) + 1
        /\ \A k \in 1..Len(prompt_out) : prompt_out'[k] = prompt_out[k]
        /\ prompt_out'[Len(prompt_out) + 1] = e
    BY <1>0, Put
  <1>2. \A i : \A j \in Nat :
           /\ OverIn(prompt_out, i, j) => OverIn(prompt_out', i, j)
           /\ j <= Len(prompt_out) /\ e = Answered(i) => OverIn(prompt_out', i, j)
    BY <1>0, OverStays
  <1>3. \A i : \A j \in Nat : j <= Len(prompt_out) =>
           (Current(i) \/ OverIn(prompt_out, i, j) => CurrentNext(i) \/ OverIn(prompt_out', i, j))
    BY <1>2
  <1>4. \A i : Current(i) \/ OverIn(prompt_out, i, 0) => CurrentNext(i) \/ OverIn(prompt_out', i, 0)
    BY <1>1, <1>3
  <1>5. \A c \in Channels : box'[c] # 0 =>
           \/ CurrentNext(box'[c])
           \/ OverIn(prompt_ui', box'[c], 0) \/ OverIn(prompt_out', box'[c], 0)
    BY <1>4 DEF OverComesBehind
  <1>6. \A i \in Prompts : \A j \in 1..Len(prompt_ui') : prompt_ui'[j] = Asked(i) =>
           CurrentNext(i) \/ OverIn(prompt_ui', i, j) \/ OverIn(prompt_out', i, 0)
    BY <1>4 DEF OverComesBehind
  <1>7. \A i \in Prompts : \A j \in 1..Len(prompt_out') : prompt_out'[j] = Asked(i) =>
           CurrentNext(i) \/ OverIn(prompt_out', i, j)
    <2> SUFFICES ASSUME NEW i \in Prompts, NEW j \in 1..Len(prompt_out'),
                        prompt_out'[j] = Asked(i)
                 PROVE  CurrentNext(i) \/ OverIn(prompt_out', i, j)
      OBVIOUS
    <2>1. CASE j = Len(prompt_out) + 1
      BY <1>1, <2>1
    <2>2. CASE j # Len(prompt_out) + 1
      <3>1. j \in 1..Len(prompt_out) /\ j \in Nat /\ j <= Len(prompt_out)
            /\ prompt_out[j] = Asked(i)
        BY <1>1, <2>2
      <3>2. Current(i) \/ OverIn(prompt_out, i, j)
        BY <3>1 DEF OverComesBehind
      <3> QED
        BY <1>3, <3>1, <3>2
    <2> QED
      BY <2>1, <2>2
  <1> QED
    BY <1>5, <1>6, <1>7, OverShown

\* A step in which the UI takes one thing off its queue: a box that stays up
\* is not the one the news takes down, and one that goes up is what it asks.
LEMMA OverWhenHandled ==
  ASSUME Types, OverComesBehind, UNCHANGED <<at, next, prompt_out>>,
         prompt_ui # <<>>, prompt_ui' = Tail(prompt_ui), box' \in [Channels -> 0..MaxPrompts],
         \A c \in Channels : box'[c] # 0 =>
            \/ box'[c] = box[c] /\ Head(prompt_ui) # Answered(box[c])
            \/ Head(prompt_ui) = Asked(box'[c])
  PROVE  OverComesBehind'
  <1>0. prompt_out \in Seq(Events) /\ prompt_ui \in Seq(Events)
    BY DEF Types
  <1>1. /\ Head(prompt_ui) = prompt_ui[1] /\ Len(prompt_ui) \in Nat
        /\ Len(prompt_ui) >= 1 /\ Len(prompt_ui') = Len(prompt_ui) - 1
        /\ \A k \in 1..(Len(prompt_ui) - 1) : prompt_ui'[k] = prompt_ui[k + 1]
    BY <1>0, Taken
  <1>2. \A i : /\ \A j \in Nat : OverIn(prompt_ui, i, j + 1) => OverIn(prompt_ui', i, j)
               /\ OverIn(prompt_ui, i, 0) =>
                     Head(prompt_ui) = Answered(i) \/ OverIn(prompt_ui', i, 0)
    BY <1>0, OverMoves
  <1>3. \A i : Current(i) => CurrentNext(i)
    BY DEF Current, CurrentNext, Asking
  <1>4. \A c \in Channels : box'[c] # 0 =>
           \/ CurrentNext(box'[c])
           \/ OverIn(prompt_ui', box'[c], 0) \/ OverIn(prompt_out', box'[c], 0)
    <2> SUFFICES ASSUME NEW c \in Channels, box'[c] # 0
                 PROVE  \/ CurrentNext(box'[c])
                        \/ OverIn(prompt_ui', box'[c], 0) \/ OverIn(prompt_out', box'[c], 0)
      OBVIOUS
    <2>1. CASE box'[c] = box[c] /\ Head(prompt_ui) # Answered(box[c])
      <3>1. Current(box[c]) \/ OverIn(prompt_ui, box[c], 0) \/ OverIn(prompt_out, box[c], 0)
        BY <2>1 DEF OverComesBehind
      <3> QED
        BY <1>2, <1>3, <2>1, <3>1
    <2>2. CASE Head(prompt_ui) = Asked(box'[c])
      <3>1. box'[c] \in Prompts /\ 1 \in 1..Len(prompt_ui) /\ prompt_ui[1] = Asked(box'[c])
        BY <1>1, <2>2, PromptAssumption DEF Prompts
      <3>2. \/ Current(box'[c])
            \/ OverIn(prompt_ui, box'[c], 0 + 1) \/ OverIn(prompt_out, box'[c], 0)
        BY <3>1 DEF OverComesBehind
      <3> QED
        BY <1>2, <1>3, <3>2
    <2> QED
      BY <2>1, <2>2
  <1>5. \A i \in Prompts : \A j \in 1..Len(prompt_ui') : prompt_ui'[j] = Asked(i) =>
           CurrentNext(i) \/ OverIn(prompt_ui', i, j) \/ OverIn(prompt_out', i, 0)
    <2> SUFFICES ASSUME NEW i \in Prompts, NEW j \in 1..Len(prompt_ui'), prompt_ui'[j] = Asked(i)
                 PROVE  CurrentNext(i) \/ OverIn(prompt_ui', i, j) \/ OverIn(prompt_out', i, 0)
      OBVIOUS
    <2>1. j \in Nat /\ j + 1 \in 1..Len(prompt_ui) /\ prompt_ui[j + 1] = Asked(i)
      BY <1>1
    <2>2. Current(i) \/ OverIn(prompt_ui, i, j + 1) \/ OverIn(prompt_out, i, 0)
      BY <2>1 DEF OverComesBehind
    <2> QED
      BY <1>2, <1>3, <2>1, <2>2
  <1>6. \A i \in Prompts : \A j \in 1..Len(prompt_out') : prompt_out'[j] = Asked(i) =>
           CurrentNext(i) \/ OverIn(prompt_out', i, j)
    BY <1>3 DEF OverComesBehind
  <1> QED
    BY <1>4, <1>5, <1>6, OverShown

\* The forwarder passes one thing on.
LEMMA OverWhenForwarded ==
  ASSUME Types, OverComesBehind, Forward
  PROVE  OverComesBehind'
  <1>0. prompt_out \in Seq(Events) /\ prompt_ui \in Seq(Events)
    BY DEF Types
  <1> DEFINE e == Head(prompt_out)
  <1>1. /\ prompt_out # <<>> /\ prompt_out' = Tail(prompt_out)
        /\ prompt_ui' = Append(prompt_ui, e)
        /\ UNCHANGED <<at, next, box>>
    BY DEF Forward, engine, screen
  <1>2. /\ e = prompt_out[1] /\ e \in Events /\ Len(prompt_out) \in Nat
        /\ Len(prompt_out) >= 1 /\ Len(prompt_out') = Len(prompt_out) - 1
        /\ \A k \in 1..(Len(prompt_out) - 1) : prompt_out'[k] = prompt_out[k + 1]
    BY <1>0, <1>1, Taken
  <1>3. /\ Len(prompt_ui) \in Nat /\ Len(prompt_ui') = Len(prompt_ui) + 1
        /\ \A k \in 1..Len(prompt_ui) : prompt_ui'[k] = prompt_ui[k]
        /\ prompt_ui'[Len(prompt_ui) + 1] = e
    BY <1>0, <1>1, <1>2, Put
  <1>4. \A i : \A j \in Nat :
           /\ OverIn(prompt_ui, i, j) => OverIn(prompt_ui', i, j)
           /\ j <= Len(prompt_ui) /\ e = Answered(i) => OverIn(prompt_ui', i, j)
    BY <1>0, <1>1, <1>2, OverStays
  <1>5. \A i : /\ \A j \in Nat : OverIn(prompt_out, i, j + 1) => OverIn(prompt_out', i, j)
               /\ OverIn(prompt_out, i, 0) => e = Answered(i) \/ OverIn(prompt_out', i, 0)
    BY <1>0, <1>1, OverMoves
  <1>6. \A i : Current(i) => CurrentNext(i)
    BY <1>1 DEF Current, CurrentNext, Asking
  <1> HIDE DEF e
  <1>7. \A i : \A j \in Nat : j <= Len(prompt_ui) =>
           (OverIn(prompt_ui, i, j) \/ OverIn(prompt_out, i, 0) =>
              OverIn(prompt_ui', i, j) \/ OverIn(prompt_out', i, 0))
    BY <1>4, <1>5
  <1>8. \A c \in Channels : box'[c] # 0 =>
           \/ CurrentNext(box'[c])
           \/ OverIn(prompt_ui', box'[c], 0) \/ OverIn(prompt_out', box'[c], 0)
    <2> SUFFICES ASSUME NEW c \in Channels, box[c] # 0
                 PROVE  \/ CurrentNext(box[c])
                        \/ OverIn(prompt_ui', box[c], 0) \/ OverIn(prompt_out', box[c], 0)
      BY <1>1
    <2>1. Current(box[c]) \/ OverIn(prompt_ui, box[c], 0) \/ OverIn(prompt_out, box[c], 0)
      BY DEF OverComesBehind
    <2>2. 0 \in Nat /\ 0 <= Len(prompt_ui)
      BY <1>3
    <2> QED
      BY <1>6, <1>7, <2>1, <2>2
  <1>9. \A i \in Prompts : \A j \in 1..Len(prompt_ui') : prompt_ui'[j] = Asked(i) =>
           CurrentNext(i) \/ OverIn(prompt_ui', i, j) \/ OverIn(prompt_out', i, 0)
    <2> SUFFICES ASSUME NEW i \in Prompts, NEW j \in 1..Len(prompt_ui'), prompt_ui'[j] = Asked(i)
                 PROVE  CurrentNext(i) \/ OverIn(prompt_ui', i, j) \/ OverIn(prompt_out', i, 0)
      OBVIOUS
    <2>1. CASE j = Len(prompt_ui) + 1
      <3>1. 1 \in 1..Len(prompt_out) /\ prompt_out[1] = Asked(i)
        BY <1>2, <1>3, <2>1
      <3>2. Current(i) \/ OverIn(prompt_out, i, 0 + 1)
        BY <3>1 DEF OverComesBehind
      <3> QED
        BY <1>5, <1>6, <3>2
    <2>2. CASE j # Len(prompt_ui) + 1
      <3>1. j \in 1..Len(prompt_ui) /\ j \in Nat /\ j <= Len(prompt_ui) /\ prompt_ui[j] = Asked(i)
        BY <1>3, <2>2
      <3>2. Current(i) \/ OverIn(prompt_ui, i, j) \/ OverIn(prompt_out, i, 0)
        BY <3>1 DEF OverComesBehind
      <3> QED
        BY <1>6, <1>7, <3>1, <3>2
    <2> QED
      BY <2>1, <2>2
  <1>10. \A i \in Prompts : \A j \in 1..Len(prompt_out') : prompt_out'[j] = Asked(i) =>
           CurrentNext(i) \/ OverIn(prompt_out', i, j)
    <2> SUFFICES ASSUME NEW i \in Prompts, NEW j \in 1..Len(prompt_out'), prompt_out'[j] = Asked(i)
                 PROVE  CurrentNext(i) \/ OverIn(prompt_out', i, j)
      OBVIOUS
    <2>1. j \in Nat /\ j + 1 \in 1..Len(prompt_out) /\ prompt_out[j + 1] = Asked(i)
      BY <1>2
    <2>2. Current(i) \/ OverIn(prompt_out, i, j + 1)
      BY <2>1 DEF OverComesBehind
    <2> QED
      BY <1>5, <1>6, <2>1, <2>2
  <1> QED
    BY <1>8, <1>9, <1>10, OverShown

LEMMA OverStep ==
  ASSUME Types, Types', OverComesBehind, [PromptNext]_prompt_vars
  PROVE  OverComesBehind'
  <1>0. next \in 0..MaxPrompts
    BY DEF Types
  <1>k. \A i, j : Asked(i) # Answered(j) /\ Asked(i) # TurnOver /\ Answered(i) # TurnOver
    BY EventKinds
  <1>1. CASE StartTurn
    BY <1>1, OverRests DEF StartTurn, Current, Asking, screen
  <1>2. CASE Number
    BY <1>2, OverRests DEF Number, Current, Asking, screen
  <1>3. CASE PutOut
    <2>1. /\ prompt_out' = Append(prompt_out, Asked(next)) /\ Asked(next) \in Events
          /\ UNCHANGED <<prompt_ui, box>>
      BY <1>0, <1>3, EventKinds DEF PutOut, screen
    <2>2. \A i : Current(i) => CurrentNext(i)
      BY <1>3 DEF PutOut, Current, CurrentNext, Asking
    <2>3. \A i : Asked(next) = Asked(i) => CurrentNext(i)
      BY <1>3, EventKinds DEF PutOut, CurrentNext, Asking
    <2> QED
      BY <2>1, <2>2, <2>3, OverWhenSaid
  <1>4. CASE Receive
    BY <1>4, OverRests DEF Receive, Current, Asking, screen
  <1>5. CASE PutDown
    <2>1. /\ prompt_out' = Append(prompt_out, Answered(next)) /\ Answered(next) \in Events
          /\ UNCHANGED <<prompt_ui, box>>
      BY <1>0, <1>5, EventKinds DEF PutDown, screen
    <2>2. \A i : Current(i) => CurrentNext(i) \/ Answered(next) = Answered(i)
      BY DEF Current
    <2>3. \A i : Answered(next) = Asked(i) => CurrentNext(i)
      BY <1>k
    <2> QED
      BY <2>1, <2>2, <2>3, OverWhenSaid
  <1>6. CASE EndTurn
    <2>1. /\ prompt_out' = Append(prompt_out, TurnOver) /\ TurnOver \in Events
          /\ UNCHANGED <<prompt_ui, box>>
      BY <1>6, OverIsEvent DEF EndTurn, screen
    <2>2. \A i : Current(i) => CurrentNext(i) \/ TurnOver = Answered(i)
      BY <1>6 DEF EndTurn, Current, Asking
    <2>3. \A i : TurnOver = Asked(i) => CurrentNext(i)
      BY <1>k
    <2> QED
      BY <2>1, <2>2, <2>3, OverWhenSaid
  <1>7. CASE Forward
    BY <1>7, OverWhenForwarded
  <1>8. CASE UI
    <2>1. ASSUME NEW e, Handling(e)
          PROVE  /\ UNCHANGED <<at, next, prompt_out>> /\ prompt_ui # <<>>
                 /\ prompt_ui' = Tail(prompt_ui) /\ Head(prompt_ui) = e
      BY <2>1 DEF Handling, engine
    <2>t. box \in [Channels -> 0..MaxPrompts] /\ box' \in [Channels -> 0..MaxPrompts]
      BY DEF Types
    <2>2. CASE HandleAlways
      <3>1. PICK i \in Prompts : Handling(Asked(i)) /\ UNCHANGED box
        BY <2>2 DEF HandleAlways
      <3>2. \A c \in Channels : box'[c] = box[c] /\ Asked(i) # Answered(box[c])
        BY <1>k, <3>1
      <3> QED
        BY <2>1, <2>t, <3>1, <3>2, OverWhenHandled
    <2>3. CASE HandleAsked
      <3>1. PICK i \in Prompts : Handling(Asked(i)) /\ box' = [box EXCEPT ![Channel(kind[i])] = i]
        BY <2>3 DEF HandleAsked
      <3>2. \A c \in Channels : box'[c] = box[c] \/ box'[c] = i
        BY <2>t, <3>1
      <3>3. \A c \in Channels :
               \/ box'[c] = box[c] /\ Asked(i) # Answered(box[c])
               \/ Asked(i) = Asked(box'[c])
        BY <1>k, <3>2
      <3> QED
        BY <2>1, <2>t, <3>1, <3>3, OverWhenHandled
    <2>4. CASE HandleAnswered
      <3>1. PICK i \in Prompts : /\ Handling(Answered(i))
                                 /\ box' = [c \in Channels |-> IF box[c] = i THEN 0 ELSE box[c]]
        BY <2>4 DEF HandleAnswered
      <3>2. \A c \in Channels : box'[c] # 0 => box'[c] = box[c] /\ box[c] # i
        BY <3>1
      <3>3. \A c \in Channels : box'[c] # 0 => box'[c] = box[c] /\ Answered(i) # Answered(box[c])
        BY <3>2, EventKinds
      <3> QED
        BY <2>1, <2>t, <3>1, <3>3, OverWhenHandled
    <2>5. CASE HandleOver
      <3>1. Handling(TurnOver) /\ \A c \in Channels : box'[c] = 0
        BY <2>5 DEF HandleOver
      <3> QED
        BY <2>1, <2>t, <3>1, OverWhenHandled
    <2> QED
      BY <1>8, <2>2, <2>3, <2>4, <2>5 DEF UI
  <1>9. CASE PressKey
    <2>1. \A c \in Channels : box'[c] \in {0, box[c]}
      BY <1>9 DEF PressKey, Types
    <2> QED
      BY <1>9, <2>1, OverRests DEF PressKey, Current, Asking, engine
  <1>10. CASE CancelTurn
    BY <1>10, OverRests DEF CancelTurn, Current, Asking, engine
  <1>11. CASE PhoneAnswer
    BY <1>11, OverRests DEF PhoneAnswer, Current, Asking, engine, screen
  <1>12. CASE PhoneAct
    BY <1>12, OverRests DEF PhoneAct, Current, Asking, engine, screen
  <1>13. CASE PhoneInterrupt
    BY <1>13, OverRests DEF PhoneInterrupt, Current, Asking, engine, screen
  <1>14. CASE UNCHANGED prompt_vars
    BY <1>14, OverRests DEF prompt_vars, Current, Asking, engine, screen
  <1> QED
    BY <1>1, <1>2, <1>3, <1>4, <1>5, <1>6, <1>7, <1>8, <1>9, <1>10, <1>11, <1>12,
       <1>13, <1>14 DEF PromptNext, Engine

-----------------------------------------------------------------------------
(* Where the question that is waited on is. *)

\* A step that leaves both queues, and what it finds on the screen or in the
\* channel it finds in one of the two again.
LEMMA ReachesStays ==
  ASSUME Reaches, UNCHANGED <<at, next, kind, prompt_out, prompt_ui>>,
         box[Now] = next \/ chan[Now] # <<>> => box'[Now] = next \/ chan'[Now] # <<>>
  PROVE  Reaches'
  BY DEF Reaches, LastAsks, Asked, Now, Channel

LEMMA ReachesStep ==
  ASSUME Types, Reaches, [PromptNext]_prompt_vars
  PROVE  Reaches'
  <1>0. /\ prompt_out \in Seq(Events) /\ prompt_ui \in Seq(Events) /\ next \in 0..MaxPrompts
        /\ at \in {"ready", "waiting", "answered"} => next > 0
        /\ chan \in [Channels -> Seq(Prompts)] /\ box \in [Channels -> 0..MaxPrompts]
        /\ accepted \in 0..MaxPrompts
    BY DEF Types
  <1>n. Now \in Channels
    BY Channelled DEF Now
  <1>p. \A i \in 0..MaxPrompts : i # 0 => i \in Prompts
    BY PromptAssumption DEF Prompts
  <1>1. CASE StartTurn \/ Number \/ Receive \/ PutDown \/ EndTurn
    BY <1>1 DEF StartTurn, Number, Receive, PutDown, EndTurn, Reaches
  <1>2. CASE PutOut
    <2>1. prompt_out' = Append(prompt_out, Asked(next)) /\ Asked(next) \in Events /\ next' = next
      BY <1>0, <1>2, EventKinds DEF PutOut
    <2>2. /\ prompt_out' # <<>> /\ Len(prompt_out') = Len(prompt_out) + 1
          /\ prompt_out'[Len(prompt_out) + 1] = Asked(next)
      BY <1>0, <2>1, Put
    <2>3. prompt_out'[Len(prompt_out')] = Asked(next')
      BY <2>1, <2>2
    <2> QED
      BY <2>2, <2>3 DEF Reaches, LastAsks, Asked
  <1>3. CASE Forward
    <2>1. /\ prompt_out # <<>> /\ prompt_out' = Tail(prompt_out)
          /\ prompt_ui' = Append(prompt_ui, Head(prompt_out))
          /\ UNCHANGED <<at, next>>
      BY <1>3 DEF Forward, engine
    <2> SUFFICES ASSUME at = "waiting"
                 PROVE  LastAsks(prompt_out', next') \/ (prompt_out' = <<>> /\ LastAsks(prompt_ui', next'))
      BY <2>1 DEF Reaches, LastAsks, Asked
    <2>2. LastAsks(prompt_out, next)
      BY <2>1 DEF Reaches
    <2>3. \/ LastAsks(prompt_out', next)
          \/ prompt_out' = <<>> /\ Head(prompt_out) = Asked(next)
      BY <1>0, <2>1, <2>2, LastMoves
    <2>4. ASSUME Head(prompt_out) = Asked(next) PROVE LastAsks(prompt_ui', next)
      <3>1. prompt_ui' = Append(prompt_ui, Asked(next)) /\ Asked(next) \in Events
        BY <1>0, <2>1, <2>4, EventKinds
      <3>2. /\ prompt_ui' # <<>> /\ Len(prompt_ui') = Len(prompt_ui) + 1
            /\ prompt_ui'[Len(prompt_ui) + 1] = Asked(next)
        BY <1>0, <3>1, Put
      <3> QED
        BY <3>2 DEF LastAsks
    <2> QED
      BY <2>1, <2>3, <2>4
  <1>4. CASE UI
    <2>1. /\ prompt_ui # <<>> /\ prompt_ui' = Tail(prompt_ui)
          /\ UNCHANGED <<at, next, kind, prompt_out>>
      BY <1>4 DEF UI, HandleAlways, HandleAsked, HandleAnswered, HandleOver, Handling, engine
    <2>2. LastAsks(prompt_ui, next) =>
             LastAsks(prompt_ui', next) \/ (prompt_ui' = <<>> /\ Head(prompt_ui) = Asked(next))
      BY <1>0, <2>1, LastMoves
    <2>3. ASSUME at = "waiting", Head(prompt_ui) = Asked(next)
          PROVE  box'[Now] = next \/ chan'[Now] # <<>>
      <3>1. \A i : Head(prompt_ui) # Answered(i) /\ Head(prompt_ui) # TurnOver
        BY <2>3, EventKinds
      <3>2. CASE HandleAlways
        <4>1. PICK i \in Prompts : /\ kind[i] = "standing" /\ Handling(Asked(i))
                                   /\ AnswerWith("perm", i)
          BY <3>2 DEF HandleAlways
        <4>2. i = next
          BY <2>3, <4>1, EventKinds DEF Handling
        <4>3. Now = "perm"
          BY <4>1, <4>2 DEF Now, Channel
        <4> QED
          BY <4>1, <4>3, <1>n, Answers
      <3>3. CASE HandleAsked
        <4>1. PICK i \in Prompts : /\ Handling(Asked(i))
                                   /\ box' = [box EXCEPT ![Channel(kind[i])] = i]
          BY <3>3 DEF HandleAsked
        <4>2. i = next
          BY <2>3, <4>1, EventKinds DEF Handling
        <4> QED
          BY <1>0, <1>n, <4>1, <4>2 DEF Now
      <3>4. CASE HandleAnswered \/ HandleOver
        BY <3>1, <3>4 DEF HandleAnswered, HandleOver, Handling
      <3> QED
        BY <1>4, <3>2, <3>3, <3>4 DEF UI
    <2>4. ASSUME at = "waiting", ~LastAsks(prompt_out, next)
          PROVE  \/ prompt_out' = <<>> /\ LastAsks(prompt_ui', next)
                 \/ prompt_out' = <<>> /\ prompt_ui' = <<>>
                       /\ (box'[Now] = next \/ chan'[Now] # <<>>)
      BY <2>1, <2>2, <2>3, <2>4 DEF Reaches
    <2> QED
      BY <2>1, <2>4 DEF Reaches, LastAsks, Asked, Now, Channel
  <1>5. CASE PressKey
    <2>1. PICK c \in Channels :
             /\ box[c] # 0 /\ AnswerWith(c, box[c]) /\ box' = [box EXCEPT ![c] = 0]
             /\ UNCHANGED <<engine, prompt_cancel, prompt_out, prompt_ui, publisher, prompt_stops, turns>>
      BY <1>5 DEF PressKey
    <2>2. chan'[c] # <<>> /\ \A d \in Channels : chan[d] # <<>> => chan'[d] # <<>>
      BY <1>0, <1>p, <2>1, Answers
    <2>3. Now # c => box'[Now] = box[Now]
      BY <1>0, <1>n, <2>1
    <2> QED
      BY <1>n, <2>1, <2>2, <2>3, ReachesStays DEF engine
  <1>6. CASE CancelTurn
    <2>1. /\ chan' = [c \in Channels |->
                  IF box[c] = 0 THEN chan[c] ELSE Append(chan[c], box[c])]
          /\ UNCHANGED <<at, next, kind, prompt_out, prompt_ui>>
          /\ at # "idle"
      BY <1>6 DEF CancelTurn, engine
    <2>2. chan'[Now] = IF box[Now] = 0 THEN chan[Now] ELSE Append(chan[Now], box[Now])
      BY <1>n, <2>1
    <2>3. box[Now] # 0 => chan'[Now] # <<>>
      <3> SUFFICES ASSUME box[Now] # 0 PROVE chan'[Now] # <<>>
        OBVIOUS
      <3>1. chan[Now] \in Seq(Prompts) /\ box[Now] \in Prompts
        BY <1>0, <1>n, <1>p
      <3>2. Append(chan[Now], box[Now]) # <<>>
        BY <3>1, Fuller
      <3> QED
        BY <2>2, <3>2
    <2>4. at = "waiting" => next # 0
      BY <1>0
    <2>5. at = "waiting" /\ (box[Now] = next \/ chan[Now] # <<>>) => chan'[Now] # <<>>
      BY <2>2, <2>3, <2>4
    <2> QED
      BY <2>1, <2>5 DEF Reaches, LastAsks, Asked, Now, Channel
  <1>7. CASE PhoneAct
    <2>1. /\ accepted # 0 /\ AnswerWith(Channel(kind[accepted]), accepted)
          /\ UNCHANGED <<at, next, kind, prompt_out, prompt_ui, box>>
      BY <1>7 DEF PhoneAct, engine, screen
    <2>2. \A d \in Channels : chan[d] # <<>> => chan'[d] # <<>>
      BY <1>0, <1>p, <2>1, Channelled, Answers
    <2> QED
      BY <1>n, <2>1, <2>2, ReachesStays
  <1>8. CASE PhoneAnswer \/ PhoneInterrupt
    BY <1>8, ReachesStays DEF PhoneAnswer, PhoneInterrupt, engine, screen
  <1>9. CASE UNCHANGED prompt_vars
    BY <1>9, ReachesStays DEF prompt_vars, engine, screen
  <1> QED
    BY <1>1, <1>2, <1>3, <1>4, <1>5, <1>6, <1>7, <1>8, <1>9 DEF PromptNext, Engine

-----------------------------------------------------------------------------
(* The theorem. *)

\* A question that waits is on the desk's screen and with the publisher once
\* everything sent has arrived, or its answer is; and a question that is over
\* is on neither screen (ChannelIo in app.rs, observe in publisher.rs and the
\* window's handlers), however many are asked and whoever answers.
THEOREM QuestionsHoldAlways == PromptSpec => []QuestionsHold
  <1>1. PromptInit => PromptInv
    BY PromptBegins
  <1>2. PromptInv /\ [PromptNext]_prompt_vars => PromptInv'
    <2> SUFFICES ASSUME PromptInv, [PromptNext]_prompt_vars PROVE PromptInv'
      OBVIOUS
    <2>1. Types'
      BY TypesStep DEF PromptInv
    <2>2. PendingTold'
      BY PendingStep DEF PromptInv
    <2>3. OverComesBehind'
      BY <2>1, OverStep DEF PromptInv
    <2>4. Reaches'
      BY ReachesStep DEF PromptInv
    <2> QED
      BY <2>1, <2>2, <2>3, <2>4 DEF PromptInv
  <1>3. PromptInv => QuestionsHold
    <2> SUFFICES ASSUME PromptInv PROVE QuestionsHold
      OBVIOUS
    <2>0. Len(<<>>) = 0 /\ 1..0 = {}
      OBVIOUS
    <2>1. CanBeAnswered
      BY DEF PromptInv, CanBeAnswered, Reaches, PendingTold, LastAsks, Asking
    <2>2. BoxComesDown
      <3> SUFFICES ASSUME prompt_out = <<>>, prompt_ui = <<>>, at \in {"turn", "idle"}
                   PROVE  prompt_pending = 0 /\ box["perm"] = 0 /\ box["ask"] = 0
        BY DEF BoxComesDown
      <3>1. \A i, j : ~OverIn(prompt_ui, i, j) /\ ~OverIn(prompt_out, i, j)
                      /\ ~SomeOver(prompt_out, j)
        BY <2>0 DEF OverIn, SomeOver
      <3>2. ~Asking
        BY DEF Asking
      <3>3. prompt_pending = 0
        BY <3>1, <3>2 DEF PromptInv, PendingTold
      <3>4. \A c \in Channels : box[c] = 0
        BY <3>1, <3>2 DEF PromptInv, OverComesBehind, Current
      <3> QED
        BY <3>3, <3>4, TwoChannels
    <2> QED
      BY <2>1, <2>2 DEF QuestionsHold
  <1> QED
    BY <1>1, <1>2, <1>3, PTL DEF PromptSpec
=============================================================================
