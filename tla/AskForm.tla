------------------------------- MODULE AskForm -------------------------------
(***************************************************************************)
(* A call of ask_user, from the model's arguments to what the model reads  *)
(* (ah-core/src/tools/ask.rs), and the box that puts it to the person      *)
(* (ah/src/tui/ask.rs).  A note is one character at most: a blank, which   *)
(* answers nothing, or a letter; where the cursor is in it is left out.    *)
(***************************************************************************)
EXTENDS Naturals, Sequences, SequencesExt, FiniteSets

CONSTANTS
    FormMaxQuestions,   \* MAX_QUESTIONS
    FormMaxOptions      \* MAX_OPTIONS

VARIABLES
    form_call,      \* the questions as the model wrote them
    form_ask,       \* Ask, as the box has it; empty while there is no box
    form_at, form_slots, form_confirm, form_nag,
    form_reply,     \* what the tool had back
    form_seen       \* history: the answers when the box last asked whether to send them

form_view == <<form_at, form_slots, form_confirm, form_nag>>
form_vars == <<form_call, form_ask, form_view, form_reply, form_seen>>

Fold(label) == IF label = "A" THEN "a" ELSE label    \* eq_ignore_ascii_case
\* What the model may write: blanks, repetitions, too many of either.
RawLabels == {<<>>, <<"a", "b">>, <<"a", "A", "", "b">>, <<"a", "b", "c", "d", "e">>}
RawQuestions == [text : {"which"}, options : RawLabels, multi : BOOLEAN]
RawCalls ==
    {<<>>} \cup {<<q>> : q \in RawQuestions \cup {[text |-> "", options |-> <<>>, multi |-> FALSE]}}
    \cup {<<p, q>> : p \in {r \in RawQuestions : r.options = <<"a", "b">> /\ ~r.multi},
                     q \in {r \in RawQuestions : r.options = <<>> /\ ~r.multi}}
    \cup {[i \in 1..(FormMaxQuestions + 1) |-> [text |-> "which", options |-> <<>>, multi |-> FALSE]]}

\* The options that reach the screen: none blank, none the person cannot tell from another.
Offered(labels) ==
    FoldLeft(LAMBDA out, l : IF l = "" \/ \E i \in DOMAIN out : Fold(out[i]) = Fold(l) THEN out ELSE Append(out, l),
             <<>>, labels)
Question(raw) == [options |-> Offered(raw.options), multi |-> raw.multi]
Malformed(call) ==
    \/ call = <<>> \/ Len(call) > FormMaxQuestions
    \/ \E i \in DOMAIN call : call[i].text = "" \/ Len(call[i].options) > FormMaxOptions

NoReply == [said |-> ""]
FormInit ==
    /\ form_call \in RawCalls /\ form_ask = <<>>
    /\ form_at = 1 /\ form_slots = <<>> /\ form_confirm = "no" /\ form_nag = FALSE
    /\ form_reply = NoReply /\ form_seen = <<>>

\* AskTool::run up to the question, and View::new; an interrupted turn asks nothing.
FormOpen ==
    /\ form_ask = <<>> /\ form_reply = NoReply
    /\ \E cancel \in BOOLEAN :
       IF Malformed(form_call) \/ cancel
       THEN /\ form_reply' = [said |-> "error"]
            /\ UNCHANGED <<form_ask, form_slots>>
       ELSE /\ form_ask' = [i \in DOMAIN form_call |-> Question(form_call[i])]
            /\ form_slots' = [i \in DOMAIN form_call |-> [sel |-> 1, picked |-> {}, note |-> ""]]
            /\ UNCHANGED form_reply
    /\ UNCHANGED <<form_call, form_at, form_confirm, form_nag, form_seen>>

-----------------------------------------------------------------------------
Here == form_ask[form_at]
Slot == form_slots[form_at]
TypingRow == Len(Here.options) + 1
OnNote == Slot.sel >= TypingRow
Editing == OnNote /\ Slot.note # ""
SlotAnswered(s) == s.picked # {} \/ s.note = "x"
Unanswered(slots) == {i \in DOMAIN slots : ~SlotAnswered(slots[i])}

Ticked(slot, i) ==
    [slot EXCEPT !.sel = i,
        !.picked = (IF Here.multi THEN @ \ {i} ELSE {}) \cup (IF i \in @ THEN {} ELSE {i})]
\* View::pick.
PickRow(i) ==
    IF i \in DOMAIN Here.options
    THEN form_slots' = [form_slots EXCEPT ![form_at] = Ticked(@, i)] /\ form_nag' = FALSE
    ELSE UNCHANGED <<form_slots, form_nag>>

\* View::go.
Go(to) ==
    /\ form_at' = to
    /\ form_nag' = (form_nag /\ to = form_at)

AnswersOf(slots) ==
    [i \in DOMAIN slots |-> [picked |-> slots[i].picked, note |-> IF slots[i].note = "x" THEN "x" ELSE ""]]

\* View::enter.
Enter ==
    LET picks == ~Here.multi /\ ~SlotAnswered(Slot) /\ ~OnNote
        slots == IF picks THEN [form_slots EXCEPT ![form_at] = Ticked(@, Slot.sel)] ELSE form_slots
        open == Unanswered(slots)
    IN /\ form_slots' = slots
       /\ IF open # {}
          THEN /\ form_at' = CHOOSE i \in open : \A j \in open : i <= j
               /\ form_nag' = TRUE
               /\ UNCHANGED <<form_confirm, form_seen>>
          ELSE /\ form_confirm' = "send" /\ form_seen' = AnswersOf(slots)
               /\ form_nag' = (form_nag /\ ~picks)
               /\ UNCHANGED form_at

Type(c) ==
    /\ form_slots' = [form_slots EXCEPT ![form_at].sel = TypingRow, ![form_at].note = c]
    /\ form_nag' = FALSE

\* View::key, while nothing waits to be confirmed.
FormKey ==
    /\ form_ask # <<>> /\ form_confirm = "no"
    /\ \/ /\ form_confirm' = "leave" /\ form_nag' = FALSE                        \* Esc
          /\ UNCHANGED <<form_slots, form_at, form_seen>>
       \/ Enter
       \/ /\ UNCHANGED <<form_confirm, form_seen>>
          /\ \/ /\ \E i \in {Slot.sel - 1, Slot.sel + 1} \cap (1..TypingRow) :   \* Up, Down
                      form_slots' = [form_slots EXCEPT ![form_at].sel = i]
                /\ UNCHANGED <<form_at, form_nag>>
             \/ /\ \E i \in {form_at - 1, form_at + 1} \cap DOMAIN form_ask : Go(i)   \* Left, Right, Tab
                /\ UNCHANGED form_slots
             \/ /\ Slot.note # ""                                                \* Backspace, Delete, C-w, C-u
                /\ form_slots' = [form_slots EXCEPT ![form_at].note = ""]
                /\ UNCHANGED <<form_at, form_nag>>
             \/ /\ Slot.note = ""                                                \* a digit
                /\ \E i \in 1..TypingRow :
                      IF i = TypingRow
                      THEN form_slots' = [form_slots EXCEPT ![form_at].sel = i] /\ UNCHANGED form_nag
                      ELSE PickRow(i)
                /\ UNCHANGED form_at
             \/ /\ ~OnNote /\ PickRow(Slot.sel) /\ UNCHANGED form_at             \* Space
             \/ /\ OnNote /\ Slot.note = "" /\ Type(" ") /\ UNCHANGED form_at
             \/ /\ Slot.note # "x" /\ Type("x") /\ UNCHANGED form_at             \* anything else typed
    /\ UNCHANGED <<form_call, form_ask, form_reply>>

\* report: the questions, and of each its picks and its note.
Reported(slots) == [said |-> "answered", answers |-> AnswersOf(slots), to |-> form_ask]
\* View::confirmed: a key while something waits for a second one.
FormConfirmed ==
    /\ form_ask # <<>> /\ form_confirm # "no"
    /\ form_confirm' = "no"
    /\ \/ UNCHANGED <<form_ask, form_reply>>
       \/ /\ form_ask' = <<>>
          /\ form_reply' = IF form_confirm = "send"
                           THEN Reported(form_slots)
                           ELSE [said |-> "dismissed"]
    /\ UNCHANGED <<form_call, form_at, form_slots, form_nag, form_seen>>

\* The interrupt goes past the box (handle_key, close_ask).
FormInterrupt ==
    /\ form_ask # <<>> /\ form_ask' = <<>> /\ form_reply' = [said |-> "dismissed"]
    /\ UNCHANGED <<form_call, form_view, form_seen>>

\* View::paste: it takes no notice of what waits.
FormPaste ==
    /\ form_ask # <<>> /\ Slot.note # "x"
    /\ \E c \in {" ", "x"} : Type(c)
    /\ UNCHANGED <<form_call, form_ask, form_at, form_confirm, form_reply, form_seen>>

FormNext == FormOpen \/ FormKey \/ FormConfirmed \/ FormInterrupt \/ FormPaste

-----------------------------------------------------------------------------
(* Properties.                                                              *)

\* What the model reads is an answer to every question it asked, with one pick
\* at most where one was asked for, no two of the options offered alike; and
\* the picks are those that were on the screen when the box asked whether to
\* send them (View::enter, View::confirmed).
SentAsShown ==
    form_reply.said = "answered" =>
        /\ Len(form_reply.answers) = Len(form_call) /\ Len(form_reply.answers) = Len(form_seen)
        /\ \A i \in DOMAIN form_reply.answers :
              LET a == form_reply.answers[i] q == form_reply.to[i] IN
              /\ a.picked # {} \/ a.note # ""
              /\ a.picked = form_seen[i].picked
              /\ ~form_call[i].multi => Cardinality(a.picked) <= 1
              /\ \A x, y \in a.picked : x # y => Fold(q.options[x]) # Fold(q.options[y])
\* A box that asks whether to send has an answer to every question, and the
\* question it nags about has none (View::go, View::pick).
NagIsTrue ==
    form_ask # <<>> =>
        /\ form_confirm = "send" => Unanswered(form_slots) = {}
        /\ form_nag => form_at \in Unanswered(form_slots)
FormHolds == SentAsShown /\ NagIsTrue
=============================================================================
