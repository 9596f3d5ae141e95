----------------------------- MODULE DenyRules -----------------------------
(***************************************************************************)
(* How a shell command is read against the deny rules (ah-core/src/        *)
(* policy.rs).  A command is pieces, a piece is words as somebody spells   *)
(* them: wrappers in front, flags grouped or long, in any place.  The      *)
(* letters of a word are left out: what tells words apart is their kind.   *)
(***************************************************************************)
EXTENDS Naturals, Sequences, SequencesExt, FiniteSets

CONSTANTS
    DenyProgs,     \* programs
    DenyFlags,     \* short flags, each with a long spelling in FLAG_ALIASES
    DenyOps,       \* operands
    DenyList,      \* the rules, as pieces
    DenyWrap,      \* bound: wrappers of a piece
    DenyPieces     \* bound: pieces of a command

VARIABLES
    deny_cmd,      \* the command, a sequence of pieces
    deny_meant     \* history: what each piece runs

deny_vars == <<deny_cmd, deny_meant>>

Word(kind, of) == [kind |-> kind, of |-> of]
WrapWord == Word("wrap", <<>>)

\* flags_of: the flags a word names, its long spellings put back.
FlagsOf(w) == CASE w.kind = "flags" -> ToSet(w.of) [] w.kind = "long" -> {w.of[1]} [] OTHER -> {}
\* passes_along: a word in command position that hands it to the next.
PassesAlong(w) == w.kind \in {"wrap", "flags", "long"}

\* What is left after the words in front: empty if no program is.
AfterWrappers(ws) ==
    LET k == SelectInSeq(ws, LAMBDA w : ~PassesAlong(w)) IN IF k = 0 THEN <<>> ELSE SubSeq(ws, k, Len(ws))
\* read: a program, its flags in no order, its operands in theirs.
ReadPiece(ws) ==
    LET rest == AfterWrappers(ws) IN
    IF rest = <<>> THEN [prog |-> "", flags |-> {}, ops |-> <<>>]
    ELSE [prog |-> Head(rest).of[1],
          flags |-> UNION {FlagsOf(w) : w \in ToSet(Tail(rest))},
          ops |-> LET ops == SelectSeq(Tail(rest), LAMBDA w : w.kind \in {"op", "prog"})
                  IN [i \in DOMAIN ops |-> ops[i].of[1]]]

\* segments: the pieces that run something, without what stands in front.
Segments(cmd) == SelectSeq([i \in DOMAIN cmd |-> AfterWrappers(cmd[i])], LAMBDA ws : ws # <<>>)

Covers(r, s) == /\ r.prog # "" /\ r.prog = s.prog /\ r.flags \subseteq s.flags
                /\ Len(r.ops) <= Len(s.ops) /\ r.ops = SubSeq(s.ops, 1, Len(r.ops))
\* rule_matches: as text, or as a command.  (A rule that ends in * is text only.)
RuleMatches(rule, ws) == IsPrefix(rule, ws) \/ Covers(ReadPiece(rule), ReadPiece(ws))
\* denied.
DeniedBy(cmd, rules) == \E r \in rules, i \in DOMAIN Segments(cmd) : RuleMatches(r, Segments(cmd)[i])

-----------------------------------------------------------------------------
(* Somebody writes a command, and then writes it another way.               *)

Spell(m) == <<Word("prog", <<m.prog>>)>> \o (IF m.flags = {} THEN <<>> ELSE <<Word("flags", SetToSeq(m.flags))>>)
            \o [i \in DOMAIN m.ops |-> Word("op", <<m.ops[i]>>)]
Meanings == [prog : DenyProgs, flags : SUBSET DenyFlags, ops : {<<>>} \cup {<<o>> : o \in DenyOps}]

DenyInit == deny_cmd = <<>> /\ deny_meant = <<>>
WritePiece ==
    /\ Len(deny_cmd) < DenyPieces
    /\ \E m \in Meanings : deny_meant' = Append(deny_meant, m) /\ deny_cmd' = Append(deny_cmd, Spell(m))
\* Swaps that keep the program first and the operands in order.
MaySwap(a, b) == /\ a.kind \in {"flags", "long"} /\ b.kind \in {"flags", "long", "op"}
Respelled(ws) ==
    (IF Cardinality({i \in DOMAIN ws : ws[i].kind = "wrap"}) < DenyWrap THEN {<<WrapWord>> \o ws} ELSE {})
    \cup {ReplaceAt(ReplaceAt(ws, i, ws[i + 1]), i + 1, ws[i]) : i \in {j \in 1..Len(ws) - 1 : MaySwap(ws[j], ws[j + 1])}}
    \cup {ReplaceAt(ws, i, Word("long", ws[i].of)) : i \in {j \in DOMAIN ws : ws[j].kind = "flags" /\ Len(ws[j].of) = 1}}
    \cup {SubSeq(ws, 1, i - 1) \o [k \in 1..Len(ws[i].of) |-> Word("flags", <<ws[i].of[k]>>)]
             \o SubSeq(ws, i + 1, Len(ws)) : i \in {j \in DOMAIN ws : ws[j].kind = "flags"}}
Respell ==
    /\ \E i \in DOMAIN deny_cmd : \E ws \in Respelled(deny_cmd[i]) : deny_cmd' = [deny_cmd EXCEPT ![i] = ws]
    /\ UNCHANGED deny_meant

DenyNext == WritePiece \/ Respell
DenySpec == DenyInit /\ [][DenyNext]_deny_vars

-----------------------------------------------------------------------------
(* Property. *)

\* However a command is spelled, it is denied exactly when one of the programs
\* it runs is what a rule names, with at least its flags and its operands first.
DeniedAsMeant ==
    DeniedBy(deny_cmd, DenyList) <=>
        \E i \in DOMAIN deny_meant : \E r \in DenyList : Covers(ReadPiece(r), deny_meant[i])
=============================================================================
