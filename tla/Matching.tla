------------------------------- MODULE Matching -------------------------------
(***************************************************************************)
(* How a picker finds what is typed into it (fuzzy_score and rank in        *)
(* ah-core/src/models.rs): each term has to be found in a name letter by    *)
(* letter, in order, whatever the case, and letters found at the start, at  *)
(* the start of a word or one after another count for more.  Names in plain *)
(* ASCII have a path of their own.  A character is a letter of a small       *)
(* alphabet; one of them, "ii", is not ASCII and folds to two.              *)
(***************************************************************************)
EXTENDS Integers, Sequences, SequencesExt, FiniteSets

CONSTANTS
    MatchQuery,   \* bound: letters typed
    MatchName     \* bound: letters of a name

VARIABLES
    mt_query,     \* what has been typed
    mt_names,     \* the catalogue
    mt_rows       \* the rows shown: places in the catalogue, best first

mt_vars == <<mt_query, mt_names, mt_rows>>

Letters  == {"a", "A", "/", "ii"}    \* of a name
Keys     == {"a", "i", "/", " "}     \* of a query
Lower(ch) == CASE ch = "A" -> <<"a">> [] ch = "ii" -> <<"i", "dot">> [] OTHER -> <<ch>>
Folded(text) == FlattenSeq([k \in DOMAIN text |-> Lower(text[k])])
IsAscii(text) == "ii" \notin ToSet(text)
InWord(ch) == ch \notin {"/", " ", "dot"}
NoScore == -1
Less(score, len) == LET off == (IF len < 200 THEN len ELSE 200) \div 4 IN IF score > off THEN score - off ELSE 0

\* fuzzy_score over characters: one walk, in which a letter found is passed.
CharScore(query, name) ==
    LET q == Folded(query)
        c == Folded(name)
        Step(w, ch) ==
            IF w.next > Len(q) \/ q[w.next] # ch THEN [w EXCEPT !.at = @ + 1]
            ELSE [at |-> w.at + 1, next |-> w.next + 1, last |-> w.at,
                  score |-> w.score + 10
                    + (IF w.at = 1 THEN 30 ELSE IF ~InWord(c[w.at - 1]) THEN 20 ELSE 0)
                    + (IF w.last > 0 /\ w.last = w.at - 1 THEN 15 ELSE 0)]
        walk == FoldLeft(Step, [at |-> 1, next |-> 1, last |-> 0, score |-> 0], c)
    IN  IF walk.next <= Len(q) THEN NoScore ELSE Less(walk.score, Len(c))

\* ascii_score: the same over bytes, by where each letter is found.
NotFound == <<0>>
FoundAt(q, c) ==
    FoldLeft(LAMBDA at, ch :
        LET from  == IF at = <<>> THEN 0 ELSE Last(at)
            later == {i \in DOMAIN c : i > from /\ Lower(c[i]) = Lower(ch)}
        IN  IF at = NotFound \/ later = {} THEN NotFound
            ELSE Append(at, CHOOSE i \in later : \A j \in later : i <= j), <<>>, q)
ByteScore(q, c) ==
    LET at == FoundAt(q, c)
        worth(k) == 10 + (IF at[k] = 1 THEN 30 ELSE IF ~InWord(c[at[k] - 1]) THEN 20 ELSE 0)
                       + (IF k > 1 /\ at[k - 1] = at[k] - 1 THEN 15 ELSE 0)
    IN  IF at = NotFound THEN NoScore
        ELSE Less(FoldLeft(LAMBDA sum, k : sum + worth(k), 0, [k \in DOMAIN at |-> k]), Len(c))
TermScore(term, name) ==
    IF IsAscii(term) /\ IsAscii(name) THEN ByteScore(term, name) ELSE CharScore(term, name)
\* The terms of a query: what stands between its spaces.
Terms(query) ==
    LET ends == SetToSortSeq({k \in DOMAIN query : query[k] # " " /\ (k = Len(query) \/ query[k + 1] = " ")}, <)
        begin(k) == CHOOSE j \in 1..k : /\ \A i \in j..k : query[i] # " "
                                        /\ (j = 1 \/ query[j - 1] = " ")
    IN  [n \in DOMAIN ends |-> SubSeq(query, begin(ends[n]), ends[n])]
Score(query, name) ==
    IF query = <<>> THEN 1
    ELSE FoldLeft(LAMBDA sum, term : LET s == TermScore(term, name)
                                     IN IF sum = NoScore \/ s = NoScore THEN NoScore ELSE sum + s,
                  0, Terms(query))

\* rank: the names that match, best first, those alike in the order they had.
Ranked(query, names) ==
    LET scored == {<<Score(query, names[n]), n>> : n \in DOMAIN names}
        rows == SetToSortSeq({r \in scored : r[1] # NoScore},
                             LAMBDA r, t : r[1] > t[1] \/ (r[1] = t[1] /\ r[2] < t[2]))
    IN  [k \in DOMAIN rows |-> rows[k][2]]

-----------------------------------------------------------------------------
Texts(of, n) == UNION {[1..k -> of] : k \in 1..n}
MatchInit ==
    /\ mt_query = <<>>
    /\ \E one \in Texts(Letters, MatchName), two \in {<<"a">>, <<"/", "a">>, <<"ii">>} : mt_names = <<one, two>>
    /\ mt_rows = <<1, 2>>
Retyped(query) == mt_query' = query /\ mt_rows' = Ranked(query, mt_names) /\ UNCHANGED mt_names
Types(ch) == Len(mt_query) < MatchQuery /\ Retyped(Append(mt_query, ch))
Rubs == mt_query # <<>> /\ Retyped(Front(mt_query))
MatchNext == Rubs \/ \E ch \in Keys : Types(ch)
MatchSpec == MatchInit /\ [][MatchNext]_mt_vars

-----------------------------------------------------------------------------
(* Properties. *)

\* The path for ASCII scores what the general one would: the same score, so the
\* same order, whichever of the two a row is compared by.
PathsAgree ==
    \A n \in DOMAIN mt_names : \A term \in ToSet(Terms(mt_query)) :
        IsAscii(mt_names[n]) => ByteScore(term, mt_names[n]) = CharScore(term, mt_names[n])
\* A row is shown exactly when each term can be read in its name, left to right:
\* taking each letter at the first place it fits misses no name that has them.
ShownIfReadable ==
    \A n \in DOMAIN mt_names :
        LET c == Folded(mt_names[n])
            readable(q) == \E at \in [DOMAIN q -> DOMAIN c] :
                /\ \A k \in DOMAIN q : c[at[k]] = q[k]
                /\ \A k \in DOMAIN q \ {1} : at[k - 1] < at[k]
        IN  n \in ToSet(mt_rows) <=> \A term \in ToSet(Terms(mt_query)) : readable(Folded(term))
\* A letter more never brings a row back.
OnlyNarrows == mt_query # <<>> => ToSet(mt_rows) \subseteq ToSet(Ranked(Front(mt_query), mt_names))
MatchHolds == PathsAgree /\ ShownIfReadable /\ OnlyNarrows
=============================================================================
