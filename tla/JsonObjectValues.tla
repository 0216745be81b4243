---------------------------- MODULE JsonObjectValues ---------------------------
(***************************************************************************)
(* The values that the objects of JsonOwnership stand for: trees, as       *)
(* JsonValues has them.                                                    *)
(***************************************************************************)
EXTENDS JsonOwnership

RECURSIVE TreeOf(_)
TreeOf(v) ==
    IF v.type = "Null" THEN [type |-> "Null", data |-> 0, kids |-> <<>>]
    ELSE IF v.type = "Integral" THEN [type |-> "Integral", data |-> v.word, kids |-> <<>>]
    ELSE [type |-> v.type, data |-> heap[v.word].data,
          kids |-> [i \in DOMAIN heap[v.word].kids |-> <<heap[v.word].kids[i][1], TreeOf(heap[v.word].kids[i][2])>>]]

Trees == INSTANCE JsonValues WITH value <- [x \in Var |-> TreeOf(root[x])]

\* Objects are values: what one place is given, changed to or moved from shows
\* in no other (Json.h 226-421, 464-604, 831-848).
RefinesValues == Trees!Spec
=============================================================================
