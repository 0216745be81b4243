------------------------ MODULE MCCollatorSelection ------------------------
(* Values for the constants of CollatorSelection. *)
EXTENDS CollatorSelection, TLC

CONSTANTS a1, a2, a3, pot

OnlyNone == {<<>>}
NoneOrSecond == {<<>>, <<a2>>, <<a2, a2>>}

\* The first account can fund the pot, the second cannot pay the higher of two
\* bonds, the third does not exist.
Unequal == [h \in Holder |-> IF h = a1 THEN 7 ELSE IF h = a2 THEN 2 ELSE 0]

\* The first account can fund the pot, the second does not exist yet.
OneRich == [h \in Holder |-> IF h = a1 THEN 7 ELSE 0]
=============================================================================
