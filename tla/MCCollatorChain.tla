--------------------------- MODULE MCCollatorChain ---------------------------
(* Values for the constants of CollatorChain. *)
EXTENDS CollatorChain, KickLoop, TLC

CONSTANTS i1, c1, c2, pot

OnlyFirst == {<<i1>>}

\* Governance may appoint the first candidate, or an account that becomes one.
OneOrTwo == {<<i1>>, <<i1, c1>>}

\* Enough for a bond and no more: the pot stays empty.
BondOnly == [h \in Holder |-> IF h = Pot THEN 0 ELSE 2]
=============================================================================
