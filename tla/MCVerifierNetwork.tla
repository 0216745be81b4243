------------------------- MODULE MCVerifierNetwork -------------------------
(* Values for the constants of VerifierNetwork. *)
EXTENDS VerifierRefinement, TLC

CONSTANTS n1, n2, a1, a2, e1, e2, e3, k1, k2, p1, c1, c2

LocalKeys == (n1 :> k1) @@ (n2 :> k2)
MCLocalKey == [n \in Node |-> LocalKeys[n]]

\* e1 and e3 are genuine, e2 names an account that is not hexadecimal.
Verdicts ==
    (e1 :> [pubkey |-> p1, code |-> c1, account |-> a1]) @@
    (e2 :> [pubkey |-> p1, code |-> c1, account |-> NotHex]) @@
    (e3 :> [pubkey |-> p1, code |-> c2, account |-> a1])
MCVerdict == [e \in Evidence |-> Verdicts[e]]
=============================================================================
