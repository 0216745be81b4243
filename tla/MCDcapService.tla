---------------------------- MODULE MCDcapService -----------------------------
(* Two threads of the DCAP service and two requests of every kind. *)
EXTENDS DcapService, TLC

CONSTANTS r1, r2, t1, t2

MCRequest == {r1, r2}
MCThread == {t1, t2}
MCKind == {"throws", "malformed", "odd_sig", "odd_quote", "short_quote", "bad_point", "sound"}
Same == Permutations(MCRequest) \cup Permutations(MCThread)
=============================================================================
