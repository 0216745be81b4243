------------------------------ MODULE KickLoop ------------------------------
(***************************************************************************)
(* kick_stale_candidates as the loop it is: candidate by candidate over a  *)
(* copy of the list, removing from storage as it goes.  CollatorSelection  *)
(* states its outcome as one set of positions; here the two are compared.  *)
(***************************************************************************)
EXTENDS CollatorSelection, SequencesExt

\* try_remove_candidate: the first entry of the account, if there is one.
TryRemove(state, who) ==
    LET at == {i \in DOMAIN state.left : state.left[i].who = who}
    IN  IF at = {} THEN [state EXCEPT !.failed = TRUE]
        ELSE [state EXCEPT !.left = RemoveAt(@, CHOOSE i \in at : \A j \in at : i <= j),
                           !.last[who] = 0]

\* Mutated form: the list is counted once, before the loop.
KickOneSnapshot(state, candidate) ==
    IF \/ SaturatingSub(now, state.last[candidate.who]) < KickThreshold
       \/ Len(candidates) <= MinCandidates
    THEN [state EXCEPT !.active = Append(@, candidate.who)]
    ELSE TryRemove(state, candidate.who)

KickOne(state, candidate) ==
    IF \/ SaturatingSub(now, state.last[candidate.who]) < KickThreshold
       \/ Len(state.left) <= MinCandidates
    THEN [state EXCEPT !.active = Append(@, candidate.who)]
    ELSE TryRemove(state, candidate.who)

KickStaleCandidates ==
    FoldLeft(KickOne,
             [left |-> candidates, last |-> lastAuthored, active |-> <<>>, failed |-> FALSE],
             candidates)

\* In every reachable state the loop removes what it sets out to remove, returns
\* exactly the candidates it leaves in storage, and leaves those that NewSession
\* keeps (lib.rs 409-434 and its assertion).
LoopAgrees ==
    LET end == KickStaleCandidates
    IN  /\ ~end.failed
        /\ end.active = WhoOf(end.left)
        /\ Kept(candidates, DOMAIN candidates \ KickedPositions) = {end.left}
=============================================================================
