---------------------------- MODULE CollatorChain ----------------------------
(***************************************************************************)
(* The collator selection pallet within its runtime: the hooks that the    *)
(* session and the authorship pallets run at the start of each block, then *)
(* the block's transactions.  The session pallet is external: a session    *)
(* ends every Period blocks, the collators selected then wait one session  *)
(* and take office at the next end (tests.rs 281-314).                     *)
(*                                                                         *)
(* Which of the two hooks is first is the order of the runtime's pallets,  *)
(* and which seat authors a block is Aura's matter: any, in either order.  *)
(***************************************************************************)
EXTENDS CollatorSelection

CONSTANT Period     \* the length of a session, in blocks

\* The runtime has KickThreshold = Period.
ASSUME ChainAssumption ==
    /\ Period \in Nat \ {0}
    /\ KickThreshold = Period

VARIABLES
    validators,     \* Session::validators, as a set (external)
    hooks,          \* what is to run still before the block's transactions
    rotated         \* history: the block of the last session change

chainVars == <<vars, validators, hooks, rotated>>

ChainInit ==
    /\ Init
    /\ validators = Range(invulnerables)
    /\ hooks = {}
    /\ rotated = 0

BeginBlock ==
    /\ hooks = {}
    /\ NextBlock
    /\ hooks' = {"note_author"} \cup (IF now' % Period = 0 THEN {"new_session"} ELSE {})
    /\ UNCHANGED <<validators, rotated>>

\* rotate_session: the collators selected at the last change take office, then
\* the next ones are selected.
RotateSession ==
    /\ "new_session" \in hooks
    /\ NewSession
    /\ validators' = Range(collators)
    /\ hooks' = hooks \ {"new_session"}
    /\ rotated' = now

AuthorBlock(author) ==
    /\ "note_author" \in hooks
    /\ author \in validators
    /\ NoteAuthor(author)
    /\ hooks' = hooks \ {"note_author"}
    /\ UNCHANGED <<validators, rotated>>

\* There are no transactions at genesis.
Transact ==
    /\ hooks = {}
    /\ now > 0
    /\ Extrinsic
    /\ UNCHANGED <<validators, hooks, rotated>>

ChainNext ==
    \/ BeginBlock
    \/ RotateSession
    \/ \E author \in Account : AuthorBlock(author)
    \/ Transact

ChainSpec == ChainInit /\ [][ChainNext]_chainVars

-----------------------------------------------------------------------------
(* Properties *)

\* A session change kicks a candidate only
\*   - that was in office for the whole session that ends and authored none of
\*     its blocks, the first one aside, or
\*   - that is out of office, but authored a block since it registered, in a
\*     seat it had from before: that block ended its grace, or
\*   - that registered in the very block of a session change, two ago: the
\*     grace ends as its first session begins.
\* So a candidate that comes anew, in any other block, and authors in every
\* session it is in office for, beyond the first block of it, stays, although it
\* waits more than a session for its first slot (lib.rs 343-356, 416-424, 452; runtime 237, 277).
KickedOnlyIfAbsent ==
    [][\A a \in Account :
        /\ IsCandidate(a)
        /\ Positions(candidates', a) = {}
        /\ RotateSession
        => \/ /\ a \in validators
              /\ authored[a] <= now - Period
           \/ /\ a \notin validators
              /\ authored[a] > joined[a]
           \/ joined[a] = now - 2 * Period]_chainVars

\* The threshold comes on top of the block of a registration "to handle session
\* delay" (lib.rs 343): a candidate is not kicked before it has had a seat.
GraceCoversDelay ==
    [][\A a \in Account :
        /\ IsCandidate(a)
        /\ Positions(candidates', a) = {}
        /\ RotateSession
        => a \in validators]_chainVars

-----------------------------------------------------------------------------
(* The inductive invariant *)

\* A session change falls due Period blocks after the last one.
SessionsOnTime ==
    /\ rotated \in Nat
    /\ rotated % Period = 0
    /\ IF "new_session" \in hooks THEN now = rotated + Period
       ELSE rotated <= now /\ now < rotated + Period

\* Nobody has registered in a block whose hooks are not done.
HooksFirst == hooks # {} => \A a \in Account : joined[a] < now

\* A candidate keeps its grace until it authors; one that registered before the
\* last session change is selected, one from before the change before is seated.
SeatOnTheWay ==
    \A a \in Account : IsCandidate(a) =>
        /\ authored[a] <= joined[a] => lastAuthored[a] = joined[a] + KickThreshold
        /\ joined[a] < rotated => InList(collators, a)
        /\ joined[a] < rotated - Period => a \in validators

ChainInv == IInv /\ SessionsOnTime /\ HooksFirst /\ SeatOnTheWay
=============================================================================
