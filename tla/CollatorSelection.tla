-------------------------- MODULE CollatorSelection --------------------------
(***************************************************************************)
(* pallets/collator-selection: the invulnerables, the bonded candidates,   *)
(* the kicking of idle candidates at a session change and the reward of    *)
(* authors, with the part of the currency they use (external).             *)
(*                                                                         *)
(* Here an author may be noted and a session may change at any block; when *)
(* the runtime makes these calls is the concern of CollatorChain.          *)
(***************************************************************************)
EXTENDS Integers, Sequences, FiniteSets, Functions

CONSTANTS
    Account,            \* accounts that may collate
    Pot,                \* the pallet's own account
    MinCandidates,      \* T::MinCandidates
    KickThreshold,      \* T::KickThreshold, in blocks
    ExistentialDeposit, \* the currency's minimum_balance
    InitialFree,        \* free balances at genesis
    Bonds,              \* bound: bonds governance may set
    DesiredCounts,      \* bound: candidate limits governance may set
    InvulnerableLists,  \* bound: invulnerables governance may set
    Rekeyed,            \* bound: accounts that may set or purge session keys
    MaxBlock            \* bound: the last block modelled

Holder == Account \cup {Pot}

ASSUME SelectionAssumption ==
    /\ Pot \notin Account
    /\ MinCandidates \in Nat
    /\ KickThreshold \in Nat
    /\ ExistentialDeposit \in Nat
    /\ InitialFree \in [Holder -> Nat]
    /\ Bonds \subseteq Nat
    /\ DesiredCounts \subseteq Nat
    /\ InvulnerableLists \subseteq Seq(Account)
    /\ Rekeyed \subseteq Account
    /\ MaxBlock \in Nat

ASSUME FiniteAccounts == IsFiniteSet(Account)

VARIABLES
    now,            \* System::block_number
    invulnerables,  \* Invulnerables
    candidates,     \* Candidates: who, and the deposit reserved from them
    lastAuthored,   \* LastAuthoredBlock, 0 for an account without an entry
    desired,        \* DesiredCandidates
    bond,           \* CandidacyBond
    hasKeys,        \* accounts with session keys: is_registered (external)
    free, reserved, \* balances (external)
    collators,      \* what the last new_session returned
    authored,       \* history: the last block an account authored, 0 if none
    joined          \* history: the block of an account's last registration

govVars == <<invulnerables, desired, bond>>
candVars == <<candidates, lastAuthored>>
moneyVars == <<free, reserved>>
historyVars == <<authored, joined>>
vars == <<now, govVars, candVars, hasKeys, moneyVars, collators, historyVars>>

Blocks == 0 .. MaxBlock
Candidate == [who : Account, deposit : Bonds]

TypeOK ==
    /\ now \in Blocks
    /\ invulnerables \in InvulnerableLists
    /\ candidates \in Seq(Candidate)
    /\ lastAuthored \in [Account -> 0 .. (MaxBlock + KickThreshold)]
    /\ desired \in DesiredCounts
    /\ bond \in Bonds
    /\ hasKeys \subseteq Account
    /\ free \in [Holder -> Nat]
    /\ reserved \in [Account -> Nat]
    /\ collators \in Seq(Account)
    /\ authored \in [Account -> Blocks]
    /\ joined \in [Account -> Blocks]

SumOf(amounts) == FoldFunction(+, 0, amounts)

Positions(seq, account) == {i \in DOMAIN seq : seq[i].who = account}
IsCandidate(account) == Positions(candidates, account) # {}
InList(list, account) == \E i \in DOMAIN list : list[i] = account

\* Genesis refuses duplicate invulnerables.
Init ==
    /\ now = 0
    /\ invulnerables \in
         {list \in InvulnerableLists :
             \A i, j \in DOMAIN list : list[i] = list[j] => i = j}
    /\ candidates = <<>>
    /\ lastAuthored = [a \in Account |-> 0]
    /\ desired \in DesiredCounts
    /\ bond \in Bonds
    /\ hasKeys \in {Account \ none : none \in SUBSET Rekeyed}
    /\ free = InitialFree
    /\ reserved = [a \in Account |-> 0]
    /\ collators = invulnerables
    /\ authored = [a \in Account |-> 0]
    /\ joined = [a \in Account |-> 0]

-----------------------------------------------------------------------------
(* The currency (external) *)

Total(account) == free[account] + reserved[account]

\* transfer(from the pot, KeepAlive) fails when it would leave the receiver or
\* the pot below the existential deposit; a transfer of zero always succeeds.
RewardPaid(author, reward) ==
    \/ reward = 0
    \/ /\ Total(author) + reward >= ExistentialDeposit
       /\ free[Pot] - reward >= ExistentialDeposit

Least(x, y) == IF x <= y THEN x ELSE y

\* unreserve returns what it can of the amount.
Unreserve(account, amount) ==
    LET actual == Least(amount, reserved[account])
    IN  /\ free' = [free EXCEPT ![account] = @ + actual]
        /\ reserved' = [reserved EXCEPT ![account] = @ - actual]

\* Anyone may fund the pot while keeping their own account alive.
FundPot(account, amount) ==
    /\ amount \in 1 .. free[account]
    /\ Total(account) - amount >= ExistentialDeposit
    /\ free[Pot] + amount >= ExistentialDeposit
    /\ free' = [free EXCEPT ![account] = @ - amount, ![Pot] = @ + amount]
    /\ UNCHANGED <<now, govVars, candVars, hasKeys, reserved, collators, historyVars>>

-----------------------------------------------------------------------------
(* Governance: each call overwrites its value and looks at nothing else *)

SetInvulnerables(new) ==
    /\ invulnerables' = new
    /\ UNCHANGED <<now, desired, bond, candVars, hasKeys, moneyVars, collators, historyVars>>

SetDesiredCandidates(max) ==
    /\ desired' = max
    /\ UNCHANGED <<now, invulnerables, bond, candVars, hasKeys, moneyVars, collators,
                   historyVars>>

SetCandidacyBond(new) ==
    /\ bond' = new
    /\ UNCHANGED <<now, invulnerables, desired, candVars, hasKeys, moneyVars, collators,
                   historyVars>>

-----------------------------------------------------------------------------
(* Candidates *)

\* Set and purge session keys (external).
ToggleKeys(account) ==
    /\ hasKeys' = IF account \in hasKeys THEN hasKeys \ {account}
                                         ELSE hasKeys \cup {account}
    /\ UNCHANGED <<now, govVars, candVars, moneyVars, collators, historyVars>>

\* Mutated form: the list is not searched for the account.
MayRegisterAgain(who) ==
    /\ Len(candidates) < desired
    /\ ~InList(invulnerables, who)
    /\ who \in hasKeys
    /\ bond <= free[who]

\* Mutated form: the balance is not looked at.
MayRegisterUnfunded(who) ==
    /\ Len(candidates) < desired
    /\ ~InList(invulnerables, who)
    /\ who \in hasKeys
    /\ ~IsCandidate(who)

MayRegister(who) ==
    /\ Len(candidates) < desired
    /\ ~InList(invulnerables, who)
    /\ who \in hasKeys
    /\ ~IsCandidate(who)
    /\ bond <= free[who]

\* Mutated form: no grace on top of the block of the registration.
RegisterWithoutGrace(who) ==
    /\ MayRegister(who)
    /\ free' = [free EXCEPT ![who] = @ - bond]
    /\ reserved' = [reserved EXCEPT ![who] = @ + bond]
    /\ candidates' = Append(candidates, [who |-> who, deposit |-> bond])
    /\ lastAuthored' = [lastAuthored EXCEPT ![who] = now]
    /\ joined' = [joined EXCEPT ![who] = now]
    /\ UNCHANGED <<now, govVars, hasKeys, collators, authored>>

\* Mutated form: the newcomer is put in front.
RegisterInFront(who) ==
    /\ MayRegister(who)
    /\ free' = [free EXCEPT ![who] = @ - bond]
    /\ reserved' = [reserved EXCEPT ![who] = @ + bond]
    /\ candidates' = <<[who |-> who, deposit |-> bond]>> \o candidates
    /\ lastAuthored' = [lastAuthored EXCEPT ![who] = now + KickThreshold]
    /\ joined' = [joined EXCEPT ![who] = now]
    /\ UNCHANGED <<now, govVars, hasKeys, collators, authored>>

RegisterAsCandidate(who) ==
    /\ MayRegister(who)
    /\ free' = [free EXCEPT ![who] = @ - bond]
    /\ reserved' = [reserved EXCEPT ![who] = @ + bond]
    /\ candidates' = Append(candidates, [who |-> who, deposit |-> bond])
    /\ lastAuthored' = [lastAuthored EXCEPT ![who] = now + KickThreshold]
    /\ joined' = [joined EXCEPT ![who] = now]
    /\ UNCHANGED <<now, govVars, hasKeys, collators, authored>>

\* The sequences that keep exactly the given positions, in order: there is one.
Kept(seq, positions) ==
    LET size == Cardinality(positions)
    IN  {[i \in 1 .. size |-> seq[pick[i]]] :
            pick \in {f \in [1 .. size -> positions] :
                        \A i, j \in 1 .. size : i < j => f[i] < f[j]}}

\* Mutated form: returns today's bond, not the deposit of the candidate.
LeaveIntentAtBond(who) ==
    /\ Len(candidates) > MinCandidates
    /\ \E i \in DOMAIN candidates :
          /\ candidates[i].who = who
          /\ Unreserve(who, bond)
          /\ candidates' \in Kept(candidates, DOMAIN candidates \ {i})
    /\ lastAuthored' = [lastAuthored EXCEPT ![who] = 0]
    /\ UNCHANGED <<now, govVars, hasKeys, collators, historyVars>>

LeaveIntent(who) ==
    /\ Len(candidates) > MinCandidates
    /\ \E i \in DOMAIN candidates :
          /\ candidates[i].who = who
          /\ \A j \in 1 .. (i - 1) : candidates[j].who # who
          /\ Unreserve(who, candidates[i].deposit)
          /\ candidates' \in Kept(candidates, DOMAIN candidates \ {i})
    /\ lastAuthored' = [lastAuthored EXCEPT ![who] = 0]
    /\ UNCHANGED <<now, govVars, hasKeys, collators, historyVars>>

-----------------------------------------------------------------------------
(* Called by the authorship and session pallets *)

Reward ==
    IF free[Pot] < ExistentialDeposit THEN 0
    ELSE (free[Pot] - ExistentialDeposit) \div 2

\* Mutated form: the pot pays also when the transfer fails.
NoteAuthorPotPays(author) ==
    /\ \A a \in Account : authored[a] < now
    /\ free' = IF RewardPaid(author, Reward)
               THEN [free EXCEPT ![author] = @ + Reward, ![Pot] = @ - Reward]
               ELSE [free EXCEPT ![Pot] = @ - Reward]
    /\ lastAuthored' = [lastAuthored EXCEPT ![author] = now]
    /\ authored' = [authored EXCEPT ![author] = now]
    /\ UNCHANGED <<now, govVars, candidates, hasKeys, reserved, collators, joined>>

\* A block has one author, who need not be a candidate.  A failed transfer is
\* ignored (outside debug builds).
NoteAuthor(author) ==
    /\ \A a \in Account : authored[a] < now
    /\ free' = IF RewardPaid(author, Reward)
               THEN [free EXCEPT ![author] = @ + Reward, ![Pot] = @ - Reward]
               ELSE free
    /\ lastAuthored' = [lastAuthored EXCEPT ![author] = now]
    /\ authored' = [authored EXCEPT ![author] = now]
    /\ UNCHANGED <<now, govVars, candidates, hasKeys, reserved, collators, joined>>

SaturatingSub(x, y) == IF x >= y THEN x - y ELSE 0

Stale(account) == SaturatingSub(now, lastAuthored[account]) >= KickThreshold

StalePositions == {i \in DOMAIN candidates : Stale(candidates[i].who)}
Before(i) == {j \in StalePositions : j < i}

\* Mutated form: every stale candidate goes, however few remain.
KickedRegardless == StalePositions

\* kick_stale_candidates walks the list and counts what is left before each
\* decision, so it removes the first stale candidates until MinCandidates remain.
KickedPositions ==
    {i \in StalePositions : Cardinality(Before(i)) < Len(candidates) - MinCandidates}

KickedDeposit(account) ==
    LET at == Positions(candidates, account) \cap KickedPositions
    IN  IF at = {} THEN 0 ELSE candidates[CHOOSE i \in at : TRUE].deposit

WhoOf(seq) == [i \in DOMAIN seq |-> seq[i].who]

NewSession ==
    /\ candidates' \in Kept(candidates, DOMAIN candidates \ KickedPositions)
    /\ free' = [h \in Holder |->
                  IF h = Pot THEN free[h]
                  ELSE free[h] + Least(KickedDeposit(h), reserved[h])]
    /\ reserved' = [a \in Account |->
                      reserved[a] - Least(KickedDeposit(a), reserved[a])]
    /\ lastAuthored' = [a \in Account |->
                          IF Positions(candidates, a) \cap KickedPositions # {}
                          THEN 0 ELSE lastAuthored[a]]
    /\ collators' = invulnerables \o WhoOf(candidates')
    /\ UNCHANGED <<now, govVars, hasKeys, historyVars>>

NextBlock ==
    /\ now < MaxBlock
    /\ now' = now + 1
    /\ UNCHANGED <<govVars, candVars, hasKeys, moneyVars, collators, historyVars>>

\* What a transaction or governance may do within a block.
Extrinsic ==
    \/ \E list \in InvulnerableLists : SetInvulnerables(list)
    \/ \E max \in DesiredCounts : SetDesiredCandidates(max)
    \/ \E new \in Bonds : SetCandidacyBond(new)
    \/ \E who \in Account :
          \/ RegisterAsCandidate(who)
          \/ LeaveIntent(who)
          \/ \E amount \in 1 .. free[who] : FundPot(who, amount)
    \/ \E who \in Rekeyed : ToggleKeys(who)

Next ==
    \/ Extrinsic
    \/ \E who \in Account : NoteAuthor(who)
    \/ NewSession
    \/ NextBlock

Spec == Init /\ [][Next]_vars

-----------------------------------------------------------------------------
(* Properties *)

\* No account is twice in the list of candidates, however often it registers,
\* leaves, is kicked and comes back (lib.rs 346-349).
CandidatesUnique ==
    \A i, j \in DOMAIN candidates : candidates[i].who = candidates[j].who => i = j

\* What is reserved from an account is exactly the deposit its candidacy
\* recorded, nothing when it is no candidate, although governance changes the
\* bond while candidates hold deposits (lib.rs 341-351, 391).
DepositsBacked ==
    \A a \in Account :
        /\ IsCandidate(a) => \A i \in Positions(candidates, a) :
                                reserved[a] = candidates[i].deposit
        /\ ~IsCandidate(a) => reserved[a] = 0

\* No call takes the number of candidates below MinCandidates, whether one
\* leaves or a whole session's stale candidates are kicked (lib.rs 44-45).
NeverBelowMinimum ==
    [][Len(candidates') < Len(candidates) => Len(candidates') >= MinCandidates]_candidates

\* A session change never kicks a candidate within KickThreshold blocks of its
\* registration or of a block it authored, before or after it registered; one
\* that authored no block since it registered has KickThreshold blocks more,
\* "to handle session delay" (lib.rs 342-356, 416-424, 452).
KickedOnlyIfIdle ==
    [][\A a \in Account :
        /\ IsCandidate(a)
        /\ Positions(candidates', a) = {}
        /\ NewSession
        => /\ now >= joined[a] + KickThreshold
           /\ authored[a] > 0 => now >= authored[a] + KickThreshold
           /\ \/ authored[a] = 0
              \/ authored[a] < joined[a]
              => now >= joined[a] + 2 * KickThreshold]_vars

\* Candidates stay in the order they came: who remains is ranked as before, and
\* a newcomer is last (lib.rs 41-42).
FirstComeFirstServed ==
    [][\A i, j \in DOMAIN candidates' :
        i < j => \/ Positions(candidates, candidates'[j].who) = {}
                 \/ \E k, l \in DOMAIN candidates :
                      /\ k < l
                      /\ candidates[k] = candidates'[i]
                      /\ candidates[l] = candidates'[j]]_candidates

\* Registering, leaving, kicking and rewarding move money and never make or
\* lose any, also when a reward cannot be paid (lib.rs 351, 391, 442-451).
FundsConserved ==
    SumOf(free) + SumOf(reserved) = SumOf(InitialFree)

\* The transfer of a reward never fails, as the comment and the assertion at
\* lib.rs 449-451 have it.
RewardNeverFails == \A a \in Account : RewardPaid(a, Reward)

-----------------------------------------------------------------------------
(* The inductive invariant *)

\* LastAuthoredBlock of a candidate is the block of its registration plus
\* KickThreshold until it authors, then the last block it authored, be that
\* lower (lib.rs 353-356, 452).
GraceKept ==
    \A a \in Account :
        /\ joined[a] <= now
        /\ authored[a] <= now
        /\ IsCandidate(a) =>
             \/ /\ lastAuthored[a] = joined[a] + KickThreshold
                /\ authored[a] <= joined[a]
             \/ /\ lastAuthored[a] = authored[a]
                /\ authored[a] > 0
                /\ authored[a] >= joined[a]

IInv == TypeOK /\ CandidatesUnique /\ DepositsBacked /\ GraceKept
=============================================================================
