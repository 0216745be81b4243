------------------------ MODULE CollatorChain_proofs ------------------------
(***************************************************************************)
(* Proofs about collator-selection, alone and within its runtime: for any  *)
(* number of accounts and blocks and sessions of any length, and that the  *)
(* loop of KickLoop removes the candidates that NewSession leaves out.     *)
(***************************************************************************)
EXTENDS CollatorChain, KickLoop, SequenceTheorems, FiniteSetTheorems, TLAPS

-----------------------------------------------------------------------------
(* Sequences cut down to some of their positions *)

\* How a sequence is cut down to some of its positions: the entries picked from
\* them, in their order, and none missed.
Picks(pick, kept, seq, positions) ==
    /\ pick \in [DOMAIN kept -> positions]
    /\ \A i, j \in DOMAIN kept : i < j => pick[i] < pick[j]
    /\ \A i \in DOMAIN kept : kept[i] = seq[pick[i]]
    /\ \A p \in positions : \E i \in DOMAIN kept : pick[i] = p

\* A sequence cut down to some positions has one entry per position, in the
\* same order, and each position has its entry.
LEMMA KeptParts ==
    ASSUME NEW S, NEW seq \in Seq(S), NEW positions \in SUBSET DOMAIN seq,
           NEW kept \in Kept(seq, positions)
    PROVE  /\ Cardinality(positions) \in Nat
           /\ kept \in Seq(S)
           /\ Len(kept) = Cardinality(positions)
           /\ \E pick : Picks(pick, kept, seq, positions)
<1> DEFINE size == Cardinality(positions)
<1>1. /\ IsFiniteSet(positions)
      /\ size \in Nat
  <2>1. IsFiniteSet(1 .. Len(seq))
    BY FS_Interval
  <2>2. positions \in SUBSET (1 .. Len(seq))
    OBVIOUS
  <2> QED
    BY <2>1, <2>2, FS_Subset, FS_CardinalityType
<1> HIDE DEF size
<1>2. PICK pick \in [1 .. size -> positions] :
        /\ \A i, j \in 1 .. size : i < j => pick[i] < pick[j]
        /\ kept = [i \in 1 .. size |-> seq[pick[i]]]
  BY DEF Kept, size
<1>3. /\ kept \in Seq(S)
      /\ Len(kept) = size
      /\ DOMAIN kept = 1 .. size
  <2>1. \A i \in 1 .. size : seq[pick[i]] \in S
    BY <1>2
  <2> QED
    BY <1>1, <1>2, <2>1
<1>4. \A p \in positions : \E i \in 1 .. size : pick[i] = p
  <2>1. \A i, j \in 1 .. size : pick[i] = pick[j] => i = j
    <3> SUFFICES ASSUME NEW i \in 1 .. size, NEW j \in 1 .. size, i # j
                 PROVE  pick[i] # pick[j]
      OBVIOUS
    <3>1. i < j \/ j < i
      BY <1>1
    <3>2. pick[i] \in Int /\ pick[j] \in Int
      BY <1>2
    <3> QED
      BY <1>2, <3>1, <3>2
  <2>2. pick \in Injection(1 .. size, positions)
    BY <1>2, <2>1 DEF Injection, IsInjective
  <2>3. Cardinality(1 .. size) = size
    BY <1>1, FS_Interval
  <2>4. pick \in Surjection(1 .. size, positions)
    BY <1>1, <2>2, <2>3, FS_Injection DEF size
  <2> QED
    BY <2>4 DEF Surjection
<1>5. Picks(pick, kept, seq, positions)
  BY <1>2, <1>3, <1>4 DEF Picks
<1> QED
  BY <1>1, <1>3, <1>5 DEF size

-----------------------------------------------------------------------------
(* Type correctness *)

\* Each entry of a list of candidates has an account and an amount.
LEMMA EntryTyped ==
    ASSUME NEW list \in Seq(Candidate), NEW i \in DOMAIN list
    PROVE  /\ list[i].who \in Account
           /\ list[i].deposit \in Nat
<1>1. list[i] \in Candidate
  OBVIOUS
<1> QED
  BY <1>1, SelectionAssumption DEF Candidate

\* Each set of positions that is removed leaves a list of candidates.
LEMMA KeptCandidates ==
    ASSUME TypeOK, NEW removed, candidates' \in Kept(candidates, DOMAIN candidates \ removed)
    PROVE  candidates' \in Seq(Candidate)
<1>1. candidates \in Seq(Candidate)
  BY DEF TypeOK
<1>2. DOMAIN candidates \ removed \in SUBSET DOMAIN candidates
  OBVIOUS
<1> QED
  BY <1>1, <1>2, KeptParts

\* What an account gets back is an amount it has reserved.
LEMMA ReturnedAmount ==
    ASSUME NEW x \in Nat, NEW y \in Nat
    PROVE  /\ Least(x, y) \in Nat
           /\ Least(x, y) <= x
           /\ Least(x, y) <= y
BY DEF Least

\* The deposit a session change returns is an amount.
LEMMA KickedDepositTyped ==
    ASSUME TypeOK, NEW a \in Account
    PROVE  KickedDeposit(a) \in Nat
<1> DEFINE at == Positions(candidates, a) \cap KickedPositions
<1>1. CASE at = {}
  BY <1>1 DEF KickedDeposit
<1>2. CASE at # {}
  <2>1. \A i \in at : candidates[i].deposit \in Nat
    BY EntryTyped DEF TypeOK, Positions
  <2>2. (CHOOSE i \in at : TRUE) \in at
    BY <1>2
  <2> QED
    BY <1>2, <2>1, <2>2 DEF KickedDeposit
<1> QED
  BY <1>1, <1>2

\* A reward is an amount the pot has (lib.rs 445-448).
LEMMA RewardTyped ==
    ASSUME TypeOK
    PROVE  /\ Reward \in Nat
           /\ Reward <= free[Pot]
<1>1. /\ free[Pot] \in Nat
      /\ ExistentialDeposit \in Nat
  BY SelectionAssumption DEF TypeOK, Holder
<1>2. ASSUME NEW n \in Nat
      PROVE  n \div 2 \in Nat /\ n \div 2 <= n
  BY <1>2
<1>3. CASE free[Pot] < ExistentialDeposit
  BY <1>1, <1>3 DEF Reward
<1>4. CASE ~(free[Pot] < ExistentialDeposit)
  <2>1. free[Pot] - ExistentialDeposit \in Nat
    BY <1>1, <1>4
  <2>2. Reward = (free[Pot] - ExistentialDeposit) \div 2
    BY <1>4 DEF Reward
  <2> QED
    BY <1>1, <1>2, <2>1, <2>2
<1> QED
  BY <1>3, <1>4

\* A registration keeps the storage well-typed (lib.rs 327-363).
LEMMA RegisterTyped ==
    ASSUME TypeOK, NEW who \in Account, RegisterAsCandidate(who)
    PROVE  TypeOK'
<1>1. free' \in [Holder -> Nat]
  <2>1. /\ free[who] \in Nat
        /\ bond \in Nat
        /\ bond <= free[who]
    BY SelectionAssumption DEF TypeOK, Holder, RegisterAsCandidate, MayRegister
  <2>2. free[who] - bond \in Nat
    BY <2>1
  <2> QED
    BY <2>2 DEF TypeOK, RegisterAsCandidate
<1>2. reserved' \in [Account -> Nat]
  <2>1. reserved[who] + bond \in Nat
    BY SelectionAssumption DEF TypeOK
  <2> QED
    BY <2>1 DEF TypeOK, RegisterAsCandidate
<1>3. candidates' \in Seq(Candidate)
  <2>1. [who |-> who, deposit |-> bond] \in Candidate
    BY DEF TypeOK, Candidate
  <2> QED
    BY <2>1 DEF TypeOK, RegisterAsCandidate
<1>4. lastAuthored' \in [Account -> 0 .. (MaxBlock + KickThreshold)]
  <2>1. now + KickThreshold \in 0 .. (MaxBlock + KickThreshold)
    BY SelectionAssumption DEF TypeOK, Blocks
  <2> QED
    BY <2>1 DEF TypeOK, RegisterAsCandidate
<1> QED
  BY <1>1, <1>2, <1>3, <1>4 DEF TypeOK, RegisterAsCandidate, govVars

\* A candidate that leaves keeps the storage well-typed (lib.rs 366-375).
LEMMA LeaveTyped ==
    ASSUME TypeOK, NEW who \in Account, LeaveIntent(who)
    PROVE  TypeOK'
<1>1. PICK i \in DOMAIN candidates :
        /\ Unreserve(who, candidates[i].deposit)
        /\ candidates' \in Kept(candidates, DOMAIN candidates \ {i})
  BY DEF LeaveIntent
<1>2. candidates[i].deposit \in Nat
  BY EntryTyped DEF TypeOK
<1> DEFINE actual == Least(candidates[i].deposit, reserved[who])
<1>3. /\ actual \in Nat
      /\ actual <= reserved[who]
  BY <1>2, ReturnedAmount DEF TypeOK
<1>4. /\ free' \in [Holder -> Nat]
      /\ reserved' \in [Account -> Nat]
  <2>1. free[who] + actual \in Nat /\ reserved[who] - actual \in Nat
    BY <1>3 DEF TypeOK, Holder
  <2> QED
    BY <1>1, <2>1 DEF TypeOK, Unreserve
<1>5. candidates' \in Seq(Candidate)
  BY <1>1, KeptCandidates
<1>6. lastAuthored' \in [Account -> 0 .. (MaxBlock + KickThreshold)]
  BY SelectionAssumption DEF TypeOK, LeaveIntent
<1> QED
  BY <1>4, <1>5, <1>6 DEF TypeOK, LeaveIntent, govVars, historyVars

\* Noting an author keeps the storage well-typed (lib.rs 442-458).
LEMMA NoteAuthorTyped ==
    ASSUME TypeOK, NEW who \in Account, NoteAuthor(who)
    PROVE  TypeOK'
<1>1. free' \in [Holder -> Nat]
  <2>1. CASE RewardPaid(who, Reward)
    <3>1. who # Pot /\ who \in Holder /\ Pot \in Holder
      BY SelectionAssumption DEF Holder
    <3>2. free[who] + Reward \in Nat /\ free[Pot] - Reward \in Nat
      BY <3>1, RewardTyped DEF TypeOK
    <3> QED
      BY <2>1, <3>1, <3>2 DEF TypeOK, NoteAuthor
  <2>2. CASE ~RewardPaid(who, Reward)
    BY <2>2 DEF TypeOK, NoteAuthor
  <2> QED
    BY <2>1, <2>2
<1>2. now \in 0 .. (MaxBlock + KickThreshold)
  BY SelectionAssumption DEF TypeOK, Blocks
<1> QED
  BY <1>1, <1>2 DEF TypeOK, NoteAuthor, govVars

\* A session change keeps the storage well-typed (lib.rs 467-486).
LEMMA NewSessionTyped ==
    ASSUME TypeOK, NewSession
    PROVE  TypeOK'
<1>1. candidates' \in Seq(Candidate)
  BY KeptCandidates DEF NewSession
<1>2. ASSUME NEW a \in Account
      PROVE  /\ free[a] + Least(KickedDeposit(a), reserved[a]) \in Nat
             /\ reserved[a] - Least(KickedDeposit(a), reserved[a]) \in Nat
  <2>1. reserved[a] \in Nat /\ free[a] \in Nat /\ KickedDeposit(a) \in Nat
    BY KickedDepositTyped DEF TypeOK, Holder
  <2> DEFINE actual == Least(KickedDeposit(a), reserved[a])
  <2>2. actual \in Nat /\ actual <= reserved[a]
    BY <2>1, ReturnedAmount
  <2> QED
    BY <2>1, <2>2
<1>3. free' \in [Holder -> Nat]
  BY <1>2 DEF TypeOK, NewSession, Holder
<1>4. reserved' \in [Account -> Nat]
  BY <1>2 DEF TypeOK, NewSession
<1>5. lastAuthored' \in [Account -> 0 .. (MaxBlock + KickThreshold)]
  BY SelectionAssumption DEF TypeOK, NewSession
<1>6. collators' \in Seq(Account)
  <2>1. WhoOf(candidates') \in Seq(Account)
    <3>1. \A i \in 1 .. Len(candidates') : candidates'[i].who \in Account
      BY <1>1, EntryTyped
    <3> QED
      BY <1>1, <3>1 DEF WhoOf
  <2>2. invulnerables \in Seq(Account)
    BY SelectionAssumption DEF TypeOK
  <2> QED
    BY <2>1, <2>2 DEF NewSession
<1> QED
  BY <1>1, <1>3, <1>4, <1>5, <1>6 DEF TypeOK, NewSession, govVars, historyVars

\* Funding the pot keeps the storage well-typed.
LEMMA FundPotTyped ==
    ASSUME TypeOK, NEW who \in Account, NEW amount \in 1 .. free[who], FundPot(who, amount)
    PROVE  TypeOK'
<1>1. who # Pot /\ who \in Holder /\ Pot \in Holder
  BY SelectionAssumption DEF Holder
<1>2. free[who] - amount \in Nat /\ free[Pot] + amount \in Nat
  BY <1>1 DEF TypeOK
<1> QED
  BY <1>1, <1>2 DEF TypeOK, FundPot, govVars, candVars, historyVars

\* Each step keeps the storage well-typed.
LEMMA StepTyped ==
    ASSUME TypeOK, [Next]_vars
    PROVE  TypeOK'
<1>1. ASSUME NEW list \in InvulnerableLists, SetInvulnerables(list)
      PROVE  TypeOK'
  BY <1>1 DEF TypeOK, SetInvulnerables, candVars, moneyVars, historyVars
<1>2. ASSUME NEW max \in DesiredCounts, SetDesiredCandidates(max)
      PROVE  TypeOK'
  BY <1>2 DEF TypeOK, SetDesiredCandidates, candVars, moneyVars, historyVars
<1>3. ASSUME NEW new \in Bonds, SetCandidacyBond(new)
      PROVE  TypeOK'
  BY <1>3 DEF TypeOK, SetCandidacyBond, candVars, moneyVars, historyVars
<1>4. ASSUME NEW who \in Rekeyed, ToggleKeys(who)
      PROVE  TypeOK'
  <2>1. hasKeys' \subseteq Account
    BY <1>4, SelectionAssumption DEF TypeOK, ToggleKeys
  <2> QED
    BY <1>4, <2>1 DEF TypeOK, ToggleKeys, govVars, candVars, moneyVars, historyVars
<1>5. CASE NextBlock
  <2>1. now' \in Blocks
    BY <1>5, SelectionAssumption DEF TypeOK, NextBlock, Blocks
  <2> QED
    BY <1>5, <2>1 DEF TypeOK, NextBlock, govVars, candVars, moneyVars, historyVars
<1>6. CASE UNCHANGED vars
  BY <1>6 DEF TypeOK, vars, govVars, candVars, moneyVars, historyVars
<1> QED
  BY <1>1, <1>2, <1>3, <1>4, <1>5, <1>6, RegisterTyped, LeaveTyped, NoteAuthorTyped,
     FundPotTyped, NewSessionTyped DEF Next, Extrinsic

\* The genesis state is well-typed.
LEMMA InitTyped == Init => TypeOK
<1> SUFFICES ASSUME Init PROVE TypeOK
  OBVIOUS
<1>1. /\ 0 \in Blocks
      /\ 0 \in 0 .. (MaxBlock + KickThreshold)
  BY SelectionAssumption DEF Blocks
<1>2. /\ invulnerables \in InvulnerableLists
      /\ collators \in Seq(Account)
      /\ hasKeys \subseteq Account
  BY SelectionAssumption DEF Init
<1> QED
  BY <1>1, <1>2, SelectionAssumption DEF Init, TypeOK

\* The pallet's storage and the balances keep their types; above all no call
\* makes a balance negative (lib.rs 351, 391, 445-450).
THEOREM TypeCorrect == Spec => []TypeOK
<1>1. TypeOK /\ [Next]_vars => TypeOK'
  BY StepTyped
<1> QED
  BY <1>1, InitTyped, PTL DEF Spec

-----------------------------------------------------------------------------
(* One candidacy per account, and its deposit *)

\* The candidates that are kept are picked in their order, and none is missed.
LEMMA PickKept ==
    ASSUME TypeOK, NEW removed, candidates' \in Kept(candidates, DOMAIN candidates \ removed)
    PROVE  /\ candidates' \in Seq(Candidate)
           /\ Len(candidates') = Cardinality(DOMAIN candidates \ removed)
           /\ \E pick : Picks(pick, candidates', candidates, DOMAIN candidates \ removed)
<1>1. /\ candidates \in Seq(Candidate)
      /\ DOMAIN candidates \ removed \in SUBSET DOMAIN candidates
  BY DEF TypeOK
<1> QED
  BY <1>1, KeptParts

\* Of an account none of whose positions is removed, the same entries remain.
LEMMA OthersRemain ==
    ASSUME TypeOK, NEW removed, candidates' \in Kept(candidates, DOMAIN candidates \ removed),
           NEW a \in Account, Positions(candidates, a) \cap removed = {}
    PROVE  /\ Positions(candidates', a) = {} <=> Positions(candidates, a) = {}
           /\ \A i \in Positions(candidates', a) :
                \E p \in Positions(candidates, a) : candidates'[i] = candidates[p]
<1> DEFINE left == DOMAIN candidates \ removed
<1>1. /\ candidates \in Seq(Candidate)
      /\ left \in SUBSET DOMAIN candidates
  BY DEF TypeOK
<1>2. PICK pick : Picks(pick, candidates', candidates, left)
  BY PickKept
<1>3. \A i \in Positions(candidates', a) : pick[i] \in Positions(candidates, a)
  BY <1>2 DEF Positions, Picks
<1>4. \A p \in Positions(candidates, a) : p \in left
  BY DEF Positions
<1>5. \A p \in Positions(candidates, a) : \E i \in Positions(candidates', a) : pick[i] = p
  BY <1>2, <1>4 DEF Positions, Picks
<1>6. \A i \in Positions(candidates', a) : candidates'[i] = candidates[pick[i]]
  BY <1>2 DEF Positions, Picks
<1> QED
  BY <1>3, <1>5, <1>6

\* An account one of whose positions is removed is no candidate any more.
LEMMA RemovedLeaves ==
    ASSUME TypeOK, CandidatesUnique, NEW removed,
           candidates' \in Kept(candidates, DOMAIN candidates \ removed),
           NEW a \in Account, Positions(candidates, a) \cap removed # {}
    PROVE  Positions(candidates', a) = {}
<1> DEFINE left == DOMAIN candidates \ removed
<1>1. /\ candidates \in Seq(Candidate)
      /\ left \in SUBSET DOMAIN candidates
  BY DEF TypeOK
<1>2. PICK pick : Picks(pick, candidates', candidates, left)
  BY PickKept
<1>3. \A p \in left : candidates[p].who # a
  BY DEF Positions, CandidatesUnique
<1> QED
  BY <1>2, <1>3 DEF Positions, Picks

\* Removing positions keeps the accounts distinct.
LEMMA KeptUnique ==
    ASSUME TypeOK, CandidatesUnique, NEW removed,
           candidates' \in Kept(candidates, DOMAIN candidates \ removed)
    PROVE  CandidatesUnique'
<1> DEFINE left == DOMAIN candidates \ removed
<1>1. /\ candidates \in Seq(Candidate)
      /\ left \in SUBSET DOMAIN candidates
  BY DEF TypeOK
<1>2. PICK pick : Picks(pick, candidates', candidates, left)
  BY PickKept
<1>3. candidates' \in Seq(Candidate)
  BY KeptCandidates
<1> SUFFICES ASSUME NEW i \in DOMAIN candidates', NEW j \in DOMAIN candidates',
                    candidates'[i].who = candidates'[j].who, i # j
             PROVE  FALSE
  BY DEF CandidatesUnique
<1>4. pick[i] = pick[j]
  BY <1>2 DEF CandidatesUnique, Picks
<1>5. i < j \/ j < i
  BY <1>3
<1>6. pick[i] \in Int /\ pick[j] \in Int
  BY <1>1, <1>2 DEF Picks
<1> QED
  BY <1>2, <1>4, <1>5, <1>6 DEF Picks

\* The registration of an account puts it into one new position.
LEMMA RegisteredPositions ==
    ASSUME TypeOK, NEW who \in Account, RegisterAsCandidate(who)
    PROVE  /\ DOMAIN candidates' = DOMAIN candidates \cup {Len(candidates) + 1}
           /\ Len(candidates) + 1 \notin DOMAIN candidates
           /\ candidates'[Len(candidates) + 1] = [who |-> who, deposit |-> bond]
           /\ \A i \in DOMAIN candidates : candidates'[i] = candidates[i]
           /\ \A i \in DOMAIN candidates : candidates[i].who # who
           /\ Positions(candidates', who) = {Len(candidates) + 1}
           /\ \A a \in Account \ {who} :
                 Positions(candidates', a) = Positions(candidates, a)
<1>1. /\ candidates \in Seq(Candidate)
      /\ [who |-> who, deposit |-> bond] \in Candidate
      /\ candidates' = Append(candidates, [who |-> who, deposit |-> bond])
  BY DEF TypeOK, Candidate, RegisterAsCandidate
<1>2. /\ DOMAIN candidates' = DOMAIN candidates \cup {Len(candidates) + 1}
      /\ Len(candidates) + 1 \notin DOMAIN candidates
      /\ candidates'[Len(candidates) + 1] = [who |-> who, deposit |-> bond]
      /\ \A i \in DOMAIN candidates : candidates'[i] = candidates[i]
  BY <1>1
<1>3. \A i \in DOMAIN candidates : candidates[i].who # who
  BY DEF RegisterAsCandidate, MayRegister, IsCandidate, Positions
<1>4. candidates'[Len(candidates) + 1].who = who
  BY <1>2
<1> QED
  BY <1>2, <1>3, <1>4 DEF Positions

\* A registration keeps the accounts distinct and backs the new deposit.
LEMMA RegisterBacked ==
    ASSUME TypeOK, CandidatesUnique, DepositsBacked,
           NEW who \in Account, RegisterAsCandidate(who)
    PROVE  CandidatesUnique' /\ DepositsBacked'
<1> DEFINE last == Len(candidates) + 1
<1>1. candidates'[last].who = who /\ candidates'[last].deposit = bond
  <2>1. candidates'[last] = [who |-> who, deposit |-> bond]
    BY RegisteredPositions
  <2> QED
    BY <2>1
<1>2. CandidatesUnique'
  <2>1. /\ DOMAIN candidates' = DOMAIN candidates \cup {last}
        /\ \A i \in DOMAIN candidates : candidates'[i] = candidates[i]
        /\ \A i \in DOMAIN candidates : candidates[i].who # who
    BY RegisteredPositions
  <2>2. \A i \in DOMAIN candidates' :
          \/ i \in DOMAIN candidates /\ candidates'[i] = candidates[i]
          \/ i = last
    BY <2>1
  <2> QED
    BY <1>1, <2>1, <2>2 DEF CandidatesUnique
<1>3. reserved'[who] = bond
  <2>1. reserved[who] = 0
    BY DEF DepositsBacked, RegisterAsCandidate, MayRegister
  <2>2. bond \in Nat
    BY SelectionAssumption DEF TypeOK
  <2> QED
    BY <2>1, <2>2 DEF TypeOK, RegisterAsCandidate
<1>4. \A i \in Positions(candidates', who) : reserved'[who] = candidates'[i].deposit
  <2>1. Positions(candidates', who) = {last}
    BY RegisteredPositions
  <2> QED
    BY <1>1, <1>3, <2>1
<1>5. ASSUME NEW a \in Account, a # who
      PROVE  /\ reserved'[a] = reserved[a]
             /\ Positions(candidates', a) = Positions(candidates, a)
             /\ \A i \in Positions(candidates, a) : candidates'[i] = candidates[i]
  BY <1>5, RegisteredPositions DEF TypeOK, RegisterAsCandidate, Positions
<1>6. Positions(candidates', who) # {}
  BY RegisteredPositions
<1> QED
  BY <1>2, <1>4, <1>5, <1>6 DEF DepositsBacked, IsCandidate

\* A candidate that leaves gets back what was reserved.
LEMMA LeaveBacked ==
    ASSUME TypeOK, CandidatesUnique, DepositsBacked, NEW who \in Account, LeaveIntent(who)
    PROVE  CandidatesUnique' /\ DepositsBacked'
<1>1. PICK i \in DOMAIN candidates :
        /\ candidates[i].who = who
        /\ Unreserve(who, candidates[i].deposit)
        /\ candidates' \in Kept(candidates, DOMAIN candidates \ {i})
  BY DEF LeaveIntent
<1>2. CandidatesUnique'
  BY <1>1, KeptUnique
<1>3. /\ Positions(candidates', who) = {}
      /\ reserved'[who] = 0
  <2>1. i \in Positions(candidates, who)
    BY <1>1 DEF Positions
  <2>2. Positions(candidates', who) = {}
    BY <1>1, <2>1, RemovedLeaves
  <2>3. reserved[who] = candidates[i].deposit /\ reserved[who] \in Nat
    BY <2>1 DEF DepositsBacked, IsCandidate, TypeOK
  <2> QED
    BY <1>1, <2>2, <2>3 DEF TypeOK, Unreserve, Least
<1>4. ASSUME NEW a \in Account, a # who
      PROVE  /\ reserved'[a] = reserved[a]
             /\ Positions(candidates', a) = {} <=> Positions(candidates, a) = {}
             /\ \A k \in Positions(candidates', a) :
                  \E p \in Positions(candidates, a) : candidates'[k] = candidates[p]
  <2>1. Positions(candidates, a) \cap {i} = {}
    BY <1>1, <1>4 DEF Positions
  <2>2. reserved'[a] = reserved[a]
    BY <1>1, <1>4 DEF TypeOK, Unreserve
  <2> QED
    BY <1>1, <2>1, <2>2, OthersRemain
<1> QED
  BY <1>2, <1>3, <1>4 DEF DepositsBacked, IsCandidate

\* A session change gives each candidate it kicks what was reserved.
LEMMA NewSessionBacked ==
    ASSUME TypeOK, CandidatesUnique, DepositsBacked, NewSession
    PROVE  CandidatesUnique' /\ DepositsBacked'
<1>1. candidates' \in Kept(candidates, DOMAIN candidates \ KickedPositions)
  BY DEF NewSession
<1>2. CandidatesUnique'
  BY <1>1, KeptUnique
<1>3. ASSUME NEW a \in Account, Positions(candidates, a) \cap KickedPositions # {}
      PROVE  /\ Positions(candidates', a) = {}
             /\ reserved'[a] = 0
  <2>1. Positions(candidates', a) = {}
    BY <1>1, <1>3, RemovedLeaves
  <2>2. PICK i \in Positions(candidates, a) : KickedDeposit(a) = candidates[i].deposit
    <3> DEFINE at == Positions(candidates, a) \cap KickedPositions
    <3>1. KickedDeposit(a) = candidates[CHOOSE i \in at : TRUE].deposit
      BY <1>3 DEF KickedDeposit
    <3>2. (CHOOSE i \in at : TRUE) \in at
      BY <1>3
    <3> QED
      BY <3>1, <3>2
  <2>3. KickedDeposit(a) = reserved[a] /\ reserved[a] \in Nat
    BY <2>2 DEF DepositsBacked, IsCandidate, TypeOK
  <2>4. reserved'[a] = reserved[a] - Least(KickedDeposit(a), reserved[a])
    BY DEF NewSession
  <2> QED
    BY <2>1, <2>3, <2>4 DEF Least
<1>4. ASSUME NEW a \in Account, Positions(candidates, a) \cap KickedPositions = {}
      PROVE  /\ reserved'[a] = reserved[a]
             /\ Positions(candidates', a) = {} <=> Positions(candidates, a) = {}
             /\ \A k \in Positions(candidates', a) :
                  \E p \in Positions(candidates, a) : candidates'[k] = candidates[p]
  <2>1. KickedDeposit(a) = 0 /\ reserved[a] \in Nat
    BY <1>4 DEF KickedDeposit, TypeOK
  <2>2. reserved'[a] = reserved[a] - Least(KickedDeposit(a), reserved[a])
    BY DEF NewSession
  <2>3. reserved'[a] = reserved[a]
    BY <2>1, <2>2 DEF Least
  <2> QED
    BY <1>1, <1>4, <2>3, OthersRemain
<1> QED
  BY <1>2, <1>3, <1>4 DEF DepositsBacked, IsCandidate

\* Each other step leaves candidates, deposits and accounts' blocks alone.
LEMMA OtherSteps ==
    ASSUME TypeOK, [Next]_vars
    PROVE  \/ \E who \in Account : RegisterAsCandidate(who)
           \/ \E who \in Account : LeaveIntent(who)
           \/ \E who \in Account : NoteAuthor(who)
           \/ NewSession
           \/ NextBlock
           \/ UNCHANGED <<now, candVars, reserved, historyVars>>
BY DEF Next, Extrinsic, vars, SetInvulnerables, SetDesiredCandidates, SetCandidacyBond,
       ToggleKeys, FundPot, moneyVars

\* Each step keeps the accounts distinct and every deposit backed.
LEMMA StepBacked ==
    ASSUME TypeOK, CandidatesUnique, DepositsBacked, [Next]_vars
    PROVE  CandidatesUnique' /\ DepositsBacked'
<1>1. CASE UNCHANGED <<candidates, reserved>>
  BY <1>1 DEF CandidatesUnique, DepositsBacked, IsCandidate, Positions
<1>2. ASSUME NEW who \in Account, NoteAuthor(who)
      PROVE  UNCHANGED <<candidates, reserved>>
  BY <1>2 DEF NoteAuthor
<1>3. CASE NextBlock
  BY <1>1, <1>3 DEF NextBlock, candVars, moneyVars
<1>4. CASE UNCHANGED <<now, candVars, reserved, historyVars>>
  BY <1>1, <1>4 DEF candVars
<1> QED
  BY <1>1, <1>2, <1>3, <1>4, OtherSteps, RegisterBacked, LeaveBacked, NewSessionBacked

-----------------------------------------------------------------------------
(* The grace of a registration *)

\* A registration starts a new grace (lib.rs 353-356).
LEMMA RegisterGrace ==
    ASSUME TypeOK, GraceKept, NEW who \in Account, RegisterAsCandidate(who)
    PROVE  GraceKept'
<1>1. /\ joined'[who] = now
      /\ lastAuthored'[who] = now + KickThreshold
      /\ authored' = authored
      /\ now' = now
  BY DEF TypeOK, RegisterAsCandidate
<1>2. authored[who] <= now /\ now \in Int
  BY DEF GraceKept, TypeOK, Blocks
<1>3. ASSUME NEW a \in Account, a # who
      PROVE  /\ joined'[a] = joined[a]
             /\ lastAuthored'[a] = lastAuthored[a]
             /\ Positions(candidates', a) = Positions(candidates, a)
  BY <1>3, RegisteredPositions DEF TypeOK, RegisterAsCandidate
<1> QED
  BY <1>1, <1>2, <1>3 DEF GraceKept, IsCandidate

\* A candidate that leaves takes its grace along; the others keep theirs.
LEMMA LeaveGrace ==
    ASSUME TypeOK, CandidatesUnique, GraceKept, NEW who \in Account, LeaveIntent(who)
    PROVE  GraceKept'
<1>1. PICK i \in DOMAIN candidates :
        /\ candidates[i].who = who
        /\ candidates' \in Kept(candidates, DOMAIN candidates \ {i})
  BY DEF LeaveIntent
<1>2. Positions(candidates', who) = {}
  <2>1. i \in Positions(candidates, who)
    BY <1>1 DEF Positions
  <2> QED
    BY <1>1, <2>1, RemovedLeaves
<1>3. ASSUME NEW a \in Account, a # who
      PROVE  /\ lastAuthored'[a] = lastAuthored[a]
             /\ Positions(candidates', a) = {} <=> Positions(candidates, a) = {}
  <2>1. Positions(candidates, a) \cap {i} = {}
    BY <1>1, <1>3 DEF Positions
  <2>2. lastAuthored'[a] = lastAuthored[a]
    BY <1>3 DEF TypeOK, LeaveIntent
  <2> QED
    BY <1>1, <2>1, <2>2, OthersRemain
<1>4. now' = now /\ joined' = joined /\ authored' = authored
  BY DEF LeaveIntent, historyVars
<1> QED
  BY <1>2, <1>3, <1>4 DEF GraceKept, IsCandidate

\* A session change keeps the grace of whom it does not kick.
LEMMA NewSessionGrace ==
    ASSUME TypeOK, CandidatesUnique, GraceKept, NewSession
    PROVE  GraceKept'
<1>1. candidates' \in Kept(candidates, DOMAIN candidates \ KickedPositions)
  BY DEF NewSession
<1>2. ASSUME NEW a \in Account, Positions(candidates', a) # {}
      PROVE  /\ lastAuthored'[a] = lastAuthored[a]
             /\ Positions(candidates, a) # {}
  <2>1. Positions(candidates, a) \cap KickedPositions = {}
    BY <1>1, <1>2, RemovedLeaves
  <2>2. lastAuthored'[a] = lastAuthored[a]
    BY <2>1 DEF NewSession
  <2> QED
    BY <1>1, <1>2, <2>1, <2>2, OthersRemain
<1>3. now' = now /\ joined' = joined /\ authored' = authored
  BY DEF NewSession, historyVars
<1> QED
  BY <1>2, <1>3 DEF GraceKept, IsCandidate

\* An author's last block is the one noted, whatever grace it had (lib.rs 452).
LEMMA NoteAuthorGrace ==
    ASSUME TypeOK, GraceKept, NEW who \in Account, NoteAuthor(who)
    PROVE  GraceKept'
<1>1. /\ lastAuthored' = [lastAuthored EXCEPT ![who] = now]
      /\ authored' = [authored EXCEPT ![who] = now]
      /\ now' = now /\ joined' = joined /\ candidates' = candidates
  BY DEF NoteAuthor
<1>2. lastAuthored'[who] = now /\ authored'[who] = now
  BY <1>1 DEF TypeOK
<1>3. \A a \in Account \ {who} : lastAuthored'[a] = lastAuthored[a] /\ authored'[a] = authored[a]
  BY <1>1 DEF TypeOK
<1>4. now > 0 /\ joined[who] <= now
  <2>1. authored[who] \in Nat /\ authored[who] < now /\ now \in Nat
    BY DEF TypeOK, NoteAuthor, Blocks
  <2> QED
    BY <2>1 DEF GraceKept
<1>5. now \in Int
  BY DEF TypeOK, Blocks
<1> QED
  BY <1>1, <1>2, <1>3, <1>4, <1>5 DEF GraceKept, IsCandidate, Positions

\* Each step keeps the grace of registrations.
LEMMA StepGrace ==
    ASSUME TypeOK, CandidatesUnique, GraceKept, [Next]_vars
    PROVE  GraceKept'
<1>1. CASE NextBlock
  <2>1. /\ now' = now + 1 /\ now \in Int
        /\ candidates' = candidates /\ lastAuthored' = lastAuthored
        /\ authored' = authored /\ joined' = joined
    BY <1>1 DEF TypeOK, Blocks, NextBlock, candVars, historyVars
  <2>2. \A a \in Account : authored[a] \in Int /\ joined[a] \in Int
    BY DEF TypeOK, Blocks
  <2> QED
    BY <2>1, <2>2 DEF GraceKept, IsCandidate, Positions
<1>2. CASE UNCHANGED <<now, candVars, reserved, historyVars>>
  BY <1>2 DEF GraceKept, IsCandidate, Positions, candVars, historyVars
<1> QED
  BY <1>1, <1>2, OtherSteps, RegisterGrace, LeaveGrace, NoteAuthorGrace, NewSessionGrace

-----------------------------------------------------------------------------
(* The invariants of the specification *)

\* The genesis state satisfies the inductive invariant.
LEMMA InvInit == Init => IInv
<1> SUFFICES ASSUME Init PROVE IInv
  OBVIOUS
<1>1. candidates = <<>> /\ DOMAIN candidates = {}
  BY DEF Init
<1>2. CandidatesUnique /\ DepositsBacked
  BY <1>1 DEF Init, CandidatesUnique, DepositsBacked, IsCandidate, Positions
<1>3. GraceKept
  BY <1>1 DEF Init, GraceKept, IsCandidate, Positions
<1> QED
  BY <1>2, <1>3, InitTyped DEF IInv

\* The inductive invariant: types, one candidacy per account, each deposit
\* backed, and the grace of registrations.
THEOREM InductiveInv == Spec => []IInv
<1>1. IInv /\ [Next]_vars => IInv'
  BY StepTyped, StepBacked, StepGrace DEF IInv
<1> QED
  BY <1>1, InvInit, PTL DEF Spec

\* No account is twice in the list of candidates (lib.rs 346-349).
THEOREM AlwaysUnique == Spec => []CandidatesUnique
<1>1. IInv => CandidatesUnique
  BY DEF IInv
<1> QED
  BY <1>1, InductiveInv, PTL

\* What is reserved from an account is the deposit of its candidacy
\* (lib.rs 341-351, 391).
THEOREM AlwaysBacked == Spec => []DepositsBacked
<1>1. IInv => DepositsBacked
  BY DEF IInv
<1> QED
  BY <1>1, InductiveInv, PTL

-----------------------------------------------------------------------------
(* What a step may never do *)

\* Who leaves and who is kicked take no one's place: the others keep theirs.
LEMMA RemovalKeepsOrder ==
    ASSUME TypeOK, NEW removed, candidates' \in Kept(candidates, DOMAIN candidates \ removed),
           NEW i \in DOMAIN candidates', NEW j \in DOMAIN candidates', i < j
    PROVE  \E k, l \in DOMAIN candidates :
             /\ k < l
             /\ candidates[k] = candidates'[i]
             /\ candidates[l] = candidates'[j]
<1> DEFINE left == DOMAIN candidates \ removed
<1>1. PICK pick : Picks(pick, candidates', candidates, left)
  BY PickKept
<1>2. /\ pick[i] \in left /\ pick[j] \in left
      /\ pick[i] < pick[j]
      /\ candidates[pick[i]] = candidates'[i]
      /\ candidates[pick[j]] = candidates'[j]
  BY <1>1 DEF Picks
<1> QED
  BY <1>2

\* Candidates stay in the order they came (lib.rs 41-42).
THEOREM AlwaysFirstCome == Spec => FirstComeFirstServed
<1> DEFINE Ordered ==
      \A i, j \in DOMAIN candidates' :
        i < j => \/ Positions(candidates, candidates'[j].who) = {}
                 \/ \E k, l \in DOMAIN candidates :
                      /\ k < l
                      /\ candidates[k] = candidates'[i]
                      /\ candidates[l] = candidates'[j]
<1>1. TypeOK /\ [Next]_vars => [Ordered]_candidates
  <2> SUFFICES ASSUME TypeOK, [Next]_vars, candidates' # candidates
               PROVE  Ordered
    OBVIOUS
  <2>1. ASSUME NEW who \in Account, RegisterAsCandidate(who)
        PROVE  Ordered
    <3> DEFINE last == Len(candidates) + 1
    <3> SUFFICES ASSUME NEW i \in DOMAIN candidates', NEW j \in DOMAIN candidates', i < j,
                        Positions(candidates, candidates'[j].who) # {}
                 PROVE  \E k, l \in DOMAIN candidates :
                          /\ k < l
                          /\ candidates[k] = candidates'[i]
                          /\ candidates[l] = candidates'[j]
      OBVIOUS
    <3>1. /\ DOMAIN candidates' = DOMAIN candidates \cup {last}
          /\ \A k \in DOMAIN candidates : candidates'[k] = candidates[k]
          /\ \A k \in DOMAIN candidates : candidates[k].who # who
      BY <2>1, RegisteredPositions
    <3>2. candidates'[last].who = who
      <4>1. candidates'[last] = [who |-> who, deposit |-> bond]
        BY <2>1, RegisteredPositions
      <4> QED
        BY <4>1
    <3>3. j # last
      BY <3>1, <3>2 DEF Positions
    <3>4. j \in DOMAIN candidates /\ j <= Len(candidates)
      BY <3>1, <3>3 DEF TypeOK
    <3>5. i # last /\ i \in DOMAIN candidates
      BY <3>1, <3>4 DEF TypeOK
    <3> QED
      BY <3>1, <3>4, <3>5
  <2>2. ASSUME NEW who \in Account, LeaveIntent(who)
        PROVE  Ordered
    <3>1. PICK i : candidates' \in Kept(candidates, DOMAIN candidates \ {i})
      BY <2>2 DEF LeaveIntent
    <3> QED
      BY <3>1, RemovalKeepsOrder
  <2>3. CASE NewSession
    <3>1. candidates' \in Kept(candidates, DOMAIN candidates \ KickedPositions)
      BY <2>3 DEF NewSession
    <3> QED
      BY <3>1, RemovalKeepsOrder
  <2> QED
    BY <2>1, <2>2, <2>3, OtherSteps DEF NoteAuthor, NextBlock, candVars
<1> QED
  BY <1>1, TypeCorrect, PTL DEF Spec, FirstComeFirstServed

\* A session change kicks no candidate within its grace, nor within
\* KickThreshold blocks of its last one (lib.rs 342-356, 416-424, 452).
THEOREM AlwaysIdle == Spec => KickedOnlyIfIdle
<1> DEFINE Idle(a) ==
      /\ now >= joined[a] + KickThreshold
      /\ authored[a] > 0 => now >= authored[a] + KickThreshold
      /\ \/ authored[a] = 0
         \/ authored[a] < joined[a]
         => now >= joined[a] + 2 * KickThreshold
<1> DEFINE Kicked(a) ==
      /\ IsCandidate(a)
      /\ Positions(candidates', a) = {}
      /\ NewSession
<1>1. IInv /\ [Next]_vars => [\A a \in Account : Kicked(a) => Idle(a)]_vars
  <2> SUFFICES ASSUME IInv, NEW a \in Account, Kicked(a)
               PROVE  Idle(a)
    OBVIOUS
  <2>1. Positions(candidates, a) \cap KickedPositions # {}
    <3>1. candidates' \in Kept(candidates, DOMAIN candidates \ KickedPositions)
      BY DEF NewSession
    <3> QED
      BY <3>1, OthersRemain DEF IInv, IsCandidate
  <2>2. Stale(a)
    BY <2>1 DEF KickedPositions, StalePositions, Positions
  <2>3. /\ now \in Nat /\ joined[a] \in Nat /\ authored[a] \in Nat
        /\ lastAuthored[a] \in Nat /\ KickThreshold \in Nat
    BY SelectionAssumption DEF IInv, TypeOK, Blocks
  <2>4. now - lastAuthored[a] >= KickThreshold \/ KickThreshold = 0
    BY <2>2, <2>3 DEF Stale, SaturatingSub
  <2>5. /\ joined[a] <= now
        /\ authored[a] <= now
        /\ \/ /\ lastAuthored[a] = joined[a] + KickThreshold
              /\ authored[a] <= joined[a]
           \/ /\ lastAuthored[a] = authored[a]
              /\ authored[a] > 0
              /\ authored[a] >= joined[a]
    BY DEF IInv, GraceKept
  <2> QED
    BY <2>3, <2>4, <2>5
<1> QED
  BY <1>1, InductiveInv, PTL DEF Spec, KickedOnlyIfIdle

\* A session change kicks no more candidates than there are above
\* MinCandidates: each kicked one has its own number of stale ones before it
\* (lib.rs 418-432).
LEMMA KickedFew ==
    ASSUME TypeOK, KickedPositions # {}
    PROVE  /\ Len(candidates) >= MinCandidates
           /\ Cardinality(KickedPositions) <= Len(candidates) - MinCandidates
<1> DEFINE above == Len(candidates) - MinCandidates
           count == [i \in KickedPositions |-> Cardinality(Before(i))]
<1>1. /\ IsFiniteSet(StalePositions)
      /\ StalePositions \subseteq 1 .. Len(candidates)
      /\ above \in Int
  <2>1. /\ Len(candidates) \in Nat
        /\ StalePositions \in SUBSET (1 .. Len(candidates))
    BY DEF TypeOK, StalePositions
  <2>2. IsFiniteSet(1 .. Len(candidates))
    BY <2>1, FS_Interval
  <2>3. IsFiniteSet(StalePositions)
    BY <2>1, <2>2, FS_Subset
  <2>4. above \in Int
    BY <2>1, SelectionAssumption
  <2> QED
    BY <2>1, <2>3, <2>4
<1>2. ASSUME NEW i \in StalePositions
      PROVE  /\ IsFiniteSet(Before(i))
             /\ Cardinality(Before(i)) \in Nat
  <2>1. Before(i) \in SUBSET StalePositions
    BY DEF Before
  <2> QED
    BY <1>1, <2>1, FS_Subset, FS_CardinalityType
<1>3. ASSUME NEW i \in StalePositions, NEW j \in StalePositions, i < j
      PROVE  Cardinality(Before(i)) < Cardinality(Before(j))
  <2>1. /\ Before(i) \in SUBSET Before(j)
        /\ i \in Before(j) /\ i \notin Before(i)
    <3>1. /\ StalePositions \subseteq Int
          /\ i \in Int /\ j \in Int /\ i < j
      BY <1>1, <1>3
    <3>2. ASSUME NEW k \in Before(i)
          PROVE  k \in Before(j)
      <4>1. k \in StalePositions /\ k < i
        BY DEF Before
      <4>2. k < j
        BY <3>1, <4>1
      <4> QED
        BY <4>1, <4>2 DEF Before
    <3>3. i \in Before(j)
      BY <1>3 DEF Before
    <3>4. i \notin Before(i)
      BY <3>1 DEF Before
    <3> QED
      BY <3>2, <3>3, <3>4
  <2>2. Cardinality(Before(i)) <= Cardinality(Before(j))
    BY <1>2, <2>1, FS_Subset
  <2>3. Cardinality(Before(i)) # Cardinality(Before(j))
    BY <1>2, <2>1, FS_Subset
  <2> QED
    BY <1>2, <2>2, <2>3
<1>4. KickedPositions \subseteq StalePositions
  BY DEF KickedPositions
<1>5. ASSUME NEW i \in KickedPositions
      PROVE  Cardinality(Before(i)) \in 0 .. (above - 1)
  BY <1>1, <1>2, <1>4 DEF KickedPositions
<1>6. count \in Injection(KickedPositions, 0 .. (above - 1))
  <2>1. count \in [KickedPositions -> 0 .. (above - 1)]
    BY <1>5
  <2>2. ASSUME NEW i \in KickedPositions, NEW j \in KickedPositions, i # j
        PROVE  count[i] # count[j]
    <3>1. i < j \/ j < i
      BY <1>1, <1>4, <2>2
    <3> QED
      BY <1>2, <1>3, <1>4, <3>1
  <2> QED
    BY <2>1, <2>2 DEF Injection, IsInjective
<1>7. Cardinality(KickedPositions) <= Cardinality(0 .. (above - 1))
  <2>1. IsFiniteSet(0 .. (above - 1))
    BY <1>1, FS_Interval
  <2> QED
    BY <1>6, <2>1, FS_Injection
<1>8. above >= 1
  <2>1. PICK i \in KickedPositions : TRUE
    OBVIOUS
  <2> QED
    BY <1>1, <1>5, <2>1
<1>9. Cardinality(0 .. (above - 1)) = above
  BY <1>1, <1>8, FS_Interval
<1> QED
  BY <1>1, <1>7, <1>8, <1>9, SelectionAssumption DEF TypeOK

\* The number of candidates that is left.
LEMMA LeftOver ==
    ASSUME TypeOK, NEW removed \in SUBSET DOMAIN candidates,
           candidates' \in Kept(candidates, DOMAIN candidates \ removed)
    PROVE  /\ Cardinality(removed) \in Nat
           /\ Len(candidates') = Len(candidates) - Cardinality(removed)
<1>1. /\ Len(candidates) \in Nat
      /\ DOMAIN candidates = 1 .. Len(candidates)
  BY DEF TypeOK
<1>2. /\ IsFiniteSet(DOMAIN candidates)
      /\ Cardinality(DOMAIN candidates) = Len(candidates)
  BY <1>1, FS_Interval
<1>3. IsFiniteSet(removed) /\ Cardinality(removed) \in Nat
  BY <1>2, FS_Subset, FS_CardinalityType
<1>4. Cardinality(DOMAIN candidates \ removed)
        = Cardinality(DOMAIN candidates) - Cardinality(DOMAIN candidates \cap removed)
  BY <1>2, FS_Difference
<1>5. DOMAIN candidates \cap removed = removed
  OBVIOUS
<1> QED
  BY <1>2, <1>3, <1>4, <1>5, PickKept

\* No call takes the number of candidates below MinCandidates
\* (lib.rs 368, 421).
THEOREM AlwaysEnough == Spec => NeverBelowMinimum
<1> DEFINE Enough == Len(candidates') < Len(candidates) => Len(candidates') >= MinCandidates
<1>1. TypeOK /\ [Next]_vars => [Enough]_candidates
  <2> SUFFICES ASSUME TypeOK, [Next]_vars, candidates' # candidates,
                      Len(candidates') < Len(candidates)
               PROVE  Len(candidates') >= MinCandidates
    OBVIOUS
  <2>1. Len(candidates) \in Nat /\ MinCandidates \in Nat
    BY SelectionAssumption DEF TypeOK
  <2>2. ASSUME NEW who \in Account, RegisterAsCandidate(who)
        PROVE  FALSE
    <3>1. Len(candidates') = Len(candidates) + 1
      BY <2>2 DEF TypeOK, RegisterAsCandidate
    <3> QED
      BY <2>1, <3>1
  <2>3. ASSUME NEW who \in Account, LeaveIntent(who)
        PROVE  Len(candidates') >= MinCandidates
    <3>1. Len(candidates) > MinCandidates
      BY <2>3 DEF LeaveIntent
    <3>2. PICK i \in DOMAIN candidates :
            candidates' \in Kept(candidates, DOMAIN candidates \ {i})
      BY <2>3 DEF LeaveIntent
    <3>3. Len(candidates') = Len(candidates) - Cardinality({i})
      BY <3>2, LeftOver
    <3>4. Cardinality({i}) = 1
      BY FS_Singleton
    <3> QED
      BY <2>1, <3>1, <3>3, <3>4
  <2>4. ASSUME NewSession
        PROVE  Len(candidates') >= MinCandidates
    <3>1. candidates' \in Kept(candidates, DOMAIN candidates \ KickedPositions)
      BY <2>4 DEF NewSession
    <3>2. KickedPositions \in SUBSET DOMAIN candidates
      BY DEF KickedPositions, StalePositions
    <3>3. /\ Cardinality(KickedPositions) \in Nat
          /\ Len(candidates') = Len(candidates) - Cardinality(KickedPositions)
      BY <3>1, <3>2, LeftOver
    <3>4. KickedPositions # {}
      BY <2>1, <3>3, FS_EmptySet
    <3> QED
      BY <2>1, <3>3, <3>4, KickedFew
  <2> QED
    BY <2>2, <2>3, <2>4, OtherSteps DEF NoteAuthor, NextBlock, candVars
<1> QED
  BY <1>1, TypeCorrect, PTL DEF Spec, NeverBelowMinimum

-----------------------------------------------------------------------------
(* Sums *)

\* A set of natural numbers that has a member has a least one.
LEMMA LeastMember ==
    ASSUME NEW T \in SUBSET Nat, T # {}
    PROVE  \E x \in T : \A y \in T : x <= y
<1> DEFINE R == OpToRel(<, Nat)
<1>1. IsWellFoundedOn(R, Nat)
  BY NatLessThanWellFounded, Zenon
<1>2. \E x \in T : \A y \in T : ~ (<<y, x>> \in R)
  <2> HIDE DEF R
  <2> QED
    BY <1>1, WFMin
<1>3. PICK x \in T : \A y \in T : ~ (<<y, x>> \in R)
  BY <1>2
<1>4. \A y \in T : ~(y < x)
  BY <1>3, Zenon DEF OpToRel
<1> QED
  BY <1>4

\* Induction over the natural numbers, about membership in a set.
LEMMA NatSteps ==
    ASSUME NEW T, 0 \in T, \A n \in Nat : n \in T => n + 1 \in T
    PROVE  \A n \in Nat : n \in T
<1> SUFFICES ASSUME Nat \ T # {} PROVE FALSE
  OBVIOUS
<1>1. PICK x \in Nat \ T : \A y \in Nat \ T : x <= y
  BY LeastMember
<1>2. x - 1 \in Nat /\ x - 1 \in T
  BY <1>1
<1> QED
  BY <1>1, <1>2

\* Induction over the subsets of a finite set: what holds of the empty set, and of
\* a set when it holds of the sets with one element less, holds of all.
LEMMA SubsetSteps ==
    ASSUME NEW D, IsFiniteSet(D), NEW T, {} \in T,
           \A s \in SUBSET D : s # {} /\ (\A x \in s : s \ {x} \in T) => s \in T
    PROVE  \A s \in SUBSET D : s \in T
<1> DEFINE Sized == {n \in Nat : \A s \in SUBSET D : Cardinality(s) = n => s \in T}
<1>1. \A s \in SUBSET D : IsFiniteSet(s) /\ Cardinality(s) \in Nat
  BY FS_Subset, FS_CardinalityType
<1>2. 0 \in Sized
  <2>1. \A s \in SUBSET D : Cardinality(s) = 0 => s = {}
    BY <1>1, FS_EmptySet
  <2> QED
    BY <2>1
<1>3. ASSUME NEW n \in Nat, n \in Sized
      PROVE  n + 1 \in Sized
  <2> SUFFICES ASSUME NEW s \in SUBSET D, Cardinality(s) = n + 1
               PROVE  s \in T
    OBVIOUS
  <2>1. s # {}
    <3>1. Cardinality({}) = 0
      BY FS_EmptySet
    <3>2. Cardinality(s) # 0
      OBVIOUS
    <3> QED
      BY <3>1, <3>2, Zenon
  <2>2. ASSUME NEW x \in s
        PROVE  s \ {x} \in T
    <3>1. Cardinality(s \ {x}) = n
      BY <1>1, FS_RemoveElement
    <3> QED
      BY <1>3, <3>1
  <2> QED
    BY <2>1, <2>2
<1>4. \A n \in Nat : n \in Sized
  <2> HIDE DEF Sized
  <2> QED
    BY <1>2, <1>3, NatSteps
<1> QED
  BY <1>1, <1>4

Pick(s) == CHOOSE x \in s : TRUE

\* Partial sums of f: g holds that of every set of its arguments.
Sums(f, D, g) ==
    g = [s \in SUBSET D |-> IF s = {} THEN 0 ELSE f[Pick(s)] + g[s \ {Pick(s)}]]

\* The sum of the values at the arguments in s.
SumOver(f, s) == (CHOOSE g : Sums(f, DOMAIN f, g))[s]

LEMMA SumOfIsSumOver == \A f : SumOf(f) = SumOver(f, DOMAIN f)
BY DEF SumOf, FoldFunction, FoldFunctionOnSet, MapThenFoldSet, SumOver, Sums, Pick

\* There are partial sums over a finite set.
LEMMA SumsExist ==
    ASSUME NEW D, IsFiniteSet(D), NEW f
    PROVE  \E g : Sums(f, D, g)
<1> DEFINE Rest(s, g) == IF s = {} THEN 0 ELSE f[Pick(s)] + g[s \ {Pick(s)}]
           Upto(n, g) == \A s \in SUBSET D : Cardinality(s) <= n => g[s] = Rest(s, g)
           Sized == {n \in Nat : \E g : Upto(n, g)}
<1>1. \A s \in SUBSET D : IsFiniteSet(s) /\ Cardinality(s) \in Nat
  BY FS_Subset, FS_CardinalityType
<1>2. \A s \in SUBSET D : s # {} => /\ Pick(s) \in s
                                    /\ s \ {Pick(s)} \in SUBSET D
                                    /\ Cardinality(s \ {Pick(s)}) = Cardinality(s) - 1
  BY <1>1, FS_RemoveElement DEF Pick
<1>3. 0 \in Sized
  <2>1. Upto(0, [s \in SUBSET D |-> 0])
    <3>1. \A s \in SUBSET D : Cardinality(s) <= 0 => s = {}
      BY <1>1, FS_EmptySet
    <3> QED
      BY <3>1
  <2> QED
    BY <2>1
<1>4. ASSUME NEW n \in Nat, n \in Sized
      PROVE  n + 1 \in Sized
  <2>1. PICK g : Upto(n, g)
    BY <1>4
  <2> DEFINE h == [s \in SUBSET D |-> Rest(s, g)]
  <2>2. ASSUME NEW s \in SUBSET D, Cardinality(s) <= n + 1
        PROVE  h[s] = Rest(s, h)
    <3>1. CASE s = {}
      BY <3>1
    <3>2. CASE s # {}
      <4> DEFINE r == s \ {Pick(s)}
      <4>1. r \in SUBSET D /\ Cardinality(r) <= n
        BY <1>1, <1>2, <2>2, <3>2
      <4>2. g[r] = h[r]
        BY <2>1, <4>1
      <4> QED
        BY <3>2, <4>2
    <3> QED
      BY <3>1, <3>2
  <2>3. \E k : Upto(n + 1, k)
    BY <2>2, Zenon
  <2>4. n + 1 \in Nat
    OBVIOUS
  <2> QED
    BY <2>3, <2>4, Zenon
<1>5. Cardinality(D) \in Sized
  <2>1. \A n \in Nat : n \in Sized
    <3> HIDE DEF Sized
    <3> QED
      BY <1>3, <1>4, NatSteps
  <2> QED
    BY <2>1, FS_CardinalityType
<1>6. PICK g : Upto(Cardinality(D), g)
  BY <1>5
<1>7. \A s \in SUBSET D : g[s] = Rest(s, g)
  BY <1>6, FS_Subset
<1>8. Sums(f, D, [s \in SUBSET D |-> g[s]])
  BY <1>2, <1>7 DEF Sums
<1> QED
  BY <1>8

\* The sum over a set is that of one of its members and that over the rest.
LEMMA SumPicks ==
    ASSUME NEW f, IsFiniteSet(DOMAIN f)
    PROVE  \A s \in SUBSET DOMAIN f :
              SumOver(f, s) = IF s = {} THEN 0 ELSE f[Pick(s)] + SumOver(f, s \ {Pick(s)})
<1> DEFINE g == CHOOSE g : Sums(f, DOMAIN f, g)
<1>1. Sums(f, DOMAIN f, g)
  BY SumsExist
<1>2. \A s \in SUBSET DOMAIN f : SumOver(f, s) = g[s]
  BY DEF SumOver
<1> HIDE DEF g
<1> QED
  BY <1>1, <1>2 DEF Sums

LEMMA PickIn == \A s : s # {} => Pick(s) \in s
BY DEF Pick

\* Sums of integers are integers.
LEMMA SumTyped ==
    ASSUME NEW D, IsFiniteSet(D), NEW f \in [D -> Int]
    PROVE  \A s \in SUBSET D : SumOver(f, s) \in Int
<1> DEFINE T == {s \in SUBSET D : SumOver(f, s) \in Int}
<1>1. {} \in T
  <2>1. SumOver(f, {}) = 0
    BY SumPicks
  <2> QED
    BY <2>1
<1>2. ASSUME NEW s \in SUBSET D, s # {}, \A x \in s : s \ {x} \in T
      PROVE  s \in T
  <2>1. f[Pick(s)] \in Int /\ SumOver(f, s \ {Pick(s)}) \in Int
    BY <1>2, PickIn
  <2> QED
    BY <1>2, <2>1, SumPicks
<1>3. \A s \in SUBSET D : s \in T
  <2> HIDE DEF T
  <2> QED
    BY <1>1, <1>2, SubsetSteps
<1> QED
  BY <1>3

\* It does not matter which member is taken out first.
LEMMA SumTakes ==
    ASSUME NEW D, IsFiniteSet(D), NEW f \in [D -> Int]
    PROVE  \A s \in SUBSET D : \A x \in s : SumOver(f, s) = f[x] + SumOver(f, s \ {x})
<1> DEFINE T == {s \in SUBSET D : \A x \in s : SumOver(f, s) = f[x] + SumOver(f, s \ {x})}
<1>1. {} \in T
  OBVIOUS
<1>2. ASSUME NEW s \in SUBSET D, s # {}, \A x \in s : s \ {x} \in T
      PROVE  s \in T
  <2> SUFFICES ASSUME NEW x \in s
               PROVE  SumOver(f, s) = f[x] + SumOver(f, s \ {x})
    OBVIOUS
  <2> DEFINE p == Pick(s)
  <2>1. p \in s /\ SumOver(f, s) = f[p] + SumOver(f, s \ {p})
    BY <1>2, PickIn, SumPicks
  <2> HIDE DEF p
  <2>2. CASE x = p
    BY <2>1, <2>2
  <2>3. CASE x # p
    <3> DEFINE r == (s \ {p}) \ {x}
    <3>1. r = (s \ {x}) \ {p} /\ r \in SUBSET D
      OBVIOUS
    <3>2. SumOver(f, s \ {p}) = f[x] + SumOver(f, r)
      BY <1>2, <2>1, <2>3
    <3>3. SumOver(f, s \ {x}) = f[p] + SumOver(f, (s \ {x}) \ {p})
      BY <1>2, <2>1, <2>3
    <3>4. f[x] \in Int /\ f[p] \in Int /\ SumOver(f, r) \in Int
      BY <2>1, <3>1, SumTyped
    <3> HIDE DEF r
    <3> QED
      BY <2>1, <3>1, <3>2, <3>3, <3>4
  <2> QED
    BY <2>2, <2>3
<1>3. \A s \in SUBSET D : s \in T
  <2> HIDE DEF T
  <2> QED
    BY <1>1, <1>2, SubsetSteps
<1> QED
  BY <1>3

\* Sums are added up argument by argument.
LEMMA SumPlus ==
    ASSUME NEW D, IsFiniteSet(D), NEW f \in [D -> Int], NEW d \in [D -> Int],
           NEW h \in [D -> Int], \A x \in D : h[x] = f[x] + d[x]
    PROVE  SumOf(h) = SumOf(f) + SumOf(d)
<1> DEFINE T == {s \in SUBSET D : SumOver(h, s) = SumOver(f, s) + SumOver(d, s)}
<1>1. {} \in T
  <2>1. SumOver(h, {}) = 0 /\ SumOver(f, {}) = 0 /\ SumOver(d, {}) = 0
    BY SumPicks
  <2> QED
    BY <2>1
<1>2. ASSUME NEW s \in SUBSET D, s # {}, \A x \in s : s \ {x} \in T
      PROVE  s \in T
  <2> DEFINE p == Pick(s)
             r == s \ {p}
  <2>1. p \in s /\ r \in SUBSET D /\ r \in T
    BY <1>2, PickIn
  <2>2. /\ SumOver(h, s) = h[p] + SumOver(h, r)
        /\ SumOver(f, s) = f[p] + SumOver(f, r)
        /\ SumOver(d, s) = d[p] + SumOver(d, r)
    BY <1>2, SumPicks
  <2>3. /\ f[p] \in Int /\ d[p] \in Int /\ h[p] = f[p] + d[p]
        /\ SumOver(f, r) \in Int /\ SumOver(d, r) \in Int
    BY <2>1, SumTyped
  <2> HIDE DEF p, r
  <2> QED
    BY <2>1, <2>2, <2>3
<1>3. D \in T
  <2> HIDE DEF T
  <2> QED
    BY <1>1, <1>2, SubsetSteps
<1> QED
  BY <1>3, SumOfIsSumOver

\* A sum only depends on the values it is about.
LEMMA SumSame ==
    ASSUME NEW D, IsFiniteSet(D), NEW f \in [D -> Int], NEW E \in SUBSET D,
           NEW e \in [E -> Int], \A x \in E : f[x] = e[x]
    PROVE  SumOver(f, E) = SumOf(e)
<1> DEFINE T == {s \in SUBSET E : SumOver(f, s) = SumOver(e, s)}
<1>1. IsFiniteSet(E)
  BY FS_Subset
<1>2. {} \in T
  <2>1. SumOver(f, {}) = 0 /\ SumOver(e, {}) = 0
    BY <1>1, SumPicks
  <2> QED
    BY <2>1
<1>3. ASSUME NEW s \in SUBSET E, s # {}, \A x \in s : s \ {x} \in T
      PROVE  s \in T
  <2> DEFINE p == Pick(s)
             r == s \ {p}
  <2>1. p \in s /\ r \in T /\ s \in SUBSET D
    BY <1>3, PickIn
  <2>2. /\ SumOver(f, s) = f[p] + SumOver(f, r)
        /\ SumOver(e, s) = e[p] + SumOver(e, r)
    BY <1>1, <1>3, <2>1, SumPicks
  <2> QED
    BY <2>1, <2>2
<1>4. E \in T
  <2>1. ASSUME NEW s \in SUBSET E, s # {} /\ \A x \in s : s \ {x} \in T
        PROVE  s \in T
    BY <1>3, <2>1
  <2> HIDE DEF T
  <2>2. \A s \in SUBSET E : s \in T
    BY <1>1, <1>2, <2>1, SubsetSteps
  <2> QED
    BY <2>2
<1> QED
  BY <1>4, SumOfIsSumOver

\* The sum of zeros.
LEMMA SumZeros ==
    ASSUME NEW D, IsFiniteSet(D), NEW f \in [D -> Int], NEW E \in SUBSET D, \A x \in E : f[x] = 0
    PROVE  SumOver(f, E) = 0
<1> DEFINE T == {s \in SUBSET E : SumOver(f, s) = 0}
<1>1. IsFiniteSet(E)
  BY FS_Subset
<1>2. {} \in T
  BY SumPicks
<1>3. ASSUME NEW s \in SUBSET E, s # {}, \A x \in s : s \ {x} \in T
      PROVE  s \in T
  <2>1. Pick(s) \in s /\ s \ {Pick(s)} \in T /\ s \in SUBSET D
    BY <1>3, PickIn
  <2>2. SumOver(f, s) = f[Pick(s)] + SumOver(f, s \ {Pick(s)})
    BY <1>3, <2>1, SumPicks
  <2> QED
    BY <2>1, <2>2
<1>4. E \in T
  <2>1. ASSUME NEW s \in SUBSET E, s # {} /\ \A x \in s : s \ {x} \in T
        PROVE  s \in T
    BY <1>3, <2>1
  <2> HIDE DEF T
  <2>2. \A s \in SUBSET E : s \in T
    BY <1>1, <1>2, <2>1, SubsetSteps
  <2> QED
    BY <2>2
<1> QED
  BY <1>4

\* The sum of a function that is zero but for one argument.
LEMMA SumPoint ==
    ASSUME NEW D, IsFiniteSet(D), NEW f \in [D -> Int], NEW x \in D, \A y \in D \ {x} : f[y] = 0
    PROVE  SumOf(f) = f[x]
<1>1. SumOver(f, D) = f[x] + SumOver(f, D \ {x})
  BY SumTakes
<1>2. SumOver(f, D \ {x}) = 0
  BY SumZeros
<1> QED
  BY <1>1, <1>2, SumOfIsSumOver

-----------------------------------------------------------------------------
(* Money is moved, never made or lost *)

LEMMA FiniteHolders == IsFiniteSet(Holder)
BY FiniteAccounts, FS_AddElement DEF Holder

\* A change at one argument changes the sum by as much.
LEMMA SumShift ==
    ASSUME NEW D, IsFiniteSet(D), NEW f \in [D -> Int], NEW h \in [D -> Int],
           NEW x \in D, NEW v \in Int, h[x] = f[x] + v, \A y \in D \ {x} : h[y] = f[y]
    PROVE  SumOf(h) = SumOf(f) + v
<1> DEFINE d == [y \in D |-> IF y = x THEN v ELSE 0]
<1>1. d \in [D -> Int] /\ d[x] = v /\ \A y \in D \ {x} : d[y] = 0
  OBVIOUS
<1>2. \A y \in D : h[y] = f[y] + d[y]
  OBVIOUS
<1> HIDE DEF d
<1>3. SumOf(h) = SumOf(f) + SumOf(d)
  BY <1>1, <1>2, SumPlus
<1> QED
  BY <1>1, <1>3, SumPoint

\* What is taken from the reserves of accounts and added to their free balances.
LEMMA SumReleased ==
    ASSUME NEW f \in [Holder -> Int], NEW h \in [Holder -> Int],
           NEW r \in [Account -> Int], NEW k \in [Account -> Int], NEW e \in [Account -> Int],
           h[Pot] = f[Pot], \A a \in Account : h[a] = f[a] + e[a] /\ k[a] = r[a] - e[a]
    PROVE  SumOf(h) + SumOf(k) = SumOf(f) + SumOf(r)
<1> DEFINE d == [x \in Holder |-> IF x = Pot THEN 0 ELSE e[x]]
<1>1. /\ d \in [Holder -> Int] /\ d[Pot] = 0
      /\ \A a \in Account : d[a] = e[a]
      /\ \A x \in Holder : h[x] = f[x] + d[x]
  BY SelectionAssumption DEF Holder
<1> HIDE DEF d
<1>2. SumOf(h) = SumOf(f) + SumOf(d)
  BY <1>1, FiniteHolders, SumPlus
<1>3. SumOf(d) = SumOf(e)
  <2>1. Pot \in Holder /\ Holder \ {Pot} = Account /\ Account \in SUBSET Holder
    BY SelectionAssumption DEF Holder
  <2>2. SumOver(d, Holder) = d[Pot] + SumOver(d, Account)
    BY <1>1, <2>1, FiniteHolders, SumTakes
  <2>3. SumOver(d, Account) = SumOf(e)
    <3>1. \A x \in Account : d[x] = e[x]
      BY <1>1
    <3>2. /\ d \in [Holder -> Int] /\ e \in [Account -> Int]
          /\ Account \in SUBSET Holder /\ IsFiniteSet(Holder)
      BY <1>1, <2>1, FiniteHolders
    <3> QED
      BY <3>1, <3>2, SumSame
  <2>4. SumOf(e) \in Int
    BY FiniteAccounts, SumTyped, SumOfIsSumOver
  <2> QED
    BY <1>1, <2>2, <2>3, <2>4, SumOfIsSumOver
<1>4. SumOf(r) = SumOf(k) + SumOf(e)
  <2>1. \A a \in Account : r[a] = k[a] + e[a]
    OBVIOUS
  <2> QED
    BY <2>1, FiniteAccounts, SumPlus
<1>5. SumOf(f) \in Int /\ SumOf(e) \in Int /\ SumOf(k) \in Int
  BY FiniteHolders, FiniteAccounts, SumTyped, SumOfIsSumOver
<1> QED
  BY <1>2, <1>3, <1>4, <1>5

\* From one account's free balance to the pot's, or back.
LEMMA SumTransferred ==
    ASSUME NEW f \in [Holder -> Int], NEW h \in [Holder -> Int], NEW a \in Account, NEW v \in Int,
           h[a] = f[a] + v, h[Pot] = f[Pot] - v, \A x \in Holder \ {a, Pot} : h[x] = f[x]
    PROVE  SumOf(h) = SumOf(f)
<1> DEFINE m == [f EXCEPT ![a] = @ + v]
<1>1. a \in Holder /\ Pot \in Holder /\ a # Pot
  BY SelectionAssumption DEF Holder
<1>2. /\ m \in [Holder -> Int] /\ m[a] = f[a] + v
      /\ \A y \in Holder \ {a} : m[y] = f[y]
      /\ h[Pot] = m[Pot] + (-v) /\ \A y \in Holder \ {Pot} : h[y] = m[y]
  BY <1>1
<1> HIDE DEF m
<1>3. SumOf(m) = SumOf(f) + v
  BY <1>1, <1>2, FiniteHolders, SumShift
<1>4. SumOf(h) = SumOf(m) + (-v)
  <2>1. -v \in Int
    OBVIOUS
  <2> QED
    BY <1>1, <1>2, <2>1, FiniteHolders, SumShift
<1>5. SumOf(f) \in Int
  BY FiniteHolders, SumTyped, SumOfIsSumOver
<1> QED
  BY <1>3, <1>4, <1>5

Funds == SumOf(free) + SumOf(reserved)

\* An amount of one account goes from free to reserved, or back.
LEMMA Reserves ==
    ASSUME TypeOK, TypeOK', NEW a \in Account, NEW v \in Int,
           free'[a] = free[a] - v, \A x \in Holder \ {a} : free'[x] = free[x],
           reserved'[a] = reserved[a] + v, \A x \in Account \ {a} : reserved'[x] = reserved[x]
    PROVE  Funds' = Funds
<1>1. /\ free \in [Holder -> Int] /\ free' \in [Holder -> Int]
      /\ reserved \in [Account -> Int] /\ reserved' \in [Account -> Int]
      /\ a \in Holder /\ -v \in Int
  BY DEF TypeOK, Holder
<1>2. SumOf(free') = SumOf(free) + (-v)
  <2>1. free'[a] = free[a] + (-v)
    BY <1>1
  <2> QED
    BY <1>1, <2>1, FiniteHolders, SumShift
<1>3. SumOf(reserved') = SumOf(reserved) + v
  BY <1>1, FiniteAccounts, SumShift
<1>4. SumOf(free) \in Int /\ SumOf(reserved) \in Int
  BY <1>1, FiniteHolders, FiniteAccounts, SumTyped, SumOfIsSumOver
<1> QED
  BY <1>2, <1>3, <1>4 DEF Funds

\* A step leaves the funds as they were.
LEMMA StepConserves ==
    ASSUME TypeOK, TypeOK', [Next]_vars
    PROVE  Funds' = Funds
<1>1. /\ free \in [Holder -> Int] /\ free' \in [Holder -> Int]
      /\ reserved \in [Account -> Int] /\ reserved' \in [Account -> Int]
      /\ \A a \in Account : a \in Holder /\ a # Pot /\ Pot \in Holder
  BY SelectionAssumption DEF TypeOK, Holder
<1>2. ASSUME NEW who \in Account, RegisterAsCandidate(who)
      PROVE  Funds' = Funds
  <2>1. bond \in Int
    BY SelectionAssumption DEF TypeOK
  <2>2. /\ free'[who] = free[who] - bond /\ \A x \in Holder \ {who} : free'[x] = free[x]
        /\ reserved'[who] = reserved[who] + bond
        /\ \A x \in Account \ {who} : reserved'[x] = reserved[x]
    BY <1>1, <1>2 DEF RegisterAsCandidate
  <2> QED
    BY <2>1, <2>2, Reserves
<1>3. ASSUME NEW who \in Account, LeaveIntent(who)
      PROVE  Funds' = Funds
  <2>1. PICK i \in DOMAIN candidates : Unreserve(who, candidates[i].deposit)
    BY <1>3 DEF LeaveIntent
  <2> DEFINE v == Least(candidates[i].deposit, reserved[who])
  <2>2. v \in Int
    BY SelectionAssumption, EntryTyped DEF TypeOK, Least
  <2>3. free' = [free EXCEPT ![who] = @ + v] /\ reserved' = [reserved EXCEPT ![who] = @ - v]
    BY <2>1 DEF Unreserve
  <2> HIDE DEF v
  <2>4. /\ free'[who] = free[who] - (-v) /\ \A x \in Holder \ {who} : free'[x] = free[x]
        /\ reserved'[who] = reserved[who] + (-v)
        /\ \A x \in Account \ {who} : reserved'[x] = reserved[x]
        /\ -v \in Int
    BY <1>1, <2>2, <2>3
  <2> QED
    BY <2>4, Reserves
<1>4. ASSUME NEW who \in Account, NEW amount \in 1 .. free[who], FundPot(who, amount)
      PROVE  Funds' = Funds
  <2>1. /\ free' = [free EXCEPT ![who] = @ - amount, ![Pot] = @ + amount]
        /\ reserved' = reserved
    BY <1>4 DEF FundPot
  <2>2. -amount \in Int /\ amount \in Int
    BY <1>1
  <2>3. /\ free'[who] = free[who] + (-amount) /\ free'[Pot] = free[Pot] - (-amount)
        /\ \A x \in Holder \ {who, Pot} : free'[x] = free[x]
    BY <1>1, <2>1, <2>2
  <2>4. SumOf(free') = SumOf(free)
    BY <1>1, <2>2, <2>3, SumTransferred, ZenonT(30)
  <2> QED
    BY <2>1, <2>4 DEF Funds
<1>5. ASSUME NEW who \in Account, NoteAuthor(who)
      PROVE  Funds' = Funds
  <2>1. reserved' = reserved
    BY <1>5 DEF NoteAuthor
  <2>2. Reward \in Int
    BY RewardTyped
  <2>3. CASE RewardPaid(who, Reward)
    <3>1. free' = [free EXCEPT ![who] = @ + Reward, ![Pot] = @ - Reward]
      BY <1>5, <2>3 DEF NoteAuthor
    <3>2. SumOf(free') = SumOf(free)
      BY <1>1, <2>2, <3>1, SumTransferred
    <3> QED
      BY <2>1, <3>2 DEF Funds
  <2>4. CASE ~RewardPaid(who, Reward)
    BY <1>5, <2>1, <2>4 DEF NoteAuthor, Funds
  <2> QED
    BY <2>3, <2>4
<1>6. ASSUME NewSession
      PROVE  Funds' = Funds
  <2> DEFINE e == [a \in Account |-> Least(KickedDeposit(a), reserved[a])]
  <2>1. e \in [Account -> Int]
    BY KickedDepositTyped DEF TypeOK, Least
  <2>2. /\ free'[Pot] = free[Pot]
        /\ \A a \in Account : free'[a] = free[a] + e[a] /\ reserved'[a] = reserved[a] - e[a]
    <3>1. /\ free' = [h \in Holder |-> IF h = Pot THEN free[h]
                                      ELSE free[h] + Least(KickedDeposit(h), reserved[h])]
          /\ reserved' = [a \in Account |-> reserved[a] - Least(KickedDeposit(a), reserved[a])]
      BY <1>6 DEF NewSession
    <3>2. Pot \in Holder
      BY DEF Holder
    <3> QED
      BY <1>1, <3>1, <3>2
  <2> HIDE DEF e
  <2> QED
    BY <1>1, <2>1, <2>2, SumReleased DEF Funds
<1>7. CASE UNCHANGED moneyVars
  BY <1>7 DEF moneyVars, Funds
<1>8. CASE NextBlock \/ UNCHANGED vars
  BY <1>7, <1>8 DEF NextBlock, vars
<1>9. CASE \/ \E list \in InvulnerableLists : SetInvulnerables(list)
           \/ \E max \in DesiredCounts : SetDesiredCandidates(max)
           \/ \E new \in Bonds : SetCandidacyBond(new)
           \/ \E who \in Rekeyed : ToggleKeys(who)
  BY <1>7, <1>9 DEF SetInvulnerables, SetDesiredCandidates, SetCandidacyBond, ToggleKeys
<1> QED
  BY <1>2, <1>3, <1>4, <1>5, <1>6, <1>8, <1>9 DEF Next, Extrinsic

\* At genesis the funds are those that were given out.
LEMMA InitFunds == Init => FundsConserved
<1> SUFFICES ASSUME Init PROVE FundsConserved
  OBVIOUS
<1>1. reserved \in [Account -> Int] /\ \A a \in Account : reserved[a] = 0
  BY DEF Init
<1>2. SumOf(reserved) = 0
  BY <1>1, FiniteAccounts, SumZeros, SumOfIsSumOver
<1>3. SumOf(InitialFree) \in Int
  BY SelectionAssumption, FiniteHolders, SumTyped, SumOfIsSumOver
<1> QED
  BY <1>2, <1>3 DEF Init, FundsConserved

\* No call makes or loses money, also when a reward cannot be paid
\* (lib.rs 351, 391, 442-451).
THEOREM AlwaysConserved == Spec => []FundsConserved
<1>1. FundsConserved /\ TypeOK /\ TypeOK' /\ [Next]_vars => FundsConserved'
  BY StepConserves DEF FundsConserved, Funds
<1> QED
  BY <1>1, InitFunds, TypeCorrect, PTL DEF Spec

-----------------------------------------------------------------------------
(* When sessions end *)

\* A product with a larger factor is larger by a whole Period at least.
LEMMA Multiples ==
    ASSUME NEW x \in Int, NEW y \in Int, x < y
    PROVE  Period * x + Period <= Period * y
<1> DEFINE d == y - x - 1
<1>1. Period \in Nat /\ d \in Nat /\ y = x + 1 + d
  BY ChainAssumption
<1> HIDE DEF d
<1>2. Period * d >= 0
  BY <1>1
<1> QED
  BY <1>1, <1>2

\* The multiple of Period that follows one is Period away.
LEMMA NextMultiple ==
    ASSUME NEW r \in Nat, NEW m \in Nat, r % Period = 0, r <= m, m < r + Period
    PROVE  (m + 1) % Period = 0 <=> m + 1 = r + Period
<1> DEFINE q == r \div Period
           p == (m + 1) \div Period
           rest == (m + 1) % Period
<1>1. Period \in Nat /\ Period > 0
  BY ChainAssumption
<1>2. q \in Int /\ r = Period * q
  BY <1>1
<1>3. p \in Int /\ m + 1 = Period * p + rest /\ rest \in Nat /\ rest < Period
  BY <1>1
<1>4. r < m + 1 /\ m + 1 <= r + Period
  BY <1>1
<1> DEFINE s == Period * q
           t == Period * p
<1>5. s \in Int /\ t \in Int
  BY <1>1, <1>2, <1>3
<1>6. Period * q + Period = Period * (q + 1)
  BY <1>1, <1>2
<1> HIDE DEF q, p, rest
<1>7. ASSUME rest = 0 PROVE m + 1 = r + Period
  <2>1. CASE p <= q
    <3>1. p = q \/ t + Period <= s
      BY <2>1, <1>2, <1>3, Multiples
    <3> QED
      BY <3>1, <1>1, <1>2, <1>3, <1>4, <1>5, <1>7
  <2>2. CASE q < p
    <3>1. s + Period <= t
      BY <2>2, <1>2, <1>3, Multiples
    <3> HIDE DEF s, t
    <3> QED
      BY <3>1, <1>1, <1>2, <1>3, <1>4, <1>5, <1>7 DEF s, t
  <2> QED
    BY <2>1, <2>2, <1>2, <1>3
<1>8. ASSUME m + 1 = r + Period PROVE rest = 0
  <2>1. CASE p <= q
    <3>1. p = q \/ t + Period <= s
      BY <2>1, <1>2, <1>3, Multiples
    <3> QED
      BY <3>1, <1>1, <1>2, <1>3, <1>5, <1>8
  <2>2. CASE q < p
    <3>1. s + Period <= t
      BY <2>2, <1>2, <1>3, Multiples
    <3> HIDE DEF s, t
    <3> QED
      BY <3>1, <1>1, <1>2, <1>3, <1>5, <1>8 DEF s, t
  <2> QED
    BY <2>1, <2>2, <1>2, <1>3
<1> QED
  BY <1>7, <1>8 DEF rest

-----------------------------------------------------------------------------
(* The steps of the chain are steps of the pallet *)

\* Hooks and transactions only call what the pallet offers.
LEMMA ChainSteps == ASSUME [ChainNext]_chainVars PROVE [Next]_vars
BY DEF ChainNext, chainVars, BeginBlock, RotateSession, AuthorBlock, Transact, Next

\* A transaction or governance changes no block number, no selection and no
\* author; of the candidacies, at most one.
LEMMA ExtrinsicSteps ==
    ASSUME Extrinsic
    PROVE  /\ UNCHANGED <<now, collators, authored>>
           /\ \/ \E who \in Account : RegisterAsCandidate(who)
              \/ \E who \in Account : LeaveIntent(who)
              \/ UNCHANGED <<candVars, joined>>
BY DEF Extrinsic, SetInvulnerables, SetDesiredCandidates, SetCandidacyBond, ToggleKeys,
       FundPot, RegisterAsCandidate, LeaveIntent, historyVars

\* The pallet's invariant is the chain's.
LEMMA StepInv == ASSUME IInv, [Next]_vars PROVE IInv'
BY StepTyped, StepBacked, StepGrace DEF IInv

\* The numbers the invariant speaks of.
LEMMA Numbers ==
    ASSUME IInv, NEW a \in Account
    PROVE  /\ now \in Nat /\ joined[a] \in Nat /\ authored[a] \in Nat
           /\ lastAuthored[a] \in Nat
           /\ Period \in Nat \ {0} /\ KickThreshold = Period
           /\ joined[a] <= now /\ authored[a] <= now
BY ChainAssumption, SelectionAssumption DEF IInv, TypeOK, Blocks, GraceKept

\* Who is a candidate after a session change was one before, is selected, and
\* has its grace still.
LEMMA KeptSelected ==
    ASSUME IInv, NewSession, NEW a \in Account, Positions(candidates', a) # {}
    PROVE  /\ IsCandidate(a)
           /\ lastAuthored'[a] = lastAuthored[a]
           /\ InList(collators', a)
<1>1. candidates' \in Kept(candidates, DOMAIN candidates \ KickedPositions)
  BY DEF NewSession
<1>2. Positions(candidates, a) \cap KickedPositions = {}
  BY <1>1, RemovedLeaves DEF IInv
<1>3. IsCandidate(a)
  BY <1>1, <1>2, OthersRemain DEF IInv, IsCandidate
<1>4. lastAuthored'[a] = lastAuthored[a]
  BY <1>2 DEF NewSession
<1>5. InList(collators', a)
  <2>1. PICK i \in DOMAIN candidates' : candidates'[i].who = a
    BY DEF Positions
  <2>2. collators' = invulnerables \o WhoOf(candidates')
    BY DEF NewSession
  <2>3. invulnerables \in Seq(Account) /\ candidates' \in Seq(Candidate)
    BY <1>1, KeptCandidates, SelectionAssumption DEF IInv, TypeOK
  <2>4. /\ WhoOf(candidates') \in Seq(Account)
        /\ DOMAIN WhoOf(candidates') = DOMAIN candidates'
        /\ WhoOf(candidates')[i] = a
    <3> DEFINE list == candidates'
    <3>1. list \in Seq(Candidate) /\ i \in DOMAIN list /\ list[i].who = a
      BY <2>1, <2>3
    <3> HIDE DEF list
    <3>2. /\ DOMAIN list = 1 .. Len(list) /\ Len(list) \in Nat
          /\ \A k \in DOMAIN list : list[k].who \in Account
      <4>1. /\ DOMAIN list = 1 .. Len(list) /\ Len(list) \in Nat
            /\ \A k \in DOMAIN list : list[k] \in Candidate
        BY <3>1
      <4>2. \A entry \in Candidate : entry.who \in Account
        BY DEF Candidate
      <4> QED
        BY <4>1, <4>2
    <3>3. WhoOf(list) \in [1 .. Len(list) -> Account]
      BY <3>2 DEF WhoOf
    <3>4. WhoOf(list) \in Seq(Account)
      BY <3>2, <3>3
    <3>5. DOMAIN WhoOf(list) = DOMAIN list /\ WhoOf(list)[i] = a
      BY <3>1 DEF WhoOf
    <3> QED
      BY <3>4, <3>5 DEF list
  <2> DEFINE tail == WhoOf(candidates')
  <2> HIDE DEF tail
  <2>5. /\ Len(invulnerables) + i \in DOMAIN (invulnerables \o tail)
        /\ (invulnerables \o tail)[Len(invulnerables) + i] = tail[i]
    BY <2>1, <2>3, <2>4 DEF tail
  <2> QED
    BY <2>2, <2>4, <2>5 DEF InList, tail
<1> QED
  BY <1>3, <1>4, <1>5

-----------------------------------------------------------------------------
(* Each step keeps the invariant *)

LEMMA BeginBlockInv ==
    ASSUME ChainInv, BeginBlock
    PROVE  SessionsOnTime' /\ HooksFirst' /\ SeatOnTheWay'
<1>1. /\ hooks = {} /\ now' = now + 1
      /\ UNCHANGED <<validators, rotated, candidates, lastAuthored, authored, joined, collators>>
      /\ hooks' = {"note_author"} \cup (IF now' % Period = 0 THEN {"new_session"} ELSE {})
  BY DEF BeginBlock, NextBlock, candVars, historyVars
<1>2. /\ now \in Nat /\ Period \in Nat \ {0}
      /\ rotated \in Nat /\ rotated % Period = 0 /\ rotated <= now /\ now < rotated + Period
  BY <1>1, ChainAssumption DEF ChainInv, IInv, TypeOK, Blocks, SessionsOnTime
<1>3. now' % Period = 0 <=> now' = rotated + Period
  BY <1>1, <1>2, NextMultiple
<1>4. "new_session" \in hooks' <=> now' % Period = 0
  BY <1>1
<1>5. SessionsOnTime'
  BY <1>1, <1>2, <1>3, <1>4 DEF SessionsOnTime
<1>6. HooksFirst'
  BY <1>1, Numbers DEF ChainInv, HooksFirst
<1>7. SeatOnTheWay'
  BY <1>1 DEF ChainInv, SeatOnTheWay, IsCandidate, Positions, InList
<1> QED
  BY <1>5, <1>6, <1>7

LEMMA RotateInv ==
    ASSUME ChainInv, RotateSession
    PROVE  SessionsOnTime' /\ HooksFirst' /\ SeatOnTheWay'
<1>1. /\ "new_session" \in hooks /\ NewSession
      /\ UNCHANGED <<now, authored, joined>>
      /\ validators' = Range(collators)
      /\ hooks' = hooks \ {"new_session"} /\ rotated' = now
  BY DEF RotateSession, NewSession, historyVars
<1>2. /\ now \in Nat /\ Period \in Nat \ {0}
      /\ rotated \in Nat /\ rotated % Period = 0 /\ now = rotated + Period
  BY <1>1, ChainAssumption DEF ChainInv, IInv, TypeOK, Blocks, SessionsOnTime
<1>3. now % Period = 0
  <2>1. rotated <= now - 1 /\ now - 1 < rotated + Period /\ now - 1 \in Nat /\ (now - 1) + 1 = now
    BY <1>2
  <2> QED
    BY <1>2, <2>1, NextMultiple
<1>4. SessionsOnTime'
  BY <1>1, <1>2, <1>3 DEF SessionsOnTime
<1>5. HooksFirst'
  BY <1>1 DEF ChainInv, HooksFirst
<1>6. SeatOnTheWay'
  <2> SUFFICES ASSUME NEW a \in Account, Positions(candidates', a) # {}
               PROVE  /\ authored[a] <= joined[a] => lastAuthored'[a] = joined[a] + KickThreshold
                      /\ InList(collators', a)
                      /\ joined[a] < now - Period => a \in validators'
    BY <1>1 DEF SeatOnTheWay, IsCandidate
  <2>1. IsCandidate(a) /\ lastAuthored'[a] = lastAuthored[a] /\ InList(collators', a)
    BY <1>1, KeptSelected DEF ChainInv
  <2>2. joined[a] < now - Period => InList(collators, a)
    BY <1>2, <2>1 DEF ChainInv, SeatOnTheWay
  <2>3. InList(collators, a) => a \in validators'
    BY <1>1 DEF InList, Range
  <2> QED
    BY <2>1, <2>2, <2>3 DEF ChainInv, SeatOnTheWay
<1> QED
  BY <1>4, <1>5, <1>6

LEMMA AuthorInv ==
    ASSUME ChainInv, NEW author \in Account, AuthorBlock(author)
    PROVE  SessionsOnTime' /\ HooksFirst' /\ SeatOnTheWay'
<1>1. /\ "note_author" \in hooks /\ hooks' = hooks \ {"note_author"}
      /\ UNCHANGED <<now, joined, candidates, collators, validators, rotated>>
      /\ lastAuthored' = [lastAuthored EXCEPT ![author] = now]
      /\ authored' = [authored EXCEPT ![author] = now]
  BY DEF AuthorBlock, NoteAuthor
<1>2. SessionsOnTime'
  BY <1>1 DEF ChainInv, SessionsOnTime
<1>3. HooksFirst'
  BY <1>1 DEF ChainInv, HooksFirst
<1>4. SeatOnTheWay'
  <2> SUFFICES ASSUME NEW a \in Account, IsCandidate(a), authored'[a] <= joined[a]
               PROVE  lastAuthored'[a] = joined[a] + KickThreshold
    BY <1>1 DEF ChainInv, SeatOnTheWay, IsCandidate, Positions, InList
  <2>1. joined[a] < now /\ now \in Nat /\ joined[a] \in Nat
    BY <1>1, Numbers DEF ChainInv, HooksFirst
  <2>2. a # author
    <3>1. authored'[author] = now
      BY <1>1 DEF ChainInv, IInv, TypeOK
    <3> QED
      BY <2>1, <3>1
  <2>3. authored'[a] = authored[a] /\ lastAuthored'[a] = lastAuthored[a]
    BY <1>1, <2>2 DEF ChainInv, IInv, TypeOK
  <2> QED
    BY <2>3 DEF ChainInv, SeatOnTheWay
<1> QED
  BY <1>2, <1>3, <1>4

LEMMA TransactInv ==
    ASSUME ChainInv, Transact
    PROVE  SessionsOnTime' /\ HooksFirst' /\ SeatOnTheWay'
<1>1. /\ hooks = {} /\ Extrinsic /\ UNCHANGED <<validators, hooks, rotated>>
      /\ UNCHANGED <<now, collators, authored>>
  BY ExtrinsicSteps DEF Transact
<1>2. SessionsOnTime'
  BY <1>1 DEF ChainInv, SessionsOnTime
<1>3. HooksFirst'
  BY <1>1 DEF HooksFirst
<1>4. rotated <= now /\ rotated \in Nat
  BY <1>1 DEF ChainInv, SessionsOnTime
\* Of an account whose candidacy is what it was, nothing changes.
<1>5. ASSUME NEW a \in Account, Positions(candidates', a) # {}, IsCandidate(a),
             lastAuthored'[a] = lastAuthored[a], joined'[a] = joined[a]
      PROVE  /\ authored'[a] <= joined'[a] => lastAuthored'[a] = joined'[a] + KickThreshold
             /\ joined'[a] < rotated' => InList(collators', a)
             /\ joined'[a] < rotated' - Period => a \in validators'
  BY <1>1, <1>5 DEF ChainInv, SeatOnTheWay
<1>6. ASSUME NEW who \in Account, RegisterAsCandidate(who)
      PROVE  SeatOnTheWay'
  <2>1. joined' = [joined EXCEPT ![who] = now]
        /\ lastAuthored' = [lastAuthored EXCEPT ![who] = now + KickThreshold]
    BY <1>6 DEF RegisterAsCandidate
  <2>2. joined'[who] = now /\ lastAuthored'[who] = now + KickThreshold
    BY <2>1 DEF ChainInv, IInv, TypeOK
  <2>3. ASSUME NEW a \in Account, a # who
        PROVE  /\ joined'[a] = joined[a] /\ lastAuthored'[a] = lastAuthored[a]
               /\ Positions(candidates', a) = Positions(candidates, a)
    BY <1>6, <2>1, <2>3, RegisteredPositions DEF ChainInv, IInv, TypeOK
  <2>4. ~(joined'[who] < rotated') /\ ~(joined'[who] < rotated' - Period)
    BY <1>1, <1>4, <2>2, Numbers DEF ChainInv
  <2> SUFFICES ASSUME NEW a \in Account, Positions(candidates', a) # {}
               PROVE  /\ authored'[a] <= joined'[a] => lastAuthored'[a] = joined'[a] + KickThreshold
                      /\ joined'[a] < rotated' => InList(collators', a)
                      /\ joined'[a] < rotated' - Period => a \in validators'
    BY DEF SeatOnTheWay, IsCandidate, InList
  <2>5. CASE a = who
    BY <2>2, <2>4, <2>5
  <2>6. CASE a # who
    BY <1>5, <2>3, <2>6 DEF IsCandidate
  <2> QED
    BY <2>5, <2>6
<1>7. ASSUME NEW who \in Account, LeaveIntent(who)
      PROVE  SeatOnTheWay'
  <2>1. PICK i \in DOMAIN candidates :
          /\ candidates[i].who = who
          /\ candidates' \in Kept(candidates, DOMAIN candidates \ {i})
    BY <1>7 DEF LeaveIntent
  <2>2. Positions(candidates', who) = {}
    <3>1. i \in Positions(candidates, who)
      BY <2>1 DEF Positions
    <3> QED
      BY <2>1, <3>1, RemovedLeaves DEF ChainInv, IInv
  <2>3. ASSUME NEW a \in Account, a # who
        PROVE  /\ joined'[a] = joined[a] /\ lastAuthored'[a] = lastAuthored[a]
               /\ Positions(candidates', a) = {} <=> Positions(candidates, a) = {}
    <3>1. Positions(candidates, a) \cap {i} = {}
      BY <2>1, <2>3 DEF Positions
    <3>2. joined'[a] = joined[a] /\ lastAuthored'[a] = lastAuthored[a]
      BY <1>7, <2>3 DEF ChainInv, IInv, TypeOK, LeaveIntent, historyVars
    <3> QED
      BY <2>1, <3>1, <3>2, OthersRemain DEF ChainInv, IInv
  <2> SUFFICES ASSUME NEW a \in Account, Positions(candidates', a) # {}
               PROVE  /\ authored'[a] <= joined'[a] => lastAuthored'[a] = joined'[a] + KickThreshold
                      /\ joined'[a] < rotated' => InList(collators', a)
                      /\ joined'[a] < rotated' - Period => a \in validators'
    BY DEF SeatOnTheWay, IsCandidate, InList
  <2> QED
    BY <1>5, <2>2, <2>3 DEF IsCandidate
<1>8. ASSUME UNCHANGED <<candVars, joined>>
      PROVE  SeatOnTheWay'
  BY <1>1, <1>8 DEF ChainInv, SeatOnTheWay, IsCandidate, Positions, InList, candVars
<1>9. \/ \E who \in Account : RegisterAsCandidate(who)
      \/ \E who \in Account : LeaveIntent(who)
      \/ UNCHANGED <<candVars, joined>>
  BY <1>1, ExtrinsicSteps
<1>10. SeatOnTheWay'
  BY <1>6, <1>7, <1>8, <1>9
<1> QED
  BY <1>2, <1>3, <1>10

-----------------------------------------------------------------------------
(* The theorems *)

\* Hooks and transactions, in whatever order, leave the pallet's storage to
\* evolve as its own specification says: what is proved of that holds here.
THEOREM ImplementsSelection == ChainSpec => Spec
<1>1. ChainInit => Init
  BY DEF ChainInit
<1>2. [ChainNext]_chainVars => [Next]_vars
  BY ChainSteps
<1> QED
  BY <1>1, <1>2, PTL DEF ChainSpec, Spec

\* The invariant of the composition: sessions end on time, and every candidate
\* is on its way from its registration to its seat.
THEOREM ChainInductive == ChainSpec => []ChainInv
<1>1. ChainInit => ChainInv
  <2> SUFFICES ASSUME ChainInit PROVE ChainInv
    OBVIOUS
  <2>1. IInv
    BY InvInit DEF ChainInit
  <2>2. now = 0 /\ rotated = 0 /\ hooks = {} /\ Period \in Nat \ {0} /\ 0 % Period = 0
    BY ChainAssumption DEF ChainInit, Init
  <2>3. SessionsOnTime /\ HooksFirst
    BY <2>2 DEF SessionsOnTime, HooksFirst
  <2>4. SeatOnTheWay
    BY DEF SeatOnTheWay, IsCandidate, Positions, ChainInit, Init
  <2> QED
    BY <2>1, <2>3, <2>4 DEF ChainInv
<1>2. ChainInv /\ [ChainNext]_chainVars => ChainInv'
  <2> SUFFICES ASSUME ChainInv, [ChainNext]_chainVars PROVE ChainInv'
    OBVIOUS
  <2>1. IInv'
    BY ChainSteps, StepInv DEF ChainInv
  <2>2. CASE UNCHANGED chainVars
    BY <2>1, <2>2 DEF chainVars, vars, candVars, historyVars, ChainInv, SessionsOnTime, HooksFirst,
                      SeatOnTheWay, IsCandidate, Positions, InList
  <2> QED
    BY <2>1, <2>2, BeginBlockInv, RotateInv, AuthorInv, TransactInv DEF ChainNext, ChainInv
<1> QED
  BY <1>1, <1>2, PTL DEF ChainSpec

\* A candidate is kicked only if it was in office for a session without a block
\* after the first, or cut its own grace short, or registered in the block of a
\* session change (lib.rs 343-356, 416-424, 452; runtime 237, 277).
THEOREM AlwaysAbsent == ChainSpec => KickedOnlyIfAbsent
<1> DEFINE Kicked(a) ==
      /\ IsCandidate(a)
      /\ Positions(candidates', a) = {}
      /\ RotateSession
           Absent(a) ==
      \/ /\ a \in validators
         /\ authored[a] <= now - Period
      \/ /\ a \notin validators
         /\ authored[a] > joined[a]
      \/ joined[a] = now - 2 * Period
<1>1. ChainInv => [\A a \in Account : Kicked(a) => Absent(a)]_chainVars
  <2> SUFFICES ASSUME ChainInv, NEW a \in Account, Kicked(a) PROVE Absent(a)
    OBVIOUS
  <2>1. Positions(candidates, a) \cap KickedPositions # {}
    <3>1. candidates' \in Kept(candidates, DOMAIN candidates \ KickedPositions)
      BY DEF RotateSession, NewSession
    <3> QED
      BY <3>1, OthersRemain DEF ChainInv, IInv, IsCandidate
  <2>2. Stale(a)
    BY <2>1 DEF KickedPositions, StalePositions, Positions
  <2>3. /\ now \in Nat /\ joined[a] \in Nat /\ authored[a] \in Nat
        /\ lastAuthored[a] \in Nat
        /\ Period \in Nat \ {0} /\ KickThreshold = Period
    BY Numbers DEF ChainInv
  <2>4. lastAuthored[a] <= now - Period
    BY <2>2, <2>3 DEF Stale, SaturatingSub
  <2>5. rotated = now - Period /\ rotated \in Nat
    BY <2>3 DEF RotateSession, ChainInv, SessionsOnTime
  <2>6. /\ authored[a] <= joined[a] => lastAuthored[a] = joined[a] + KickThreshold
        /\ joined[a] < rotated - Period => a \in validators
    BY DEF ChainInv, SeatOnTheWay
  <2>7. CASE authored[a] <= joined[a]
    <3>1. joined[a] <= now - 2 * Period
      BY <2>3, <2>4, <2>6, <2>7
    <3>2. joined[a] = now - 2 * Period \/ a \in validators
      BY <2>3, <2>5, <2>6, <3>1
    <3> QED
      BY <2>3, <2>7, <3>1, <3>2
  <2>8. CASE authored[a] > joined[a]
    <3>1. lastAuthored[a] = authored[a]
      BY <2>3, <2>8 DEF ChainInv, IInv, GraceKept
    <3> QED
      BY <2>4, <2>8, <3>1
  <2> QED
    BY <2>3, <2>7, <2>8
<1> QED
  BY <1>1, ChainInductive, PTL DEF ChainSpec, KickedOnlyIfAbsent

-----------------------------------------------------------------------------
(* Sequences cut down step by step *)

\* Entries picked in order, none missed, make up the sequence cut down.
LEMMA KeptFrom ==
    ASSUME NEW S, NEW seq \in Seq(S), NEW positions \in SUBSET DOMAIN seq,
           NEW kept \in Seq(S), Len(kept) = Cardinality(positions),
           NEW pick, Picks(pick, kept, seq, positions)
    PROVE  kept \in Kept(seq, positions)
<1> DEFINE size == Cardinality(positions)
<1>1. DOMAIN kept = 1 .. size
  OBVIOUS
<1>2. pick \in [1 .. size -> positions] /\ \A i, j \in 1 .. size : i < j => pick[i] < pick[j]
  BY <1>1 DEF Picks
<1>3. kept = [i \in 1 .. size |-> seq[pick[i]]]
  BY <1>1 DEF Picks
<1> HIDE DEF size
<1> QED
  BY <1>2, <1>3 DEF Kept, size

\* Two increasing picks of the same positions are the same.
LEMMA SamePick ==
    ASSUME NEW positions \in SUBSET Nat, NEW size \in Nat,
           NEW f \in [1 .. size -> positions], NEW g \in [1 .. size -> positions],
           \A i, j \in 1 .. size : i < j => f[i] < f[j],
           \A i, j \in 1 .. size : i < j => g[i] < g[j],
           \A p \in positions : \E i \in 1 .. size : f[i] = p,
           \A p \in positions : \E i \in 1 .. size : g[i] = p
    PROVE  f = g
<1> DEFINE T == {i \in 1 .. size : f[i] # g[i]}
<1> SUFFICES ASSUME T # {} PROVE FALSE
  OBVIOUS
<1>1. PICK i \in T : \A j \in T : i <= j
  <2>1. T \in SUBSET Nat
    OBVIOUS
  <2> HIDE DEF T
  <2> QED
    BY <2>1, LeastMember
<1>2. \A j \in 1 .. size : j < i => f[j] = g[j]
  BY <1>1
<1>3. f[i] \in Nat /\ g[i] \in Nat /\ i \in 1 .. size /\ f[i] # g[i]
  BY <1>1
<1>4. CASE f[i] < g[i]
  <2>1. PICK m \in 1 .. size : g[m] = f[i]
    BY <1>3
  <2>2. m < i
    BY <1>3, <1>4, <2>1
  <2>3. f[m] = f[i] /\ f[m] < f[i]
    BY <1>2, <1>3, <2>1, <2>2
  <2> QED
    BY <1>3, <2>3
<1>5. CASE g[i] < f[i]
  <2>1. PICK m \in 1 .. size : f[m] = g[i]
    BY <1>3
  <2>2. m < i
    BY <1>3, <1>5, <2>1
  <2>3. g[m] = g[i] /\ g[m] < g[i]
    BY <1>2, <1>3, <2>1, <2>2
  <2> QED
    BY <1>3, <2>3
<1> QED
  BY <1>3, <1>4, <1>5

\* There is only one way to cut a sequence down to some positions.
LEMMA KeptOnce ==
    ASSUME NEW S, NEW seq \in Seq(S), NEW positions \in SUBSET DOMAIN seq,
           NEW k \in Kept(seq, positions), NEW l \in Kept(seq, positions)
    PROVE  k = l
<1> DEFINE size == Cardinality(positions)
<1>1. /\ size \in Nat /\ positions \in SUBSET Nat
      /\ k \in Seq(S) /\ Len(k) = size /\ l \in Seq(S) /\ Len(l) = size
  BY KeptParts
<1>2. PICK f : Picks(f, k, seq, positions)
  BY KeptParts
<1>3. PICK g : Picks(g, l, seq, positions)
  BY KeptParts
<1> HIDE DEF size
<1>4. DOMAIN k = 1 .. size /\ DOMAIN l = 1 .. size
  BY <1>1
<1>5. f = g
  <2>1. /\ f \in [1 .. size -> positions]
        /\ \A i, j \in 1 .. size : i < j => f[i] < f[j]
        /\ \A p \in positions : \E i \in 1 .. size : f[i] = p
    BY <1>2, <1>4 DEF Picks
  <2>2. /\ g \in [1 .. size -> positions]
        /\ \A i, j \in 1 .. size : i < j => g[i] < g[j]
        /\ \A p \in positions : \E i \in 1 .. size : g[i] = p
    BY <1>3, <1>4 DEF Picks
  <2> QED
    BY <1>1, <2>1, <2>2, SamePick
<1>6. \A i \in 1 .. size : k[i] = seq[f[i]] /\ l[i] = seq[f[i]]
  <2>1. \A i \in 1 .. size : k[i] = seq[f[i]]
    BY <1>2, <1>4 DEF Picks
  <2>2. \A i \in 1 .. size : l[i] = seq[g[i]]
    BY <1>3, <1>4 DEF Picks
  <2> QED
    BY <1>5, <2>1, <2>2
<1> QED
  BY <1>1, <1>4, <1>6

\* A sequence cut down to all of its positions is that sequence.
LEMMA KeptAll ==
    ASSUME NEW S, NEW seq \in Seq(S)
    PROVE  seq \in Kept(seq, DOMAIN seq)
<1>1. Cardinality(1 .. Len(seq)) = Len(seq)
  <2>1. Len(seq) \in Nat /\ 1 \in Int
    OBVIOUS
  <2> QED
    BY <2>1, FS_Interval
<1>2. Picks([i \in DOMAIN seq |-> i], seq, seq, DOMAIN seq)
  BY DEF Picks
<1>3. DOMAIN seq \in SUBSET DOMAIN seq /\ DOMAIN seq = 1 .. Len(seq)
  OBVIOUS
<1> QED
  BY <1>1, <1>2, <1>3, KeptFrom

\* A sequence cut down to no position is empty.
LEMMA KeptNone == ASSUME NEW seq PROVE <<>> \in Kept(seq, {})
<1>1. Cardinality({}) = 0
  BY FS_EmptySet
<1> DEFINE f == [i \in 1 .. 0 |-> 0]
<1>2. f \in [1 .. 0 -> {}] /\ \A i, j \in 1 .. 0 : i < j => f[i] < f[j]
  OBVIOUS
<1>3. <<>> = [i \in 1 .. 0 |-> seq[f[i]]]
  OBVIOUS
<1> QED
  BY <1>1, <1>2, <1>3 DEF Kept

\* One more position, behind all others, is one more entry at the end.
LEMMA KeptAppend ==
    ASSUME NEW S, NEW seq \in Seq(S), NEW positions \in SUBSET DOMAIN seq,
           NEW kept \in Kept(seq, positions),
           NEW p \in DOMAIN seq, \A q \in positions : q < p
    PROVE  Append(kept, seq[p]) \in Kept(seq, positions \cup {p})
<1> DEFINE size == Cardinality(positions)
           longer == Append(kept, seq[p])
<1>1. size \in Nat /\ kept \in Seq(S) /\ Len(kept) = size
  BY KeptParts
<1>2. PICK pick : Picks(pick, kept, seq, positions)
  BY KeptParts
<1>3. /\ p \notin positions /\ seq[p] \in S
      /\ positions \cup {p} \in SUBSET DOMAIN seq
  OBVIOUS
<1>4. Cardinality(positions \cup {p}) = size + 1
  <2>1. IsFiniteSet(1 .. Len(seq))
    BY FS_Interval
  <2>2. positions \in SUBSET (1 .. Len(seq))
    OBVIOUS
  <2> QED
    BY <1>3, <2>1, <2>2, FS_Subset, FS_AddElement
<1> HIDE DEF size
<1>5. longer \in Seq(S) /\ Len(longer) = size + 1 /\ DOMAIN longer = 1 .. (size + 1)
  BY <1>1, <1>3
<1> DEFINE more == [i \in 1 .. (size + 1) |-> IF i = size + 1 THEN p ELSE pick[i]]
<1>6. Picks(more, longer, seq, positions \cup {p})
  <2>1. DOMAIN kept = 1 .. size /\ pick \in [1 .. size -> positions]
    BY <1>1, <1>2 DEF Picks
  <2>2. more \in [1 .. (size + 1) -> positions \cup {p}]
    BY <1>1, <2>1
  <2>3. ASSUME NEW i \in 1 .. (size + 1), NEW j \in 1 .. (size + 1), i < j
        PROVE  more[i] < more[j]
    <3>1. i \in 1 .. size /\ more[i] = pick[i]
      BY <1>1, <2>3
    <3>2. CASE j = size + 1
      BY <1>1, <2>1, <3>1, <3>2
    <3>3. CASE j # size + 1
      <4>1. j \in 1 .. size /\ more[j] = pick[j]
        BY <1>1, <3>3
      <4> QED
        BY <1>2, <2>1, <2>3, <3>1, <4>1 DEF Picks
    <3> QED
      BY <3>2, <3>3
  <2>4. ASSUME NEW i \in 1 .. (size + 1)
        PROVE  longer[i] = seq[more[i]]
    <3>1. CASE i = size + 1
      <4>1. longer[i] = seq[p]
        BY <1>1, <1>3, <3>1
      <4> QED
        BY <3>1, <4>1
    <3>2. CASE i # size + 1
      <4>1. i \in 1 .. size /\ longer[i] = kept[i]
        BY <1>1, <1>3, <3>2
      <4>2. kept[i] = seq[pick[i]]
        BY <1>2, <2>1, <4>1 DEF Picks
      <4> QED
        BY <3>2, <4>1, <4>2
    <3> QED
      BY <3>1, <3>2
  <2>5. \A q \in positions \cup {p} : \E i \in 1 .. (size + 1) : more[i] = q
    <3>1. more[size + 1] = p /\ size + 1 \in 1 .. (size + 1)
      BY <1>1
    <3>2. \A i \in 1 .. size : i \in 1 .. (size + 1) /\ more[i] = pick[i]
      BY <1>1
    <3>3. \A q \in positions : \E i \in 1 .. size : pick[i] = q
      BY <1>2, <2>1 DEF Picks
    <3> HIDE DEF more
    <3> QED
      BY <3>1, <3>2, <3>3
  <2> HIDE DEF more, longer
  <2> QED
    BY <1>5, <2>2, <2>3, <2>4, <2>5 DEF Picks
<1> HIDE DEF more, longer
<1>7. longer \in Kept(seq, positions \cup {p})
  BY <1>3, <1>4, <1>5, <1>6, KeptFrom
<1> QED
  BY <1>7 DEF longer

\* Without one of its entries, it is cut down to the other positions.
LEMMA KeptRemove ==
    ASSUME NEW S, NEW seq \in Seq(S), NEW positions \in SUBSET DOMAIN seq,
           NEW kept \in Kept(seq, positions), NEW pick, Picks(pick, kept, seq, positions),
           NEW q \in DOMAIN kept
    PROVE  RemoveAt(kept, q) \in Kept(seq, positions \ {pick[q]})
<1> DEFINE size == Cardinality(positions)
           shorter == RemoveAt(kept, q)
           fewer == [i \in 1 .. (size - 1) |-> IF i < q THEN pick[i] ELSE pick[i + 1]]
<1>1. size \in Nat /\ kept \in Seq(S) /\ Len(kept) = size
  BY KeptParts
<1>2. Cardinality(positions \ {pick[q]}) = size - 1
  <2>1. IsFiniteSet(1 .. Len(seq))
    BY FS_Interval
  <2>2. positions \in SUBSET (1 .. Len(seq))
    OBVIOUS
  <2>3. pick[q] \in positions
    BY DEF Picks
  <2> QED
    BY <2>1, <2>2, <2>3, FS_Subset, FS_RemoveElement
<1> HIDE DEF size
<1>3. DOMAIN kept = 1 .. size /\ q \in 1 .. size
  BY <1>1
<1>4. /\ pick \in [1 .. size -> positions]
      /\ \A i, j \in 1 .. size : i < j => pick[i] < pick[j]
      /\ \A i \in 1 .. size : kept[i] = seq[pick[i]]
      /\ \A p \in positions : \E i \in 1 .. size : pick[i] = p
  BY <1>3 DEF Picks
<1>5. /\ shorter \in Seq(S) /\ Len(shorter) = size - 1
      /\ \A i \in 1 .. (size - 1) : shorter[i] = IF i < q THEN kept[i] ELSE kept[i + 1]
  <2> DEFINE front == SubSeq(kept, 1, q - 1)
             back == SubSeq(kept, q + 1, size)
  <2>1. q \in Nat /\ 1 <= q /\ q <= size
    BY <1>1, <1>3
  <2>2. front \in Seq(S) /\ Len(front) = q - 1 /\ \A i \in 1 .. (q - 1) : front[i] = kept[i]
    BY <1>1, <2>1
  <2>3. /\ back \in Seq(S) /\ Len(back) = size - q
        /\ \A i \in 1 .. (size - q) : back[i] = kept[q + i]
    BY <1>1, <2>1
  <2>4. shorter = front \o back
    BY <1>1 DEF RemoveAt
  <2> HIDE DEF front, back, shorter
  <2>5. /\ shorter \in Seq(S) /\ Len(shorter) = size - 1
        /\ \A i \in 1 .. (size - 1) :
              shorter[i] = IF i <= Len(front) THEN front[i] ELSE back[i - Len(front)]
    <3>1. /\ front \o back \in Seq(S)
          /\ Len(front \o back) = Len(front) + Len(back)
          /\ \A i \in 1 .. (Len(front) + Len(back)) :
                (front \o back)[i] = IF i <= Len(front) THEN front[i] ELSE back[i - Len(front)]
      BY <2>2, <2>3, ConcatProperties, Zenon
    <3>2. Len(front) + Len(back) = size - 1
      BY <1>1, <2>1, <2>2, <2>3
    <3> QED
      BY <2>4, <3>1, <3>2
  <2>6. ASSUME NEW i \in 1 .. (size - 1)
        PROVE  shorter[i] = IF i < q THEN kept[i] ELSE kept[i + 1]
    <3>1. CASE i < q
      <4>1. i \in 1 .. (q - 1) /\ shorter[i] = front[i]
        BY <1>1, <2>1, <2>2, <2>5, <3>1
      <4> QED
        BY <2>2, <3>1, <4>1
    <3>2. CASE ~(i < q)
      <4>1. shorter[i] = back[i - (q - 1)] /\ i - (q - 1) \in 1 .. (size - q)
        <5>1. ~(i <= Len(front)) /\ i - (q - 1) \in 1 .. (size - q)
          BY <1>1, <2>1, <2>2, <3>2
        <5> QED
          BY <2>2, <2>5, <5>1
      <4>2. q + (i - (q - 1)) = i + 1
        BY <2>1
      <4> QED
        BY <2>3, <3>2, <4>1, <4>2
    <3> QED
      BY <3>1, <3>2
  <2> QED
    BY <2>5, <2>6
<1>6. Picks(fewer, shorter, seq, positions \ {pick[q]})
  <2>1. DOMAIN shorter = 1 .. (size - 1)
    BY <1>1, <1>5
  <2>2. fewer \in [1 .. (size - 1) -> positions \ {pick[q]}]
    <3> SUFFICES ASSUME NEW i \in 1 .. (size - 1)
                 PROVE  fewer[i] \in positions \ {pick[q]}
      OBVIOUS
    <3>1. positions \subseteq Int
      OBVIOUS
    <3>2. CASE i < q
      <4>1. pick[i] < pick[q] /\ pick[i] \in positions /\ pick[q] \in positions
        BY <1>1, <1>3, <1>4, <3>2
      <4> QED
        BY <3>1, <3>2, <4>1
    <3>3. CASE ~(i < q)
      <4>1. pick[q] < pick[i + 1] /\ pick[i + 1] \in positions /\ pick[q] \in positions
        BY <1>1, <1>3, <1>4, <3>3
      <4> QED
        BY <3>1, <3>3, <4>1
    <3> QED
      BY <3>2, <3>3
  <2>3. \A i, j \in 1 .. (size - 1) : i < j => fewer[i] < fewer[j]
    BY <1>1, <1>3, <1>4
  <2>4. \A i \in 1 .. (size - 1) : shorter[i] = seq[fewer[i]]
    BY <1>1, <1>3, <1>4, <1>5
  <2>5. ASSUME NEW p \in positions \ {pick[q]}
        PROVE  \E i \in 1 .. (size - 1) : fewer[i] = p
    <3>1. PICK i \in 1 .. size : pick[i] = p
      BY <1>4
    <3>2. i # q
      BY <3>1
    <3>3. CASE i < q
      BY <1>1, <1>3, <1>4, <3>1, <3>3
    <3>4. CASE i > q
      <4>1. i - 1 \in 1 .. (size - 1) /\ ~(i - 1 < q) /\ (i - 1) + 1 = i
        BY <1>1, <1>3, <1>4, <3>4
      <4>2. fewer[i - 1] = p
        BY <3>1, <4>1
      <4> QED
        BY <4>1, <4>2
    <3> QED
      BY <1>3, <3>2, <3>3, <3>4
  <2> HIDE DEF fewer, shorter
  <2> QED
    BY <2>1, <2>2, <2>3, <2>4, <2>5 DEF Picks
<1> HIDE DEF fewer, shorter
<1>7. positions \ {pick[q]} \in SUBSET DOMAIN seq
  OBVIOUS
<1>8. shorter \in Kept(seq, positions \ {pick[q]})
  BY <1>2, <1>5, <1>6, <1>7, KeptFrom
<1> QED
  BY <1>8 DEF shorter

-----------------------------------------------------------------------------
(* The loop over the candidates *)

\* The positions that are kicked among the first k.
Gone(k) == KickedPositions \cap (1 .. k)

LEMMA GoneParts ==
    ASSUME TypeOK, NEW k \in Nat
    PROVE  /\ Gone(k) \in SUBSET DOMAIN candidates
           /\ IsFiniteSet(Gone(k)) /\ Cardinality(Gone(k)) \in Nat
           /\ Cardinality(DOMAIN candidates \ Gone(k)) = Len(candidates) - Cardinality(Gone(k))
<1>1. Gone(k) \in SUBSET DOMAIN candidates
  BY DEF Gone, KickedPositions, StalePositions
<1>2. /\ IsFiniteSet(DOMAIN candidates)
      /\ Cardinality(DOMAIN candidates) = Len(candidates)
  <2> DEFINE n == Len(candidates)
  <2>1. n \in Nat /\ DOMAIN candidates = 1 .. n
    BY DEF TypeOK
  <2> HIDE DEF n
  <2>2. IsFiniteSet(1 .. n) /\ Cardinality(1 .. n) = n
    BY <2>1, FS_Interval
  <2> QED
    BY <2>1, <2>2 DEF n
<1>3. IsFiniteSet(Gone(k)) /\ Cardinality(Gone(k)) \in Nat
  BY <1>1, <1>2, FS_Subset, FS_CardinalityType
<1>4. DOMAIN candidates \cap Gone(k) = Gone(k)
  BY <1>1
<1>5. Cardinality(DOMAIN candidates \ Gone(k))
        = Cardinality(DOMAIN candidates) - Cardinality(DOMAIN candidates \cap Gone(k))
  BY <1>2, FS_Difference
<1> QED
  BY <1>1, <1>2, <1>3, <1>4, <1>5

\* Which of the stale candidates go can be decided from those gone before.
LEMMA KickedRule ==
    ASSUME TypeOK, NEW k \in Nat, k + 1 \in DOMAIN candidates
    PROVE  k + 1 \in KickedPositions <=>
               /\ Stale(candidates[k + 1].who)
               /\ Cardinality(Gone(k)) < Len(candidates) - MinCandidates
<1> DEFINE room == Len(candidates) - MinCandidates
           before == Before(k + 1)
<1>1. /\ room \in Int /\ DOMAIN candidates = 1 .. Len(candidates) /\ Len(candidates) \in Nat
  BY SelectionAssumption DEF TypeOK
<1>2. Gone(k) \in SUBSET before /\ \A i \in Gone(k) : Cardinality(Before(i)) < room
  BY <1>1 DEF Gone, KickedPositions, Before, StalePositions
<1>3. /\ \A i \in Nat : /\ Before(i) \in SUBSET DOMAIN candidates
                        /\ IsFiniteSet(Before(i)) /\ Cardinality(Before(i)) \in Nat
  <2>1. IsFiniteSet(1 .. Len(candidates))
    BY <1>1, FS_Interval
  <2>2. \A i \in Nat : Before(i) \in SUBSET DOMAIN candidates
    BY DEF Before, StalePositions
  <2> QED
    BY <1>1, <2>1, <2>2, FS_Subset, FS_CardinalityType
<1>4. Cardinality(Gone(k)) \in Nat
  BY GoneParts
<1>5. CASE Gone(k) = before
  BY <1>5 DEF KickedPositions, StalePositions
<1>6. CASE Gone(k) # before
  <2> DEFINE spared == before \ Gone(k)
  <2>1. spared \in SUBSET Nat /\ spared # {}
    BY <1>1, <1>2, <1>6 DEF Before, StalePositions
  <2>2. PICK i \in spared : \A j \in spared : i <= j
    <3> HIDE DEF spared
    <3> QED
      BY <2>1, LeastMember
  <2>3. i \in StalePositions /\ i \in 1 .. k /\ i \notin KickedPositions
    BY <1>1, <2>2 DEF Gone, Before, StalePositions
  <2>4. ~(Cardinality(Before(i)) < room)
    BY <2>3 DEF KickedPositions
  <2>5. Before(i) \in SUBSET Gone(k)
    <3> SUFFICES ASSUME NEW j \in Before(i), j \notin Gone(k)
                 PROVE  FALSE
      OBVIOUS
    <3>1. j \in StalePositions /\ j < i /\ j \in Nat
      BY <1>1 DEF Before, StalePositions
    <3>2. j \in spared
      BY <2>3, <3>1 DEF Before
    <3> QED
      BY <2>2, <2>3, <3>1, <3>2
  <2>6. Cardinality(Before(i)) <= Cardinality(Gone(k))
    <3>1. IsFiniteSet(Gone(k))
      BY GoneParts
    <3> QED
      BY <2>5, <3>1, FS_Subset
  <2>7. Cardinality(Gone(k)) <= Cardinality(before)
    BY <1>2, <1>3, FS_Subset
  <2>8. ~(Cardinality(Gone(k)) < room) /\ ~(Cardinality(before) < room)
    <3>1. Cardinality(Before(i)) \in Nat /\ Cardinality(before) \in Nat
      BY <1>3, <2>3
    <3> QED
      BY <1>1, <1>4, <2>4, <2>6, <2>7, <3>1
  <2> QED
    BY <2>8 DEF KickedPositions
<1> QED
  BY <1>5, <1>6

\* What the loop has done after the first k candidates: what it has kicked is out of
\* the storage, the others are on its list, in their order.
LoopAt(k, state) ==
    \E left \in Kept(candidates, DOMAIN candidates \ Gone(k)),
       cut \in Kept(candidates, (1 .. k) \ Gone(k)), last \in [Account -> Nat] :
        /\ state = [left |-> left, last |-> last, active |-> WhoOf(cut), failed |-> FALSE]
        /\ \A a \in Account :
              Positions(candidates, a) \cap Gone(k) = {} => last[a] = lastAuthored[a]

\* Of one more candidate, the loop makes what NewSession does.
LEMMA LoopStep ==
    ASSUME TypeOK, CandidatesUnique, NEW k \in Nat, k + 1 \in DOMAIN candidates,
           NEW state, LoopAt(k, state)
    PROVE  LoopAt(k + 1, KickOne(state, candidates[k + 1]))
<1> DEFINE c == candidates[k + 1]
<1>1. PICK left \in Kept(candidates, DOMAIN candidates \ Gone(k)),
           cut \in Kept(candidates, (1 .. k) \ Gone(k)), last \in [Account -> Nat] :
        /\ state = [left |-> left, last |-> last, active |-> WhoOf(cut), failed |-> FALSE]
        /\ \A a \in Account :
              Positions(candidates, a) \cap Gone(k) = {} => last[a] = lastAuthored[a]
  BY DEF LoopAt
<1>2. /\ candidates \in Seq(Candidate) /\ DOMAIN candidates = 1 .. Len(candidates)
      /\ Len(candidates) \in Nat /\ c.who \in Account
      /\ (1 .. k) \ Gone(k) \in SUBSET DOMAIN candidates
      /\ DOMAIN candidates \ Gone(k) \in SUBSET DOMAIN candidates
  BY EntryTyped DEF TypeOK
<1>3. left \in Seq(Candidate) /\ Len(left) = Len(candidates) - Cardinality(Gone(k))
  BY <1>2, KeptParts, GoneParts
<1>4. k + 1 \notin Gone(k) /\ Positions(candidates, c.who) = {k + 1}
  BY <1>2 DEF Gone, Positions, CandidatesUnique
<1>5. last[c.who] = lastAuthored[c.who]
  BY <1>1, <1>2, <1>4
<1>6. /\ now \in Nat /\ lastAuthored[c.who] \in Nat /\ KickThreshold \in Nat /\ MinCandidates \in Nat
      /\ Cardinality(Gone(k)) \in Nat
  <2>1. now \in Nat /\ KickThreshold \in Nat /\ MinCandidates \in Nat /\ MaxBlock \in Nat
    BY SelectionAssumption DEF TypeOK, Blocks
  <2>2. lastAuthored \in [Account -> 0 .. (MaxBlock + KickThreshold)]
    BY DEF TypeOK
  <2>3. lastAuthored[c.who] \in 0 .. (MaxBlock + KickThreshold)
    BY <1>2, <2>2
  <2>4. Cardinality(Gone(k)) \in Nat
    BY GoneParts
  <2>5. MaxBlock + KickThreshold \in Nat
    BY <2>1
  <2> HIDE DEF c
  <2> QED
    BY <2>1, <2>3, <2>4, <2>5
<1>7. k + 1 \in KickedPositions <=>
         ~(\/ SaturatingSub(now, last[c.who]) < KickThreshold
           \/ Len(left) <= MinCandidates)
  <2>1. k + 1 \in KickedPositions <=>
           Stale(c.who) /\ Cardinality(Gone(k)) < Len(candidates) - MinCandidates
    BY KickedRule
  <2>2. Stale(c.who) <=> ~(SaturatingSub(now, last[c.who]) < KickThreshold)
    <3>1. SaturatingSub(now, lastAuthored[c.who]) \in Int
      BY <1>6 DEF SaturatingSub
    <3> HIDE DEF c
    <3> QED
      BY <1>5, <1>6, <3>1 DEF Stale
  <2>3. Cardinality(Gone(k)) < Len(candidates) - MinCandidates <=> ~(Len(left) <= MinCandidates)
    BY <1>2, <1>3, <1>6
  <2> HIDE DEF c
  <2> QED
    BY <2>1, <2>2, <2>3
<1>8. \A p \in (1 .. k) \ Gone(k) : p < k + 1
  OBVIOUS
<1>9. CASE k + 1 \notin KickedPositions
  <2>1. Gone(k + 1) = Gone(k)
    BY <1>9 DEF Gone
  <2>2. KickOne(state, c) = [left |-> left, last |-> last, active |-> Append(WhoOf(cut), c.who),
                             failed |-> FALSE]
    BY <1>1, <1>7, <1>9 DEF KickOne
  <2>3. Append(cut, c) \in Kept(candidates, ((1 .. k) \ Gone(k)) \cup {k + 1})
    BY <1>2, <1>8, KeptAppend
  <2>4. ((1 .. k) \ Gone(k)) \cup {k + 1} = (1 .. (k + 1)) \ Gone(k + 1)
    BY <1>4, <2>1
  <2>5. WhoOf(Append(cut, c)) = Append(WhoOf(cut), c.who)
    <3>1. cut \in Seq(Candidate) /\ c \in Candidate
      BY <1>2, KeptParts
    <3> QED
      BY <3>1 DEF WhoOf
  <2>6. LoopAt(k + 1, [left |-> left, last |-> last, active |-> WhoOf(Append(cut, c)), failed |-> FALSE])
    BY <1>1, <2>1, <2>3, <2>4 DEF LoopAt
  <2> QED
    BY <2>2, <2>5, <2>6
<1>10. CASE k + 1 \in KickedPositions
  <2>1. Gone(k + 1) = Gone(k) \cup {k + 1}
    BY <1>10 DEF Gone
  <2>2. KickOne(state, c) = TryRemove(state, c.who)
    BY <1>1, <1>7, <1>10 DEF KickOne
  <2>3. PICK pick : Picks(pick, left, candidates, DOMAIN candidates \ Gone(k))
    BY <1>2, KeptParts
  <2>4. PICK q \in DOMAIN left : pick[q] = k + 1
    BY <1>4, <2>3 DEF Picks
  <2> DEFINE at == {i \in DOMAIN left : left[i].who = c.who}
  <2>5. at = {q}
    <3>1. left[q].who = c.who
      BY <2>3, <2>4 DEF Picks
    <3>2. ASSUME NEW i \in at
          PROVE  i = q
      <4>1. candidates[pick[i]].who = c.who /\ pick[i] \in DOMAIN candidates
        BY <2>3 DEF Picks
      <4>2. pick[i] = k + 1
        BY <1>4, <4>1 DEF Positions
      <4>3. ~(i < q) /\ ~(q < i)
        BY <2>3, <2>4, <4>2 DEF Picks
      <4> QED
        BY <1>3, <4>3
    <3> QED
      BY <3>1, <3>2
  <2>6. at # {} /\ (CHOOSE i \in at : \A j \in at : i <= j) = q
    BY <1>3, <2>5
  <2>7. TryRemove(state, c.who) =
          [left |-> RemoveAt(left, q), last |-> [last EXCEPT ![c.who] = 0],
           active |-> WhoOf(cut), failed |-> FALSE]
    BY <1>1, <2>6 DEF TryRemove
  <2>8. RemoveAt(left, q) \in Kept(candidates, DOMAIN candidates \ Gone(k + 1))
    <3>1. RemoveAt(left, q) \in Kept(candidates, (DOMAIN candidates \ Gone(k)) \ {pick[q]})
      BY <1>2, <2>3, KeptRemove
    <3>2. (DOMAIN candidates \ Gone(k)) \ {pick[q]} = DOMAIN candidates \ Gone(k + 1)
      BY <2>1, <2>4
    <3> QED
      BY <3>1, <3>2
  <2>9. cut \in Kept(candidates, (1 .. (k + 1)) \ Gone(k + 1))
    <3>1. (1 .. (k + 1)) \ Gone(k + 1) = (1 .. k) \ Gone(k)
      BY <2>1
    <3> QED
      BY <3>1
  <2>10. /\ [last EXCEPT ![c.who] = 0] \in [Account -> Nat]
         /\ \A a \in Account : Positions(candidates, a) \cap Gone(k + 1) = {}
                                  => [last EXCEPT ![c.who] = 0][a] = lastAuthored[a]
    BY <1>1, <1>2, <1>4, <2>1
  <2>11. LoopAt(k + 1, [left |-> RemoveAt(left, q), last |-> [last EXCEPT ![c.who] = 0],
                        active |-> WhoOf(cut), failed |-> FALSE])
    BY <2>8, <2>9, <2>10 DEF LoopAt
  <2> QED
    BY <2>2, <2>7, <2>11
<1> QED
  BY <1>9, <1>10

Base == [left |-> candidates, last |-> lastAuthored, active |-> <<>>, failed |-> FALSE]

\* What the loop has got to, for each set of candidates it has been over.
Walk(g) ==
    g = [s \in SUBSET DOMAIN candidates |->
            IF s = {} THEN Base ELSE KickOne(g[s \ {Max(s)}], candidates[Max(s)])]

After(k) == (CHOOSE g : Walk(g))[1 .. k]

LEMMA LoopIsWalk == DOMAIN candidates = 1 .. Len(candidates) => KickStaleCandidates = After(Len(candidates))
BY DEF KickStaleCandidates, FoldLeft, MapThenFoldSet, Walk, Base, After

\* The greatest of some positions of the list.
LEMMA MaxIn ==
    ASSUME TypeOK, NEW s \in SUBSET DOMAIN candidates, s # {}
    PROVE  Max(s) \in s
<1> DEFINE n == Len(candidates)
           turned == {n - i : i \in s}
<1>1. n \in Nat /\ \A i \in s : i \in 1 .. n
  BY DEF TypeOK
<1>2. turned \in SUBSET Nat /\ turned # {}
  BY <1>1
<1>3. PICK x \in turned : \A y \in turned : x <= y
  <2> HIDE DEF turned
  <2> QED
    BY <1>2, LeastMember
<1>4. PICK i \in s : x = n - i
  OBVIOUS
<1>5. ASSUME NEW j \in s PROVE i >= j
  <2>1. n - j \in turned
    OBVIOUS
  <2>2. n - i <= n - j
    BY <1>3, <1>4, <2>1
  <2> HIDE DEF n
  <2> QED
    BY <1>1, <2>2
<1> QED
  BY <1>5 DEF Max

\* The loop can be followed from its first candidate to its last.
LEMMA WalkExists ==
    ASSUME TypeOK
    PROVE  \E g : Walk(g)
<1> DEFINE D == DOMAIN candidates
           Rest(s, g) == IF s = {} THEN Base ELSE KickOne(g[s \ {Max(s)}], candidates[Max(s)])
           Upto(n, g) == \A s \in SUBSET D : Cardinality(s) <= n => g[s] = Rest(s, g)
           Sized == {n \in Nat : \E g : Upto(n, g)}
<1>1. IsFiniteSet(D)
  <2>1. Len(candidates) \in Nat /\ 1 \in Int /\ D = 1 .. Len(candidates)
    BY DEF TypeOK
  <2> QED
    BY <2>1, FS_Interval
<1>2. \A s \in SUBSET D : IsFiniteSet(s) /\ Cardinality(s) \in Nat
  BY <1>1, FS_Subset, FS_CardinalityType
<1>3. \A s \in SUBSET D : s # {} => /\ s \ {Max(s)} \in SUBSET D
                                    /\ Cardinality(s \ {Max(s)}) = Cardinality(s) - 1
  BY <1>2, MaxIn, FS_RemoveElement
<1>4. 0 \in Sized
  <2>1. Upto(0, [s \in SUBSET D |-> Base])
    <3>1. \A s \in SUBSET D : Cardinality(s) <= 0 => s = {}
      BY <1>2, FS_EmptySet
    <3> QED
      BY <3>1
  <2> QED
    BY <2>1
<1>5. ASSUME NEW n \in Nat, n \in Sized
      PROVE  n + 1 \in Sized
  <2>1. PICK g : Upto(n, g)
    BY <1>5
  <2> DEFINE h == [s \in SUBSET D |-> Rest(s, g)]
  <2>2. ASSUME NEW s \in SUBSET D, Cardinality(s) <= n + 1
        PROVE  h[s] = Rest(s, h)
    <3>1. CASE s = {}
      BY <3>1
    <3>2. CASE s # {}
      <4> DEFINE r == s \ {Max(s)}
      <4>1. r \in SUBSET D /\ Cardinality(r) <= n
        BY <1>2, <1>3, <2>2, <3>2
      <4>2. g[r] = h[r]
        BY <2>1, <4>1
      <4> QED
        BY <3>2, <4>2
    <3> QED
      BY <3>1, <3>2
  <2>3. \E k : Upto(n + 1, k)
    BY <2>2, Zenon
  <2>4. n + 1 \in Nat
    OBVIOUS
  <2> QED
    BY <2>3, <2>4, Zenon
<1>6. Cardinality(D) \in Sized
  <2>1. \A n \in Nat : n \in Sized
    <3> HIDE DEF Sized
    <3> QED
      BY <1>4, <1>5, NatSteps
  <2> QED
    BY <1>1, <2>1, FS_CardinalityType
<1>7. PICK g : Upto(Cardinality(D), g)
  BY <1>6
<1>8. \A s \in SUBSET D : g[s] = Rest(s, g)
  BY <1>1, <1>7, FS_Subset
<1>9. Walk([s \in SUBSET D |-> g[s]])
  BY <1>3, <1>8 DEF Walk
<1> QED
  BY <1>9

\* The loop goes over the candidates from the first to the last.
LEMMA AfterSteps ==
    ASSUME TypeOK
    PROVE  /\ After(0) = Base
           /\ \A k \in Nat : k + 1 \in DOMAIN candidates =>
                  After(k + 1) = KickOne(After(k), candidates[k + 1])
<1> DEFINE g == CHOOSE g : Walk(g)
<1>1. Walk(g)
  BY WalkExists
<1>2. \A k : After(k) = g[1 .. k]
  BY DEF After
<1> HIDE DEF g
<1>3. DOMAIN candidates = 1 .. Len(candidates) /\ Len(candidates) \in Nat
  BY DEF TypeOK
<1>4. After(0) = Base
  <2>1. 1 .. 0 = {} /\ {} \in SUBSET DOMAIN candidates
    OBVIOUS
  <2> QED
    BY <1>1, <1>2, <2>1 DEF Walk
<1>5. ASSUME NEW k \in Nat, k + 1 \in DOMAIN candidates
      PROVE  After(k + 1) = KickOne(After(k), candidates[k + 1])
  <2> DEFINE s == 1 .. (k + 1)
  <2>1. s \in SUBSET DOMAIN candidates /\ s # {}
    <3>1. k + 1 \in 1 .. Len(candidates)
      BY <1>3, <1>5
    <3>2. s \subseteq 1 .. Len(candidates) /\ k + 1 \in s
      BY <1>3, <3>1
    <3> QED
      BY <1>3, <3>2
  <2>2. Max(s) = k + 1
    <3>1. k + 1 \in s /\ \A i \in s : i \in Int /\ k + 1 >= i
      OBVIOUS
    <3> QED
      BY <3>1 DEF Max
  <2>3. s \ {k + 1} = 1 .. k
    OBVIOUS
  <2> HIDE DEF s
  <2>4. g[s] = KickOne(g[s \ {Max(s)}], candidates[Max(s)])
    BY <1>1, <2>1 DEF Walk
  <2> QED
    BY <1>2, <2>2, <2>3, <2>4 DEF s
<1> QED
  BY <1>4, <1>5

\* All the way, the loop makes what NewSession does.
LEMMA LoopFollowed ==
    ASSUME TypeOK, CandidatesUnique
    PROVE  LoopAt(Len(candidates), KickStaleCandidates)
<1> DEFINE T == {k \in Nat : k <= Len(candidates) => LoopAt(k, After(k))}
<1>1. /\ DOMAIN candidates = 1 .. Len(candidates) /\ Len(candidates) \in Nat
      /\ candidates \in Seq(Candidate)
  BY DEF TypeOK
<1>2. 0 \in T
  <2>1. Gone(0) = {} /\ (1 .. 0) \ Gone(0) = {} /\ DOMAIN candidates \ Gone(0) = DOMAIN candidates
    BY DEF Gone
  <2>2. candidates \in Kept(candidates, DOMAIN candidates \ Gone(0))
    BY <1>1, <2>1, KeptAll
  <2>3. <<>> \in Kept(candidates, (1 .. 0) \ Gone(0)) /\ WhoOf(<<>>) = <<>>
    BY <2>1, KeptNone DEF WhoOf
  <2>4. lastAuthored \in [Account -> Nat]
    <3>1. lastAuthored \in [Account -> 0 .. (MaxBlock + KickThreshold)]
      BY DEF TypeOK
    <3>2. 0 .. (MaxBlock + KickThreshold) \subseteq Nat
      BY SelectionAssumption
    <3> QED
      BY <3>1, <3>2
  <2>5. LoopAt(0, [left |-> candidates, last |-> lastAuthored, active |-> WhoOf(<<>>), failed |-> FALSE])
    BY <2>2, <2>3, <2>4 DEF LoopAt
  <2> QED
    BY <2>3, <2>5, AfterSteps DEF Base
<1>3. ASSUME NEW k \in Nat, k \in T
      PROVE  k + 1 \in T
  <2> SUFFICES ASSUME k + 1 <= Len(candidates)
               PROVE  LoopAt(k + 1, After(k + 1))
    OBVIOUS
  <2>1. k + 1 \in DOMAIN candidates /\ LoopAt(k, After(k))
    BY <1>1, <1>3
  <2> QED
    BY <2>1, AfterSteps, LoopStep
<1>4. Len(candidates) \in T
  <2> HIDE DEF T
  <2> QED
    BY <1>1, <1>2, <1>3, NatSteps
<1> QED
  BY <1>1, <1>4, LoopIsWalk

\* The loop kicks, and returns, what NewSession has it kick and return, in every
\* reachable state (lib.rs 409-434).
THEOREM AlwaysLoopAgrees == Spec => []LoopAgrees
<1>1. TypeOK /\ CandidatesUnique => LoopAgrees
  <2> SUFFICES ASSUME TypeOK, CandidatesUnique PROVE LoopAgrees
    OBVIOUS
  <2> DEFINE n == Len(candidates)
             end == KickStaleCandidates
             stay == DOMAIN candidates \ KickedPositions
  <2>1. /\ candidates \in Seq(Candidate) /\ stay \in SUBSET DOMAIN candidates
        /\ DOMAIN candidates \ Gone(n) = stay /\ (1 .. n) \ Gone(n) = stay
    BY DEF TypeOK, Gone
  <2>2. PICK left \in Kept(candidates, stay), cut \in Kept(candidates, stay), last \in [Account -> Nat] :
           end = [left |-> left, last |-> last, active |-> WhoOf(cut), failed |-> FALSE]
    BY <2>1, LoopFollowed DEF LoopAt
  <2>3. cut = left /\ Kept(candidates, stay) = {left}
    BY <2>1, KeptOnce
  <2> QED
    BY <2>2, <2>3 DEF LoopAgrees
<1>2. IInv => TypeOK /\ CandidatesUnique
  BY DEF IInv
<1> QED
  BY <1>1, <1>2, InductiveInv, PTL
=============================================================================
