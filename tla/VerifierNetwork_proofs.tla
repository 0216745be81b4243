----------------------- MODULE VerifierNetwork_proofs -----------------------
(***************************************************************************)
(* Proofs about the network of verifier nodes, for every number of nodes,  *)
(* accounts, evidences, keys and blocks.  The argument: what is due at a   *)
(* block is settled once the block is built, so a result signed on it      *)
(* stays genuine wherever gossip, restarts and blocks carry it.  The last  *)
(* part proves that the network implements AttestationLedger.              *)
(***************************************************************************)
EXTENDS VerifierRefinement, SequenceTheorems, FiniteSetTheorems, TLAPS

-----------------------------------------------------------------------------
(* The pallet.  The lemmas on single calls are stated without a specification: *)
(* the network makes the same calls.                                           *)

\* The block number is a block and its due block is in the queue.
LEMMA NowPlusDelay ==
    ASSUME now \in Block
    PROVE  now + VerifyDelay \in DueBlock
BY PalletAssumption DEF Block, DueBlock

\* A request keeps the storage well-typed (lib.rs 202-210).
LEMMA RequestVerificationTyped ==
    ASSUME PalletTypeOK, NEW who \in Account, NEW evidence \in Evidence,
           RequestVerification(who, evidence)
    PROVE  PalletTypeOK'
<1>1. now + VerifyDelay \in DueBlock
  BY NowPlusDelay DEF PalletTypeOK
<1>2. waitingQueue' \in [DueBlock -> [Account -> Evidence \cup {NoEvidence}]]
  BY <1>1 DEF PalletTypeOK, RequestVerification
<1> QED
  BY <1>2 DEF PalletTypeOK, RequestVerification

\* A registration keeps the storage well-typed (lib.rs 239-252).
LEMMA RegisterNewPubkeyTyped ==
    ASSUME PalletTypeOK, NEW key \in Key, RegisterNewPubkey(key)
    PROVE  PalletTypeOK'
BY DEF PalletTypeOK, RegisterNewPubkey

\* What an accepted submission appends is a result in its own slot.
LEMMA SubmissionParts ==
    ASSUME NEW sub \in Submission
    PROVE  /\ sub.payload \in Payload
           /\ sub.payload.who \in Account
           /\ sub.payload.pubkey \in AppKey
           /\ sub.payload.public \in Key
           /\ sub.signature \in Signature
           /\ sub.block_number \in Block
           /\ [payload |-> sub.payload, signature |-> sub.signature] \in Result
BY DEF Submission, Payload, Result

\* A dispatched submission keeps the storage well-typed (lib.rs 213-236).
LEMMA DispatchSubmissionTyped ==
    ASSUME PalletTypeOK, NEW sub \in Submission, DispatchSubmission(sub)
    PROVE  PalletTypeOK'
<1>1. verificationResults' \in [Account -> [AppKey -> Seq(Result)]]
  <2>1. CASE Accepted(sub)
    <3>1. Append(verificationResults[sub.payload.who][sub.payload.pubkey],
                 [payload |-> sub.payload, signature |-> sub.signature]) \in Seq(Result)
      BY SubmissionParts DEF PalletTypeOK
    <3> QED
      BY <2>1, <3>1, SubmissionParts DEF PalletTypeOK, DispatchSubmission
  <2>2. CASE ~Accepted(sub)
    BY <2>2 DEF PalletTypeOK, DispatchSubmission
  <2> QED
    BY <2>1, <2>2
<1> QED
  BY <1>1 DEF PalletTypeOK, DispatchSubmission

\* The next block keeps the storage well-typed.
LEMMA NextBlockTyped ==
    ASSUME PalletTypeOK, NextBlock
    PROVE  PalletTypeOK'
BY PalletAssumption DEF PalletTypeOK, NextBlock, Block

\* The first block's storage is well-typed.
LEMMA InitTyped == PalletInit => PalletTypeOK
BY PalletAssumption DEF PalletInit, PalletTypeOK, Block

\* Type correctness of the pallet's storage.
THEOREM PalletTypeCorrect == PalletSpec => []PalletTypeOK
<1>1. PalletTypeOK /\ [PalletNext]_palletVars => PalletTypeOK'
  <2> SUFFICES ASSUME PalletTypeOK, [PalletNext]_palletVars
               PROVE  PalletTypeOK'
    OBVIOUS
  <2>1. ASSUME NEW who \in Account, NEW evidence \in Evidence,
               RequestVerification(who, evidence)
        PROVE  PalletTypeOK'
    BY <2>1, RequestVerificationTyped
  <2>2. ASSUME NEW key \in Key, RegisterNewPubkey(key)
        PROVE  PalletTypeOK'
    BY <2>2, RegisterNewPubkeyTyped
  <2>3. ASSUME NEW sub \in Submission, SubmitResult(sub)
        PROVE  PalletTypeOK'
    BY <2>3, DispatchSubmissionTyped DEF SubmitResult
  <2>4. CASE NextBlock
    BY <2>4, NextBlockTyped
  <2>5. CASE UNCHANGED palletVars
    BY <2>5 DEF palletVars, PalletTypeOK
  <2> QED
    BY <2>1, <2>2, <2>3, <2>4, <2>5 DEF PalletNext
<1> QED
  BY <1>1, InitTyped, PTL DEF PalletSpec

-----------------------------------------------------------------------------

\* Append adds its element to the contents and nothing else.
LEMMA ContentsOfAppend ==
    ASSUME NEW S, NEW seq \in Seq(S), NEW elt \in S
    PROVE  Contents(Append(seq, elt)) = Contents(seq) \cup {elt}
<1> DEFINE new == Append(seq, elt)
<1>1. /\ Len(seq) \in Nat
      /\ DOMAIN seq = 1 .. Len(seq)
      /\ DOMAIN new = 1 .. (Len(seq) + 1)
      /\ \A i \in 1 .. Len(seq) : new[i] = seq[i]
      /\ new[Len(seq) + 1] = elt
  OBVIOUS
<1>2. ASSUME NEW i \in DOMAIN new
      PROVE  new[i] \in Contents(seq) \cup {elt}
  <2>1. CASE i = Len(seq) + 1
    BY <1>1, <2>1
  <2>2. CASE i # Len(seq) + 1
    <3>1. i \in 1 .. Len(seq)
      BY <1>1, <1>2, <2>2
    <3> QED
      BY <1>1, <3>1 DEF Contents
  <2> QED
    BY <2>1, <2>2
<1>3. ASSUME NEW i \in DOMAIN seq
      PROVE  seq[i] \in Contents(new)
  <2>1. i \in DOMAIN new /\ new[i] = seq[i]
    BY <1>1, <1>3
  <2> QED
    BY <2>1 DEF Contents
<1>4. elt \in Contents(new)
  <2>1. Len(seq) + 1 \in DOMAIN new
    BY <1>1
  <2> QED
    BY <1>1, <2>1 DEF Contents
<1> QED
  BY <1>2, <1>3, <1>4 DEF Contents

\* A dispatched submission leaves every slot filed by registered keys: the two
\* checks before the push are what the new result needs, and the keys only grow.
LEMMA DispatchKeepsRegistered ==
    ASSUME PalletTypeOK, RecordedByRegistered,
           NEW sub \in Submission, DispatchSubmission(sub)
    PROVE  RecordedByRegistered'
<1> SUFFICES ASSUME NEW a \in Account, NEW p \in AppKey,
                    NEW result \in Contents(verificationResults[a][p])'
             PROVE  /\ result.payload.who = a
                    /\ result.payload.pubkey = p
                    /\ result.payload.public \in Contents(publicKeys)
                    /\ SignatureValid(result.payload, result.signature)
  BY DEF RecordedByRegistered, DispatchSubmission
<1>1. CASE result \in Contents(verificationResults[a][p])
  BY <1>1 DEF RecordedByRegistered
<1>2. CASE result \notin Contents(verificationResults[a][p])
  <2>1. /\ Accepted(sub)
        /\ a = sub.payload.who
        /\ p = sub.payload.pubkey
    BY <1>2, SubmissionParts DEF DispatchSubmission, PalletTypeOK
  <2>2. result = [payload |-> sub.payload, signature |-> sub.signature]
    <3> DEFINE new == [payload |-> sub.payload, signature |-> sub.signature]
               slot == verificationResults[a][p]
    <3>1. slot \in Seq(Result) /\ new \in Result
      BY SubmissionParts DEF PalletTypeOK
    <3>2. verificationResults'[a][p] = Append(slot, new)
      BY <2>1, SubmissionParts DEF DispatchSubmission, PalletTypeOK
    <3>3. Contents(Append(slot, new)) = Contents(slot) \cup {new}
      BY <3>1, ContentsOfAppend
    <3> QED
      BY <1>2, <3>2, <3>3 DEF Contents
  <2> QED
    BY <2>1, <2>2 DEF Accepted
<1> QED
  BY <1>1, <1>2

\* A registration never unregisters a key.
LEMMA RegisterKeepsRegistered ==
    ASSUME PalletTypeOK, RecordedByRegistered, NEW key \in Key, RegisterNewPubkey(key)
    PROVE  RecordedByRegistered'
<1>1. Contents(publicKeys) \subseteq Contents(publicKeys')
  BY DEF PalletTypeOK, RegisterNewPubkey, Contents
<1> QED
  BY <1>1 DEF RecordedByRegistered, RegisterNewPubkey, SignatureValid

\* Every recorded result is in its own slot, under a registered key, with a
\* valid signature (lib.rs 213-236, 502-517).
THEOREM AlwaysByRegistered == PalletSpec => []RecordedByRegistered
<1>1. PalletInit => RecordedByRegistered
  BY DEF PalletInit, RecordedByRegistered, Contents
<1>2. PalletTypeOK /\ RecordedByRegistered /\ [PalletNext]_palletVars
        => RecordedByRegistered'
  <2> SUFFICES ASSUME PalletTypeOK, RecordedByRegistered, [PalletNext]_palletVars
               PROVE  RecordedByRegistered'
    OBVIOUS
  <2>1. ASSUME NEW who \in Account, NEW evidence \in Evidence,
               RequestVerification(who, evidence)
        PROVE  RecordedByRegistered'
    BY <2>1 DEF RequestVerification, RecordedByRegistered, SignatureValid
  <2>2. ASSUME NEW key \in Key, RegisterNewPubkey(key)
        PROVE  RecordedByRegistered'
    BY <2>2, RegisterKeepsRegistered
  <2>3. ASSUME NEW sub \in Submission, SubmitResult(sub)
        PROVE  RecordedByRegistered'
    BY <2>3, DispatchKeepsRegistered DEF SubmitResult
  <2>4. CASE NextBlock
    BY <2>4 DEF NextBlock, RecordedByRegistered, SignatureValid
  <2>5. CASE UNCHANGED palletVars
    BY <2>5 DEF palletVars, RecordedByRegistered, SignatureValid
  <2> QED
    BY <2>1, <2>2, <2>3, <2>4, <2>5 DEF PalletNext
<1> QED
  BY <1>1, <1>2, PalletTypeCorrect, PTL DEF PalletSpec

\* Once its block's requests are in, what is due at a block is settled
\* (lib.rs 206-207).
THEOREM AlwaysSettled == PalletSpec => QueueSettled
<1> DEFINE Settled ==
      \A b \in DueBlock : b < now + VerifyDelay => waitingQueue'[b] = waitingQueue[b]
<1>1. PalletTypeOK /\ [PalletNext]_palletVars => [Settled]_palletVars
  <2> SUFFICES ASSUME PalletTypeOK, [PalletNext]_palletVars
               PROVE  Settled
    OBVIOUS
  <2>1. ASSUME NEW who \in Account, NEW evidence \in Evidence,
               RequestVerification(who, evidence)
        PROVE  Settled
    BY <2>1, PalletAssumption DEF PalletTypeOK, RequestVerification, DueBlock, Block
  <2>2. ASSUME waitingQueue' = waitingQueue
        PROVE  Settled
    BY <2>2
  <2> QED
    BY <2>1, <2>2
       DEF PalletNext, palletVars, RegisterNewPubkey, SubmitResult, DispatchSubmission,
           NextBlock
<1> QED
  BY <1>1, PalletTypeCorrect, PTL DEF PalletSpec, QueueSettled

-----------------------------------------------------------------------------
(* The network *)

\* A delivery touches no more than a pool and its bans.
LEMMA ReceiveFrame ==
    \A n, sub, number : Receive(n, sub, number) => UNCHANGED <<chainVars, height, workerVars, sent>>
BY DEF Receive

\* Every transition leaves the storage typed: the calls are the pallet's.
LEMMA PalletStepTyped ==
    ASSUME TypeOK, [Next]_vars
    PROVE  PalletTypeOK'
<1>1. ASSUME NEW who \in Account, NEW evidence \in Evidence, Request(who, evidence)
      PROVE  PalletTypeOK'
  BY <1>1, RequestVerificationTyped DEF Request, TypeOK
<1>2. ASSUME NEW key \in Key, Register(key)
      PROVE  PalletTypeOK'
  BY <1>2, RegisterNewPubkeyTyped DEF Register, TypeOK
<1>3. ASSUME NEW sub \in pool[author], Include(sub)
      PROVE  PalletTypeOK'
  <2>1. sub \in Submission
    BY DEF TypeOK
  <2> QED
    BY <1>3, <2>1, DispatchSubmissionTyped DEF Include, SubmitResult, TypeOK
<1>4. CASE Seal
  BY <1>4, NextBlockTyped DEF Seal, TypeOK
<1>5. CASE UNCHANGED palletVars
  BY <1>5 DEF palletVars, TypeOK, PalletTypeOK
<1> QED
  BY <1>1, <1>2, <1>3, <1>4, <1>5, ReceiveFrame
     DEF Next, vars, chainVars, Worker, StartRun, FailEntry, PanicRun, SubmitEntry,
         DropInvalid, Import, Restart

\* The entries due at a block are entries.
LEMMA DueAtTyped ==
    ASSUME PalletTypeOK, NEW b \in Block
    PROVE  DueAt(b) \in SUBSET Entry
BY PalletAssumption DEF PalletTypeOK, DueAt, Entry, Block, DueBlock

\* A result the worker signs is a submission of the run it is signed for.
LEMMA SignedResultTyped ==
    ASSUME TypeOK, NEW n \in Node, NEW b \in Block, NEW r \in Run,
           NEW entry \in Entry,
           Verdict[entry.evidence] # Rejected,
           Verdict[entry.evidence].account \in Account,
           LocalKey[n] # NoKey
    PROVE  /\ SignedResult(n, b, r, entry) \in Submission
           /\ ActOf(SignedResult(n, b, r, entry)) =
                [node |-> n, block |-> b, run |-> r, applicant |-> entry.who]
           /\ ActOf(SignedResult(n, b, r, entry)) \in RunAct
<1>1. Verdict[entry.evidence] \in Message
  BY NetworkAssumption DEF Entry
<1>2. LocalKey[n] \in Key
  BY NetworkAssumption
<1> DEFINE act == [node |-> n, block |-> b, run |-> r, applicant |-> entry.who]
           message == Verdict[entry.evidence]
           payload == [code |-> message.code, who |-> message.account,
                       pubkey |-> message.pubkey, public |-> LocalKey[n]]
<1>3. act \in RunAct /\ act \in SigningAct
  BY NetworkAssumption DEF RunAct, Entry
<1>4. payload \in Payload
  BY <1>1, <1>2 DEF Message, Payload
<1>5. [by |-> LocalKey[n], over |-> payload, act |-> act] \in Signature
  BY <1>2, <1>3, <1>4 DEF Signature
<1> QED
  BY <1>3, <1>4, <1>5 DEF SignedResult, Submission, ActOf

\* Typing of what the offchain worker changes.
LEMMA WorkerTyped ==
    ASSUME TypeOK, NEW n \in Node, NEW b \in Block, Worker(n, b)
    PROVE  TypeOK'
<1>1. PalletTypeOK'
  BY PalletStepTyped DEF Next
<1>2. CASE StartRun(n, b)
  <2>1. started[n][b] + 1 \in Run /\ started[n][b] + 1 \in 0 .. MaxRuns
    BY <1>2, NetworkAssumption DEF TypeOK, StartRun, Run
  <2>2. DueAt(b) \in SUBSET Entry
    BY DueAtTyped DEF TypeOK
  <2> QED
    BY <1>1, <1>2, <2>1, <2>2 DEF TypeOK, StartRun, chainVars, poolVars
<1>3. ASSUME NEW r \in Run, NEW entry \in runs[n][b][r],
             FailEntry(n, b, r, entry)
      PROVE  TypeOK'
  BY <1>1, <1>3 DEF TypeOK, FailEntry, Settle, chainVars, poolVars
<1>4. ASSUME NEW r \in Run, NEW entry \in runs[n][b][r],
             PanicRun(n, b, r, entry)
      PROVE  TypeOK'
  BY <1>1, <1>4 DEF TypeOK, PanicRun, chainVars, poolVars
<1>5. ASSUME NEW r \in Run, NEW entry \in runs[n][b][r],
             SubmitEntry(n, b, r, entry)
      PROVE  TypeOK'
  <2>1. entry \in Entry
    BY DEF TypeOK
  <2>2. SignedResult(n, b, r, entry) \in Submission
    BY <1>5, <2>1, SignedResultTyped DEF SubmitEntry, AccountDecodes
  <2>3. /\ pool' \in [Node -> SUBSET Submission]
        /\ sent' \in SUBSET Submission
    <3> DEFINE new == SignedResult(n, b, r, entry)
    <3>1. \/ /\ pool' = [pool EXCEPT ![n] = @ \cup {new}]
             /\ sent' = sent \cup {new}
          \/ UNCHANGED <<pool, sent>>
      BY <1>5 DEF SubmitEntry
    <3>2. new \in Submission
      BY <2>2
    <3>3. pool \in [Node -> SUBSET Submission] /\ sent \in SUBSET Submission
      BY DEF TypeOK
    <3> HIDE DEF new
    <3> QED
      BY ONLY <3>1, <3>2, <3>3
  <2>4. runs' \in [Node -> [Block -> [Run -> SUBSET Entry]]]
    BY <1>5 DEF TypeOK, SubmitEntry, Settle
  <2> QED
    BY <1>1, <1>5, <2>3, <2>4 DEF TypeOK, SubmitEntry, chainVars
<1> QED
  BY <1>2, <1>3, <1>4, <1>5 DEF Worker

\* Every action keeps the network's state well-typed.
LEMMA StepTyped ==
    ASSUME TypeOK, [Next]_vars
    PROVE  TypeOK'
<1>1. PalletTypeOK'
  BY PalletStepTyped
<1>2. ASSUME NEW who \in Account, NEW evidence \in Evidence, Request(who, evidence)
      PROVE  TypeOK'
  BY <1>1, <1>2 DEF TypeOK, Request, nodeVars
<1>3. ASSUME NEW key \in Key, Register(key)
      PROVE  TypeOK'
  BY <1>1, <1>3 DEF TypeOK, Register, nodeVars
<1>4. ASSUME NEW sub \in pool[author], Include(sub)
      PROVE  TypeOK'
  BY <1>1, <1>4 DEF TypeOK, PalletTypeOK, Include, nodeVars
<1>5. CASE Seal
  BY <1>1, <1>5 DEF TypeOK, Seal
<1>6. ASSUME NEW n \in Node, NEW b \in Block, Worker(n, b)
      PROVE  TypeOK'
  BY <1>6, WorkerTyped
<1>7. ASSUME NEW n \in Node, NEW sub \in sent, NEW number \in {sub.block_number} \cup Renumbered,
             Receive(n, sub, number)
      PROVE  TypeOK'
  <2> DEFINE copy == [sub EXCEPT !.block_number = number]
  <2>1. copy \in Submission
    BY NetworkAssumption DEF TypeOK, Submission
  <2>2. /\ \/ pool' = [pool EXCEPT ![n] = @ \cup {copy}] /\ banned' = banned
           \/ banned' = [banned EXCEPT ![n] = @ \cup {copy}] /\ pool' = pool
        /\ UNCHANGED <<chainVars, height, workerVars, sent>>
    BY <1>7 DEF Receive
  <2> HIDE DEF copy
  <2>3. pool' \in [Node -> SUBSET Submission] /\ banned' \in [Node -> SUBSET Submission]
    <3>1. /\ pool \in [Node -> SUBSET Submission] /\ banned \in [Node -> SUBSET Submission]
          /\ \/ pool' = [pool EXCEPT ![n] = @ \cup {copy}] /\ banned' = banned
             \/ banned' = [banned EXCEPT ![n] = @ \cup {copy}] /\ pool' = pool
      BY <2>2 DEF TypeOK
    <3> QED
      BY ONLY <2>1, <3>1
  <2>4. UNCHANGED <<author, body, height, runs, started, sent>>
    BY <2>2 DEF chainVars, workerVars
  <2> QED
    BY <1>1, <2>3, <2>4 DEF TypeOK
<1>8. ASSUME NEW n \in Node, NEW sub \in pool[n], DropInvalid(n, sub)
      PROVE  TypeOK'
  BY <1>1, <1>8 DEF TypeOK, DropInvalid, chainVars, workerVars
<1>9. ASSUME NEW n \in Node, Import(n)
      PROVE  TypeOK'
  <2>1. height[n] + 1 \in Block
    BY <1>9, PalletAssumption DEF TypeOK, PalletTypeOK, Import, Block
  <2>2. height[n] + 1 \in 0 .. MaxBlock
    BY <2>1 DEF Block
  <2> QED
    BY <1>1, <1>9, <2>1, <2>2 DEF TypeOK, Import, chainVars, workerVars
<1>10. ASSUME NEW n \in Node, Restart(n)
       PROVE  TypeOK'
  BY <1>1, <1>10 DEF TypeOK, Restart, NoRuns, chainVars
<1>11. CASE UNCHANGED vars
  BY <1>1, <1>11 DEF TypeOK, vars
<1> QED
  BY <1>2, <1>3, <1>4, <1>5, <1>6, <1>7, <1>8, <1>9, <1>10, <1>11 DEF Next

\* The initial state is well-typed.
LEMMA NetworkInitTyped == Init => TypeOK
BY InitTyped, NetworkAssumption, PalletAssumption DEF Init, TypeOK, NoRuns

\* Type correctness of the network.
THEOREM TypeCorrect == Spec => []TypeOK
<1>1. TypeOK /\ [Next]_vars => TypeOK'
  BY StepTyped
<1> QED
  BY <1>1, NetworkInitTyped, PTL DEF Spec

-----------------------------------------------------------------------------
(* The inductive invariant *)

\* Time does not go back, and what is due at a block already built is settled:
\* a request is filed under a block not yet built.
LEMMA Settled ==
    ASSUME TypeOK, [Next]_vars
    PROVE  /\ now <= now'
           /\ \A b \in Block : b < now => waitingQueue'[b] = waitingQueue[b]
<1>1. ASSUME NEW who \in Account, NEW evidence \in Evidence, Request(who, evidence)
      PROVE  /\ now' = now
             /\ \A b \in Block : b < now => waitingQueue'[b] = waitingQueue[b]
  BY <1>1, PalletAssumption
     DEF TypeOK, PalletTypeOK, Request, RequestVerification, Block, DueBlock
<1>2. ASSUME NEW key \in Key, Register(key)
      PROVE  now' = now /\ waitingQueue' = waitingQueue
  BY <1>2 DEF Register, RegisterNewPubkey
<1>3. ASSUME NEW sub \in pool[author], Include(sub)
      PROVE  now' = now /\ waitingQueue' = waitingQueue
  BY <1>3 DEF Include, SubmitResult, DispatchSubmission
<1>4. CASE Seal
  BY <1>4 DEF Seal, NextBlock, TypeOK, PalletTypeOK, Block
<1>5. CASE UNCHANGED palletVars
  BY <1>5 DEF palletVars, TypeOK, PalletTypeOK, Block
<1> QED
  BY <1>1, <1>2, <1>3, <1>4, <1>5, ReceiveFrame
     DEF Next, vars, chainVars, Worker, StartRun, FailEntry, PanicRun, SubmitEntry,
         DropInvalid, Import, Restart, TypeOK, PalletTypeOK, Block

\* What is genuine stays genuine.
LEMMA GenuineStable ==
    ASSUME TypeOK, [Next]_vars, NEW x, Genuine(x)
    PROVE  Genuine(x)'
<1>1. ActOf(x).block \in Block /\ ActOf(x).applicant \in Account
  BY DEF Genuine, RunAct
<1>2. TypeOK'
  BY StepTyped
<1>3. ActOf(x).block < now'
  <2>1. ActOf(x).block \in Int /\ now \in Int /\ now' \in Int
    BY <1>1, <1>2 DEF TypeOK, PalletTypeOK, Block
  <2>2. ActOf(x).block < now /\ now <= now'
    BY Settled DEF Genuine
  <2> QED
    BY <2>1, <2>2
<1>4. waitingQueue'[ActOf(x).block] = waitingQueue[ActOf(x).block]
  BY <1>1, Settled DEF Genuine
<1> QED
  BY <1>3, <1>4 DEF Genuine, FromVerdict, VerdictFor, ActOf

\* A run's entries only go away, or are those due at a block of the node.
LEMMA RunsStep ==
    ASSUME TypeOK, [Next]_vars, NEW n \in Node, NEW b \in Block, NEW r \in Run
    PROVE  \/ runs'[n][b][r] \subseteq runs[n][b][r]
           \/ b = height[n] /\ runs'[n][b][r] = DueAt(b)
<1>1. ASSUME NEW m \in Node, NEW c \in Block, StartRun(m, c)
      PROVE  \/ runs'[n][b][r] \subseteq runs[n][b][r]
             \/ b = height[n] /\ runs'[n][b][r] = DueAt(b)
  BY <1>1 DEF StartRun, TypeOK
<1>3. ASSUME NEW m \in Node, NEW c \in Block, Worker(m, c)
      PROVE  \/ runs'[n][b][r] \subseteq runs[n][b][r]
             \/ b = height[n] /\ runs'[n][b][r] = DueAt(b)
  <2>1. CASE StartRun(m, c)
    BY <1>1, <2>1
  <2>2. ASSUME NEW q \in Run, NEW entry \in runs[m][c][q],
               \/ FailEntry(m, c, q, entry)
               \/ PanicRun(m, c, q, entry)
               \/ SubmitEntry(m, c, q, entry)
        PROVE  runs'[n][b][r] \subseteq runs[n][b][r]
    <3>1. \/ runs' = [runs EXCEPT ![m][c][q] = runs[m][c][q] \ {entry}]
          \/ runs' = [runs EXCEPT ![m][c][q] = {}]
      BY <2>2 DEF FailEntry, PanicRun, SubmitEntry, Settle
    <3>2. CASE runs' = [runs EXCEPT ![m][c][q] = runs[m][c][q] \ {entry}]
      BY <3>2 DEF TypeOK
    <3>3. CASE runs' = [runs EXCEPT ![m][c][q] = {}]
      BY <3>3 DEF TypeOK
    <3> QED
      BY <3>1, <3>2, <3>3
  <2> QED
    BY <1>3, <2>1, <2>2 DEF Worker
<1>4. ASSUME NEW m \in Node, Restart(m)
      PROVE  runs'[n][b][r] \subseteq runs[n][b][r]
  BY <1>4 DEF Restart, NoRuns, TypeOK
<1>5. CASE UNCHANGED runs
  BY <1>5
<1> QED
  BY <1>3, <1>4, <1>5
     DEF Next, vars, nodeVars, workerVars, Request, Register, Include, Seal, Receive,
         DropInvalid, Import

\* Runs are of blocks already built, and hold what is due there.
LEMMA RunsInv ==
    ASSUME IInv, [Next]_vars
    PROVE  /\ (\A n \in Node, b \in Block, r \in Run : runs[n][b][r] # {} => b < now)'
           /\ RunsMatchQueue'
<1> SUFFICES ASSUME NEW n \in Node, NEW b \in Block, NEW r \in Run,
                    NEW entry \in runs'[n][b][r]
             PROVE  b < now' /\ waitingQueue'[b][entry.who] = entry.evidence
  BY DEF RunsMatchQueue
<1>1. TypeOK /\ TypeOK'
  BY StepTyped DEF IInv
<1>2. b < now /\ waitingQueue[b][entry.who] = entry.evidence
  <2>1. CASE runs'[n][b][r] \subseteq runs[n][b][r]
    BY <2>1 DEF IInv, RunsMatchQueue
  <2>2. CASE b = height[n] /\ runs'[n][b][r] = DueAt(b)
    BY <2>2 DEF IInv, DueAt
  <2> QED
    BY <1>1, <2>1, <2>2, RunsStep
<1>3. b < now'
  <2>1. b \in Int /\ now \in Int /\ now' \in Int
    BY <1>1 DEF TypeOK, PalletTypeOK, Block
  <2> QED
    BY <1>1, <1>2, <2>1, Settled
<1> QED
  BY <1>1, <1>2, <1>3, Settled

\* A node's best block is a block already built.
LEMMA HeightInv ==
    ASSUME IInv, [Next]_vars
    PROVE  (\A n \in Node : height[n] < now)'
<1> SUFFICES ASSUME NEW n \in Node
             PROVE  height'[n] < now'
  OBVIOUS
<1>1. TypeOK /\ TypeOK' /\ now <= now' /\ height[n] < now
  BY StepTyped, Settled DEF IInv
<1>2. height[n] \in Int /\ height'[n] \in Int /\ now \in Int /\ now' \in Int
  BY <1>1 DEF TypeOK, PalletTypeOK, Block
<1>3. ASSUME NEW m \in Node, Import(m)
      PROVE  height'[n] < now
  BY <1>1, <1>2, <1>3 DEF Import, TypeOK
<1>4. CASE UNCHANGED height
  BY <1>1, <1>2, <1>4
<1> QED
  BY <1>1, <1>2, <1>3, <1>4, ReceiveFrame
     DEF Next, vars, nodeVars, Request, Register, Include, Seal, Worker, StartRun,
         FailEntry, PanicRun, SubmitEntry, DropInvalid, Restart

\* A submission sent for the first time is one a worker signs, on the verdict
\* on an entry of one of its runs.
LEMMA SentStep ==
    ASSUME [Next]_vars, NEW sub \in sent', sub \notin sent
    PROVE  \E n \in Node, b \in Block, r \in Run : \E entry \in runs[n][b][r] :
              /\ SubmitEntry(n, b, r, entry)
              /\ sub = SignedResult(n, b, r, entry)
<1>1. PICK n \in Node, b \in Block, r \in Run : \E entry \in runs[n][b][r] :
         SubmitEntry(n, b, r, entry)
  BY ReceiveFrame
     DEF Next, vars, nodeVars, poolVars, Request, Register, Include, Seal, Worker,
         StartRun, FailEntry, PanicRun, DropInvalid, Import, Restart
<1>2. PICK entry \in runs[n][b][r] : SubmitEntry(n, b, r, entry)
  BY <1>1
<1>3. sub = SignedResult(n, b, r, entry)
  BY <1>2 DEF SubmitEntry
<1> QED
  BY <1>2, <1>3

\* What a worker submits is signed on a settled verdict.
LEMMA SubmittedGenuine ==
    ASSUME IInv, NEW n \in Node, NEW b \in Block, NEW r \in Run,
           NEW entry \in runs[n][b][r], SubmitEntry(n, b, r, entry)
    PROVE  Genuine(SignedResult(n, b, r, entry))
<1> DEFINE sub == SignedResult(n, b, r, entry)
<1>1. TypeOK
  BY DEF IInv
<1>2. entry \in Entry /\ b < now /\ waitingQueue[b][entry.who] = entry.evidence
  BY DEF IInv, TypeOK, RunsMatchQueue
<1>3. /\ Verdict[entry.evidence] # Rejected
      /\ Verdict[entry.evidence].account \in Account
      /\ LocalKey[n] # NoKey
  BY DEF SubmitEntry, AccountDecodes
<1>4. /\ ActOf(sub) = [node |-> n, block |-> b, run |-> r, applicant |-> entry.who]
      /\ ActOf(sub) \in RunAct
  BY <1>1, <1>2, <1>3, SignedResultTyped
<1>5. entry.evidence # NoEvidence
  BY <1>2, PalletAssumption DEF Entry
<1>6. sub.payload = [code |-> Verdict[entry.evidence].code,
                     who |-> Verdict[entry.evidence].account,
                     pubkey |-> Verdict[entry.evidence].pubkey,
                     public |-> LocalKey[n]]
  BY DEF SignedResult
<1>7. VerdictFor(ActOf(sub)) = Verdict[entry.evidence]
  BY <1>2, <1>4 DEF VerdictFor
<1> QED
  BY <1>2, <1>3, <1>4, <1>5, <1>6, <1>7 DEF Genuine, FromVerdict

\* Every submission sent was signed on a settled verdict.
LEMMA TracedInv ==
    ASSUME IInv, [Next]_vars
    PROVE  (\A sub \in sent : Genuine(sub))'
<1> SUFFICES ASSUME NEW sub \in sent'
             PROVE  Genuine(sub)'
  OBVIOUS
<1>1. TypeOK
  BY DEF IInv
<1>2. CASE sub \in sent
  BY <1>1, <1>2, GenuineStable DEF IInv
<1>3. CASE sub \notin sent
  <2>1. PICK n \in Node, b \in Block, r \in Run : \E entry \in runs[n][b][r] :
           /\ SubmitEntry(n, b, r, entry)
           /\ sub = SignedResult(n, b, r, entry)
    BY <1>1, <1>3, SentStep
  <2>2. PICK entry \in runs[n][b][r] :
           /\ SubmitEntry(n, b, r, entry)
           /\ sub = SignedResult(n, b, r, entry)
    BY <2>1
  <2> QED
    BY <1>1, <2>2, SubmittedGenuine, GenuineStable
<1> QED
  BY <1>2, <1>3

\* A copy with another block number is as genuine: the number is not signed.
LEMMA CopyGenuine ==
    ASSUME NEW sub \in Submission, NEW number, Genuine(sub)
    PROVE  Genuine([sub EXCEPT !.block_number = number])
<1> DEFINE copy == [sub EXCEPT !.block_number = number]
<1>1. copy.payload = sub.payload /\ copy.signature = sub.signature
  BY DEF Submission
<1> HIDE DEF copy
<1>2. Genuine(copy)
  BY <1>1 DEF Genuine, FromVerdict, VerdictFor, ActOf
<1> QED
  BY <1>2 DEF copy

\* Pools hold only what is genuine, whatever block number it came with.
LEMMA PoolInv ==
    ASSUME IInv, [Next]_vars
    PROVE  (\A n \in Node : \A sub \in pool[n] : Genuine(sub))'
<1> SUFFICES ASSUME NEW n \in Node, NEW sub \in pool'[n]
             PROVE  Genuine(sub)'
  OBVIOUS
<1>1. TypeOK
  BY DEF IInv
<1>2. ASSUME sub \in pool[n]
      PROVE  Genuine(sub)'
  BY <1>1, <1>2, GenuineStable DEF IInv
<1>3. ASSUME NEW m \in Node, NEW new, Genuine(new), pool' = [pool EXCEPT ![m] = @ \cup {new}]
      PROVE  Genuine(sub)'
  <2>1. sub \in pool[n] \/ sub = new
    BY <1>1, <1>3 DEF TypeOK
  <2> QED
    BY <1>1, <1>2, <1>3, <2>1, GenuineStable
<1>4. ASSUME NEW m \in Node, NEW b \in Block, Worker(m, b)
      PROVE  Genuine(sub)'
  <2>1. ASSUME NEW r \in Run, NEW entry \in runs[m][b][r], SubmitEntry(m, b, r, entry)
        PROVE  Genuine(sub)'
    <3> DEFINE new == SignedResult(m, b, r, entry)
    <3>1. Genuine(new)
      BY <2>1, SubmittedGenuine
    <3>2. pool' = [pool EXCEPT ![m] = @ \cup {new}] \/ pool' = pool
      BY <2>1 DEF SubmitEntry
    <3> HIDE DEF new
    <3> QED
      BY <1>2, <1>3, <3>1, <3>2
  <2>2. CASE UNCHANGED pool
    BY <1>2, <2>2
  <2> QED
    BY <1>4, <2>1, <2>2 DEF Worker, StartRun, FailEntry, PanicRun, poolVars
<1>5. ASSUME NEW m \in Node, NEW old \in sent, NEW number \in {old.block_number} \cup Renumbered,
             Receive(m, old, number)
      PROVE  Genuine(sub)'
  <2> DEFINE copy == [old EXCEPT !.block_number = number]
  <2>1. Genuine(copy)
    BY <1>1, CopyGenuine DEF IInv, TypeOK
  <2>2. pool' = [pool EXCEPT ![m] = @ \cup {copy}] \/ pool' = pool
    BY <1>5 DEF Receive
  <2> HIDE DEF copy
  <2> QED
    BY <1>2, <1>3, <2>1, <2>2
<1>6. ASSUME NEW m \in Node,
             \/ \E old \in pool[m] : DropInvalid(m, old)
             \/ Import(m)
             \/ Restart(m)
      PROVE  Genuine(sub)'
  <2>1. \/ \E old : pool' = [pool EXCEPT ![m] = pool[m] \ {old}]
        \/ pool' = [pool EXCEPT ![m] = pool[m] \ body[height[m] + 1]]
        \/ pool' = [pool EXCEPT ![m] = {}]
    BY <1>6 DEF DropInvalid, Import, Restart
  <2>2. pool'[n] \subseteq pool[n]
    BY <1>1, <2>1 DEF TypeOK
  <2> QED
    BY <1>2, <2>2
<1>7. CASE UNCHANGED pool
  BY <1>2, <1>7
<1> QED
  BY <1>4, <1>5, <1>6, <1>7 DEF Next, vars, nodeVars, Request, Register, Include, Seal

\* A block's body only changes while it is built, by a submission valid in it.
LEMMA BodyStep ==
    ASSUME TypeOK, [Next]_vars
    PROVE  \/ body' = body
           \/ \E sub \in pool[author] :
                 /\ ValidateUnsigned(sub, now)
                 /\ now' = now
                 /\ body' = [body EXCEPT ![now] = @ \cup {sub}]
<1>1. ASSUME NEW sub \in pool[author], Include(sub)
      PROVE  /\ ValidateUnsigned(sub, now)
             /\ now' = now
             /\ body' = [body EXCEPT ![now] = @ \cup {sub}]
  BY <1>1 DEF Include, SubmitResult, DispatchSubmission
<1> QED
  BY <1>1, ReceiveFrame
     DEF Next, vars, chainVars, Request, Register, Seal, Worker, StartRun,
         FailEntry, PanicRun, SubmitEntry, DropInvalid, Import, Restart

\* Bodies are of blocks built or being built, and keep to the window.
LEMMA BodiesInv ==
    ASSUME IInv, [Next]_vars
    PROVE  /\ (\A b \in Block : body[b] # {} => b <= now)'
           /\ CarriedInWindow'
<1> SUFFICES ASSUME NEW b \in Block, NEW sub \in body'[b]
             PROVE  /\ b <= now'
                    /\ ActOf(sub).block < b
                    /\ sub.block_number <= b
                    /\ b <= sub.block_number + EvidenceLifetime
  BY DEF CarriedInWindow, ActOf
<1>1. /\ TypeOK /\ TypeOK' /\ now <= now'
      /\ b \in Int /\ now \in Int /\ now' \in Int
  <2>1. TypeOK
    BY DEF IInv
  <2>2. TypeOK' /\ now <= now'
    BY <2>1, StepTyped, Settled
  <2> QED
    BY <2>1, <2>2 DEF TypeOK, PalletTypeOK, Block
<1>2. CASE sub \in body[b]
  BY <1>1, <1>2 DEF IInv, CarriedInWindow
<1>3. CASE sub \notin body[b]
  <2>1. /\ b = now
        /\ sub \in pool[author]
        /\ ValidateUnsigned(sub, now)
    BY <1>1, <1>3, BodyStep DEF TypeOK
  <2>2. ActOf(sub).block < now /\ sub \in Submission
    BY <1>1, <2>1 DEF IInv, TypeOK, Genuine
  <2>3. sub.block_number \in Int /\ EvidenceLifetime \in Int
    <3> DEFINE number == sub.block_number
    <3>1. number \in Block
      BY <2>2, SubmissionParts
    <3> HIDE DEF number
    <3>2. number \in Int
      BY <3>1 DEF Block
    <3> QED
      BY <3>2, PalletAssumption DEF number
  <2>4. ~(now < sub.block_number) /\ ~(now > sub.block_number + EvidenceLifetime)
    BY <2>1 DEF ValidateUnsigned, InFuture, Outdated
  <2> DEFINE number == sub.block_number
  <2>5. number <= now /\ now <= number + EvidenceLifetime
    <3> HIDE DEF number
    <3>1. number \in Int /\ ~(now < number) /\ ~(now > number + EvidenceLifetime)
      BY <2>3, <2>4 DEF number
    <3> QED
      BY <1>1, <2>3, <3>1
  <2> QED
    BY <1>1, <2>1, <2>2, <2>5
<1> QED
  BY <1>2, <1>3

\* A result new on chain is the payload and the signature of a submission in
\* the author's pool.
LEMMA RecordedStep ==
    ASSUME TypeOK, [Next]_vars, NEW result \in Recorded', result \notin Recorded
    PROVE  \E sub \in pool[author] :
              /\ result.payload = sub.payload
              /\ result.signature = sub.signature
<1>0. verificationResults' # verificationResults
  BY DEF Recorded
<1>1. PICK sub \in pool[author] : Include(sub)
  <2>1. ASSUME NEW who \in Account, NEW evidence \in Evidence
        PROVE  ~Request(who, evidence)
    BY <1>0 DEF Request, RequestVerification
  <2>2. ASSUME NEW key \in Key
        PROVE  ~Register(key)
    BY <1>0 DEF Register, RegisterNewPubkey
  <2>3. ~Seal
    BY <1>0 DEF Seal, NextBlock
  <2>4. ~UNCHANGED palletVars
    BY <1>0 DEF palletVars
  <2>5. ASSUME NEW n \in Node, NEW b \in Block
        PROVE  ~Worker(n, b)
    BY <2>4 DEF Worker, StartRun, FailEntry, PanicRun, SubmitEntry, chainVars
  <2>6. ASSUME NEW n \in Node, NEW sub, NEW number
        PROVE  ~Receive(n, sub, number) /\ ~DropInvalid(n, sub) /\ ~Import(n) /\ ~Restart(n)
    BY <2>4 DEF Receive, DropInvalid, Import, Restart, chainVars
  <2>7. ~UNCHANGED vars
    BY <2>4 DEF vars, palletVars
  <2> QED
    BY <2>1, <2>2, <2>3, <2>5, <2>6, <2>7 DEF Next
<1> DEFINE new == [payload |-> sub.payload, signature |-> sub.signature]
<1>2. PICK a \in Account, p \in AppKey : result \in Contents(verificationResults'[a][p])
  BY DEF Recorded, Contents
<1>3. result \notin Contents(verificationResults[a][p])
  BY DEF Recorded
<1>4. sub \in Submission
  BY DEF TypeOK
<1>5. /\ verificationResults[a][p] \in Seq(Result)
      /\ new \in Result
  BY <1>4, SubmissionParts DEF TypeOK, PalletTypeOK
<1>6. verificationResults'[a][p] = Append(verificationResults[a][p], new)
  BY <1>1, <1>2, <1>3, <1>4, SubmissionParts
     DEF Include, SubmitResult, DispatchSubmission, TypeOK, PalletTypeOK
<1>7. result = new
  BY <1>2, <1>3, <1>5, <1>6, ContentsOfAppend
<1> QED
  BY <1>7

\* Every recorded result is genuine.
LEMMA RecordedInv ==
    ASSUME IInv, [Next]_vars
    PROVE  (\A result \in Recorded : Genuine(result))'
<1> SUFFICES ASSUME NEW result \in Recorded'
             PROVE  Genuine(result)'
  OBVIOUS
<1>1. TypeOK
  BY DEF IInv
<1>2. Genuine(result)
  <2>1. CASE result \in Recorded
    BY <2>1 DEF IInv
  <2>2. CASE result \notin Recorded
    <3>1. PICK sub \in pool[author] :
             /\ result.payload = sub.payload
             /\ result.signature = sub.signature
      BY <1>1, <2>2, RecordedStep
    <3>2. Genuine(sub)
      BY <1>1, <3>1 DEF IInv, TypeOK
    <3> QED
      BY <3>1, <3>2 DEF Genuine, FromVerdict, VerdictFor, ActOf
  <2> QED
    BY <2>1, <2>2
<1> QED
  BY <1>1, <1>2, GenuineStable

\* The initial state satisfies the invariant.
LEMMA InvInit == Init => IInv
<1> SUFFICES ASSUME Init
             PROVE  IInv
  OBVIOUS
<1>1. TypeOK
  BY NetworkInitTyped
<1>2. Recorded = {}
  BY DEF Init, PalletInit, Recorded, Contents
<1> QED
  BY <1>1, <1>2 DEF Init, PalletInit, IInv, NoRuns, RunsMatchQueue, CarriedInWindow

\* The invariant is inductive.
THEOREM InductiveInv == Spec => []IInv
<1>1. IInv /\ [Next]_vars => IInv'
  <2> SUFFICES ASSUME IInv, [Next]_vars
               PROVE  IInv'
    OBVIOUS
  <2>1. TypeOK'
    BY StepTyped DEF IInv
  <2> QED
    BY <2>1, HeightInv, RunsInv, TracedInv, PoolInv, BodiesInv, RecordedInv DEF IInv
<1> QED
  BY <1>1, InvInit, PTL DEF Spec

\* Every result on chain repeats a verdict on evidence an account submitted
\* VerifyDelay blocks before the worker ran (lib.rs 298-323, 213-236).
THEOREM AlwaysFromVerdict == Spec => []RecordedFromVerdict
<1>1. IInv => RecordedFromVerdict
  BY DEF IInv, RecordedFromVerdict, Genuine
<1> QED
  BY <1>1, InductiveInv, PTL

\* A block carries a submission only after the block its evidence was due at,
\* whatever number the copy claims, and within that number's window
\* (lib.rs 436-442, 508-514).
THEOREM AlwaysInWindow == Spec => []CarriedInWindow
<1>1. IInv => CarriedInWindow
  BY DEF IInv
<1> QED
  BY <1>1, InductiveInv, PTL

\* A worker's snapshot is never stale (lib.rs 207, 274).
THEOREM AlwaysMatchQueue == Spec => []RunsMatchQueue
<1>1. IInv => RunsMatchQueue
  BY DEF IInv
<1> QED
  BY <1>1, InductiveInv, PTL

-----------------------------------------------------------------------------
(* Entries of a run *)

\* Starting a run takes a slot that was empty; nothing else fills one.
LEMMA UnstartedStep ==
    ASSUME TypeOK, UnstartedEmpty, [Next]_vars
    PROVE  UnstartedEmpty'
<1> SUFFICES ASSUME NEW n \in Node, NEW b \in Block, NEW r \in Run,
                    r > started'[n][b]
             PROVE  runs'[n][b][r] = {}
  BY DEF UnstartedEmpty
<1>1. ASSUME NEW m \in Node, NEW c \in Block, StartRun(m, c)
      PROVE  runs'[n][b][r] = {}
  <2>1. /\ started[n][b] \in 0 .. MaxRuns /\ started[m][c] \in 0 .. MaxRuns
        /\ MaxRuns \in Nat
    BY NetworkAssumption DEF TypeOK
  <2>2. CASE n = m /\ b = c
    <3>1. started'[n][b] = started[n][b] + 1
      BY <1>1, <2>2 DEF StartRun, TypeOK
    <3>2. r > started[n][b] /\ r # started[n][b] + 1
      BY <2>1, <3>1 DEF Run
    <3>3. runs'[n][b][r] = runs[n][b][r]
      BY <1>1, <2>2, <3>2 DEF StartRun, TypeOK
    <3> QED
      BY <3>2, <3>3 DEF UnstartedEmpty
  <2>3. CASE ~(n = m /\ b = c)
    <3>1. started'[n][b] = started[n][b] /\ runs'[n][b][r] = runs[n][b][r]
      BY <1>1, <2>3 DEF StartRun, TypeOK
    <3> QED
      BY <3>1 DEF UnstartedEmpty
  <2> QED
    BY <2>2, <2>3
<1>2. CASE started' = started /\ runs'[n][b][r] \subseteq runs[n][b][r]
  BY <1>2 DEF UnstartedEmpty
<1>3. ASSUME NEW m \in Node, NEW c \in Block, Worker(m, c)
      PROVE  runs'[n][b][r] = {}
  <2>1. ASSUME NEW q \in Run, NEW entry \in runs[m][c][q],
               \/ FailEntry(m, c, q, entry)
               \/ PanicRun(m, c, q, entry)
               \/ SubmitEntry(m, c, q, entry)
        PROVE  started' = started /\ runs'[n][b][r] \subseteq runs[n][b][r]
    <3>1. \/ runs' = [runs EXCEPT ![m][c][q] = runs[m][c][q] \ {entry}]
          \/ runs' = [runs EXCEPT ![m][c][q] = {}]
      BY <2>1 DEF FailEntry, PanicRun, SubmitEntry, Settle
    <3>2. CASE runs' = [runs EXCEPT ![m][c][q] = runs[m][c][q] \ {entry}]
      BY <2>1, <3>2 DEF TypeOK, FailEntry, PanicRun, SubmitEntry
    <3>3. CASE runs' = [runs EXCEPT ![m][c][q] = {}]
      BY <2>1, <3>3 DEF TypeOK, FailEntry, PanicRun, SubmitEntry
    <3> QED
      BY <3>1, <3>2, <3>3
  <2> QED
    BY <1>1, <1>2, <1>3, <2>1 DEF Worker
<1>4. ASSUME NEW m \in Node, Restart(m)
      PROVE  runs'[n][b][r] = {}
  <2>1. started' = started /\ runs'[n][b][r] \subseteq runs[n][b][r]
    BY <1>4 DEF Restart, NoRuns, TypeOK
  <2> QED
    BY <1>2, <2>1
<1>5. CASE UNCHANGED <<started, runs>>
  BY <1>2, <1>5
<1> QED
  BY <1>3, <1>4, <1>5
     DEF Next, vars, nodeVars, workerVars, Request, Register, Include, Seal, Receive,
         DropInvalid, Import

\* A set within a singleton has at most one element.
LEMMA AtMostOne == \A S, x : S \subseteq {x} => ~(Cardinality(S) > 1)
<1> SUFFICES ASSUME NEW S, NEW x, S \subseteq {x}
             PROVE  ~(Cardinality(S) > 1)
  OBVIOUS
<1>1. S = {} \/ S = {x}
  OBVIOUS
<1>2. CASE S = {}
  BY <1>2, FS_EmptySet
<1>3. CASE S = {x}
  BY <1>3, FS_Singleton
<1> QED
  BY <1>1, <1>2, <1>3

\* No step but the two named costs a run more than one entry.
LEMMA EntriesStep ==
    ASSUME TypeOK, UnstartedEmpty, [Next]_vars,
           NEW n \in Node, NEW b \in Block, NEW r \in Run
    PROVE  \/ \E entry : runs[n][b][r] \ runs'[n][b][r] \subseteq {entry}
           \/ \A c \in Block : runs'[n][c] = NoRuns
           \/ \E entry \in runs[n][b][r] :
                 /\ Verdict[entry.evidence] # Rejected
                 /\ Verdict[entry.evidence].account = NotHex
<1> DEFINE Lost == runs[n][b][r] \ runs'[n][b][r]
<1> SUFFICES ASSUME \A entry : ~(Lost \subseteq {entry}),
                    \E c \in Block : runs'[n][c] # NoRuns,
                    \A entry \in runs[n][b][r] :
                       ~ /\ Verdict[entry.evidence] # Rejected
                         /\ Verdict[entry.evidence].account = NotHex
             PROVE  FALSE
  OBVIOUS
<1>1. ASSUME runs'[n][b][r] = runs[n][b][r]
      PROVE  FALSE
  BY <1>1
<1>2. ASSUME NEW m \in Node, NEW c \in Block, StartRun(m, c)
      PROVE  FALSE
  <2>1. CASE n = m /\ b = c /\ r = started[m][c] + 1
    <3>1. r > started[n][b]
      BY <2>1, NetworkAssumption DEF TypeOK
    <3>2. runs[n][b][r] = {}
      BY <3>1 DEF UnstartedEmpty
    <3> QED
      BY <3>2
  <2>2. CASE ~(n = m /\ b = c /\ r = started[m][c] + 1)
    <3>1. runs'[n][b][r] = runs[n][b][r]
      BY <1>2, <2>2 DEF StartRun, TypeOK
    <3> QED
      BY <1>1, <3>1
  <2> QED
    BY <2>1, <2>2
<1>3. ASSUME NEW m \in Node, NEW c \in Block, NEW q \in Run, NEW entry \in runs[m][c][q],
             FailEntry(m, c, q, entry) \/ SubmitEntry(m, c, q, entry)
      PROVE  FALSE
  <2>1. runs' = [runs EXCEPT ![m][c][q] = runs[m][c][q] \ {entry}]
    BY <1>3 DEF FailEntry, SubmitEntry, Settle
  <2>2. Lost \subseteq {entry}
    BY <2>1 DEF TypeOK
  <2> QED
    BY <2>2
<1>4. ASSUME NEW m \in Node, NEW c \in Block, NEW q \in Run, NEW entry \in runs[m][c][q],
             PanicRun(m, c, q, entry)
      PROVE  FALSE
  <2>1. CASE n = m /\ b = c /\ r = q
    BY <1>4, <2>1 DEF PanicRun
  <2>2. CASE ~(n = m /\ b = c /\ r = q)
    <3>1. runs'[n][b][r] = runs[n][b][r]
      BY <1>4, <2>2 DEF PanicRun, TypeOK
    <3> QED
      BY <1>1, <3>1
  <2> QED
    BY <2>1, <2>2
<1>5. ASSUME NEW m \in Node, Restart(m)
      PROVE  FALSE
  <2>1. CASE n = m
    <3>1. \A c \in Block : runs'[n][c] = NoRuns
      BY <1>5, <2>1 DEF Restart, TypeOK
    <3> QED
      BY <3>1
  <2>2. CASE n # m
    <3>1. runs'[n][b][r] = runs[n][b][r]
      BY <1>5, <2>2 DEF Restart, TypeOK
    <3> QED
      BY <1>1, <3>1
  <2> QED
    BY <2>1, <2>2
<1>6. CASE UNCHANGED runs
  BY <1>1, <1>6
<1>7. ASSUME NEW m \in Node, NEW c \in Block, Worker(m, c)
      PROVE  FALSE
  BY <1>2, <1>3, <1>4, <1>7 DEF Worker
<1> QED
  BY <1>5, <1>6, <1>7
     DEF Next, vars, nodeVars, workerVars, Request, Register, Include, Seal,
         Receive, DropInvalid, Import

\* A failure of one request never costs another its turn, a node that stops and
\* an account that is not hexadecimal apart (lib.rs 274-279, 306).
THEOREM AlwaysIndependent == Spec => EntriesIndependent
<1>1. Init => UnstartedEmpty
  BY DEF Init, UnstartedEmpty, NoRuns
<1>2. TypeOK /\ UnstartedEmpty /\ [Next]_vars => UnstartedEmpty'
  BY UnstartedStep
<1>3. ASSUME TypeOK, UnstartedEmpty, [Next]_vars,
             NEW n \in Node, NEW b \in Block, NEW r \in Run,
             Cardinality(runs[n][b][r] \ runs'[n][b][r]) > 1
      PROVE  \/ \A c \in Block : runs'[n][c] = NoRuns
             \/ \E entry \in runs[n][b][r] :
                   /\ Verdict[entry.evidence] # Rejected
                   /\ Verdict[entry.evidence].account = NotHex
  <2>1. ASSUME NEW entry, runs[n][b][r] \ runs'[n][b][r] \subseteq {entry}
        PROVE  FALSE
    BY <1>3, <2>1, AtMostOne
  <2>2. \/ \E entry : runs[n][b][r] \ runs'[n][b][r] \subseteq {entry}
        \/ \A c \in Block : runs'[n][c] = NoRuns
        \/ \E entry \in runs[n][b][r] :
              /\ Verdict[entry.evidence] # Rejected
              /\ Verdict[entry.evidence].account = NotHex
    BY <1>3, EntriesStep
  <2> QED
    BY <2>1, <2>2
<1>4. TypeOK /\ UnstartedEmpty /\ [Next]_vars
        => [\A n \in Node, b \in Block, r \in Run :
              Cardinality(runs[n][b][r] \ runs'[n][b][r]) > 1 =>
                  \/ \A c \in Block : runs'[n][c] = NoRuns
                  \/ \E entry \in runs[n][b][r] :
                        /\ Verdict[entry.evidence] # Rejected
                        /\ Verdict[entry.evidence].account = NotHex]_vars
  BY <1>3
<1> QED
  BY <1>1, <1>2, <1>4, TypeCorrect, PTL DEF Spec, EntriesIndependent

-----------------------------------------------------------------------------
(* The network implements AttestationLedger.  A request shows in the ledger   *)
(* when its block is built; a registration enrols; a submission that is       *)
(* included attests, since what its node signed was the verdict on an         *)
(* evidence that is due still (Genuine); all else stutters.                   *)

\* Line by line, a slot with one more result is that slot with one more line.
LEMMA LinesOfAppend ==
    ASSUME NEW seq \in Seq(Result), NEW result \in Result
    PROVE  [i \in DOMAIN Append(seq, result) |-> LineOf(Append(seq, result)[i])]
             = Append([i \in DOMAIN seq |-> LineOf(seq[i])], LineOf(result))
<1> DEFINE Lines == {LineOf(r) : r \in Result}
           old == [i \in DOMAIN seq |-> LineOf(seq[i])]
           new == [i \in DOMAIN Append(seq, result) |-> LineOf(Append(seq, result)[i])]
           n == Len(seq)
<1>1. /\ n \in Nat /\ DOMAIN seq = 1 .. n
      /\ \A i \in 1 .. n : seq[i] \in Result
      /\ DOMAIN Append(seq, result) = 1 .. n + 1
      /\ \A i \in 1 .. n : Append(seq, result)[i] = seq[i]
      /\ Append(seq, result)[n + 1] = result
  OBVIOUS
<1> HIDE DEF n
<1>2. old \in [1 .. n -> Lines]
  BY <1>1
<1>3. old \in Seq(Lines) /\ Len(old) = n
  BY <1>1, <1>2
<1>4. /\ DOMAIN Append(old, LineOf(result)) = 1 .. n + 1
      /\ \A i \in 1 .. n : Append(old, LineOf(result))[i] = old[i]
      /\ Append(old, LineOf(result))[n + 1] = LineOf(result)
  <2> DEFINE line == LineOf(result)
  <2>1. line \in Lines
    OBVIOUS
  <2> HIDE DEF old, line, Lines
  <2>2. DOMAIN Append(old, line) = 1 .. n + 1 /\ Append(old, line)[n + 1] = line
        /\ \A i \in 1 .. n : Append(old, line)[i] = old[i]
    BY <1>3, <2>1
  <2> QED
    BY <2>2 DEF line
<1>5. Append(old, LineOf(result)) = [i \in 1 .. n + 1 |-> Append(old, LineOf(result))[i]]
  <2> DEFINE line == LineOf(result)
  <2>1. line \in Lines
    OBVIOUS
  <2> HIDE DEF old, line, Lines
  <2>2. Append(old, line) \in Seq(Lines)
    BY <1>3, <2>1
  <2>3. Append(old, line) \in [1 .. Len(Append(old, line)) -> Lines]
    BY <2>2, LenProperties
  <2>4. Append(old, line) = [i \in DOMAIN Append(old, line) |-> Append(old, line)[i]]
    BY <2>3
  <2> QED
    BY <1>4, <2>4 DEF line
<1>6. \A i \in 1 .. n + 1 : LineOf(Append(seq, result)[i]) = Append(old, LineOf(result))[i]
  <2> SUFFICES ASSUME NEW i \in 1 .. n + 1
               PROVE  LineOf(Append(seq, result)[i]) = Append(old, LineOf(result))[i]
    OBVIOUS
  <2>1. CASE i \in 1 .. n
    <3>1. Append(old, LineOf(result))[i] = old[i]
      BY <1>4, <2>1
    <3>2. old[i] = LineOf(seq[i])
      BY <1>1, <2>1
    <3> QED
      BY <1>1, <2>1, <3>1, <3>2
  <2>2. CASE i \notin 1 .. n
    <3>1. i = n + 1
      BY <1>1, <2>2
    <3> QED
      BY <1>1, <1>4, <3>1
  <2> QED
    BY <2>1, <2>2
<1>7. new = [i \in 1 .. n + 1 |-> LineOf(Append(seq, result)[i])]
  BY <1>1
<1> QED
  BY <1>5, <1>6, <1>7

\* What was due at a built block is an evidence.
LEMMA DueTyped == ASSUME TypeOK PROVE DueEvidence \subseteq Evidence
<1> SUFFICES ASSUME NEW b \in 1 .. (now - 1), NEW a \in Account, waitingQueue[b][a] # NoEvidence
             PROVE  waitingQueue[b][a] \in Evidence
  BY DEF DueEvidence
<1>1. b \in DueBlock
  BY PalletAssumption DEF TypeOK, PalletTypeOK, Block, DueBlock
<1> QED
  BY <1>1 DEF TypeOK, PalletTypeOK

\* An array of arrays with one entry replaced.
LEMMA ExceptTwice ==
    ASSUME NEW A, NEW B, NEW f, f = [a \in A |-> [b \in B |-> f[a][b]]],
           NEW x \in A, NEW y \in B, NEW v
    PROVE  [f EXCEPT ![x][y] = v] = [a \in A |-> [b \in B |-> IF a = x /\ b = y THEN v ELSE f[a][b]]]
  OBVIOUS

\* An array of arrays of sequences with one entry longer.
AppendAt(f, x, y, v) == [f EXCEPT ![x][y] = Append(@, v)]

\* A result added to its slot is a line added to the ledger there.
LEMMA LedgerOfAppend ==
    ASSUME NEW results \in [Account -> [AppKey -> Seq(Result)]],
           NEW who \in Account, NEW pubkey \in AppKey, NEW result \in Result
    PROVE  LedgerOf(AppendAt(results, who, pubkey, result))
             = AppendAt(LedgerOf(results), who, pubkey, LineOf(result))
<1> DEFINE new == AppendAt(results, who, pubkey, result)
<1> DEFINE lines(slot) == [i \in DOMAIN slot |-> LineOf(slot[i])]
<1>1. \A a \in Account, p \in AppKey :
          new[a][p] = IF a = who /\ p = pubkey THEN Append(results[who][pubkey], result) ELSE results[a][p]
  BY DEF AppendAt
<1>2. lines(Append(results[who][pubkey], result)) = Append(lines(results[who][pubkey]), LineOf(result))
  <2>1. results[who][pubkey] \in Seq(Result)
    OBVIOUS
  <2> QED
    BY <2>1, LinesOfAppend
<1>3. /\ LedgerOf(new) = [a \in Account |-> [p \in AppKey |-> lines(new[a][p])]]
      /\ LedgerOf(results) = [a \in Account |-> [p \in AppKey |-> lines(results[a][p])]]
  BY DEF LedgerOf
<1> HIDE DEF lines, new
<1>4. \A a \in Account, p \in AppKey :
          lines(new[a][p]) = IF a = who /\ p = pubkey THEN Append(lines(results[who][pubkey]), LineOf(result))
                             ELSE lines(results[a][p])
  BY <1>1, <1>2
<1> DEFINE old == LedgerOf(results)
           line == Append(lines(results[who][pubkey]), LineOf(result))
<1>5. old = [a \in Account |-> [p \in AppKey |-> old[a][p]]]
      /\ \A a \in Account, p \in AppKey : old[a][p] = lines(results[a][p])
  BY <1>3
<1> HIDE DEF old, line
<1>6. [old EXCEPT ![who][pubkey] = line]
        = [a \in Account |-> [p \in AppKey |-> IF a = who /\ p = pubkey THEN line ELSE old[a][p]]]
  BY <1>5, ExceptTwice
<1>7. LedgerOf(new) = [old EXCEPT ![who][pubkey] = line]
  <2> DEFINE g == [a \in Account |-> [p \in AppKey |-> lines(new[a][p])]]
             h == [a \in Account |-> [p \in AppKey |-> IF a = who /\ p = pubkey THEN line ELSE old[a][p]]]
  <2>1. ASSUME NEW a \in Account, NEW p \in AppKey
        PROVE  lines(new[a][p]) = IF a = who /\ p = pubkey THEN line ELSE old[a][p]
    BY <1>4, <1>5 DEF line
  <2>2. g = h
    BY <2>1
  <2> QED
    BY <1>3, <1>6, <2>2
<1>8. line = Append(old[who][pubkey], LineOf(result))
  BY <1>5 DEF line
<1> QED
  BY <1>7, <1>8 DEF old, new, AppendAt

\* While no block is sealed, requests change nothing that is due: they are filed
\* under blocks not yet built.
LEMMA DueUnchanged ==
    ASSUME TypeOK, [Next]_vars, now' = now
    PROVE  DueEvidence' = DueEvidence
<1>1. now \in Block
  BY DEF TypeOK, PalletTypeOK
<1>2. \A b \in 1 .. (now - 1) : waitingQueue'[b] = waitingQueue[b]
  <2> SUFFICES ASSUME NEW b \in 1 .. (now - 1) PROVE waitingQueue'[b] = waitingQueue[b]
    OBVIOUS
  <2>1. b \in Block /\ b < now
    BY <1>1, PalletAssumption DEF Block
  <2> QED
    BY <2>1, Settled
<1> QED
  BY <1>2 DEF DueEvidence

\* The next block makes evidences due.
LEMMA SealRefines ==
    ASSUME TypeOK, TypeOK', Seal
    PROVE  \E evidences \in SUBSET Evidence : Ledger!BecomeDue(evidences)
<1> DEFINE new == {waitingQueue[now][a] : a \in Account} \ {NoEvidence}
<1>1. now \in Nat \ {0} /\ now' = now + 1
      /\ waitingQueue' = waitingQueue /\ UNCHANGED <<verificationResults, publicKeys>>
  BY PalletAssumption DEF TypeOK, PalletTypeOK, Block, Seal, NextBlock
<1>2. 1 .. (now' - 1) = (1 .. (now - 1)) \cup {now}
  BY <1>1
<1>3. DueEvidence' = DueEvidence \cup new
  BY <1>1, <1>2 DEF DueEvidence
<1>4. new \subseteq Evidence
  <2>1. now \in DueBlock
    BY PalletAssumption DEF TypeOK, PalletTypeOK, Block, DueBlock
  <2>2. \A a \in Account : waitingQueue[now][a] \in Evidence \cup {NoEvidence}
    BY <2>1 DEF TypeOK, PalletTypeOK
  <2> QED
    BY <2>2
<1>5. Ledger!BecomeDue(new)
  BY <1>1, <1>3 DEF Ledger!BecomeDue, LedgerOf
<1> QED
  BY <1>4, <1>5

\* A registration enrols its key.
LEMMA RegisterRefines ==
    ASSUME TypeOK, [Next]_vars, NEW key \in Key, Register(key)
    PROVE  Ledger!Enrol(key)
<1>1. publicKeys \in Seq(Key) /\ publicKeys' = Append(publicKeys, key)
      /\ UNCHANGED <<now, verificationResults>>
  BY DEF TypeOK, PalletTypeOK, Register, RegisterNewPubkey
<1>2. Contents(publicKeys') = Contents(publicKeys) \cup {key}
  BY <1>1, ContentsOfAppend
<1>3. Contents(publicKeys)' = Contents(publicKeys')
  BY DEF Contents
<1> QED
  BY <1>1, <1>2, <1>3, DueUnchanged DEF Ledger!Enrol, LedgerOf

\* A submission that is included and accepted attests; one that is not changes
\* nothing.
LEMMA IncludeRefines ==
    ASSUME IInv, [Next]_vars, NEW sub \in pool[author], Include(sub)
    PROVE  \/ \E evidence \in DueEvidence, key \in Contents(publicKeys) : Ledger!Attest(evidence, key)
           \/ UNCHANGED Ledger!ledgerVars
<1>1. TypeOK /\ sub \in Submission /\ Genuine(sub)
  BY DEF IInv, TypeOK
<1>2. /\ UNCHANGED <<now, waitingQueue, publicKeys>>
      /\ DispatchSubmission(sub)
  BY DEF Include, SubmitResult, DispatchSubmission
<1>3. DueEvidence' = DueEvidence /\ Contents(publicKeys)' = Contents(publicKeys)
  BY <1>1, <1>2, DueUnchanged DEF Contents
<1>4. CASE ~Accepted(sub)
  <2>1. verificationResults' = verificationResults
    BY <1>2, <1>4 DEF DispatchSubmission
  <2> QED
    BY <1>3, <2>1 DEF LedgerOf, Ledger!ledgerVars
<1>5. CASE Accepted(sub)
  <2> DEFINE act == ActOf(sub)
             evidence == waitingQueue[act.block][act.applicant]
             who == sub.payload.who
             pubkey == sub.payload.pubkey
             key == sub.payload.public
             result == [payload |-> sub.payload, signature |-> sub.signature]
  <2>1. act.block \in Block /\ act.applicant \in Account /\ act.block < now
    BY <1>1 DEF Genuine, RunAct
  <2>2. evidence # NoEvidence /\ sub.payload = [code |-> Verdict[evidence].code, who |-> Verdict[evidence].account,
                        pubkey |-> Verdict[evidence].pubkey, public |-> LocalKey[act.node]]
    BY <1>1 DEF Genuine, FromVerdict, VerdictFor
  <2>3. evidence \in DueEvidence
    <3>1. act.block \in 1 .. (now - 1)
      BY <1>1, <2>1, PalletAssumption DEF TypeOK, PalletTypeOK, Block
    <3> QED
      BY <2>1, <2>2, <3>1 DEF DueEvidence
  <2>4. key \in Contents(publicKeys)
    BY <1>5 DEF Accepted
  <2>5. who \in Account /\ pubkey \in AppKey /\ result \in Result
    BY <1>1, SubmissionParts DEF Submission, Result
  <2>6. verificationResults \in [Account -> [AppKey -> Seq(Result)]]
    BY <1>1 DEF TypeOK, PalletTypeOK
  <2>7. verificationResults' = [verificationResults EXCEPT ![who][pubkey] = Append(@, result)]
    BY <1>2, <1>5 DEF DispatchSubmission
  <2>8. /\ Verdict[evidence].account = who /\ Verdict[evidence].pubkey = pubkey
        /\ LineOf(result) = [code |-> Verdict[evidence].code, public |-> key]
    BY <2>2 DEF LineOf
  <2>9. LedgerOf(verificationResults)' =
          [LedgerOf(verificationResults) EXCEPT ![who][pubkey] = Append(@, LineOf(result))]
    <3>1. LedgerOf(verificationResults)' = LedgerOf(verificationResults')
      BY DEF LedgerOf
    <3> HIDE DEF who, pubkey, result
    <3>2. verificationResults' = AppendAt(verificationResults, who, pubkey, result)
      BY <2>7 DEF AppendAt
    <3>3. LedgerOf(AppendAt(verificationResults, who, pubkey, result))
            = AppendAt(LedgerOf(verificationResults), who, pubkey, LineOf(result))
      BY <2>5, <2>6, LedgerOfAppend
    <3>4. LedgerOf(verificationResults')
            = AppendAt(LedgerOf(verificationResults), who, pubkey, LineOf(result))
      BY <3>2, <3>3
    <3> QED
      BY <3>1, <3>4 DEF AppendAt
  <2> HIDE DEF act, evidence, who, pubkey, key, result
  <2>10. Ledger!Attest(evidence, key)
    BY <1>3, <2>3, <2>4, <2>5, <2>8, <2>9 DEF Ledger!Attest
  <2> QED
    BY <2>3, <2>4, <2>10
<1> QED
  BY <1>4, <1>5

-----------------------------------------------------------------------------

\* Whatever the network does, the chain's storage evolves as the ledger may
\* (lib.rs 202-252).
THEOREM Refines == Spec => RefinesLedger
<1>1. Init => Ledger!Init
  <2> SUFFICES ASSUME Init PROVE Ledger!Init
    OBVIOUS
  <2>1. DueEvidence = {} /\ Contents(publicKeys) = {}
    BY DEF Init, PalletInit, DueEvidence, Contents
  <2>2. LedgerOf(verificationResults) = [a \in Account |-> [p \in AppKey |-> <<>>]]
    BY DEF Init, PalletInit, LedgerOf
  <2> QED
    BY <2>1, <2>2 DEF Ledger!Init
<1>2. IInv /\ [Next]_vars => [Ledger!Next]_Ledger!ledgerVars
  <2> SUFFICES ASSUME IInv, [Next]_vars
               PROVE  Ledger!Next \/ UNCHANGED Ledger!ledgerVars
    OBVIOUS
  <2>0. TypeOK /\ TypeOK'
    BY StepTyped DEF IInv
  <2>1. ASSUME NEW who \in Account, NEW evidence \in Evidence, Request(who, evidence)
        PROVE  UNCHANGED Ledger!ledgerVars
    <3>1. UNCHANGED <<now, verificationResults, publicKeys>>
      BY <2>1 DEF Request, RequestVerification
    <3> QED
      BY <2>0, <3>1, DueUnchanged DEF Ledger!ledgerVars, Contents, LedgerOf
  <2>2. ASSUME NEW key \in Key, Register(key) PROVE Ledger!Next
    BY <2>0, <2>2, RegisterRefines DEF Ledger!Next
  <2>3. ASSUME NEW sub \in pool[author], Include(sub)
        PROVE  Ledger!Next \/ UNCHANGED Ledger!ledgerVars
    BY <2>3, IncludeRefines DEF Ledger!Next
  <2>4. CASE Seal
    BY <2>0, <2>4, SealRefines DEF Ledger!Next
  <2>5. CASE UNCHANGED palletVars
    BY <2>5 DEF palletVars, Ledger!ledgerVars, DueEvidence, Contents, LedgerOf
  <2> QED
    BY <2>1, <2>2, <2>3, <2>4, <2>5, ReceiveFrame
       DEF Next, vars, chainVars, Worker, StartRun, FailEntry, PanicRun, SubmitEntry,
           DropInvalid, Import, Restart
<1> QED
  BY <1>1, <1>2, InductiveInv, PTL DEF Spec, RefinesLedger, Ledger!Spec
=============================================================================
