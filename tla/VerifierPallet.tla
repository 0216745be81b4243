--------------------------- MODULE VerifierPallet ---------------------------
(***************************************************************************)
(* The on-chain half of the attestation protocol: the storage and the     *)
(* calls of pallets/verifier/src/lib.rs, and the validity rules that guard *)
(* its one unsigned call.  The off-chain half, the transaction pools and   *)
(* the blocks are in VerifierNetwork.                                      *)
(*                                                                         *)
(* Keys, evidences and accounts are opaque values.  A signature records    *)
(* the key that made it, the payload it was made over and the signing act  *)
(* (sr25519 signing is randomised: two acts never give equal signatures).  *)
(***************************************************************************)
EXTENDS Integers, Sequences

CONSTANTS
    Account,            \* chain accounts (T::AccountId)
    Evidence,           \* evidences a request may carry
    NoEvidence,         \* an empty slot of the waiting queue
    AppKey,             \* public keys of attested applications (payload.pubkey)
    Code,               \* code measurements (payload.code)
    Key,                \* signing keys of the offchain workers (T::Public)
    SigningAct,         \* what makes each signature a different value
    VerifyDelay,        \* T::VerifyDelay, in blocks
    EvidenceLifetime,   \* T::EvidenceLifetime, in blocks
    MaxBlock,           \* bound: the last block modelled
    MaxKeys,            \* bound: registrations modelled
    MaxResults          \* bound: results modelled per slot

ASSUME PalletAssumption ==
    /\ VerifyDelay \in Nat
    /\ EvidenceLifetime \in Nat
    /\ MaxBlock \in Nat \ {0}
    /\ MaxKeys \in Nat
    /\ MaxResults \in Nat
    /\ NoEvidence \notin Evidence

VARIABLES
    now,                    \* number of the block being built
    waitingQueue,           \* WaitingQueue: evidence due at a block, by applicant
    verificationResults,    \* VerificationResults: signed results by (who, pubkey)
    publicKeys              \* PublicKeys: keys whose results are accepted

palletVars == <<now, waitingQueue, verificationResults, publicKeys>>

Block == 1 .. MaxBlock
DueBlock == 1 .. (MaxBlock + VerifyDelay)

Payload == [code : Code, who : Account, pubkey : AppKey, public : Key]
Signature == [by : Key, over : Payload, act : SigningAct]
Result == [payload : Payload, signature : Signature]

\* An extrinsic submit_result_unsigned_with_signed_payload(block_number, ...).
Submission == [block_number : Block, payload : Payload, signature : Signature]

Contents(seq) == {seq[i] : i \in DOMAIN seq}

PalletTypeOK ==
    /\ now \in Block
    /\ waitingQueue \in [DueBlock -> [Account -> Evidence \cup {NoEvidence}]]
    /\ verificationResults \in [Account -> [AppKey -> Seq(Result)]]
    /\ publicKeys \in Seq(Key)

PalletInit ==
    /\ now = 1
    /\ waitingQueue = [b \in DueBlock |-> [a \in Account |-> NoEvidence]]
    /\ verificationResults = [a \in Account |-> [p \in AppKey |-> <<>>]]
    /\ publicKeys = <<>>

-----------------------------------------------------------------------------
(* Validity of an unsigned submission *)

SignatureValid(payload, signature) ==
    /\ signature.by = payload.public
    /\ signature.over = payload

InFutureEarly(block_number, current) == current + 1 < block_number  \* mutated form
InFuture(block_number, current) == current < block_number
OutdatedLate(block_number, current) == current > block_number + EvidenceLifetime + 1  \* mutated form
Outdated(block_number, current) == current > block_number + EvidenceLifetime

\* validate_unsigned, run by a pool against its best block and once more when
\* the extrinsic is put into a block; block_number is not signed over.
ValidateUnsigned(sub, current) ==
    /\ SignatureValid(sub.payload, sub.signature)
    /\ ~InFuture(sub.block_number, current)
    /\ ~Outdated(sub.block_number, current)

-----------------------------------------------------------------------------
(* The calls *)

\* Mutated form: due a block early.
RequestVerificationEarly(who, evidence) ==
    /\ waitingQueue' = [waitingQueue EXCEPT ![now + VerifyDelay - 1][who] = evidence]
    /\ UNCHANGED <<now, verificationResults, publicKeys>>

\* The entry is keyed by due block and applicant: a second request of the same
\* account in the same block replaces the first.  Entries are never removed.
RequestVerification(who, evidence) ==
    /\ waitingQueue' = [waitingQueue EXCEPT ![now + VerifyDelay][who] = evidence]
    /\ UNCHANGED <<now, verificationResults, publicKeys>>

RegisterNewPubkey(key) ==
    /\ Len(publicKeys) < MaxKeys
    /\ publicKeys' = Append(publicKeys, key)
    /\ UNCHANGED <<now, waitingQueue, verificationResults>>

ResultsFor(sub) == verificationResults[sub.payload.who][sub.payload.pubkey]

\* Mutated form: the key need not be registered.
AcceptedAnyKey(sub) == SignatureValid(sub.payload, sub.signature)

Accepted(sub) ==
    /\ sub.payload.public \in Contents(publicKeys)
    /\ SignatureValid(sub.payload, sub.signature)

\* Mutated form: the results are replaced, not extended.
DispatchReplacing(sub) ==
    /\ Len(ResultsFor(sub)) < MaxResults
    /\ verificationResults' =
         IF Accepted(sub)
         THEN [verificationResults EXCEPT ![sub.payload.who][sub.payload.pubkey] =
                 <<[payload |-> sub.payload, signature |-> sub.signature]>>]
         ELSE verificationResults
    /\ UNCHANGED <<now, waitingQueue, publicKeys>>

\* The dispatch: InvalidPublic and InvalidSignature leave the state alone, and
\* nothing looks for an equal result that is already there.
DispatchSubmission(sub) ==
    /\ Len(ResultsFor(sub)) < MaxResults
    /\ verificationResults' =
         IF Accepted(sub)
         THEN [verificationResults EXCEPT ![sub.payload.who][sub.payload.pubkey] =
                 Append(@, [payload |-> sub.payload, signature |-> sub.signature])]
         ELSE verificationResults
    /\ UNCHANGED <<now, waitingQueue, publicKeys>>

\* An unsigned extrinsic enters a block only if it is still valid there.
SubmitResult(sub) ==
    /\ ValidateUnsigned(sub, now)
    /\ DispatchSubmission(sub)

NextBlock ==
    /\ now < MaxBlock
    /\ now' = now + 1
    /\ UNCHANGED <<waitingQueue, verificationResults, publicKeys>>

PalletNext ==
    \/ \E who \in Account, evidence \in Evidence : RequestVerification(who, evidence)
    \/ \E key \in Key : RegisterNewPubkey(key)
    \/ \E sub \in Submission : SubmitResult(sub)
    \/ NextBlock

PalletSpec == PalletInit /\ [][PalletNext]_palletVars

-----------------------------------------------------------------------------
(* Properties *)

Recorded == UNION {Contents(verificationResults[a][p]) : a \in Account, p \in AppKey}

\* Every result on chain is filed under the account and the application key it
\* names, by a key that is registered, with a signature of that key over exactly
\* this payload, whatever mix of valid and invalid submissions and
\* registrations came before (lib.rs 213-236, 502-517).
RecordedByRegistered ==
    \A a \in Account, p \in AppKey :
        \A result \in Contents(verificationResults[a][p]) :
            /\ result.payload.who = a
            /\ result.payload.pubkey = p
            /\ result.payload.public \in Contents(publicKeys)
            /\ SignatureValid(result.payload, result.signature)

\* Once the blocks a request can name have passed, what is due at a block never
\* changes: a worker that reads the queue later, or again, reads the same
\* (lib.rs 206-207, 274).
QueueSettled ==
    [][\A b \in DueBlock : b < now + VerifyDelay => waitingQueue'[b] = waitingQueue[b]]_palletVars
=============================================================================
