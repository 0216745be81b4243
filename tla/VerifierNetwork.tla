--------------------------- MODULE VerifierNetwork ---------------------------
(***************************************************************************)
(* The attestation protocol as a network runs it: the verifier pallet on a *)
(* chain, and nodes that import its blocks, run the pallet's offchain      *)
(* worker on them, exchange the unsigned transactions the workers submit   *)
(* and take turns building blocks.                                         *)
(*                                                                         *)
(* The chain does not fork here.  What a re-organisation does to a worker, *)
(* running it twice for one block number, is a second StartRun.            *)
(***************************************************************************)
EXTENDS VerifierPallet, FiniteSets

CONSTANTS
    Node,           \* nodes of the network
    Validator,      \* those started as validators: only they run the worker
    LocalKey,       \* the first key a node's keystore holds, or NoKey
    NoKey,
    Verdict,        \* what the DCAP service answers to an evidence
    Rejected,       \* the answer that is no message: a status other than 200
    NotHex,         \* an account text in a message that is not hexadecimal
    ShortHex,       \* hexadecimal, but not the encoding of an account
    Renumbered,     \* bound: block numbers a copy may carry beside its own
    MaxRuns,        \* bound: worker runs of a node for one block
    LastRequest     \* bound: the last block with a request

Message == [pubkey : AppKey, code : Code, account : Account \cup {NotHex, ShortHex}]

Run == 1 .. MaxRuns

\* A signature is told from all others by the worker run and the applicant it
\* was made for.
RunAct == [node : Node, block : Block, run : Run, applicant : Account]

ASSUME NetworkAssumption ==
    /\ Validator \subseteq Node
    /\ LocalKey \in [Node -> Key \cup {NoKey}]
    /\ NoKey \notin Key
    /\ Verdict \in [Evidence -> Message \cup {Rejected}]
    /\ Rejected \notin Message
    /\ {NotHex, ShortHex} \cap Account = {}
    /\ MaxRuns \in Nat
    /\ LastRequest \in Nat
    /\ Renumbered \subseteq Block
    /\ RunAct \subseteq SigningAct

VARIABLES
    \* the chain
    author,     \* the node building block now
    body,       \* submissions in the body of each block
    \* each node
    height,     \* number of its best block
    runs,       \* entries its worker runs still have to resolve, by block
    started,    \* worker runs it started, by block
    pool,       \* submissions in its transaction pool
    banned,     \* submissions its pool refuses to take again
    \* the wire
    sent        \* submissions, as their signers made them, that may still
                \* reach a node

chainVars == <<palletVars, author, body>>
workerVars == <<runs, started>>
poolVars == <<pool, banned, sent>>
vars == <<palletVars, author, body, height, runs, started, pool, banned, sent>>

NoRuns == [r \in Run |-> {}]
Entry == [who : Account, evidence : Evidence]

TypeOK ==
    /\ PalletTypeOK
    /\ author \in Node
    /\ body \in [Block -> SUBSET Submission]
    /\ height \in [Node -> 0 .. MaxBlock]
    /\ runs \in [Node -> [Block -> [Run -> SUBSET Entry]]]
    /\ started \in [Node -> [Block -> 0 .. MaxRuns]]
    /\ pool \in [Node -> SUBSET Submission]
    /\ banned \in [Node -> SUBSET Submission]
    /\ sent \in SUBSET Submission

Init ==
    /\ PalletInit
    /\ author \in Node
    /\ body = [b \in Block |-> {}]
    /\ height = [n \in Node |-> 0]
    /\ runs = [n \in Node |-> [b \in Block |-> NoRuns]]
    /\ started = [n \in Node |-> [b \in Block |-> 0]]
    /\ pool = [n \in Node |-> {}]
    /\ banned = [n \in Node |-> {}]
    /\ sent = {}

\* A pool validates as if in the block after its best one.
PoolAccepts(n, sub) == ValidateUnsigned(sub, height[n] + 1)

-----------------------------------------------------------------------------
(* The offchain worker *)

\* Mutated form: the requests of the block, not those due at it.
DueLater(b) ==
    {[who |-> a, evidence |-> waitingQueue[b + VerifyDelay][a]] :
        a \in {x \in Account : waitingQueue[b + VerifyDelay][x] # NoEvidence}}

\* iter_prefix_values(block_number) of the state after that block.
DueAt(b) ==
    {[who |-> a, evidence |-> waitingQueue[b][a]] :
        a \in {x \in Account : waitingQueue[b][x] # NoEvidence}}

\* offchain_worker(b), spawned after the import of block b.  A block may be
\* skipped (no StartRun) or run again, while the first run goes on.
StartRun(n, b) ==
    /\ n \in Validator
    /\ b = height[n]
    /\ started[n][b] < MaxRuns
    /\ started' = [started EXCEPT ![n][b] = @ + 1]
    /\ runs' = [runs EXCEPT ![n][b][started[n][b] + 1] = DueAt(b)]
    /\ UNCHANGED <<chainVars, height, poolVars>>

Settle(n, b, r, entry) == runs' = [runs EXCEPT ![n][b][r] = @ \ {entry}]

\* Mutated form: the error leaves the loop.
FailRun(n, b, r, entry) ==
    /\ entry \in runs[n][b][r]
    /\ runs' = [runs EXCEPT ![n][b][r] = {}]
    /\ UNCHANGED <<chainVars, height, started, poolVars>>

\* No usable answer within the deadline, an account that does not decode, or no
\* local key: the error is logged and the loop goes on.
FailEntry(n, b, r, entry) ==
    /\ entry \in runs[n][b][r]
    /\ Settle(n, b, r, entry)
    /\ UNCHANGED <<chainVars, height, started, poolVars>>

\* decode_hex(..).unwrap() traps: the run ends with its entries unresolved.
PanicRun(n, b, r, entry) ==
    /\ entry \in runs[n][b][r]
    /\ Verdict[entry.evidence] # Rejected
    /\ Verdict[entry.evidence].account = NotHex
    /\ runs' = [runs EXCEPT ![n][b][r] = {}]
    /\ UNCHANGED <<chainVars, height, started, poolVars>>

\* Mutated form: the result is filed under the applicant.
SignedForApplicant(n, b, r, entry) ==
    LET message == Verdict[entry.evidence]
        payload == [code |-> message.code, who |-> entry.who,
                    pubkey |-> message.pubkey, public |-> LocalKey[n]]
        act == [node |-> n, block |-> b, run |-> r, applicant |-> entry.who]
    IN  [block_number |-> b, payload |-> payload,
         signature |-> [by |-> LocalKey[n], over |-> payload, act |-> act]]

\* The payload is the service's answer: the applicant is not part of it.
SignedResult(n, b, r, entry) ==
    LET message == Verdict[entry.evidence]
        payload == [code |-> message.code, who |-> message.account,
                    pubkey |-> message.pubkey, public |-> LocalKey[n]]
        act == [node |-> n, block |-> b, run |-> r, applicant |-> entry.who]
    IN  [block_number |-> b, payload |-> payload,
         signature |-> [by |-> LocalKey[n], over |-> payload, act |-> act]]

AccountUnchecked(message) == TRUE     \* mutated form
AccountDecodes(message) == message.account \in Account

\* Sign with the first local key and submit to the node's own pool, which
\* propagates what it takes.
SubmitEntry(n, b, r, entry) ==
    /\ entry \in runs[n][b][r]
    /\ Verdict[entry.evidence] # Rejected
    /\ AccountDecodes(Verdict[entry.evidence])
    /\ LocalKey[n] # NoKey
    /\ Settle(n, b, r, entry)
    /\ LET sub == SignedResult(n, b, r, entry)
       IN  IF PoolAccepts(n, sub)
           THEN /\ pool' = [pool EXCEPT ![n] = @ \cup {sub}]
                /\ sent' = sent \cup {sub}
           ELSE UNCHANGED <<pool, sent>>
    /\ UNCHANGED <<chainVars, height, started, banned>>

-----------------------------------------------------------------------------
(* Transaction pools and gossip (external) *)

\* A copy arrives, early, late or again.  The block number is outside what is
\* signed: whoever passes the copy on may have put another in its place.  The
\* pool bans what it finds invalid, and holds one copy per signature, the tag
\* a submission provides.
Receive(n, sub, number) ==
    LET copy == [sub EXCEPT !.block_number = number]
    IN  /\ copy \notin pool[n] \cup banned[n]
        /\ \/ /\ PoolAccepts(n, copy)
              /\ \A other \in pool[n] : other.signature # copy.signature
              /\ pool' = [pool EXCEPT ![n] = @ \cup {copy}]
              /\ UNCHANGED banned
           \/ /\ ~PoolAccepts(n, copy)
              /\ banned' = [banned EXCEPT ![n] = @ \cup {copy}]
              /\ UNCHANGED pool
    /\ UNCHANGED <<chainVars, height, workerVars, sent>>

\* Revalidation removes a submission that is no longer valid.
DropInvalid(n, sub) ==
    /\ sub \in pool[n]
    /\ ~PoolAccepts(n, sub)
    /\ pool' = [pool EXCEPT ![n] = @ \ {sub}]
    /\ banned' = [banned EXCEPT ![n] = @ \cup {sub}]
    /\ UNCHANGED <<chainVars, height, workerVars, sent>>

-----------------------------------------------------------------------------
(* Blocks *)

nodeVars == <<author, height, runs, started, pool, banned, sent>>

Request(who, evidence) ==
    /\ now <= LastRequest
    /\ RequestVerification(who, evidence)
    /\ UNCHANGED <<nodeVars, body>>

Register(key) ==
    /\ RegisterNewPubkey(key)
    /\ UNCHANGED <<nodeVars, body>>

\* The author puts a submission of its pool into the block, one per signature.
Include(sub) ==
    /\ height[author] = now - 1
    /\ sub \in pool[author]
    /\ \A other \in body[now] : other.signature # sub.signature
    /\ SubmitResult(sub)
    /\ body' = [body EXCEPT ![now] = @ \cup {sub}]
    /\ UNCHANGED nodeVars

\* The block is sealed; some node is the next to build one.
Seal ==
    /\ NextBlock
    /\ author' \in Node
    /\ UNCHANGED <<body, height, runs, started, pool, banned, sent>>

\* Import prunes the pool of the block's submissions and bans those it held.
Import(n) ==
    /\ height[n] < now - 1
    /\ height' = [height EXCEPT ![n] = @ + 1]
    /\ LET included == body[height[n] + 1]
       IN  /\ pool' = [pool EXCEPT ![n] = @ \ included]
           /\ banned' = [banned EXCEPT ![n] = @ \cup (pool[n] \cap included)]
    /\ UNCHANGED <<chainVars, workerVars, sent>>

\* A crash or restart: worker runs, pool and bans are in memory only.
Restart(n) ==
    /\ runs' = [runs EXCEPT ![n] = [b \in Block |-> NoRuns]]
    /\ pool' = [pool EXCEPT ![n] = {}]
    /\ banned' = [banned EXCEPT ![n] = {}]
    /\ UNCHANGED <<chainVars, height, started, sent>>

Worker(n, b) ==
    \/ StartRun(n, b)
    \/ \E r \in Run : \E entry \in runs[n][b][r] :
          \/ FailEntry(n, b, r, entry)
          \/ PanicRun(n, b, r, entry)
          \/ SubmitEntry(n, b, r, entry)

Next ==
    \/ \E who \in Account, evidence \in Evidence : Request(who, evidence)
    \/ \E key \in Key : Register(key)
    \/ \E sub \in pool[author] : Include(sub)
    \/ Seal
    \/ \E n \in Node :
          \/ \E b \in Block : Worker(n, b)
          \/ \E sub \in sent : \E number \in {sub.block_number} \cup Renumbered :
                Receive(n, sub, number)
          \/ \E sub \in pool[n] : DropInvalid(n, sub)
          \/ Import(n)
          \/ Restart(n)

Spec == Init /\ [][Next]_vars

-----------------------------------------------------------------------------
(* Properties *)

ActOf(x) == x.signature.act

\* The answer on which a signing act was based: the service's verdict on the
\* evidence that waits for that applicant at that block.
VerdictFor(act) == Verdict[waitingQueue[act.block][act.applicant]]

FromVerdict(x) ==
    LET act == ActOf(x)
    IN  /\ waitingQueue[act.block][act.applicant] # NoEvidence
        /\ VerdictFor(act) # Rejected
        /\ x.payload = [code |-> VerdictFor(act).code, who |-> VerdictFor(act).account,
                        pubkey |-> VerdictFor(act).pubkey, public |-> LocalKey[act.node]]

\* Every result on chain repeats, under the local key of the node that signed
\* it, what the DCAP service answered to an evidence some account submitted
\* VerifyDelay blocks before the worker ran: no interleaving of requests, runs,
\* restarts and gossip puts anything else there (lib.rs 298-323, 213-236).
RecordedFromVerdict == \A result \in Recorded : FromVerdict(result)

\* What a run still has to resolve is what the queue holds for its block, even
\* while requests of the same accounts arrive (lib.rs 207, 274).
RunsMatchQueue ==
    \A n \in Node, b \in Block, r \in Run :
        \A entry \in runs[n][b][r] : waitingQueue[b][entry.who] = entry.evidence

\* However it was passed on, a submission is carried only by a block after the
\* one its evidence was due at, and within EvidenceLifetime of the number it
\* claims.  The claim is all the pallet checks: it is not signed, so the age of
\* the evidence itself is not bounded (lib.rs 136-141, 317, 436-442).
CarriedInWindow ==
    \A b \in Block : \A sub \in body[b] :
        /\ ActOf(sub).block < b
        /\ sub.block_number <= b
        /\ b <= sub.block_number + EvidenceLifetime

Times(result) ==
    LET slot == verificationResults[result.payload.who][result.payload.pubkey]
    IN  Cardinality({i \in DOMAIN slot : slot[i] = result})

\* A run gives up several entries in one step only when the node stops or an
\* answer names an account that is not hexadecimal; a failure of one request
\* never costs another its turn otherwise (lib.rs 274-279, 306).
EntriesIndependent ==
    [][\A n \in Node, b \in Block, r \in Run :
        Cardinality(runs[n][b][r] \ runs'[n][b][r]) > 1 =>
            \/ \A c \in Block : runs'[n][c] = NoRuns
            \/ \E entry \in runs[n][b][r] :
                  /\ Verdict[entry.evidence] # Rejected
                  /\ Verdict[entry.evidence].account = NotHex]_vars

\* Two runs of a node's worker for one block put one result on chain: the entry
\* point's comment asks the code to handle a worker that runs twice
\* (lib.rs 257-263).
RunTwiceRecordsOnce ==
    \A x, y \in Recorded :
        /\ x.payload = y.payload
        /\ [ActOf(x) EXCEPT !.run = ActOf(y).run] = ActOf(y)
        => x = y

\* A submission is accepted once, as the comment on EvidenceLifetime has it
\* (lib.rs 123-125).
AcceptedOnce == \A result \in Recorded : Times(result) = 1

-----------------------------------------------------------------------------
(* The inductive invariants: IInv is behind RecordedFromVerdict and           *)
(* CarriedInWindow, the next one behind EntriesIndependent                    *)

\* A run that was not started has no entries, so that starting one loses none.
UnstartedEmpty ==
    \A n \in Node, b \in Block, r \in Run : r > started[n][b] => runs[n][b][r] = {}

\* Signed for a worker run of a block already built, on that block's verdict.
Genuine(x) ==
    /\ ActOf(x) \in RunAct
    /\ ActOf(x).block < now
    /\ FromVerdict(x)

IInv ==
    /\ TypeOK
    /\ \A n \in Node : height[n] < now
    /\ \A n \in Node, b \in Block, r \in Run : runs[n][b][r] # {} => b < now
    /\ RunsMatchQueue
    /\ \A sub \in sent : Genuine(sub)
    /\ \A n \in Node : \A sub \in pool[n] : Genuine(sub)
    /\ \A b \in Block : body[b] # {} => b <= now
    /\ CarriedInWindow
    /\ \A result \in Recorded : Genuine(result)
=============================================================================
