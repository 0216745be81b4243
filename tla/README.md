# Formal model of the decentralized attestation chain

A TLA+ development of the program in this repository: modules that model its
components, TLC configurations that check them on small instances, and proofs
that TLAPS checks for every value of the constants. `PROJECT.json` lists the
components, runs, hazards and theorems, and maps every definition to the source
lines it models. Paths below are relative to `src/`.

Contents: [inventory](#inventory), [modules](#modules),
[model and code](#model-and-code), [runs](#what-is-checked),
[fairness](#fairness), [proofs](#what-is-proved),
[disagreements](#disagreements-with-the-documentation),
[quirks](#what-the-models-brought-to-light),
[not modelled](#what-is-not-modelled), [plan](#plan).

## Inventory

The chain certifies Intel SGX enclaves. An applicant puts *evidence* (a quote
and a signature) on chain. A few blocks later the offchain worker of every
validator node that processes that block posts it to the node's local DCAP
service; if the service accepts it, the worker signs the service's answer with
a key of type `teee` and submits it as an unsigned transaction. The chain
records it if the key was registered by root. Blocks are made by *collators*:
invulnerables named by governance, and bonded candidates who are kicked when
they make no blocks. The DCAP service is a C++ program of its own: one process,
a listening thread and a pool of threads that serve HTTP.

| Part | Source | State | Operations | Talks to |
|---|---|---|---|---|
| Verifier pallet | `pallets/verifier/src/lib.rs` 159-253, 432-519 | `WaitingQueue`, `VerificationResults`, `PublicKeys` | `request_verification`, `submit_result_unsigned_with_signed_payload`, `register_new_pubkey`, `validate_unsigned` | pools and block authors ask it for validity; the worker reads its queue |
| Offchain worker | the same, 264-430 | none; a run lives in memory | one run per imported block, one step per due request | queue, DCAP service (HTTP), keystore, the node's pool |
| Submissions' way to the chain | `node/src/service.rs` and Substrate | pools, bans, gossip in flight, blocks | receive, revalidate, include, seal, import, restart | the above |
| Collator selection pallet | `pallets/collator-selection/src/lib.rs` | `Invulnerables`, `Candidates`, `LastAuthoredBlock`, `DesiredCandidates`, `CandidacyBond`, reserved balances | `set_*` (root), `register_as_candidate`, `leave_intent`, `note_author`, `new_session` | session and authorship pallets call it; it calls balances and asks session for keys |
| Runtime composition | `runtime/src/lib.rs` | session queue, authorities | rotation each `Period` blocks, author of a block | calls collator selection |
| DCAP service: handler | `sgx/src/App.cpp` 58-304, `utils/Utils.*`, `include/Defer.h` | one request per thread: the answer, the identity, buffers, scope guards | `/entryNetwork`, `/stop` | the worker calls it; it calls JSON, log, OpenSSL and Intel's libraries |
| HTTP server | `sgx/src/include/httplib.h`, the server's part | listening socket, queue and pool of threads, connections and what they have sent | listen, accept, queue, serve, keep alive, stop; per request: read line, headers and content, route, answer | calls the handlers; clients connect |
| JSON | `sgx/src/include/Json.h` | values, objects in memory, ordered objects | read, write, assign, copy, move, index, append, erase | used by the handler |
| Log | `sgx/src/log/Log.*` | one buffer, one mutex, the debug flag | `info`, `warn`, `err`, `debug`, `set_debug` | every thread writes to it |
| Status codes | `sgx/src/include/CrustStatus.h` | none | - | - |
| Node, CLI, RPC, chain specs, builds | `node/`, `docker/`, `scripts/`, `sgx/scripts` | start-up only | - | - |

What is hard in each, and what makes it correct:

- **Verifier pallet and worker.** Requests arrive while runs are under way; a run
  may be skipped, repeated, or cut off by a restart or by an answer that makes it
  panic; nodes import at different speeds, so a submission may reach a pool
  before its block, after its inclusion, or again. A submission's block number is
  not signed, a signature does not name the applicant, and nothing on chain
  remembers what it accepted. *Correct* means: what is on chain repeats a
  verdict of the service on evidence someone had submitted `VerifyDelay` blocks
  before, under a registered key; a block carries submissions only within the
  lifetime of the block number they claim (who passes one on may renew it, so
  the age of the evidence itself has no bound); requests do not suffer from one
  another's failures.
- **Collator selection.** A long sequence of registrations, departures, kicks and
  changes by governance must keep one deposit per candidacy and return what was
  taken; the kick loop reads a copy of the list but counts the one in storage it
  is shortening; the recorded last block of a new candidate is in the future.
  *Correct* means: deposits are backed, the candidates never fall below
  `MinCandidates`, whoever is kicked was idle for the whole grace it was owed,
  order is first come, first served, and money is conserved.
- **Runtime composition.** Who is selected at a session change takes office at
  the next one; hooks come before transactions; an account may leave and come
  back while its old seat lasts. *Correct* means: who makes its blocks is not
  kicked, although its first slot comes more than a session after it registers.
- **The service's handler.** A dozen ways out, with buffers, keys and two scope
  guards to be settled on each; library calls with results that are easily
  misread; many threads in the same functions. *Correct* means: each request
  gets one answer, about its own account and quote; a request that either
  verification refused gets no success (an error of `ECDSA_verify`, -1, is no
  refusal to this code); buffers are given back.
- **HTTP server.** The pool's queue and condition variable; a stop that is asked
  for from a thread that the stop waits for; errors of accept; keep-alive against
  silent and busy clients, and clients that send a request piece by piece, for
  which there is no time limit. *Correct* means: a connection has one owner, no
  wake-up is lost, and, as long as requests end, every connection is closed and
  a stop ends the server and drains it.
  On a connection, requests follow each other in one stream of bytes: the server
  must find where each ends, whatever framing it has, and tell the client where
  each answer ends and, but for one kind of request, which is the last.
- **JSON, texts of URLs, forms.** Readers that look ahead in a text that may end
  anywhere; writers whose output a different reader gets; members kept in order by
  the dictionary order of made-up tags; objects that own heap cells by hand. A
  form comes in blocks that may end in the midst of a delimiter.
- **Log.** One buffer and one broken-down time for all threads.

## Modules

| Module | Models | Role |
|---|---|---|
| `VerifierPallet` | the pallet's storage, calls and validity rules | component |
| `VerifierNetwork` | worker, pools, gossip, blocks; EXTENDS `VerifierPallet` and uses its calls as parts of its actions | composition |
| `AttestationLedger` | what the protocol promises a reader of the chain | abstract specification |
| `VerifierRefinement` | `AttestationLedger` instantiated with the chain's storage | refinement mapping |
| `CollatorSelection` | the pallet's storage and calls, with the balances they use | component |
| `CollatorChain` | hooks and transactions of blocks, sessions and seats; EXTENDS `CollatorSelection` and uses its calls as parts of its actions | composition |
| `KickLoop` | `kick_stale_candidates` as a loop (a fold) | reference for `KickedPositions` |
| `DcapService` | the handler of `/entryNetwork` for many threads, with its guards, conversions and library results | component |
| `AttestationService` | one allowed answer per request, or the process stops | abstract specification |
| `HttpServer` | listening thread, pool, connections, keep-alive, stop | component |
| `HttpRequest` | the requests of one connection, from tokens of bytes to answers | component |
| `HttpRanges` | range headers and what they select | operators, used by `HttpRequest` and `HttpInput` |
| `MultipartParser` | multipart forms, fed in blocks | component |
| `UrlText` | escaping, splitting, parameters, base64, the test of a path | operators, used by `HttpInput` |
| `HttpInput` | one input, and what the operators on ranges, texts and paths owe it | component |
| `JsonText` | the JSON reader and writers | operators |
| `JsonRoundTrip` | a text is read, written, read again | component |
| `JsonOrderedObject` | first-in-order objects: tags, keys and slots | component |
| `InsertionOrder` | a map in the order of first assignment | abstract specification |
| `JsonOwnership` | objects in memory: who owns which cell | component |
| `JsonObjectValues` | the trees that those objects stand for | refinement mapping |
| `JsonValues` | objects as trees that share nothing | abstract specification |
| `DcapLog` | a call of the log, step by step, in several threads | component |
| `JsonSamples`, `HttpSamples` | bounded inputs | model checking |
| `MC*` | values of the constants; `MCServiceLibrary` extends the log, the ordered object, objects in memory and the inputs, and puts the service's other independent parts beside them | model checking |
| `*_proofs` | theorems | proofs |

Definitions marked *mutated form* are the component with a plausible bug; no
behaviour uses them. Putting one in place of the definition it stands before
makes a property fail, which shows what the property guards.

## Model and code

### Verifier

`now` is the number of the block being built. `waitingQueue[b][a]` is the double
map `WaitingQueue`; `request_verification` writes at `now + VerifyDelay` and
nothing is ever removed. `verificationResults[who][pubkey]` is the sequence the
dispatch appends to. A signature records the key, the payload, and the act of
signing: sr25519 signing is randomised, so two acts give two signatures. That
matters, because the `provides` tag of a transaction is its signature, and two
runs for one block therefore give two transactions.

A worker run is a set of entries read when it starts (`iter_prefix_values` over
the state after its block); `FailEntry`, `SubmitEntry` and `PanicRun` settle
them. `FailEntry` is always possible, as the service may not answer in time.
`PanicRun` is `decode_hex(..).unwrap()`: an account that is not hexadecimal
traps the run and loses its other entries. `Restart` drops runs, pool and bans.
`PoolAccepts` validates in the block after the pool's best one, which is how a
pool calls `validate_transaction`; a submission found invalid is banned.
`Include` needs an author who has imported all blocks but the one it builds; it
does what `pre_dispatch` and dispatch do, so validity is checked again at `now`.
`Receive` brings a copy of what was sent to a pool, with its own block number or
another: the number stands beside the signed payload (lib.rs 136-141, 315), and
`validate_unsigned` checks the payload's signature only (508-514), so whoever
passes a submission on may renew it. A pool holds one copy per signature, since
the signature is the `provides` tag. `Seal` passes the turn to any node (Aura's order is not modelled), and `Import`
prunes the pool.

External, modelled from their use: signatures, block production, pools and
gossip (`sent` is never emptied: a message may be late or come twice, and one
that never comes is lost).

### Collator selection

One action per call. `NewSession` is `new_session` with all it does: the kick
loop, the deposits it returns, the entries of `LastAuthoredBlock` it removes and
the list it hands to the session pallet (`collators`). The loop's outcome is
stated in one expression, `KickedPositions` (the first stale candidates, until
`MinCandidates` remain), and `KickLoop` checks that the loop agrees with it and
that its debug assertion holds. An entry missing from `LastAuthoredBlock` is 0,
as `ValueQuery` reads it. Balances are a free and a reserved amount; a transfer
with `KeepAlive` fails if the receiver would stay below the existential deposit,
and the code ignores that failure. `authored` and `joined` are history variables
read only by properties. Here a session may change, and an author be noted, at
any block (at most one author per block); the runtime's schedule is one of these
behaviours, as `CollatorChain` shows: there a block begins with its hooks
(`RotateSession` in every `Period`-th block, `AuthorBlock` in each), in either
order, since which is first is decided by the framework, and transactions follow.
`validators` are who holds a seat; the list the pallet selected last waits in
`collators` for one session. Any seat may author a block, so a seat may also miss
all of its slots; a session key that is missing at a change (its seat then makes
no blocks) is one of these cases.

### DCAP service

**Handler.** `pc[t]` is the statement that thread `t` is at. A request is of a
*kind*, by how far its handling can go: its body throws in the reader or is
malformed, its signature or quote has an odd number of digits, the quote ends
before the report it should hold, the key is no point of the curve, or all is
sound. What `ECDSA_verify`, the size of the supplemental data and
`sgx_qv_verify_quote` return is any of their results. `Return` sets the answer
and goes to `Unwind`, where the scope guards run, last one first, one step each;
`Finish` leaves the handler, and what is then still allocated is lost. Bytes are
known by the request whose quote they are from, so that a text put together from
another thread's buffer shows. `Crash` is a read through a null pointer, or far
beyond a buffer: the process may be gone then.

**Server.** One action per step that other threads can come between. The
listening thread: test of `svr_sock_`, accept, enqueue, and at the end shutdown,
notify and join. A thread of the pool: the wait on the condition variable
(`Take`, `WaitOrExit`; waking may be spurious), keep-alive, reading of a request,
answering, closing. `stop` is four steps of the thread whose handler calls it:
the test of `is_running_`, the assertion, the exchange of `svr_sock_`, and
shutdown and close of what it took. Clients connect, send and hang up as they
like; one may send a part of a request (`SendPiece`), any number of times, and
finish the request or not. Between two parts the thread waits at most the time
of one `recv` (`ReadFails`), and after each part it may wait as long again
(`ReadPiece`): `getline`, headers and contents have no limit of their own. Accept may fail for want of descriptors (the loop goes on) or otherwise
(the loop ends). A wait with a timeout is a step that may be taken at any time.

**Requests of a connection.** Bytes are a sequence of tokens: a request line, a
header line, a blank line, a chunk's size line, one byte of content. The client
means to send a script of requests; what arrives may break off anywhere. Each
action is a part of `process_request`: line, headers, `Expect`, content (by
length, by chunks, to the end of the connection, or none), handler, answer with
its ranges, and the decision whether the connection goes on. What matters is
which bytes each part consumes, and what each answer tells the client of its
length and of the end of the connection.

**Forms.** `Parse` is the state machine of `MultipartFormDataParser::parse` with
its buffer; `Feed` hands it the next block, of any small length or all the rest.

**JSON.** Texts are sequences of symbols; `JsonText` follows the reader's
functions one by one, with the position. The words `true`, `false` and `null`
and the marks of ordered objects are compared letter by letter, as `memcmp` and
`substr` do: the first that differs decides. A `std::string` ends in a
terminator, bytes end in nothing (`LoadString`, `LoadBytes`); that a symbol
behind the text decides how the reading goes on is an outcome of its own
(`"overrun"`), for the reader has no test for the end. `JsonOwnership` keeps the type and the word of
every object apart, as the code changes them at different times, and a heap of
cells; `Clone`, `Delete` and `SetType` are the code's copy, `ClearInternal` and
`SetType`. What a destructor reaches is `CellsOf`, the least set of cells that has
the object's own and those of all members in it; a copy takes any free cells, one
for each. The module has no recursive operator, so that it can be proved about;
the values of objects, which are trees, are in `JsonObjectValues`. `JsonOrderedObject` has the two maps behind a first-in-order object
and the tags that order its slots.

**Log.** One action per statement of `base_log`: lock, format into the shared
buffer, copy, read the clock, `localtime` into the shared `tm`, print, unlock.

## What is checked

| Run | Instance | Properties | Shows |
|---|---|---|---|
| `worker` | 1 validator, 2 applicants, 2 evidences (one makes the worker panic), requests up to block 3 of 4, restarts | `TypeOK`, `RecordedFromVerdict`, `RunsMatchQueue`, `EntriesIndependent` | runs against arriving requests, failures and restarts |
| `gossip` | 2 nodes, of which 1 is a validator whose key, or another, may be registered, 2 evidences with different answers, requests in blocks 1 and 2 of 4, lifetime 1, copies renumbered to 4 | `CarriedInWindow`, `RecordedByRegistered`, `QueueSettled`, `RefinesLedger` | submissions early, late, twice, never, with another block number, and of a key registered late or not at all; the network implements `AttestationLedger` |
| `bond` | 3 accounts of unequal means (one has no account), 2 bonds, 2 limits, 3 lists of invulnerables (one names an account twice), session keys set and purged, a pot that an account funds, 2 blocks | `TypeOK`, `CandidatesUnique`, `DepositsBacked`, `FundsConserved` | governance against candidates; rewards, paid and not |
| `chain` | 1 invulnerable, 2 that may become candidates, one of them also by appointment, minimum 1, threshold 2, sessions of 2 blocks, 8 blocks | `NeverBelowMinimum`, `KickedOnlyIfIdle`, `FirstComeFirstServed`, `LoopAgrees`, `KickedOnlyIfAbsent` | the life of candidates: registration, seat, kick, return |
| `http` | 2 connections, 2 threads, descriptors for 2, 2 requests per connection, 2 requests in all, any number of pieces of requests, errors of accept | `OneOwner`, `ReturnsDrained`, `SomeoneAwake`, `ClosedOnce`, `StopEnds`, `AcceptedIsClosed` | the server's life, with stops from its own handlers and requests that come in pieces or never end |
| `dcap` | 2 threads, 2 requests of any of 7 kinds | `BuffersReturned`, `RefinesAttestationService`, `RefusalsStand` | the handler implements `AttestationService`, whatever the libraries return |
| `library` | see below | `ReadAsMeant`, `ReaderStopsRight`, `RefinesInsertionOrder`, `CellsAreOwned`, `RefinesValues`, `LinesIntact`, `CallsReturn`, `InStep`, `AnswersComplete`, `FormReadsBack`, `RangesServed`, `TextsConverted`, `PathStaysInside` | the parts of the service's libraries that do not act on each other |
| `rerun`, `replay`, `dead_author`, `grace`, `http_assert` | as above, smaller | see [below](#disagreements-with-the-documentation) | violations of what documentation and an assertion say |

**Bounds of the chain's runs, and why they are enough.** `MaxBlock`, `MaxKeys`,
`MaxResults`, `MaxRuns`, `LastRequest` and the sets of values governance may
choose are bounds of the models, not of the code. With a delay of one, a request
of block 1 is run after block 2 and lands in block 3 at the earliest; a lifetime
of one ends there and block 4 is the first too late (in `replay` a lifetime of
two lets blocks 3 and 4 carry a submission). `Renumbered` bounds the numbers that
others put on a copy: block 4 is from the future in block 3, and lets block 4
carry what is outdated under its own number. In `gossip` the second node has no
worker: what it takes in, and when, is what the copies that reach it are tested
against. The two evidences get different codes in one slot of the chain, so that a
record that is replaced or reordered shows; several signers are in the proofs. The other runs of the verifier have
no renumbered copies: what they check is proved with them as well, or is violated
without. `VerifyDelay` and
`EvidenceLifetime` are 5 and 600 in the runtime and only their comparisons
matter. Two runs per block are the least that shows a repeated worker. In
`chain`, two candidates and a minimum of one let one session change find both
stale, kick the first and keep the second, which tells a count of the list in
storage from a count of the copy; that one change kicks several is left to
`AlwaysEnough`, proved for any number. An account that registers in block 1 is
seated from block 4 to 5 or longer; if it leaves in block 3, comes back in block
4 and authors block 5 in its old seat, it may be kicked in block 8: the last of
the cases that `KickedOnlyIfAbsent` tells apart. There `KickedOnlyIfIdle` meets
session changes every second block only; its proof is for a change at any block.
`SYMMETRY` is used in `dcap`, where requests and threads are alike, and no
liveness property is checked there. The pallet's calls are checked as the network
makes them; what is proved of `VerifierPallet` alone holds for every submission.

**Bounds of the service's runs.** Two threads and two connections are the least
for a race in the pool, for a job that waits while both threads are busy, for a
stop beside another stop, and for a client that never ends its request, which
takes one thread and leaves one for the other; two requests let one connection's second request
wait for its last turn. `AcceptErrors`, `OpenLimit` and `MaxSent` are bounds on
what the system and the clients do. The handler keeps nothing from one request
to the next but what it shares with other threads, so two of each are enough.

**Bounds of `library`.** A behaviour belongs to one part; the others stay as
they start. No step is left when a part has come to its end, so the deadlock
check is off in this run.

- *JSON*: each text both as a string and as bytes: all texts of up to 4 structural symbols,
  words and marks cut after any letter, arrays of up to 5 symbols of
  a number or 4 of a string, members, marks of ordered objects and escapes; all
  values of depth 2 with up to 2 members over 8 leaves, written with and without
  white space, and answers with texts of up to 2 symbols. Digits are 0 and 1, a
  hash has 2 digits.
- *Ordered objects*: 3 keys and tags of up to 3 digits with 2 as the last, which
  passes the roll-over twice, and reuse of tags after erasures.
- *Objects in memory*: one variable, 4 cells, containers of up to 2 members, 2
  deep, one lost cell: enough for a member to be assigned to its neighbour, to
  its container, and a container moved into another.
- *Log*: 2 threads, 2 calls each, the clock ticks once.
- *Requests*: scripts of one, two or (of a few kinds) three requests, their bytes
  cut off anywhere; two requests per connection, contents of up to 3 bytes, and
  an answer of 3 bytes, of which ranges select parts; requests of HTTP/1.0 and 1.1
  that ask for the end, for its contrary or for neither, whole and malformed.
- *Forms*: one file, or two, with contents of up to 3 symbols that resemble a
  delimiter, in blocks of up to 5 symbols or all that is left.
- *Operators*: up to 2 ranges over bodies of up to 3 bytes; texts of up to 3
  bytes out of seven and of 4 out of four (percent signs, escapes of code points);
  up to 2 parameters; paths of up to 7 characters.

Numbers of the code that wrap around (`size_t` in ranges) have a limit, 256
here.

## Fairness

Two specifications state fairness. `HttpServer!FairSpec`: the listening thread
and each thread of the pool take a step that stays possible. The operating
system schedules them; a keep-alive ends by the clock (its end is a step of
`Work`), as does each `recv`; a handler returns. Clients owe nothing: they may
stay silent, and accept need not fail. A request as a whole has no time limit,
so a client may send it piece by piece for ever, and then the thread that reads
it is never free and the listening thread never joins it. `StopEnds` and
`AcceptedIsClosed` therefore say what they need, `RequestsEnd`: of a set of
clients that each ends its requests at some time, complete or given up. A stop
ends `listen` if all clients do so; and a connection is closed if its client does
so and the clients that do not are fewer than the threads. `LogSpec` of `DcapLog`: a thread within a call goes on, and gets
a mutex that is given back and that finitely many calls compete for; with it
every call returns. All other properties are safety properties and assume no
fairness.

## What is proved

For every value of the constants that satisfies the named assumptions
(`PalletAssumption`, `NetworkAssumption`, `SelectionAssumption`, `FiniteAccounts`,
`ChainAssumption`, `ServerAssumption`, `ServiceAssumption`: numbers are naturals,
special values are distinct from ordinary ones, bounds on governance are sets of
the right kind, accounts are finitely many, as 32 bytes are; TLC evaluates them in
every run of their modules). Two are hypotheses of the theorems themselves:
`LogAssumption`, that `None` is no thread, and `KeyAssumption`, that keys are
numbered and need no escape. The heap of `JsonOwnership` has finitely many cells
(`CellAssumption`), a `size_t` has an even number of values
(`RangeAssumption`), and what clients write has headers that are header lines, and
contents of bytes and of the lines of chunks (`RequestAssumption`).

- `VerifierNetwork_proofs`, of `VerifierPallet`: `PalletTypeCorrect`,
  `AlwaysByRegistered`, `AlwaysSettled`. The lemmas on single calls are stated
  without the specification, because the network makes the same calls.
  Of `VerifierNetwork`: `TypeCorrect`, `InductiveInv`, `AlwaysFromVerdict`,
  `AlwaysInWindow`, `AlwaysMatchQueue`, `AlwaysIndependent`, and `Refines`.
  `RecordedFromVerdict` is not inductive: a dispatch records what a pool held,
  which is what gossip carried, which is what a run signed, which is what the
  queue said *then*. `IInv` follows a verdict along that way: a run for block `b`
  exists only when `b` is built (`b < now`), and what is due at a block that is
  built does not change any more (lemma `Settled`, since `request_verification`
  writes at `now + VerifyDelay`), so the run's entries still equal the queue
  (`RunsMatchQueue`), every submission sent is `Genuine` (signed in a run for a
  block that is built, on the verdict due there), a copy under another number is
  so too (`CopyGenuine`: no part of it is in the payload), pools and bodies hold
  only copies of what was sent, and so does the record. `CarriedInWindow` then
  follows from the validity check at inclusion, for the number a copy claims, and
  from `Genuine` for the block it was signed at. `EntriesIndependent` is an action
  property; it needs that a run which has not started holds nothing
  (`UnstartedEmpty`). `Refines` says that the network implements
  `AttestationLedger`: a request shows in the ledger when the block it waits for
  is built, since until then it may be replaced; a registration enrols; a
  submission that is included and accepted attests, because it is `Genuine`: the
  evidence its node signed on is due still. Every other step, a rejected
  submission too, is a stutter.
- `CollatorChain_proofs`, of `CollatorSelection`: `TypeCorrect`, `InductiveInv`,
  `AlwaysUnique`, `AlwaysBacked`, `AlwaysIdle`, `AlwaysEnough`, `AlwaysFirstCome`,
  `AlwaysConserved`. `IInv` adds to
  the types that accounts are distinct and deposits backed (each needs the other:
  a departure returns the right amount only if the account has one position) and
  `GraceKept`, what `LastAuthoredBlock` says of a candidate: the end of its grace
  until it authors, then its last block. `KeptParts` is the lemma on sequences
  the rest rests on: a list cut down to a set of positions picks each of them
  once, in order (a strictly increasing function into a finite set of its own
  size is onto). `AlwaysEnough` counts the kicked: each has a different number of
  stale candidates before it, all less than what the list holds above
  `MinCandidates`. `AlwaysConserved` needs sums over accounts, a fold over
  subsets: that such a sum exists and may begin with any account is proved by
  induction over a finite set (below), and what a call does is then an amount that
  moves within an account (`SumReleased`) or between two (`SumTransferred`).
  Of `CollatorChain` and `KickLoop`: `ImplementsSelection` (every step of the runtime is a
  step of the pallet or a stutter, so all of the above holds there too),
  `ChainInductive`, `AlwaysAbsent`, for sessions of any length, and
  `AlwaysLoopAgrees`. `ChainInv` adds
  when sessions end (`SessionsOnTime`, by arithmetic of remainders), that nobody
  registers before a block's hooks are done, and `SeatOnTheWay`: a candidate from
  before the last change is selected, one from before the change before that is
  seated, and the grace stays until a block is authored. A stale candidate with
  its grace registered two sessions ago or earlier: so it is seated, unless it
  came in the very block of a change. `AlwaysLoopAgrees` is about the loop of
  `kick_stale_candidates`, which decides by the length of a list that shrinks as
  it goes: after `k` turns the storage holds the list without those of the first
  `k` that `KickedPositions` names, which is what the next turn's comparison
  needs (`KickedRule`, `LoopStep`).
- `HttpServer_proofs`: `InductiveInv`, `TypeCorrect`, `AlwaysOneOwner`,
  `AlwaysSomeoneAwake`, `AlwaysDrained`, `AlwaysClosedOnce`, for any number of
  connections and threads. `OneOwner` ties the state of each connection to the one
  place it is in. That nobody sleeps beside work needs more: a thread waits only
  after it found the queue empty and no shutdown under the mutex; a job or the
  shutdown is announced after it was put there, to one waiting thread or to all.
  `ReturnsDrained` needs that a thread exits only with the queue empty after the
  shutdown, when nothing is enqueued any more, so that what the listening thread
  joins has closed what it served. And `ClosedOnce` needs that of the threads
  that stop the server only one took the socket (`OneTaker`).
- `DcapService_proofs`: `InductiveInv`, `AlwaysReturned`, `RefusalsAlwaysStand`, and
  `Refines`, that the
  handler implements `AttestationService` for any number of threads and requests.
  The invariant says for each step of the handler which guards are in place,
  which buffers are allocated, what the answer may be so far, that no two threads
  handle one request, and that the text buffer of a thread holds bytes of its own
  request. Every step is then a stutter, except `Finish`, which gives an answer
  that is allowed, and the crashes, which only fatal kinds reach. For
  `RefusalsAlwaysStand`, an action property, it adds what the two verifications
  said once a thread has passed them (`NotRefused`).
- `DcapLog_proofs`: `InductiveInv`, `AlwaysStampsInOrder`, `AlwaysExclusive`,
  `AlwaysWhole`, `AlwaysIntact`: no two threads are within the mutex, times never
  go back, each line has one call's text with its own time, and a caller's lines
  are those of its calls, in their order, none twice and none missing. The clock is
  taken to go forward: set back, it would put a line before an earlier one, and
  the code promises nothing else. The
  invariant follows a line through its call; that a stamp is no older than any
  printed before it is what a stamp read outside the mutex would break.
  `OwedInv` counts: a caller has printed what it owes, or all but the line of the
  call it is in.
- `JsonOrderedObject_proofs`: `InductiveInv`, `AlwaysMatch`, and `Refines`, that an
  ordered object implements `InsertionOrder`, for tags of any length. The tag that
  `NextTag` gives comes after the largest in use in the order of `std::map`
  (`TagAfterLarger`: one digit more, or a larger last), so the map lists a new slot
  behind all others; that there is one such list, and which (`ListUnique`,
  `InOrderIsList`), is what the steps rest on. `KeyAssumption` leaves out keys that
  need an escape: for them the code makes a second member (see
  [below](#what-the-models-brought-to-light)).

- `JsonOwnership_proofs`: `InductiveInv`, `AlwaysOwned`, for any number of
  objects, cells and members, however deep. `CellsAreOwned` is not inductive: that
  each cell has one owner does not say that a cell cannot lie within itself, and to
  delete an object that does would free the cell its own slot is in. `Owned` adds to it `Ranked` (a
  rank of cells that grows from a container to its members), that freed cells have
  no members (`Typed`), and that a pair always has its one member (`PairsWhole`).
  `Owned` is stated of any heap and any set of objects that are not members, since
  within an operation there are more of these than variables: the copy that
  `append` and `SetPair` take as an argument, and the old value of a target. An
  operation is then a walk through such heaps. Each step is a lemma of its own:
  `Delete` takes away exactly the cells of an object whose place is
  given up (what points into them lies in them, `OwnedWithin`), `SetType` puts a
  new cell in its place, `Clone` adds a part that is `Whole` in itself and shares
  nothing with the rest, and a move renames places.
- `HttpRequest_proofs`: `RequestsInStep`, `AnswersAlwaysComplete`, for any
  requests, limits of the connection and ends of its bytes; `RangesAlwaysServed`,
  `PathsAlwaysInside`, for bodies, ranges and paths of any length. That server and
  client are in step is a statement on two readings of the same bytes: the client
  wrote requests one after the other (`Written`), the server reads lines, lengths
  and chunks. `Place` says where in the bytes each request ends (`WrittenPlaced`,
  by induction over the flattening), and the invariant, `HttpInv`, says where in
  request `k` the position is at each stage (`Reading`). So each step is shown to
  read just what the client wrote there: the headers (`RequestHeaders`), a
  content of a told length, or one of chunks (`ChunksRead`, by induction over the
  chunks from the last to the first), all of it or up to the end of the bytes. For
  the answers the invariant counts (`Counted`, `AllRead`): requests left and answers
  given make the limit, and the connection goes on just if no answered request
  asked for its end. A request whose headers break off may have
  asked for the end: its answer then announces an end that the code does not
  remember, and `Announced` says that nothing is left to be read in that case.
  That the end a request makes is told (`EndIsTold`) is about requests that are
  not whole, too, as long as their heads arrive: `Heard` says what the server has
  learned of such a head at each stage, whatever it made of the content.
  For ranges, the arithmetic of `size_t` is the point:
  `last - first + 1` is computed in two steps that wrap around for the range of
  the last 0 bytes, which the test of the offset then refuses, and for no other
  (`SizeWraps`, `LengthBetween`). That is so for positions an `ssize_t` can hold.
  For paths, the level that `is_valid_path` counts is the number of components that
  lead down less those that lead up, until a beginning of the path has more of the
  latter (`LevelSteps`, by induction over the path).

Each inductive invariant was checked with TLC on small instances before it was
proved.

**Induction.** The library's theorems on induction take an operator as a
parameter, which the provers cannot instantiate. Where a proof needs induction it
is stated about membership in a set: `LeastMember` takes a least element from
`NatLessThanWellFounded`, `NatSteps` and `SubsetSteps` are induction over the
natural numbers and over the subsets of a finite set. That suffices for the folds behind
the sums over accounts and the loop of kicks.

**Only model-checked:** what the readers and writers of JSON (`ReadAsMeant`,
`ReaderStopsRight`), forms (`FormReadsBack`) and converted texts (`TextsConverted`)
do, and that objects
in memory are values (`RefinesValues`). The readers and
the trees of objects are recursive operators over data; escapes and base64 are
defined by splitting with `SelectSeq` and by powers of two, of which the provers
know no definition. Liveness (`StopEnds`, `AcceptedIsClosed`, `CallsReturn`) is out
of the provers' reach.

## Disagreements with the documentation

- `rerun` (`RunTwiceRecordsOnce`): the worker's comment (lib.rs 260-262) says
  that it may run twice for a block and that the code should handle that. Each
  run signs and submits its own result, and both are recorded.
- `replay` (`AcceptedOnce`): the comment on `EvidenceLifetime` (lib.rs 123-125)
  says a submission is accepted once per interval. The lifetime bounds how long
  a submission stays valid; a copy that arrives after the block that carried it
  is taken, and recorded, again. Under a later block number, which no signature
  covers, it is taken after that as well.
- `dead_author` (`RewardNeverFails`): the comment in `note_author` (lib.rs 449)
  says that the transfer of a reward never fails. It fails for an author without
  an account while the reward is below the existential deposit, for instance the
  second authority of the live chain, which genesis does not endow.
- `grace` (`GraceCoversDelay`): the comment on a new candidate's last block
  (lib.rs 343) says that the threshold is there to handle the delay of sessions.
  With a threshold of one `Period`, as in the runtime, it does not for a
  candidate that registers in the block of a session change: the second change
  after it gives the candidate its first seat and kicks it, before a slot. The
  candidate keeps the seat for one session. `kick_mechanism` (tests.rs 318)
  registers at block 0 and shows the same at block 20.
- `http_assert` (`StopAssertion`): `stop` asserts that `svr_sock_` is set while
  the server runs (httplib.h 4665). `is_running_` stays true until the pool is
  drained, so a second request to stop that is served before that finds the
  socket taken: a build with assertions aborts, one without returns as if
  nothing was asked.

## What the models brought to light

Behaviour that the modules have because the code has it, and that no run
reports. The properties are stated around these cases, and say so.

*Collators.* A candidate that leaves, comes back while its old seat lasts and
authors a block in it cuts its own grace short, and may be kicked in the call that
gives it its next seat. The pallet's overview (lib.rs 49-56) has the fees of a
block go to its author and the pot; the runtime drops them (runtime 320), so the
pot holds what someone sends to it.

*Verifier.* The block number of a submission is not signed: a copy under a later
number is valid again, however old its evidence, so `EvidenceLifetime` bounds
nothing but the number claimed.

*Handler.* `ECDSA_verify` returns -1 on an error, with a key that could not be
made for instance, and the code refuses 0 only (App.cpp 149-151): an error goes
on to the quote as a verified signature does, in spite of the comment above
it (146). The buffer of the converted quote and the key are never freed; a
quote with an odd number of digits is read through a null pointer, and one too
short for a report is read beyond its end (App.cpp 128-141).

*Server.* Each `recv` has a time limit, a request none (httplib.h 2135-2159,
3091-3109, 3147-3204): a client that sends a byte before each limit keeps a thread
for ever, and once a stop was asked for, `listen` does not return while it does. A
request of HTTP/1.0 without `Keep-Alive` ends its connection (5368-5371) with an
answer that says `Keep-Alive` (4754-4761). An error of accept closes the socket and leaves its number in
`svr_sock_`, which a later stop closes again (httplib.h 5062-5064). After a
request that is refused before its content was read (a bad range, a form or a
length the server does not take), the content is read as further requests of a
connection that goes on. The answer of a handler that throws has no length, on
a connection that goes on. A chunk that is longer than it
said ends a chunked content, which counts as complete. A POST without length reads to the end of the connection. The
`Content-Range` of an answer repeats a last position beyond the end. A parameter
`a=b=c` is read as `a` with `c`, names of parameters are not unescaped as values
are, and `encode_url` leaves percent signs as they are. A form without files, or
with any byte after its last delimiter, is refused; and a file's content that
has CR LF - - in it, with a block that ends just behind, makes the reader take
the next delimiter for content, so that whether a form is read depends on how
the network cut it.

*JSON.* The first digit of an exponent is dropped. A number at the very end of a
text of bytes makes the reader look beyond it, as does a string that is not
closed and a hash tag with too few digits. The comparisons with the marks behind
`{` (1395-1400, 1457-1462) and with words take three to five bytes without a look
at how many there are: after `{}` some lie behind the text; they do not change
what is read, as the first that differs has decided. What follows a value is ignored. Doubles without a
fraction come back as integers. An empty ordered object loses its mark when it
is written, and a member with an empty key is not written. Keys are stored
escaped: a second use of a key that needs an escape makes a second member
(Json.h 475). Assigning a hash leaks a cell (455-462). An assignment whose
source lies inside its target, or whose target lies in a cell that the source
owns, reads what it has just freed, and an allocation that fails after the old
value was freed leads to a second free: the guards of `CopyAssign` and
`MoveAssign`, and a heap of which there is always enough, leave these out.

## What is not modelled

- Forks. What a re-organisation means to a worker (a second run for a block
  number) is in the model; a chain that loses a block and its results is not.
- The content of evidence, and the worker's conversions of the answer: a verdict
  per evidence stands for the service, the HTTP exchange and the parsing. The
  same evidence gets the same verdict at every node and time; for the service
  that depends on the collateral it fetches.
- Priority, longevity and the `provides` tag of a valid transaction, the size of
  pools and how long they ban; a run's requests being resolved one at a time in
  storage order (here: in any order).
- Fees and weights; `MaxCandidates` and `MaxInvulnerables`, which the code uses
  for weights and at genesis only.
- Of the session pallet: keys at a change, and the disabling of validators; of
  Aura: which seat's slot a block takes, and that no slot is taken twice.
- Of the service: curve arithmetic and the quote library (their results are
  any); the client's half of the HTTP library, TLS, compression, content
  providers and mounted files, none of which the service uses; the code for
  Windows; failing allocations; errors of writing to a socket; log texts beyond
  the 32 MB buffer; the test of the log's instance outside its lock, which the
  instance's creation before the first thread makes harmless (Json.h 48, App.cpp
  38); the single global error code of Utils, which is written and never read;
  characters of JSON strings and digits of numbers beyond those that the reader
  tells apart, `AddNum` and the iterators.
- Some of `UrlText` is the library's and not this service's: the encoders and
  base64 of `TextsConverted` belong to the client's half, and `is_valid_path`
  (`PathStaysInside`) is for mounted files, of which the service has none.
- `CrustStatus.h` is an enumeration. Node start-up, command line, RPC, chain
  specifications, tests, mocks, weights and builds have no state of their own to
  get wrong between steps.

## Plan

What is left, in order:

1. Liveness of the verifier: under fair runs, answers within the deadline, a
   registered key, fair gossip and fair inclusion, a due request gets a result.
2. The verdict of `VerifierNetwork` as an outcome of `AttestationService`, per
   node and time.
3. Aura's slots in `CollatorChain`: that every seat's slot comes in a session, what
   two seats of one account do, and, under the fairness of slots, that a candidate
   in office that takes its slots stays.
4. The chain's storage after a re-organisation.
5. Proofs: that what is escaped is read back, for texts of any length; that a
   form's file reads back; that objects in memory are values.
