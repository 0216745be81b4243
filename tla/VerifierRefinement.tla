------------------------- MODULE VerifierRefinement -------------------------
(***************************************************************************)
(* The network of verifier nodes implements AttestationLedger.             *)
(***************************************************************************)
EXTENDS VerifierNetwork

\* Evidences the queue holds for blocks already built: the ones a worker may
\* have read.
DueEvidence ==
    (UNION {{waitingQueue[b][a] : a \in Account} : b \in 1 .. (now - 1)}) \ {NoEvidence}

LineOf(result) == [code |-> result.payload.code, public |-> result.payload.public]

LedgerOf(results) ==
    [a \in Account |-> [p \in AppKey |->
        [i \in DOMAIN results[a][p] |-> LineOf(results[a][p][i])]]]

Ledger == INSTANCE AttestationLedger WITH
    due <- DueEvidence,
    enrolled <- Contents(publicKeys),
    ledger <- LedgerOf(verificationResults)

\* Whatever requests, worker runs, gossip, restarts and blocks do, the chain's
\* storage evolves as the ledger may: it only grows, by lines that repeat a
\* verdict on due evidence under a key registered by then (lib.rs 202-252).
RefinesLedger == Ledger!Spec
=============================================================================
