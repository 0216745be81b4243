-------------------------- MODULE AttestationLedger --------------------------
(***************************************************************************)
(* What the attestation protocol promises to a reader of the chain, with   *)
(* no workers, pools or signatures: a ledger, append-only, in which every  *)
(* line repeats under an enrolled key the verdict on an evidence that had  *)
(* been made public and had become due.                                    *)
(***************************************************************************)
EXTENDS Sequences

CONSTANTS
    Account,    \* accounts a verdict may name
    AppKey,     \* keys of attested applications
    Evidence,   \* evidences that may be submitted
    Key,        \* keys of those who attest
    Verdict     \* the message an evidence leads to, or something else

VARIABLES
    due,        \* evidences that have become due
    enrolled,   \* keys that may attest
    ledger      \* attestations by (account, application key)

ledgerVars == <<due, enrolled, ledger>>

Init ==
    /\ due = {}
    /\ enrolled = {}
    /\ ledger = [a \in Account |-> [p \in AppKey |-> <<>>]]

BecomeDue(evidences) ==
    /\ due' = due \cup evidences
    /\ UNCHANGED <<enrolled, ledger>>

Enrol(key) ==
    /\ enrolled' = enrolled \cup {key}
    /\ UNCHANGED <<due, ledger>>

Attest(evidence, key) ==
    /\ evidence \in due
    /\ key \in enrolled
    /\ \E a \in Account, p \in AppKey :
          /\ Verdict[evidence].account = a
          /\ Verdict[evidence].pubkey = p
          /\ ledger' = [ledger EXCEPT ![a][p] =
                          Append(@, [code |-> Verdict[evidence].code, public |-> key])]
    /\ UNCHANGED <<due, enrolled>>

Next ==
    \/ \E evidences \in SUBSET Evidence : BecomeDue(evidences)
    \/ \E key \in Key : Enrol(key)
    \/ \E evidence \in due, key \in enrolled : Attest(evidence, key)

Spec == Init /\ [][Next]_ledgerVars
=============================================================================
