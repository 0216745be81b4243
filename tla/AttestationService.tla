-------------------------- MODULE AttestationService --------------------------
(***************************************************************************)
(* What the DCAP service promises of each request to attest: one answer,   *)
(* about that request, after nothing but what the request and the          *)
(* libraries' verdicts on it allow; or the process stops.                  *)
(***************************************************************************)
CONSTANTS Request, Kind, None, Unspecified

VARIABLES
    kind,       \* what each request holds
    answer,     \* the answers given
    gone        \* the process stopped

vars == <<kind, answer, gone>>

Answer(status, text) == [status |-> status, message |-> [text |-> text]]
Success(id) == [status |-> 200, message |-> id]

\* What the quote of a request of kind k holds at the place of the report: its
\* own bytes, unless it ends before them.
Held(r, k) == {r} \cup (IF k = "short_quote" THEN {Unspecified} ELSE {})

\* The identities returned on success: the account that the request names, and
\* the key and measurement that its quote holds.
Ids(r, k) == [account : {r}, pubkey : Held(r, k), mrenclave : Held(r, k)]

\* The answers a request of kind k may get.
Allowed(r, k) ==
    CASE k = "throws" -> {Answer(500, "nothing")}
      [] k = "malformed" -> {Answer(400, "load_failed")}
      [] k = "odd_sig" -> {Answer(400, "unexpected_error")}
      [] k = "odd_quote" -> {}
      [] OTHER ->
           {Answer(500, "signature_failed"), Answer(500, "quote_failed")}
             \cup {Success(id) : id \in Ids(r, k)}

\* The kinds of requests that may stop the process.
Fatal == {"odd_quote", "short_quote", "bad_point"}

Init ==
    /\ kind \in [Request -> Kind]
    /\ answer = [r \in Request |-> None]
    /\ gone = FALSE

Give(r) ==
    /\ ~gone
    /\ answer[r] = None
    /\ \E a \in Allowed(r, kind[r]) : answer' = [answer EXCEPT ![r] = a]
    /\ UNCHANGED <<kind, gone>>

Stop(r) ==
    /\ ~gone
    /\ answer[r] = None
    /\ kind[r] \in Fatal
    /\ gone' = TRUE
    /\ UNCHANGED <<kind, answer>>

Next == \E r \in Request : Give(r) \/ Stop(r)

Spec == Init /\ [][Next]_vars
=============================================================================
