------------------------------ MODULE DcapService -----------------------------
(***************************************************************************)
(* The DCAP service's handler of a request to attest (sgx/src/App.cpp      *)
(* 83-304), run by many threads at once: it reads the identity, verifies   *)
(* its signature, has the quote verified, and answers.  Every return goes  *)
(* through the scope guards: the buffers are freed and the answer is       *)
(* written, last guard first (sgx/src/include/Defer.h).                    *)
(*                                                                         *)
(* A request is one of a few kinds, by how far its handling can go; what   *)
(* the SGX and OpenSSL libraries find is any of their results.  Bytes of a *)
(* quote are known by the request they came from.                          *)
(***************************************************************************)
EXTENDS Integers, Sequences, FiniteSets

CONSTANTS
    Request,
    Thread,
    Kind,           \* the kinds of requests that are made
    None,
    Unspecified     \* bytes from beyond a buffer

ASSUME ServiceAssumption ==
    /\ None \notin Request \cup {Unspecified}
    /\ Kind \subseteq {"throws", "malformed", "odd_sig", "odd_quote", "short_quote", "bad_point", "sound"}

VARIABLES
    kind,       \* kind of each request
    answer,     \* res of each request, None until it is answered
    gone,       \* the process crashed
    pc,         \* next step of each thread
    req,        \* the request it handles
    ret_body,   \* message and status_code
    id,         \* what is sent on success
    hex,        \* the buffer hexstring fills
    deferred,   \* the scope guards, innermost first
    live,       \* buffers and keys the thread has allocated
    lost,       \* those of ended handlers that nothing refers to
    thrown,     \* an exception is on its way out
    ret,        \* result of ECDSA_verify
    result      \* quote_verification_result, None when the call failed

local == <<req, ret_body, id, deferred, live, thrown, ret, result>>
vars == <<kind, answer, gone, pc, hex, lost, local>>

\* An answer's message is a text, or the identity on success.
Answer(status, text) == [status |-> status, message |-> [text |-> text]]
Nothing == Answer(0, "nothing")
NoId == [account |-> None, pubkey |-> None, mrenclave |-> None]

Accepted == {"ok", "config_needed", "out_of_date", "out_of_date_config",
             "sw_hardening", "config_and_sw_hardening"}
Refused == {"invalid_signature", "revoked", "unspecified"}

Init ==
    /\ kind \in [Request -> Kind]
    /\ answer = [r \in Request |-> None]
    /\ gone = FALSE
    /\ pc = [t \in Thread |-> "idle"]
    /\ req = [t \in Thread |-> None]
    /\ ret_body = [t \in Thread |-> Nothing]
    /\ id = [t \in Thread |-> NoId]
    /\ hex = [t \in Thread |-> None]
    /\ deferred = [t \in Thread |-> <<>>]
    /\ live = [t \in Thread |-> {}]
    /\ lost = {}
    /\ thrown = [t \in Thread |-> FALSE]
    /\ ret = [t \in Thread |-> None]
    /\ result = [t \in Thread |-> None]

-----------------------------------------------------------------------------
(* Steps common to the handler *)

Goto(t, from, to) == pc[t] = from /\ pc' = [pc EXCEPT ![t] = to]

\* Return with this answer: the guards are next.
Return(t, from, status, text) ==
    /\ Goto(t, from, "unwind")
    /\ ret_body' = [ret_body EXCEPT ![t] = Answer(status, text)]

Allocate(t, buffer) == live' = [live EXCEPT ![t] = @ \cup {buffer}]
\* The guards in place, from the one that was set last.
Guards(t, stack) == deferred' = [deferred EXCEPT ![t] = stack]

\* The process reads through a null pointer, or far beyond a buffer.
Crash(t, from) ==
    /\ pc[t] = from
    /\ gone' = TRUE
    /\ UNCHANGED <<kind, answer, pc, hex, lost, local>>

-----------------------------------------------------------------------------
(* The handler *)

\* Some thread is handling the request, or has.
Begun(r) == answer[r] # None \/ \E t \in Thread : req[t] = r

\* A thread takes the request up: the guard that will write the answer is in
\* place.
Begin(t, r) ==
    /\ Goto(t, "idle", "load")
    /\ ~Begun(r)
    /\ req' = [req EXCEPT ![t] = r]
    /\ Guards(t, <<"ret">>)
    /\ UNCHANGED <<kind, answer, gone, hex, lost, ret_body, id, live, thrown, ret, result>>

\* The body is read; reading may fail, or throw.
Load(t) ==
    /\ pc[t] = "load"
    /\ \/ /\ kind[req[t]] = "malformed"
          /\ Return(t, "load", 400, "load_failed")
          /\ UNCHANGED thrown
       \/ /\ kind[req[t]] = "throws"
          /\ Goto(t, "load", "unwind")
          /\ thrown' = [thrown EXCEPT ![t] = TRUE]
          /\ UNCHANGED ret_body
       \/ /\ kind[req[t]] \notin {"malformed", "throws"}
          /\ Goto(t, "load", "sig")
          /\ UNCHANGED <<ret_body, thrown>>
    /\ UNCHANGED <<kind, answer, gone, hex, lost, req, id, deferred, live, ret, result>>

\* The signature's text, converted: a text of odd length yields nothing.
Sig(t) ==
    /\ pc[t] = "sig"
    /\ \/ /\ kind[req[t]] = "odd_sig"
          /\ Return(t, "sig", 400, "unexpected_error")
          /\ UNCHANGED <<live, deferred>>
       \/ /\ kind[req[t]] # "odd_sig"
          /\ Goto(t, "sig", "quote")
          /\ Allocate(t, "sig")
          /\ Guards(t, <<"free_sig", "ret">>)
          /\ UNCHANGED ret_body
    /\ UNCHANGED <<kind, answer, gone, hex, lost, req, id, thrown, ret, result>>

\* The quote's text, converted, and what is signed put together from it.
Quote(t) ==
    /\ Goto(t, "quote", "pubkey")
    /\ kind[req[t]] # "odd_quote"
    /\ live' = [live EXCEPT ![t] = @ \cup {"quote", "sig_data"}]
    /\ Guards(t, <<"free_sig_data", "free_sig", "ret">>)
    /\ UNCHANGED <<kind, answer, gone, hex, lost, req, ret_body, id, thrown, ret, result>>

\* A quote's text of odd length yields no buffer, and is not asked about.
QuoteMissing(t) ==
    /\ pc[t] = "quote" /\ kind[req[t]] = "odd_quote"
    /\ Crash(t, "quote")

\* Mutated form: one static buffer for all threads.
BufferStatic(t) == CHOOSE u \in Thread : TRUE

\* hexstring allocates its own buffer in every call.
Buffer(t) == t

\* What the quote of a request holds at the place of the report.
Report(t) == {req[t]} \cup (IF kind[req[t]] = "short_quote" THEN {Unspecified} ELSE {})

\* hexstring of the key, then of the measurement: the buffer is filled, and its
\* text copied from it.
Fill(t, from, to) ==
    /\ Goto(t, from, to)
    /\ \E bytes \in Report(t) : hex' = [hex EXCEPT ![Buffer(t)] = bytes]
    /\ UNCHANGED <<kind, answer, gone, lost, local>>

Copy(t, from, to, field) ==
    /\ Goto(t, from, to)
    /\ id' = [id EXCEPT ![t][field] = hex[Buffer(t)]]
    /\ UNCHANGED <<kind, answer, gone, hex, lost, req, ret_body, deferred, live, thrown, ret, result>>

ReportOutOfReach(t) ==
    /\ pc[t] \in {"pubkey", "mrenclave"} /\ kind[req[t]] = "short_quote"
    /\ Crash(t, pc[t])

Account(t) ==
    /\ Goto(t, "account", "key")
    /\ id' = [id EXCEPT ![t].account = req[t]]
    /\ UNCHANGED <<kind, answer, gone, hex, lost, req, ret_body, deferred, live, thrown, ret, result>>

\* key_from_sgx_ec256: no key when the bytes are no point of the curve.
HasPoint(t) == CASE kind[req[t]] = "sound" -> {TRUE}
                 [] kind[req[t]] = "bad_point" -> {FALSE}
                 [] OTHER -> BOOLEAN

Key(t) ==
    /\ Goto(t, "key", "verify_sig")
    /\ \E point \in HasPoint(t) :
          live' = [live EXCEPT ![t] = IF point THEN @ \cup {"key"} ELSE @]
    /\ UNCHANGED <<kind, answer, gone, hex, lost, req, ret_body, id, deferred, thrown, ret, result>>

\* ECDSA_verify: 1 verified, 0 refused, -1 an error, of which only 0 is refused by
\* the code; without a key it is an error, or the process fails.
VerifySig(t) ==
    /\ \E r \in IF "key" \in live[t] THEN {1, 0, -1} ELSE {-1} :
          /\ ret' = [ret EXCEPT ![t] = r]
          /\ IF r = 0 THEN Return(t, "verify_sig", 500, "signature_failed")
             ELSE Goto(t, "verify_sig", "supplement") /\ UNCHANGED ret_body
    /\ UNCHANGED <<kind, answer, gone, hex, lost, req, id, deferred, live, thrown, result>>

NoKey(t) ==
    /\ pc[t] = "verify_sig" /\ "key" \notin live[t]
    /\ Crash(t, "verify_sig")

\* The size of the supplemental data, if the library tells the one expected.
Supplement(t) ==
    /\ Goto(t, "supplement", "verify_quote")
    /\ \E told \in BOOLEAN :
          live' = [live EXCEPT ![t] = IF told THEN @ \cup {"supplemental"} ELSE @]
    /\ UNCHANGED <<kind, answer, gone, hex, lost, req, ret_body, id, deferred, thrown, ret, result>>

\* Mutated form: a failed verification returns before it frees.
VerifyQuoteLeaky(t) ==
    /\ \/ /\ \E r \in Accepted \cup Refused : result' = [result EXCEPT ![t] = r]
          /\ Goto(t, "verify_quote", "verdict")
          /\ live' = [live EXCEPT ![t] = @ \ {"supplemental"}]
          /\ UNCHANGED ret_body
       \/ /\ Return(t, "verify_quote", 500, "quote_failed")
          /\ UNCHANGED <<result, live>>
    /\ UNCHANGED <<kind, answer, gone, hex, lost, req, id, deferred, thrown, ret>>

\* sgx_qv_verify_quote.
VerifyQuote(t) ==
    /\ live' = [live EXCEPT ![t] = @ \ {"supplemental"}]
    /\ \/ /\ \E r \in Accepted \cup Refused : result' = [result EXCEPT ![t] = r]
          /\ Goto(t, "verify_quote", "verdict")
          /\ UNCHANGED ret_body
       \/ /\ Return(t, "verify_quote", 500, "quote_failed")
          /\ UNCHANGED result
    /\ UNCHANGED <<kind, answer, gone, hex, lost, req, id, deferred, thrown, ret>>

\* Mutated form: every result of the verification is good.
VerdictAny(t) ==
    /\ Return(t, "verdict", 200, "nothing")
    /\ UNCHANGED <<kind, answer, gone, hex, lost, req, id, deferred, live, thrown, ret, result>>

Verdict(t) ==
    /\ IF result[t] \in Accepted THEN Return(t, "verdict", 200, "nothing")
       ELSE Return(t, "verdict", 500, "quote_failed")
    /\ UNCHANGED <<kind, answer, gone, hex, lost, req, id, deferred, live, thrown, ret, result>>

\* The innermost guard runs: a buffer is freed, or the answer written, with the
\* identity as its message if all went well.
Unwind(t) ==
    /\ pc[t] = "unwind" /\ deferred[t] # <<>>
    /\ deferred' = [deferred EXCEPT ![t] = Tail(@)]
    /\ CASE Head(deferred[t]) = "free_sig" ->
              live' = [live EXCEPT ![t] = @ \ {"sig"}] /\ UNCHANGED ret_body
         [] Head(deferred[t]) = "free_sig_data" ->
              live' = [live EXCEPT ![t] = @ \ {"sig_data"}] /\ UNCHANGED ret_body
         [] Head(deferred[t]) = "ret" ->
              /\ IF ret_body[t].status = 200
                 THEN ret_body' = [ret_body EXCEPT ![t].message = id[t]]
                 ELSE UNCHANGED ret_body
              /\ UNCHANGED live
    /\ UNCHANGED <<kind, answer, gone, pc, hex, lost, req, id, thrown, ret, result>>

\* The handler is left, and its variables with it; the server turns an exception
\* into a status of its own.
Finish(t) ==
    /\ deferred[t] = <<>>
    /\ Goto(t, "unwind", "idle")
    /\ answer' = [answer EXCEPT ![req[t]] =
                     IF thrown[t] THEN [ret_body[t] EXCEPT !.status = 500] ELSE ret_body[t]]
    /\ lost' = lost \cup {<<req[t], buffer>> : buffer \in live[t]}
    /\ live' = [live EXCEPT ![t] = {}]
    /\ req' = [req EXCEPT ![t] = None]
    /\ ret_body' = [ret_body EXCEPT ![t] = Nothing]
    /\ id' = [id EXCEPT ![t] = NoId]
    /\ thrown' = [thrown EXCEPT ![t] = FALSE]
    /\ ret' = [ret EXCEPT ![t] = None]
    /\ result' = [result EXCEPT ![t] = None]
    /\ UNCHANGED <<kind, gone, hex, deferred>>

Handle(t) ==
    \/ Load(t) \/ Sig(t) \/ Quote(t)
    \/ Fill(t, "pubkey", "pubkey_text") \/ Copy(t, "pubkey_text", "mrenclave", "pubkey")
    \/ Fill(t, "mrenclave", "mrenclave_text") \/ Copy(t, "mrenclave_text", "account", "mrenclave")
    \/ Account(t) \/ Key(t) \/ VerifySig(t) \/ Supplement(t) \/ VerifyQuote(t) \/ Verdict(t)
    \/ Unwind(t) \/ Finish(t)

Fail(t) == QuoteMissing(t) \/ ReportOutOfReach(t) \/ NoKey(t)

Done == gone \/ \A r \in Request : answer[r] # None

Next ==
    \/ /\ ~gone
       /\ \E t \in Thread : Handle(t) \/ Fail(t) \/ \E r \in Request : Begin(t, r)
    \/ Done /\ UNCHANGED vars

Spec == Init /\ [][Next]_vars

-----------------------------------------------------------------------------
(* Properties *)

Bytes == Request \cup {None, Unspecified}
IdType == [account : Bytes, pubkey : Bytes, mrenclave : Bytes]
Texts == {"nothing", "load_failed", "unexpected_error",
          "signature_failed", "quote_failed"}
AnswerType == [status : {0, 200, 400, 500}, message : [text : Texts] \cup IdType]
Resource == {"sig", "quote", "sig_data", "key", "supplemental"}
GuardStack == {<<>>, <<"ret">>, <<"free_sig", "ret">>, <<"free_sig_data", "free_sig", "ret">>}
Steps == {"idle", "load", "sig", "quote", "pubkey", "pubkey_text", "mrenclave", "mrenclave_text",
          "account", "key", "verify_sig", "supplement", "verify_quote", "verdict", "unwind"}

(* Every variable keeps to its type. *)
TypeOK ==
    /\ kind \in [Request -> Kind]
    /\ answer \in [Request -> AnswerType \cup {None}]
    /\ gone \in BOOLEAN
    /\ pc \in [Thread -> Steps]
    /\ req \in [Thread -> Request \cup {None}]
    /\ ret_body \in [Thread -> AnswerType]
    /\ id \in [Thread -> IdType]
    /\ hex \in [Thread -> Bytes]
    /\ deferred \in [Thread -> GuardStack]
    /\ live \in [Thread -> SUBSET Resource]
    /\ lost \subseteq Request \X Resource
    /\ thrown \in [Thread -> BOOLEAN]
    /\ ret \in [Thread -> {-1, 0, 1, None}]
    /\ result \in [Thread -> Accepted \cup Refused \cup {None}]

(* The service keeps the promise of AttestationService: each request gets one  *)
(* answer, about its own account and quote, after nothing but what the request *)
(* allows.  At stake are the texts made by hexstring (Utils.cpp 108), which is  *)
(* "thread safe" by its comment, and the guard that writes the answer on every *)
(* return (App.cpp 94).                                                        *)
Service == INSTANCE AttestationService
RefinesAttestationService == Service!Spec

(* A refusal stands (App.cpp 146-156 and 178-303): whichever call              *)
(* refuses a request, ECDSA_verify by 0, sgx_qv_verify_quote by failing or by a *)
(* result that is not accepted, nothing that runs later, on this thread or on   *)
(* another, makes the answer a success.  Not every success is of a verified     *)
(* signature: the code tests for 0 only (line 151), so that -1, an error of     *)
(* ECDSA_verify, goes on to the quote like 1.                                   *)
RefusalsStand ==
    [][\A r \in Request :
          answer[r] = None /\ answer'[r] # None /\ answer'[r].status = 200 =>
              \E t \in Thread : req[t] = r /\ ret[t] \in {1, -1} /\ result[t] \in Accepted]_vars

(* Whatever return the handler takes, it gives its buffers back (the guards of *)
(* App.cpp 124 and 133, the free of 187): an ended handler leaves the quote's  *)
(* bytes and the key, which no line frees, and nothing else.                   *)
BuffersReturned == \A l \in lost : l[2] \in {"quote", "key"}
=============================================================================
