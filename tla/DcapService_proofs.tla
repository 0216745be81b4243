-------------------------- MODULE DcapService_proofs --------------------------
(***************************************************************************)
(* The DCAP service's handler keeps the promise of AttestationService and  *)
(* gives its buffers back, for any number of threads and requests.         *)
(*                                                                         *)
(* The invariant follows a thread through the handler: what is known of    *)
(* its request's kind at each step, what the identity holds by then, which *)
(* guards wait for the return, and that on the return the answer is one    *)
(* the request allows, once the guard of the answer has run.               *)
(***************************************************************************)
EXTENDS DcapService, TLAPS

Held(r, k) == Service!Held(r, k)
Ids(r, k) == Service!Ids(r, k)
Allowed(r, k) == Service!Allowed(r, k)

\* The steps at which a condition known since an earlier step still holds.
FromKey == {"key", "verify_sig", "supplement", "verify_quote", "verdict"}
FromAccount == {"account"} \cup FromKey
FromMrenclave == {"mrenclave", "mrenclave_text"} \cup FromAccount
FromPubkey == {"pubkey", "pubkey_text"} \cup FromMrenclave

\* A thread and its request.
Engaged(t) ==
    /\ pc[t] = "idle" <=> req[t] = None
    /\ req[t] # None => answer[req[t]] = None

\* What the steps taken so far say of the request.
KindOK(t) ==
    /\ pc[t] \in {"sig", "quote"} \cup FromPubkey => kind[req[t]] \notin {"malformed", "throws"}
    /\ pc[t] \in {"quote"} \cup FromPubkey => kind[req[t]] # "odd_sig"
    /\ pc[t] \in FromPubkey => kind[req[t]] # "odd_quote"

\* What the identity holds.
IdOK(t) ==
    /\ pc[t] \in {"pubkey_text", "mrenclave_text"} => hex[t] \in Held(req[t], kind[req[t]])
    /\ pc[t] \in FromMrenclave => id[t].pubkey \in Held(req[t], kind[req[t]])
    /\ pc[t] \in FromAccount => id[t].mrenclave \in Held(req[t], kind[req[t]])
    /\ pc[t] \in FromKey => id[t].account = req[t]

\* What the answer will be.
AnswerOK(t) ==
    /\ pc[t] # "unwind" => ret_body[t] = Nothing /\ ~thrown[t]
    /\ pc[t] = "unwind" /\ thrown[t] => kind[req[t]] = "throws" /\ ret_body[t] = Nothing
    /\ pc[t] = "unwind" /\ ~thrown[t] =>
          IF deferred[t] # <<>> /\ ret_body[t].status = 200
          THEN /\ ret_body[t] = Answer(200, "nothing")
               /\ kind[req[t]] \notin {"malformed", "throws", "odd_sig", "odd_quote"}
               /\ id[t] \in Ids(req[t], kind[req[t]])
          ELSE ret_body[t] \in Allowed(req[t], kind[req[t]])

\* The guards in place, and the buffers they are for.
GuardsOK(t) ==
    /\ pc[t] = "idle" => deferred[t] = <<>>
    /\ pc[t] \in {"load", "sig"} => deferred[t] = <<"ret">>
    /\ pc[t] = "quote" => deferred[t] = <<"free_sig", "ret">>
    /\ pc[t] \in FromPubkey => deferred[t] = <<"free_sig_data", "free_sig", "ret">>
    /\ "sig" \in live[t] => deferred[t] \in {<<"free_sig", "ret">>, <<"free_sig_data", "free_sig", "ret">>}
    /\ "sig_data" \in live[t] => deferred[t] = <<"free_sig_data", "free_sig", "ret">>
    /\ "supplemental" \in live[t] => pc[t] = "verify_quote"

\* A sound request has its key.
KeyOK(t) == pc[t] = "verify_sig" /\ kind[req[t]] = "sound" => "key" \in live[t]

ThreadOK(t) == Engaged(t) /\ KindOK(t) /\ IdOK(t) /\ AnswerOK(t) /\ GuardsOK(t) /\ KeyOK(t)

OneHandler == \A t, u \in Thread : req[t] = req[u] /\ req[t] # None => t = u

Inv ==
    /\ TypeOK
    /\ OneHandler
    /\ \A t \in Thread : ThreadOK(t)
    /\ BuffersReturned

-----------------------------------------------------------------------------
(* What a step of one thread leaves alone *)

\* A thread whose state a step leaves alone stays as it was, if its request is
\* not answered by that step.
LEMMA Untouched ==
    ASSUME NEW t \in Thread, ThreadOK(t),
           pc'[t] = pc[t], req'[t] = req[t], ret_body'[t] = ret_body[t], id'[t] = id[t],
           hex'[t] = hex[t], deferred'[t] = deferred[t], live'[t] = live[t],
           thrown'[t] = thrown[t], kind' = kind,
           req[t] # None => answer'[req[t]] = answer[req[t]]
    PROVE  ThreadOK(t)'
<1>1. Engaged(t)'
  BY DEF ThreadOK, Engaged
<1>2. KindOK(t)'
  BY DEF ThreadOK, KindOK
<1>3. IdOK(t)'
  BY DEF ThreadOK, IdOK
<1>4. AnswerOK(t)'
  BY DEF ThreadOK, AnswerOK
<1>5. GuardsOK(t)'
  BY DEF ThreadOK, GuardsOK
<1>6. KeyOK(t)'
  BY DEF ThreadOK, KeyOK
<1> QED
  BY <1>1, <1>2, <1>3, <1>4, <1>5, <1>6 DEF ThreadOK

\* A step of one thread that takes up no request and answers none keeps the
\* invariant, if it keeps that thread's part of it.
LEMMA OwnStep ==
    ASSUME Inv, NEW t \in Thread, TypeOK', ThreadOK(t)',
           req' = req, kind' = kind, answer' = answer, lost' = lost,
           \A u \in Thread \ {t} :
               /\ pc'[u] = pc[u] /\ ret_body'[u] = ret_body[u] /\ id'[u] = id[u]
               /\ hex'[u] = hex[u] /\ deferred'[u] = deferred[u] /\ live'[u] = live[u]
               /\ thrown'[u] = thrown[u]
    PROVE  Inv'
<1>1. ASSUME NEW u \in Thread PROVE ThreadOK(u)'
  <2>1. CASE u = t
    BY <2>1
  <2>2. CASE u # t
    BY <2>2, Untouched DEF Inv
  <2> QED
    BY <2>1, <2>2
<1> QED
  BY <1>1 DEF Inv, OneHandler, BuffersReturned

-----------------------------------------------------------------------------
(* The steps of the handler, one by one *)

LEMMA AnswerTypes ==
    /\ Nothing \in AnswerType
    /\ Answer(200, "nothing") \in AnswerType
    /\ Answer(400, "load_failed") \in AnswerType
    /\ Answer(400, "unexpected_error") \in AnswerType
    /\ Answer(500, "signature_failed") \in AnswerType
    /\ Answer(500, "quote_failed") \in AnswerType
  BY DEF Nothing, Answer, AnswerType, Texts

\* A request that gets as far as its verification may be refused by either
\* verification, or succeed with its identity.
LEMMA AllowedAtTheEnd ==
    ASSUME NEW r, NEW k, k \notin {"malformed", "throws", "odd_sig", "odd_quote"}
    PROVE  /\ Answer(500, "signature_failed") \in Allowed(r, k)
           /\ Answer(500, "quote_failed") \in Allowed(r, k)
           /\ \A i \in Ids(r, k) : [status |-> 200, message |-> i] \in Allowed(r, k)
<1>1. Allowed(r, k) = {Answer(500, "signature_failed"), Answer(500, "quote_failed")}
                        \cup {[status |-> 200, message |-> i] : i \in Ids(r, k)}
  BY DEF Allowed, Ids, Service!Allowed, Service!Success, Service!Answer, Answer
<1> QED
  BY <1>1

USE DEF Goto, Return, Guards, FromKey, FromAccount, FromMrenclave, FromPubkey

\* The body is read.
LEMMA LoadKeeps ==
    ASSUME Inv, NEW t \in Thread, Load(t)
    PROVE  Inv'
<1>1. TypeOK'
  <2>1. thrown' \in [Thread -> BOOLEAN]
    BY DEF Inv, TypeOK, Load
  <2>2. ret_body' \in [Thread -> AnswerType]
    BY AnswerTypes DEF Inv, TypeOK, Load
  <2> QED
    BY <2>1, <2>2 DEF Inv, TypeOK, Steps, Load
<1>2. ThreadOK(t)'
  <2>1. Engaged(t)'
    BY ServiceAssumption DEF Inv, TypeOK, Steps, ThreadOK, Engaged, Load
  <2>2. KindOK(t)'
    BY DEF Inv, TypeOK, ThreadOK, KindOK, Load
  <2>3. IdOK(t)'
    BY DEF Inv, TypeOK, ThreadOK, IdOK, Load
  <2>4. AnswerOK(t)'
    BY DEF Inv, TypeOK, ThreadOK, AnswerOK, Allowed, Service!Allowed, Service!Answer, Answer, Nothing, Load
  <2>5. GuardsOK(t)'
    BY DEF Inv, TypeOK, ThreadOK, GuardsOK, Load
  <2>6. KeyOK(t)'
    BY DEF Inv, TypeOK, ThreadOK, KeyOK, Load
  <2> QED
    BY <2>1, <2>2, <2>3, <2>4, <2>5, <2>6 DEF ThreadOK
<1>3. ASSUME NEW u \in Thread \ {t}
      PROVE  /\ pc'[u] = pc[u] /\ ret_body'[u] = ret_body[u] /\ id'[u] = id[u]
             /\ hex'[u] = hex[u] /\ deferred'[u] = deferred[u] /\ live'[u] = live[u]
             /\ thrown'[u] = thrown[u]
  BY DEF Inv, TypeOK, Load
<1> QED
  BY <1>1, <1>2, <1>3, OwnStep DEF Load

\* The signature is converted.
LEMMA SigKeeps ==
    ASSUME Inv, NEW t \in Thread, Sig(t)
    PROVE  Inv'
<1>1. TypeOK'
  BY AnswerTypes DEF Inv, TypeOK, Steps, Sig, Allocate, Resource, GuardStack
<1>2. ThreadOK(t)'
  <2>1. Engaged(t)'
    BY ServiceAssumption DEF Inv, TypeOK, Steps, ThreadOK, Engaged, Sig, Allocate
  <2>2. KindOK(t)'
    BY DEF Inv, TypeOK, ThreadOK, KindOK, Sig, Allocate
  <2>3. IdOK(t)'
    BY DEF Inv, TypeOK, ThreadOK, IdOK, Sig, Allocate
  <2>4. AnswerOK(t)'
    BY DEF Inv, TypeOK, ThreadOK, AnswerOK, Allowed, Service!Allowed, Service!Answer, Answer, Nothing, Sig, Allocate
  <2>5. GuardsOK(t)'
    BY DEF Inv, TypeOK, ThreadOK, GuardsOK, Sig, Allocate
  <2>6. KeyOK(t)'
    BY DEF Inv, TypeOK, ThreadOK, KeyOK, Sig
  <2> QED
    BY <2>1, <2>2, <2>3, <2>4, <2>5, <2>6 DEF ThreadOK
<1>3. ASSUME NEW u \in Thread \ {t}
      PROVE  /\ pc'[u] = pc[u] /\ ret_body'[u] = ret_body[u] /\ id'[u] = id[u]
             /\ hex'[u] = hex[u] /\ deferred'[u] = deferred[u] /\ live'[u] = live[u]
             /\ thrown'[u] = thrown[u]
  BY DEF Inv, TypeOK, Sig, Allocate
<1> QED
  BY <1>1, <1>2, <1>3, OwnStep DEF Sig, Allocate

\* The quote is converted.
LEMMA QuoteKeeps ==
    ASSUME Inv, NEW t \in Thread, Quote(t)
    PROVE  Inv'
<1>1. TypeOK'
  BY AnswerTypes DEF Inv, TypeOK, Steps, Quote, Resource, GuardStack
<1>2. ThreadOK(t)'
  <2>1. Engaged(t)'
    BY ServiceAssumption DEF Inv, TypeOK, Steps, ThreadOK, Engaged, Quote
  <2>2. KindOK(t)'
    BY DEF Inv, TypeOK, ThreadOK, KindOK, Quote
  <2>3. IdOK(t)'
    BY DEF Inv, TypeOK, ThreadOK, IdOK, Quote
  <2>4. AnswerOK(t)'
    BY DEF Inv, TypeOK, ThreadOK, AnswerOK, Allowed, Service!Allowed, Service!Answer, Answer, Nothing, Quote
  <2>5. GuardsOK(t)'
    BY DEF Inv, TypeOK, ThreadOK, GuardsOK, Quote
  <2>6. KeyOK(t)'
    BY DEF Inv, TypeOK, ThreadOK, KeyOK, Quote
  <2> QED
    BY <2>1, <2>2, <2>3, <2>4, <2>5, <2>6 DEF ThreadOK
<1>3. ASSUME NEW u \in Thread \ {t}
      PROVE  /\ pc'[u] = pc[u] /\ ret_body'[u] = ret_body[u] /\ id'[u] = id[u]
             /\ hex'[u] = hex[u] /\ deferred'[u] = deferred[u] /\ live'[u] = live[u]
             /\ thrown'[u] = thrown[u]
  BY DEF Inv, TypeOK, Quote
<1> QED
  BY <1>1, <1>2, <1>3, OwnStep DEF Quote

\* A text is made of the report's bytes: the key's, then the measurement's.
PubkeyFill(t) == Fill(t, "pubkey", "pubkey_text")
PubkeyCopy(t) == Copy(t, "pubkey_text", "mrenclave", "pubkey")
MrenclaveFill(t) == Fill(t, "mrenclave", "mrenclave_text")
MrenclaveCopy(t) == Copy(t, "mrenclave_text", "account", "mrenclave")

\* The key's text is made.
LEMMA PubkeyFillKeeps ==
    ASSUME Inv, NEW t \in Thread, PubkeyFill(t)
    PROVE  Inv'
<1>1. TypeOK'
  BY AnswerTypes, ServiceAssumption DEF Inv, TypeOK, Steps, PubkeyFill, Fill, Copy, Buffer, Report, Held, Service!Held, local, Bytes, IdType, Engaged, ThreadOK
<1>2. ThreadOK(t)'
  <2>1. Engaged(t)'
    BY ServiceAssumption DEF Inv, TypeOK, Steps, ThreadOK, Engaged, PubkeyFill, Fill, Copy, Buffer, Report, Held, Service!Held, local
  <2>2. KindOK(t)'
    BY DEF Inv, TypeOK, ThreadOK, KindOK, PubkeyFill, Fill, Copy, Buffer, Report, Held, Service!Held, local
  <2>3. IdOK(t)'
    BY DEF Inv, TypeOK, ThreadOK, IdOK, PubkeyFill, Fill, Copy, Buffer, Report, Held, Service!Held, local
  <2>4. AnswerOK(t)'
    BY DEF Inv, TypeOK, ThreadOK, AnswerOK, Allowed, Service!Allowed, Service!Answer, Answer, Nothing, PubkeyFill, Fill, Copy, Buffer, Report, Held, Service!Held, local
  <2>5. GuardsOK(t)'
    BY DEF Inv, TypeOK, ThreadOK, GuardsOK, PubkeyFill, Fill, Copy, Buffer, Report, Held, Service!Held, local
  <2>6. KeyOK(t)'
    BY DEF Inv, TypeOK, ThreadOK, KeyOK, PubkeyFill, Fill, Copy
  <2> QED
    BY <2>1, <2>2, <2>3, <2>4, <2>5, <2>6 DEF ThreadOK
<1>3. ASSUME NEW u \in Thread \ {t}
      PROVE  /\ pc'[u] = pc[u] /\ ret_body'[u] = ret_body[u] /\ id'[u] = id[u]
             /\ hex'[u] = hex[u] /\ deferred'[u] = deferred[u] /\ live'[u] = live[u]
             /\ thrown'[u] = thrown[u]
  BY DEF Inv, TypeOK, PubkeyFill, Fill, Copy, Buffer, Report, Held, Service!Held, local
<1> QED
  BY <1>1, <1>2, <1>3, OwnStep DEF PubkeyFill, Fill, Copy, Buffer, Report, Held, Service!Held, local

\* The key's text is copied.
LEMMA PubkeyCopyKeeps ==
    ASSUME Inv, NEW t \in Thread, PubkeyCopy(t)
    PROVE  Inv'
<1>0. id' = [id EXCEPT ![t] = [id[t] EXCEPT !.pubkey = hex[t]]] /\ id[t] \in IdType
  BY DEF Inv, TypeOK, PubkeyCopy, Fill, Copy, Buffer, Report, Held, Service!Held, local
<1>1. TypeOK'
  <2>1. [id[t] EXCEPT !.pubkey = hex[t]] \in IdType
    BY <1>0, ServiceAssumption DEF Inv, TypeOK, Bytes, IdType, Steps, Engaged, ThreadOK, PubkeyCopy, Fill, Copy, Buffer, Report, Held, Service!Held, local
  <2>2. id' \in [Thread -> IdType]
    BY <1>0, <2>1 DEF Inv, TypeOK
  <2> QED
    BY <2>2 DEF Inv, TypeOK, Steps, PubkeyCopy, Fill, Copy, Buffer, Report, Held, Service!Held, local
<1>2. ThreadOK(t)'
  <2>1. Engaged(t)'
    BY ServiceAssumption DEF Inv, TypeOK, Steps, ThreadOK, Engaged, PubkeyCopy, Fill, Copy, Buffer, Report, Held, Service!Held, local
  <2>2. KindOK(t)'
    BY DEF Inv, TypeOK, ThreadOK, KindOK, PubkeyCopy, Fill, Copy, Buffer, Report, Held, Service!Held, local
  <2>3. IdOK(t)'
    BY <1>0 DEF Inv, TypeOK, IdType, ThreadOK, IdOK, PubkeyCopy, Fill, Copy, Buffer, Report, Held, Service!Held, local
  <2>4. AnswerOK(t)'
    BY DEF Inv, TypeOK, ThreadOK, AnswerOK, Allowed, Service!Allowed, Service!Answer, Answer, Nothing, PubkeyCopy, Fill, Copy, Buffer, Report, Held, Service!Held, local
  <2>5. GuardsOK(t)'
    BY DEF Inv, TypeOK, ThreadOK, GuardsOK, PubkeyCopy, Fill, Copy, Buffer, Report, Held, Service!Held, local
  <2>6. KeyOK(t)'
    BY DEF Inv, TypeOK, ThreadOK, KeyOK, PubkeyCopy, Fill, Copy
  <2> QED
    BY <2>1, <2>2, <2>3, <2>4, <2>5, <2>6 DEF ThreadOK
<1>3. ASSUME NEW u \in Thread \ {t}
      PROVE  /\ pc'[u] = pc[u] /\ ret_body'[u] = ret_body[u] /\ id'[u] = id[u]
             /\ hex'[u] = hex[u] /\ deferred'[u] = deferred[u] /\ live'[u] = live[u]
             /\ thrown'[u] = thrown[u]
  BY DEF Inv, TypeOK, PubkeyCopy, Fill, Copy, Buffer, Report, Held, Service!Held, local
<1> QED
  BY <1>1, <1>2, <1>3, OwnStep DEF PubkeyCopy, Fill, Copy, Buffer, Report, Held, Service!Held, local

\* The measurement's text is made.
LEMMA MrenclaveFillKeeps ==
    ASSUME Inv, NEW t \in Thread, MrenclaveFill(t)
    PROVE  Inv'
<1>1. TypeOK'
  BY AnswerTypes, ServiceAssumption DEF Inv, TypeOK, Steps, MrenclaveFill, Fill, Copy, Buffer, Report, Held, Service!Held, local, Bytes, IdType, Engaged, ThreadOK
<1>2. ThreadOK(t)'
  <2>1. Engaged(t)'
    BY ServiceAssumption DEF Inv, TypeOK, Steps, ThreadOK, Engaged, MrenclaveFill, Fill, Copy, Buffer, Report, Held, Service!Held, local
  <2>2. KindOK(t)'
    BY DEF Inv, TypeOK, ThreadOK, KindOK, MrenclaveFill, Fill, Copy, Buffer, Report, Held, Service!Held, local
  <2>3. IdOK(t)'
    BY DEF Inv, TypeOK, ThreadOK, IdOK, MrenclaveFill, Fill, Copy, Buffer, Report, Held, Service!Held, local
  <2>4. AnswerOK(t)'
    BY DEF Inv, TypeOK, ThreadOK, AnswerOK, Allowed, Service!Allowed, Service!Answer, Answer, Nothing, MrenclaveFill, Fill, Copy, Buffer, Report, Held, Service!Held, local
  <2>5. GuardsOK(t)'
    BY DEF Inv, TypeOK, ThreadOK, GuardsOK, MrenclaveFill, Fill, Copy, Buffer, Report, Held, Service!Held, local
  <2>6. KeyOK(t)'
    BY DEF Inv, TypeOK, ThreadOK, KeyOK, MrenclaveFill, Fill, Copy
  <2> QED
    BY <2>1, <2>2, <2>3, <2>4, <2>5, <2>6 DEF ThreadOK
<1>3. ASSUME NEW u \in Thread \ {t}
      PROVE  /\ pc'[u] = pc[u] /\ ret_body'[u] = ret_body[u] /\ id'[u] = id[u]
             /\ hex'[u] = hex[u] /\ deferred'[u] = deferred[u] /\ live'[u] = live[u]
             /\ thrown'[u] = thrown[u]
  BY DEF Inv, TypeOK, MrenclaveFill, Fill, Copy, Buffer, Report, Held, Service!Held, local
<1> QED
  BY <1>1, <1>2, <1>3, OwnStep DEF MrenclaveFill, Fill, Copy, Buffer, Report, Held, Service!Held, local

\* The measurement's text is copied.
LEMMA MrenclaveCopyKeeps ==
    ASSUME Inv, NEW t \in Thread, MrenclaveCopy(t)
    PROVE  Inv'
<1>0. id' = [id EXCEPT ![t] = [id[t] EXCEPT !.mrenclave = hex[t]]] /\ id[t] \in IdType
  BY DEF Inv, TypeOK, MrenclaveCopy, Fill, Copy, Buffer, Report, Held, Service!Held, local
<1>1. TypeOK'
  <2>1. [id[t] EXCEPT !.mrenclave = hex[t]] \in IdType
    BY <1>0, ServiceAssumption DEF Inv, TypeOK, Bytes, IdType, Steps, Engaged, ThreadOK, MrenclaveCopy, Fill, Copy, Buffer, Report, Held, Service!Held, local
  <2>2. id' \in [Thread -> IdType]
    BY <1>0, <2>1 DEF Inv, TypeOK
  <2> QED
    BY <2>2 DEF Inv, TypeOK, Steps, MrenclaveCopy, Fill, Copy, Buffer, Report, Held, Service!Held, local
<1>2. ThreadOK(t)'
  <2>1. Engaged(t)'
    BY ServiceAssumption DEF Inv, TypeOK, Steps, ThreadOK, Engaged, MrenclaveCopy, Fill, Copy, Buffer, Report, Held, Service!Held, local
  <2>2. KindOK(t)'
    BY DEF Inv, TypeOK, ThreadOK, KindOK, MrenclaveCopy, Fill, Copy, Buffer, Report, Held, Service!Held, local
  <2>3. IdOK(t)'
    BY <1>0 DEF Inv, TypeOK, IdType, ThreadOK, IdOK, MrenclaveCopy, Fill, Copy, Buffer, Report, Held, Service!Held, local
  <2>4. AnswerOK(t)'
    BY DEF Inv, TypeOK, ThreadOK, AnswerOK, Allowed, Service!Allowed, Service!Answer, Answer, Nothing, MrenclaveCopy, Fill, Copy, Buffer, Report, Held, Service!Held, local
  <2>5. GuardsOK(t)'
    BY DEF Inv, TypeOK, ThreadOK, GuardsOK, MrenclaveCopy, Fill, Copy, Buffer, Report, Held, Service!Held, local
  <2>6. KeyOK(t)'
    BY DEF Inv, TypeOK, ThreadOK, KeyOK, MrenclaveCopy, Fill, Copy
  <2> QED
    BY <2>1, <2>2, <2>3, <2>4, <2>5, <2>6 DEF ThreadOK
<1>3. ASSUME NEW u \in Thread \ {t}
      PROVE  /\ pc'[u] = pc[u] /\ ret_body'[u] = ret_body[u] /\ id'[u] = id[u]
             /\ hex'[u] = hex[u] /\ deferred'[u] = deferred[u] /\ live'[u] = live[u]
             /\ thrown'[u] = thrown[u]
  BY DEF Inv, TypeOK, MrenclaveCopy, Fill, Copy, Buffer, Report, Held, Service!Held, local
<1> QED
  BY <1>1, <1>2, <1>3, OwnStep DEF MrenclaveCopy, Fill, Copy, Buffer, Report, Held, Service!Held, local

\* The account is copied.
LEMMA AccountKeeps ==
    ASSUME Inv, NEW t \in Thread, Account(t)
    PROVE  Inv'
<1>0. id' = [id EXCEPT ![t] = [id[t] EXCEPT !.account = req[t]]] /\ id[t] \in IdType
  BY DEF Inv, TypeOK, Account
<1>1. TypeOK'
  <2>0. req[t] \in Request
    BY DEF Inv, TypeOK, Engaged, ThreadOK, Account
  <2>1. [id[t] EXCEPT !.account = req[t]] \in IdType
    BY <1>0, <2>0, ServiceAssumption DEF Inv, TypeOK, Bytes, IdType, Steps, Engaged, ThreadOK, Account
  <2>2. id' \in [Thread -> IdType]
    BY <1>0, <2>1 DEF Inv, TypeOK
  <2> QED
    BY <2>2 DEF Inv, TypeOK, Steps, Account
<1>2. ThreadOK(t)'
  <2>1. Engaged(t)'
    BY ServiceAssumption DEF Inv, TypeOK, Steps, ThreadOK, Engaged, Account
  <2>2. KindOK(t)'
    BY DEF Inv, TypeOK, ThreadOK, KindOK, Account
  <2>3. IdOK(t)'
    BY <1>0 DEF Inv, TypeOK, IdType, ThreadOK, IdOK, Account
  <2>4. AnswerOK(t)'
    BY DEF Inv, TypeOK, ThreadOK, AnswerOK, Allowed, Service!Allowed, Service!Answer, Answer, Nothing, Account
  <2>5. GuardsOK(t)'
    BY DEF Inv, TypeOK, ThreadOK, GuardsOK, Account
  <2>6. KeyOK(t)'
    BY DEF Inv, TypeOK, ThreadOK, KeyOK, Account
  <2> QED
    BY <2>1, <2>2, <2>3, <2>4, <2>5, <2>6 DEF ThreadOK
<1>3. ASSUME NEW u \in Thread \ {t}
      PROVE  /\ pc'[u] = pc[u] /\ ret_body'[u] = ret_body[u] /\ id'[u] = id[u]
             /\ hex'[u] = hex[u] /\ deferred'[u] = deferred[u] /\ live'[u] = live[u]
             /\ thrown'[u] = thrown[u]
  BY DEF Inv, TypeOK, Account
<1> QED
  BY <1>1, <1>2, <1>3, OwnStep DEF Account

\* The key is made.
LEMMA KeyKeeps ==
    ASSUME Inv, NEW t \in Thread, Key(t)
    PROVE  Inv'
<1>1. TypeOK'
  BY AnswerTypes DEF Inv, TypeOK, Steps, Key, Resource
<1>2. ThreadOK(t)'
  <2>1. Engaged(t)'
    BY ServiceAssumption DEF Inv, TypeOK, Steps, ThreadOK, Engaged, Key
  <2>2. KindOK(t)'
    BY DEF Inv, TypeOK, ThreadOK, KindOK, Key
  <2>3. IdOK(t)'
    BY DEF Inv, TypeOK, ThreadOK, IdOK, Key
  <2>4. AnswerOK(t)'
    BY DEF Inv, TypeOK, ThreadOK, AnswerOK, Allowed, Service!Allowed, Service!Answer, Answer, Nothing, Key
  <2>5. GuardsOK(t)'
    BY DEF Inv, TypeOK, ThreadOK, GuardsOK, Key
  <2>6. KeyOK(t)'
    BY DEF Inv, TypeOK, ThreadOK, KeyOK, Key, HasPoint
  <2> QED
    BY <2>1, <2>2, <2>3, <2>4, <2>5, <2>6 DEF ThreadOK
<1>3. ASSUME NEW u \in Thread \ {t}
      PROVE  /\ pc'[u] = pc[u] /\ ret_body'[u] = ret_body[u] /\ id'[u] = id[u]
             /\ hex'[u] = hex[u] /\ deferred'[u] = deferred[u] /\ live'[u] = live[u]
             /\ thrown'[u] = thrown[u]
  BY DEF Inv, TypeOK, Key
<1> QED
  BY <1>1, <1>2, <1>3, OwnStep DEF Key

\* The signature is verified.
LEMMA VerifySigKeeps ==
    ASSUME Inv, NEW t \in Thread, VerifySig(t)
    PROVE  Inv'
<1>1. TypeOK'
  BY AnswerTypes DEF Inv, TypeOK, Steps, VerifySig
<1>2. ThreadOK(t)'
  <2>1. Engaged(t)'
    BY ServiceAssumption DEF Inv, TypeOK, Steps, ThreadOK, Engaged, VerifySig
  <2>2. KindOK(t)'
    BY DEF Inv, TypeOK, ThreadOK, KindOK, VerifySig
  <2>3. IdOK(t)'
    BY DEF Inv, TypeOK, ThreadOK, IdOK, VerifySig
  <2>4. AnswerOK(t)'
    <3>1. kind[req[t]] \notin {"malformed", "throws", "odd_sig", "odd_quote"}
      BY DEF Inv, TypeOK, ThreadOK, KindOK, VerifySig
    <3> QED
      BY <3>1, AllowedAtTheEnd DEF Inv, TypeOK, ThreadOK, AnswerOK, Answer, Nothing, VerifySig
  <2>5. GuardsOK(t)'
    BY DEF Inv, TypeOK, ThreadOK, GuardsOK, VerifySig
  <2>6. KeyOK(t)'
    BY DEF Inv, TypeOK, ThreadOK, KeyOK, VerifySig
  <2> QED
    BY <2>1, <2>2, <2>3, <2>4, <2>5, <2>6 DEF ThreadOK
<1>3. ASSUME NEW u \in Thread \ {t}
      PROVE  /\ pc'[u] = pc[u] /\ ret_body'[u] = ret_body[u] /\ id'[u] = id[u]
             /\ hex'[u] = hex[u] /\ deferred'[u] = deferred[u] /\ live'[u] = live[u]
             /\ thrown'[u] = thrown[u]
  BY DEF Inv, TypeOK, VerifySig
<1> QED
  BY <1>1, <1>2, <1>3, OwnStep DEF VerifySig

\* The supplemental data's size is asked for.
LEMMA SupplementKeeps ==
    ASSUME Inv, NEW t \in Thread, Supplement(t)
    PROVE  Inv'
<1>1. TypeOK'
  BY AnswerTypes DEF Inv, TypeOK, Steps, Supplement, Resource
<1>2. ThreadOK(t)'
  <2>1. Engaged(t)'
    BY ServiceAssumption DEF Inv, TypeOK, Steps, ThreadOK, Engaged, Supplement
  <2>2. KindOK(t)'
    BY DEF Inv, TypeOK, ThreadOK, KindOK, Supplement
  <2>3. IdOK(t)'
    BY DEF Inv, TypeOK, ThreadOK, IdOK, Supplement
  <2>4. AnswerOK(t)'
    BY DEF Inv, TypeOK, ThreadOK, AnswerOK, Allowed, Service!Allowed, Service!Answer, Answer, Nothing, Supplement
  <2>5. GuardsOK(t)'
    BY DEF Inv, TypeOK, ThreadOK, GuardsOK, Supplement
  <2>6. KeyOK(t)'
    BY DEF Inv, TypeOK, ThreadOK, KeyOK, Supplement
  <2> QED
    BY <2>1, <2>2, <2>3, <2>4, <2>5, <2>6 DEF ThreadOK
<1>3. ASSUME NEW u \in Thread \ {t}
      PROVE  /\ pc'[u] = pc[u] /\ ret_body'[u] = ret_body[u] /\ id'[u] = id[u]
             /\ hex'[u] = hex[u] /\ deferred'[u] = deferred[u] /\ live'[u] = live[u]
             /\ thrown'[u] = thrown[u]
  BY DEF Inv, TypeOK, Supplement
<1> QED
  BY <1>1, <1>2, <1>3, OwnStep DEF Supplement

\* The quote is verified.
LEMMA VerifyQuoteKeeps ==
    ASSUME Inv, NEW t \in Thread, VerifyQuote(t)
    PROVE  Inv'
<1>1. TypeOK'
  BY AnswerTypes DEF Inv, TypeOK, Steps, VerifyQuote, Resource
<1>2. ThreadOK(t)'
  <2>1. Engaged(t)'
    BY ServiceAssumption DEF Inv, TypeOK, Steps, ThreadOK, Engaged, VerifyQuote
  <2>2. KindOK(t)'
    BY DEF Inv, TypeOK, ThreadOK, KindOK, VerifyQuote
  <2>3. IdOK(t)'
    BY DEF Inv, TypeOK, ThreadOK, IdOK, VerifyQuote
  <2>4. AnswerOK(t)'
    <3>1. kind[req[t]] \notin {"malformed", "throws", "odd_sig", "odd_quote"}
      BY DEF Inv, TypeOK, ThreadOK, KindOK, VerifyQuote
    <3> QED
      BY <3>1, AllowedAtTheEnd DEF Inv, TypeOK, ThreadOK, AnswerOK, Answer, Nothing, VerifyQuote
  <2>5. GuardsOK(t)'
    BY DEF Inv, TypeOK, ThreadOK, GuardsOK, VerifyQuote
  <2>6. KeyOK(t)'
    BY DEF Inv, TypeOK, ThreadOK, KeyOK, VerifyQuote
  <2> QED
    BY <2>1, <2>2, <2>3, <2>4, <2>5, <2>6 DEF ThreadOK
<1>3. ASSUME NEW u \in Thread \ {t}
      PROVE  /\ pc'[u] = pc[u] /\ ret_body'[u] = ret_body[u] /\ id'[u] = id[u]
             /\ hex'[u] = hex[u] /\ deferred'[u] = deferred[u] /\ live'[u] = live[u]
             /\ thrown'[u] = thrown[u]
  BY DEF Inv, TypeOK, VerifyQuote
<1> QED
  BY <1>1, <1>2, <1>3, OwnStep DEF VerifyQuote

\* The verification's result is read.
LEMMA VerdictKeeps ==
    ASSUME Inv, NEW t \in Thread, Verdict(t)
    PROVE  Inv'
<1>1. TypeOK'
  <2>1. pc' = [pc EXCEPT ![t] = "unwind"]
    BY DEF Verdict
  <2>2. ret_body' \in [Thread -> AnswerType]
    BY AnswerTypes DEF Inv, TypeOK, Verdict
  <2>3. pc' \in [Thread -> Steps]
    BY <2>1 DEF Inv, TypeOK, Steps
  <2> QED
    BY <2>2, <2>3 DEF Inv, TypeOK, Verdict
<1>2. ThreadOK(t)'
  <2>1. Engaged(t)'
    BY ServiceAssumption DEF Inv, TypeOK, Steps, ThreadOK, Engaged, Verdict
  <2>2. KindOK(t)'
    BY DEF Inv, TypeOK, ThreadOK, KindOK, Verdict
  <2>3. IdOK(t)'
    BY DEF Inv, TypeOK, ThreadOK, IdOK, Verdict
  <2>4. AnswerOK(t)'
    <3>1. kind[req[t]] \notin {"malformed", "throws", "odd_sig", "odd_quote"}
      BY DEF Inv, TypeOK, ThreadOK, KindOK, Verdict
    <3>2. id[t] \in Ids(req[t], kind[req[t]])
      BY DEF Inv, TypeOK, IdType, ThreadOK, IdOK, Ids, Held, Service!Ids, Verdict
    <3>3. pc'[t] = "unwind" /\ ~thrown'[t] /\ deferred'[t] # <<>>
      <4>1. pc[t] = "verdict" /\ pc'[t] = "unwind"
        BY DEF Inv, TypeOK, Verdict
      <4>2. ~thrown'[t]
        BY <4>1 DEF Inv, ThreadOK, AnswerOK, Verdict
      <4>3. deferred'[t] = <<"free_sig_data", "free_sig", "ret">>
        BY <4>1 DEF Inv, ThreadOK, GuardsOK, Verdict
      <4> QED
        BY <4>1, <4>2, <4>3
    <3>4. CASE result[t] \in Accepted
      <4>1. ret_body'[t] = Answer(200, "nothing")
        BY <3>4 DEF Inv, TypeOK, Verdict
      <4> QED
        BY <3>1, <3>2, <3>3, <4>1 DEF AnswerOK, Answer, Verdict
    <3>5. CASE result[t] \notin Accepted
      <4>1. ret_body'[t] = Answer(500, "quote_failed")
        BY <3>5 DEF Inv, TypeOK, Verdict
      <4> QED
        BY <3>1, <3>3, <4>1, AllowedAtTheEnd DEF AnswerOK, Answer, Verdict
    <3> QED
      BY <3>4, <3>5
  <2>5. GuardsOK(t)'
    BY DEF Inv, TypeOK, ThreadOK, GuardsOK, Verdict
  <2>6. KeyOK(t)'
    BY DEF Inv, TypeOK, ThreadOK, KeyOK, Verdict
  <2> QED
    BY <2>1, <2>2, <2>3, <2>4, <2>5, <2>6 DEF ThreadOK
<1>3. ASSUME NEW u \in Thread \ {t}
      PROVE  /\ pc'[u] = pc[u] /\ ret_body'[u] = ret_body[u] /\ id'[u] = id[u]
             /\ hex'[u] = hex[u] /\ deferred'[u] = deferred[u] /\ live'[u] = live[u]
             /\ thrown'[u] = thrown[u]
  BY DEF Inv, TypeOK, Verdict
<1> QED
  BY <1>1, <1>2, <1>3, OwnStep DEF Verdict

-----------------------------------------------------------------------------
(* The return: the guards run, and the request is answered *)

\* A guard runs.
LEMMA UnwindKeeps ==
    ASSUME Inv, NEW t \in Thread, Unwind(t)
    PROVE  Inv'
<1>1. /\ pc[t] = "unwind" /\ pc' = pc /\ req' = req /\ id' = id /\ hex' = hex /\ thrown' = thrown
      /\ kind' = kind /\ answer' = answer /\ lost' = lost /\ gone' = gone /\ ret' = ret /\ result' = result
      /\ deferred' = [deferred EXCEPT ![t] = Tail(@)] /\ req[t] \in Request
  BY DEF Inv, TypeOK, ThreadOK, Engaged, Unwind
<1>2. CASE deferred[t] = <<"free_sig_data", "free_sig", "ret">>
  <2>1. /\ deferred' = [deferred EXCEPT ![t] = <<"free_sig", "ret">>]
        /\ live' = [live EXCEPT ![t] = @ \ {"sig_data"}] /\ ret_body' = ret_body
    BY <1>1, <1>2 DEF Unwind
  <2>2. TypeOK'
    BY <1>1, <2>1 DEF Inv, TypeOK, GuardStack
  <2>3. ThreadOK(t)'
    BY <1>1, <1>2, <2>1 DEF Inv, TypeOK, ThreadOK, Engaged, KindOK, IdOK, AnswerOK, GuardsOK, KeyOK
  <2> QED
    BY <1>1, <2>1, <2>2, <2>3, OwnStep DEF Inv, TypeOK
<1>3. CASE deferred[t] = <<"free_sig", "ret">>
  <2>1. /\ deferred' = [deferred EXCEPT ![t] = <<"ret">>]
        /\ live' = [live EXCEPT ![t] = @ \ {"sig"}] /\ ret_body' = ret_body
    BY <1>1, <1>3 DEF Unwind
  <2>2. TypeOK'
    BY <1>1, <2>1 DEF Inv, TypeOK, GuardStack
  <2>3. ThreadOK(t)'
    BY <1>1, <1>3, <2>1 DEF Inv, TypeOK, ThreadOK, Engaged, KindOK, IdOK, AnswerOK, GuardsOK, KeyOK
  <2> QED
    BY <1>1, <2>1, <2>2, <2>3, OwnStep DEF Inv, TypeOK
<1>4. CASE deferred[t] = <<"ret">>
  <2>1. deferred' = [deferred EXCEPT ![t] = <<>>] /\ live' = live
    BY <1>1, <1>4 DEF Unwind
  <2>2. ret_body' = IF ret_body[t].status = 200
                   THEN [ret_body EXCEPT ![t] = [ret_body[t] EXCEPT !.message = id[t]]] ELSE ret_body
    BY <1>1, <1>4 DEF Inv, TypeOK, Unwind
  <2>3. CASE thrown[t] \/ ret_body[t].status # 200
    <3>1. ret_body' = ret_body
      BY <1>1, <2>2, <2>3 DEF Inv, ThreadOK, AnswerOK, Nothing, Answer
    <3>2. TypeOK'
      BY <1>1, <2>1, <3>1 DEF Inv, TypeOK, GuardStack
    <3>3. ThreadOK(t)'
      BY <1>1, <1>4, <2>1, <2>3, <3>1 DEF Inv, TypeOK, ThreadOK, Engaged, KindOK, IdOK, AnswerOK, GuardsOK, KeyOK
    <3> QED
      BY <1>1, <2>1, <3>1, <3>2, <3>3, OwnStep DEF Inv, TypeOK
  <2>4. CASE ~thrown[t] /\ ret_body[t].status = 200
    <3>1. /\ ret_body[t] = Answer(200, "nothing")
          /\ kind[req[t]] \notin {"malformed", "throws", "odd_sig", "odd_quote"}
          /\ id[t] \in Ids(req[t], kind[req[t]])
      BY <1>1, <1>4, <2>4 DEF Inv, ThreadOK, AnswerOK
    <3>2. ret_body' = [ret_body EXCEPT ![t] = [status |-> 200, message |-> id[t]]]
      <4>1. [ret_body[t] EXCEPT !.message = id[t]] = [status |-> 200, message |-> id[t]]
        BY <3>1 DEF Answer
      <4> QED
        BY <2>2, <2>4, <4>1
    <3>3. [status |-> 200, message |-> id[t]] \in AnswerType
      BY DEF Inv, TypeOK, AnswerType
    <3>4. TypeOK'
      BY <1>1, <2>1, <3>2, <3>3 DEF Inv, TypeOK, GuardStack
    <3>5. AnswerOK(t)'
      BY <1>1, <2>1, <2>4, <3>1, <3>2, AllowedAtTheEnd DEF Inv, TypeOK, AnswerOK
    <3>6. ThreadOK(t)'
      BY <1>1, <1>4, <2>1, <3>5 DEF Inv, TypeOK, ThreadOK, Engaged, KindOK, IdOK, GuardsOK, KeyOK
    <3> QED
      BY <1>1, <2>1, <3>2, <3>4, <3>6, OwnStep DEF Inv, TypeOK
  <2> QED
    BY <2>3, <2>4
<1> QED
  BY <1>2, <1>3, <1>4 DEF Inv, TypeOK, GuardStack, Unwind

\* The answer that a request gets is one that it may get.
LEMMA FinishAllowed ==
    ASSUME Inv, NEW t \in Thread, Finish(t)
    PROVE  /\ req[t] \in Request
           /\ answer[req[t]] = None
           /\ \E a \in Allowed(req[t], kind[req[t]]) \cap AnswerType :
                  answer' = [answer EXCEPT ![req[t]] = a]
<1>1. pc[t] = "unwind" /\ deferred[t] = <<>> /\ req[t] \in Request /\ answer[req[t]] = None
  BY DEF Inv, TypeOK, ThreadOK, Engaged, Finish
<1>2. CASE thrown[t]
  <2>1. kind[req[t]] = "throws" /\ ret_body[t] = Nothing
    BY <1>1, <1>2 DEF Inv, ThreadOK, AnswerOK
  <2>2. answer' = [answer EXCEPT ![req[t]] = Answer(500, "nothing")]
    <3>1. [ret_body[t] EXCEPT !.status = 500] = Answer(500, "nothing")
      BY <2>1 DEF Nothing, Answer
    <3> QED
      BY <1>2, <3>1 DEF Finish
  <2>3. Answer(500, "nothing") \in Allowed(req[t], kind[req[t]])
    BY <2>1 DEF Allowed, Service!Allowed, Service!Answer, Answer
  <2>4. Answer(500, "nothing") \in AnswerType
    BY DEF Answer, AnswerType, Texts
  <2> QED
    BY <1>1, <2>2, <2>3, <2>4
<1>3. CASE ~thrown[t]
  <2>1. ret_body[t] \in Allowed(req[t], kind[req[t]]) /\ ret_body[t] \in AnswerType
    BY <1>1, <1>3 DEF Inv, TypeOK, ThreadOK, AnswerOK
  <2>2. answer' = [answer EXCEPT ![req[t]] = ret_body[t]]
    BY <1>3 DEF Finish
  <2> QED
    BY <1>1, <2>1, <2>2
<1> QED
  BY <1>2, <1>3

\* A request is answered; no other thread handles it.
LEMMA FinishKeeps ==
    ASSUME Inv, NEW t \in Thread, Finish(t)
    PROVE  Inv'
<1>1. pc[t] = "unwind" /\ deferred[t] = <<>> /\ req[t] \in Request
  BY DEF Inv, TypeOK, ThreadOK, Engaged, Finish
<1>2. live[t] \subseteq {"quote", "key"}
  <2>1. <<>> \notin {<<"free_sig", "ret">>, <<"free_sig_data", "free_sig", "ret">>}
    OBVIOUS
  <2>2. {"sig", "sig_data", "supplemental"} \cap live[t] = {}
    BY <1>1, <2>1 DEF Inv, ThreadOK, GuardsOK
  <2>3. live[t] \subseteq Resource
    BY DEF Inv, TypeOK
  <2> QED
    BY <2>2, <2>3 DEF Resource
<1>3. lost' \subseteq Request \X Resource /\ BuffersReturned'
  BY <1>1, <1>2 DEF Inv, TypeOK, BuffersReturned, Finish, Resource
<1>4. TypeOK'
  <2>1. answer' \in [Request -> AnswerType \cup {None}]
    BY FinishAllowed DEF Inv, TypeOK
  <2>2. ret_body' \in [Thread -> AnswerType]
    BY AnswerTypes DEF Inv, TypeOK, Finish
  <2>3. NoId \in IdType
    BY DEF NoId, IdType, Bytes
  <2>4. id' \in [Thread -> IdType] /\ thrown' \in [Thread -> BOOLEAN]
    BY <2>3 DEF Inv, TypeOK, Finish
  <2>5. pc' \in [Thread -> Steps] /\ req' \in [Thread -> Request \cup {None}]
    BY DEF Inv, TypeOK, Finish, Steps
  <2>6. /\ live' \in [Thread -> SUBSET Resource]
        /\ ret' \in [Thread -> {-1, 0, 1, None}]
        /\ result' \in [Thread -> Accepted \cup Refused \cup {None}]
    BY DEF Inv, TypeOK, Finish
  <2> QED
    BY <1>3, <2>1, <2>2, <2>4, <2>5, <2>6 DEF Inv, TypeOK, Finish
<1>5. ThreadOK(t)'
  BY <1>1, ServiceAssumption DEF Inv, TypeOK, ThreadOK, Engaged, KindOK, IdOK, AnswerOK, GuardsOK, KeyOK, Finish
<1>6. ASSUME NEW u \in Thread, u # t PROVE ThreadOK(u)'
  <2>1. req[u] # None => answer'[req[u]] = answer[req[u]]
    BY <1>1, <1>6, ServiceAssumption, FinishAllowed DEF Inv, TypeOK, OneHandler
  <2> QED
    BY <1>6, <2>1, Untouched DEF Inv, TypeOK, Finish
<1>7. OneHandler'
  BY DEF Inv, TypeOK, OneHandler, Finish
<1> QED
  BY <1>3, <1>4, <1>5, <1>6, <1>7 DEF Inv

\* A thread takes up a request that none has taken up.
LEMMA BeginKeeps ==
    ASSUME Inv, NEW t \in Thread, NEW r \in Request, Begin(t, r)
    PROVE  Inv'
<1>1. /\ pc[t] = "idle" /\ req[t] = None /\ answer[r] = None /\ \A u \in Thread : req[u] # r
      /\ deferred' = [deferred EXCEPT ![t] = <<"ret">>]
  BY DEF Inv, ThreadOK, Engaged, Begin, Begun
<1>2. TypeOK'
  BY <1>1 DEF Inv, TypeOK, Steps, GuardStack, Begin
<1>3. ThreadOK(t)'
  <2>1. Engaged(t)'
    BY <1>1, ServiceAssumption DEF Inv, TypeOK, Engaged, Begin
  <2>2. KindOK(t)' /\ IdOK(t)' /\ KeyOK(t)'
    BY <1>1 DEF Inv, TypeOK, KindOK, IdOK, KeyOK, Begin
  <2>3. AnswerOK(t)'
    BY <1>1 DEF Inv, TypeOK, ThreadOK, AnswerOK, Begin
  <2>4. GuardsOK(t)'
    BY <1>1 DEF Inv, TypeOK, ThreadOK, GuardsOK, Begin
  <2> QED
    BY <2>1, <2>2, <2>3, <2>4 DEF ThreadOK
<1>4. ASSUME NEW u \in Thread, u # t PROVE ThreadOK(u)'
  BY <1>4, Untouched DEF Inv, TypeOK, Begin
<1>5. OneHandler'
  BY <1>1 DEF Inv, TypeOK, OneHandler, Begin
<1> QED
  BY <1>2, <1>3, <1>4, <1>5 DEF Inv, BuffersReturned, Begin

\* The process crashes, or nothing happens.
LEMMA StoppedKeeps ==
    ASSUME Inv, gone' \in BOOLEAN, UNCHANGED <<kind, answer, pc, hex, lost, local>>
    PROVE  Inv'
<1>1. TypeOK' /\ OneHandler' /\ BuffersReturned'
  BY DEF Inv, TypeOK, OneHandler, BuffersReturned, local
<1>2. ASSUME NEW u \in Thread PROVE ThreadOK(u)'
  BY Untouched DEF Inv, local
<1> QED
  BY <1>1, <1>2 DEF Inv

-----------------------------------------------------------------------------
(* The theorems *)

\* Handling a request answers it or changes nothing that AttestationService sees.
LEMMA HandleKeeps ==
    ASSUME Inv, NEW t \in Thread, Handle(t)
    PROVE  Inv' /\ (Finish(t) \/ UNCHANGED <<kind, answer, gone>>)
<1> USE DEF PubkeyFill, PubkeyCopy, MrenclaveFill, MrenclaveCopy
<1>1. CASE Load(t)
  BY <1>1, LoadKeeps DEF Load
<1>2. CASE Sig(t)
  BY <1>2, SigKeeps DEF Sig
<1>3. CASE Quote(t)
  BY <1>3, QuoteKeeps DEF Quote
<1>4. CASE PubkeyFill(t)
  BY <1>4, PubkeyFillKeeps DEF Fill
<1>5. CASE PubkeyCopy(t)
  BY <1>5, PubkeyCopyKeeps DEF Copy
<1>6. CASE MrenclaveFill(t)
  BY <1>6, MrenclaveFillKeeps DEF Fill
<1>7. CASE MrenclaveCopy(t)
  BY <1>7, MrenclaveCopyKeeps DEF Copy
<1>8. CASE Account(t)
  BY <1>8, AccountKeeps DEF Account
<1>9. CASE Key(t)
  BY <1>9, KeyKeeps DEF Key
<1>10. CASE VerifySig(t)
  BY <1>10, VerifySigKeeps DEF VerifySig
<1>11. CASE Supplement(t)
  BY <1>11, SupplementKeeps DEF Supplement
<1>12. CASE VerifyQuote(t)
  BY <1>12, VerifyQuoteKeeps DEF VerifyQuote
<1>13. CASE Verdict(t)
  BY <1>13, VerdictKeeps DEF Verdict
<1>14. CASE Unwind(t)
  BY <1>14, UnwindKeeps DEF Unwind
<1>15. CASE Finish(t)
  BY <1>15, FinishKeeps
<1> QED
  BY <1>1, <1>2, <1>3, <1>4, <1>5, <1>6, <1>7, <1>8, <1>9, <1>10, <1>11, <1>12, <1>13, <1>14, <1>15 DEF Handle

LEMMA InitInv == Init => Inv
<1> SUFFICES ASSUME Init PROVE Inv
  OBVIOUS
<1>1. NoId \in IdType
  BY DEF NoId, IdType, Bytes
<1>2. TypeOK
  BY <1>1, AnswerTypes DEF Init, TypeOK, Steps, GuardStack, Bytes
<1>3. ASSUME NEW t \in Thread PROVE ThreadOK(t)
  BY DEF Init, ThreadOK, Engaged, KindOK, IdOK, AnswerOK, GuardsOK, KeyOK
<1> QED
  BY <1>2, <1>3 DEF Init, Inv, OneHandler, BuffersReturned

LEMMA FailStep ==
    ASSUME NEW t \in Thread, Fail(t)
    PROVE  gone' = TRUE /\ UNCHANGED <<kind, answer, pc, hex, lost, local>>
  BY DEF Fail, QuoteMissing, ReportOutOfReach, NoKey, Crash

LEMMA NextInv == Inv /\ [Next]_vars => Inv'
<1> SUFFICES ASSUME Inv, [Next]_vars PROVE Inv'
  OBVIOUS
<1>1. ASSUME NEW t \in Thread, Handle(t) PROVE Inv'
  BY <1>1, HandleKeeps
<1>2. ASSUME NEW t \in Thread, Fail(t) PROVE Inv'
  BY <1>2, FailStep, StoppedKeeps
<1>3. ASSUME NEW t \in Thread, NEW r \in Request, Begin(t, r) PROVE Inv'
  BY <1>3, BeginKeeps
<1>4. CASE UNCHANGED vars
  BY <1>4, StoppedKeeps DEF vars, local, Inv, TypeOK
<1> QED
  BY <1>1, <1>2, <1>3, <1>4 DEF Next

(* However many threads handle requests, the handler keeps its invariant. *)
THEOREM InductiveInv == Spec => []Inv
  BY InitInv, NextInv, PTL DEF Spec

(* An ended handler leaves nothing allocated but the quote's bytes and the key *)
(* (App.cpp 124-133 and 187-188).                                              *)
THEOREM AlwaysReturned == Spec => []BuffersReturned
<1>1. Inv => BuffersReturned
  BY DEF Inv
<1> QED
  BY <1>1, InductiveInv, PTL

\* The process stops at a request that may stop it.
LEMMA FailRefines ==
    ASSUME Inv, NEW t \in Thread, Fail(t), ~gone
    PROVE  \E r \in Request : Service!Stop(r)
<1>1. pc[t] \in {"quote", "pubkey", "mrenclave", "verify_sig"} /\ kind[req[t]] \in Service!Fatal
  <2>1. CASE QuoteMissing(t)
    BY <2>1 DEF QuoteMissing, Service!Fatal
  <2>2. CASE ReportOutOfReach(t)
    BY <2>2 DEF ReportOutOfReach, Service!Fatal
  <2>3. CASE NoKey(t)
    <3>1. pc[t] = "verify_sig" /\ "key" \notin live[t]
      BY <2>3 DEF NoKey
    <3>2. kind[req[t]] \in Kind /\ kind[req[t]] \notin {"malformed", "throws", "odd_sig", "odd_quote"}
      BY <3>1, ServiceAssumption DEF Inv, TypeOK, ThreadOK, Engaged, KindOK
    <3>3. kind[req[t]] # "sound"
      BY <3>1 DEF Inv, ThreadOK, KeyOK
    <3> QED
      BY <3>1, <3>2, <3>3, ServiceAssumption DEF Service!Fatal
  <2> QED
    BY <2>1, <2>2, <2>3 DEF Fail
<1>2. req[t] \in Request /\ answer[req[t]] = None
  BY <1>1 DEF Inv, TypeOK, ThreadOK, Engaged
<1> QED
  BY <1>1, <1>2, FailStep DEF Service!Stop

(* The handler implements AttestationService: every request is given one answer *)
(* that it may get, about itself, or the process stops at a request that may    *)
(* stop it (App.cpp 83-304).                                                    *)
THEOREM Refines == Spec => RefinesAttestationService
<1>1. Init => Service!Init
  BY DEF Init, Service!Init
<1>2. Inv /\ [Next]_vars => [Service!Next]_Service!vars
  <2> SUFFICES ASSUME Inv, [Next]_vars PROVE Service!Next \/ UNCHANGED Service!vars
    OBVIOUS
  <2>1. ASSUME NEW t \in Thread, Handle(t), ~gone PROVE Service!Next \/ UNCHANGED Service!vars
    <3>1. CASE Finish(t)
      <4>1. Service!Give(req[t])
        BY <2>1, <3>1, FinishAllowed DEF Finish, Allowed, Service!Give
      <4> QED
        BY <2>1, <3>1, <4>1, FinishAllowed DEF Service!Next
    <3>2. CASE UNCHANGED <<kind, answer, gone>>
      BY <3>2 DEF Service!vars
    <3> QED
      BY <2>1, <3>1, <3>2, HandleKeeps
  <2>2. ASSUME NEW t \in Thread, Fail(t), ~gone PROVE Service!Next
    BY <2>2, FailRefines DEF Service!Next
  <2>3. ASSUME NEW t \in Thread, NEW r \in Request, Begin(t, r) PROVE UNCHANGED Service!vars
    BY <2>3 DEF Begin, Service!vars
  <2>4. CASE UNCHANGED vars
    BY <2>4 DEF vars, Service!vars
  <2> QED
    BY <2>1, <2>2, <2>3, <2>4 DEF Next
<1> QED
  BY <1>1, <1>2, InductiveInv, PTL DEF Spec, RefinesAttestationService, Service!Spec

-----------------------------------------------------------------------------
(* Who is answered with a success *)

\* What is known of the two verifications: beyond the first one, that it returned
\* and did not refuse; with a success as the answer, that the second one accepted.
NotRefused(t) ==
    /\ pc[t] \in {"supplement", "verify_quote", "verdict"} => ret[t] \in {1, -1}
    /\ ret_body[t].status = 200 =>
          pc[t] = "unwind" /\ ret[t] \in {1, -1} /\ result[t] \in Accepted

LEMMA StatusOf == \A status, text : Answer(status, text).status = status
BY DEF Answer

\* The variables the verifications are followed by are functions of the thread.
LEMMA ThreadFunctions ==
    ASSUME TypeOK
    PROVE  /\ pc \in [Thread -> Steps] /\ ret_body \in [Thread -> AnswerType]
           /\ ret \in [Thread -> {-1, 0, 1, None}]
           /\ result \in [Thread -> Accepted \cup Refused \cup {None}]
           /\ \A t \in Thread : ret_body[t].status \in {0, 200, 400, 500}
BY DEF TypeOK, AnswerType

\* A guard that runs may fill in the message, and leaves the status alone.
LEMMA UnwindLeaves ==
    ASSUME TypeOK, NEW t \in Thread, Unwind(t)
    PROVE  /\ pc' = pc /\ ret' = ret /\ result' = result
           /\ \A u \in Thread \ {t} : ret_body'[u] = ret_body[u]
           /\ ret_body'[t].status = ret_body[t].status
<1>1. pc' = pc /\ ret' = ret /\ result' = result
  BY DEF Unwind
<1>2. ret_body \in [Thread -> AnswerType] /\ deferred[t] \in GuardStack \ {<<>>}
  BY DEF TypeOK, Unwind
<1>3. Head(deferred[t]) \in {"free_sig", "free_sig_data", "ret"}
  BY <1>2 DEF GuardStack
<1>4. ret_body' = ret_body \/ ret_body' = [ret_body EXCEPT ![t] = [ret_body[t] EXCEPT !.message = id[t]]]
  <2>1. CASE Head(deferred[t]) = "free_sig"
    BY <2>1 DEF Unwind
  <2>2. CASE Head(deferred[t]) = "free_sig_data"
    BY <2>2 DEF Unwind
  <2>3. CASE Head(deferred[t]) = "ret"
    <3>1. \/ ret_body' = ret_body
          \/ ret_body' = [ret_body EXCEPT ![t].message = id[t]]
      BY <2>3 DEF Unwind
    <3> QED
      BY <3>1
  <2> QED
    BY <1>3, <2>1, <2>2, <2>3
<1>5. [ret_body[t] EXCEPT !.message = id[t]].status = ret_body[t].status
  BY <1>2 DEF AnswerType
<1> QED
  BY <1>1, <1>2, <1>4, <1>5

\* A step of a thread keeps what is known of its own verifications.
LEMMA OwnNotRefused ==
    ASSUME TypeOK, NEW t \in Thread, NotRefused(t),
           Handle(t) \/ Fail(t) \/ \E r \in Request : Begin(t, r)
    PROVE  NotRefused(t)'
<1> USE ThreadFunctions, StatusOf DEF NotRefused, local
<1>1. CASE Load(t)
  BY <1>1 DEF Load
<1>2. CASE Sig(t)
  BY <1>2 DEF Sig
<1>3. CASE Quote(t) \/ Account(t) \/ Key(t)
  BY <1>3 DEF Quote, Account, Key
<1>4. CASE Fill(t, "pubkey", "pubkey_text") \/ Fill(t, "mrenclave", "mrenclave_text")
  BY <1>4 DEF Fill
<1>5. CASE \/ Copy(t, "pubkey_text", "mrenclave", "pubkey")
           \/ Copy(t, "mrenclave_text", "account", "mrenclave")
  BY <1>5 DEF Copy
<1>6. CASE VerifySig(t)
  <2>1. PICK r \in IF "key" \in live[t] THEN {1, 0, -1} ELSE {-1} :
           /\ ret' = [ret EXCEPT ![t] = r]
           /\ IF r = 0 THEN Return(t, "verify_sig", 500, "signature_failed")
              ELSE Goto(t, "verify_sig", "supplement") /\ UNCHANGED ret_body
    BY <1>6, Zenon DEF VerifySig
  <2>2. CASE r = 0
    BY <2>1, <2>2
  <2>3. CASE r # 0
    BY <2>1, <2>3
  <2> QED
    BY <2>2, <2>3
<1>7. CASE Supplement(t)
  BY <1>7 DEF Supplement
<1>8. CASE VerifyQuote(t)
  BY <1>8 DEF VerifyQuote
<1>9. CASE Verdict(t)
  BY <1>9 DEF Verdict
<1>10. CASE Unwind(t)
  BY <1>10, UnwindLeaves
<1>11. CASE Finish(t)
  BY <1>11 DEF Finish, Nothing
<1>12. CASE Fail(t)
  BY <1>12 DEF Fail, QuoteMissing, ReportOutOfReach, NoKey, Crash
<1>13. CASE \E r \in Request : Begin(t, r)
  BY <1>13 DEF Begin
<1> QED
  BY <1>1, <1>2, <1>3, <1>4, <1>5, <1>6, <1>7, <1>8, <1>9, <1>10, <1>11, <1>12, <1>13 DEF Handle

\* It leaves the others' verifications alone.
LEMMA OthersNotRefused ==
    ASSUME TypeOK, NEW t \in Thread, NEW u \in Thread, u # t, NotRefused(u),
           Handle(t) \/ Fail(t) \/ \E r \in Request : Begin(t, r)
    PROVE  NotRefused(u)'
<1>1. pc'[u] = pc[u] /\ ret_body'[u] = ret_body[u] /\ ret'[u] = ret[u] /\ result'[u] = result[u]
  <2> USE ThreadFunctions DEF local
  <2>1. CASE Handle(t)
    <3>1. CASE Load(t) \/ Sig(t) \/ Quote(t) \/ Account(t) \/ Key(t) \/ Supplement(t)
      BY <3>1 DEF Load, Sig, Quote, Account, Key, Supplement
    <3>2. CASE Fill(t, "pubkey", "pubkey_text") \/ Fill(t, "mrenclave", "mrenclave_text")
      BY <3>2 DEF Fill
    <3>3. CASE \/ Copy(t, "pubkey_text", "mrenclave", "pubkey")
               \/ Copy(t, "mrenclave_text", "account", "mrenclave")
      BY <3>3 DEF Copy
    <3>4. CASE VerifySig(t) \/ VerifyQuote(t) \/ Verdict(t)
      BY <3>4 DEF VerifySig, VerifyQuote, Verdict
    <3>5. CASE Unwind(t)
      BY <3>5, UnwindLeaves
    <3>6. CASE Finish(t)
      BY <3>6 DEF Finish
    <3> QED
      BY <2>1, <3>1, <3>2, <3>3, <3>4, <3>5, <3>6 DEF Handle
  <2>2. CASE Fail(t)
    BY <2>2 DEF Fail, QuoteMissing, ReportOutOfReach, NoKey, Crash
  <2>3. CASE \E r \in Request : Begin(t, r)
    BY <2>3 DEF Begin
  <2> QED
    BY <2>1, <2>2, <2>3
<1> QED
  BY <1>1 DEF NotRefused

\* The verifications are followed through the handler.
LEMMA NotRefusedStep ==
    ASSUME TypeOK, \A t \in Thread : NotRefused(t), [Next]_vars
    PROVE  \A t \in Thread : NotRefused(t)'
<1>1. ASSUME NEW t \in Thread, Handle(t) \/ Fail(t) \/ \E r \in Request : Begin(t, r),
             NEW u \in Thread
      PROVE  NotRefused(u)'
  BY <1>1, OwnNotRefused, OthersNotRefused
<1>2. CASE UNCHANGED vars
  BY <1>2 DEF vars, local, NotRefused
<1> QED
  BY <1>1, <1>2 DEF Next

\* A step that answers a request with a success is the end of a handler that neither
\* verification refused.
LEMMA SuccessStep ==
    ASSUME TypeOK, \A t \in Thread : NotRefused(t), [Next]_vars,
           NEW r \in Request, answer[r] = None, answer'[r] # None, answer'[r].status = 200
    PROVE  \E t \in Thread : req[t] = r /\ ret[t] \in {1, -1} /\ result[t] \in Accepted
<1>1. PICK t \in Thread : Finish(t)
  <2>1. answer' # answer
    OBVIOUS
  <2>2. ASSUME NEW t \in Thread, Handle(t) PROVE Finish(t)
    <3>1. Load(t) \/ Sig(t) \/ Quote(t) \/ Account(t) \/ Key(t) \/ Supplement(t) => answer' = answer
      BY DEF Load, Sig, Quote, Account, Key, Supplement
    <3>2. VerifySig(t) \/ VerifyQuote(t) \/ Verdict(t) \/ Unwind(t) => answer' = answer
      BY DEF VerifySig, VerifyQuote, Verdict, Unwind
    <3>3. \A from, to : Fill(t, from, to) => answer' = answer
      BY DEF Fill
    <3>4. \A from, to, field : Copy(t, from, to, field) => answer' = answer
      BY DEF Copy
    <3> QED
      BY <2>1, <2>2, <3>1, <3>2, <3>3, <3>4 DEF Handle
  <2>3. ASSUME NEW t \in Thread, Fail(t) \/ \E q \in Request : Begin(t, q) PROVE FALSE
    BY <2>1, <2>3 DEF Fail, QuoteMissing, ReportOutOfReach, NoKey, Crash, Begin
  <2> QED
    BY <2>1, <2>2, <2>3 DEF Next, vars
<1>2. /\ req[t] = r
      /\ answer'[r] = IF thrown[t] THEN [ret_body[t] EXCEPT !.status = 500] ELSE ret_body[t]
  BY <1>1 DEF Finish, TypeOK
<1>3. CASE thrown[t]
  <2>1. [ret_body[t] EXCEPT !.status = 500].status = 500
    BY DEF TypeOK, AnswerType
  <2> QED
    BY <1>2, <1>3, <2>1
<1>4. CASE ~thrown[t]
  BY <1>2, <1>4 DEF NotRefused
<1> QED
  BY <1>3, <1>4

\* A request is answered 200 only by a thread that handles it, to which neither
\* ECDSA_verify nor sgx_qv_verify_quote gave a refusal; an error of ECDSA_verify, -1,
\* is none for the code (App.cpp 146-156, 178-303).
THEOREM RefusalsAlwaysStand == Spec => RefusalsStand
<1>1. Init => \A t \in Thread : NotRefused(t)
  BY DEF Init, NotRefused, Nothing, Answer
<1>2. TypeOK /\ (\A t \in Thread : NotRefused(t)) /\ [Next]_vars
         => (\A t \in Thread : NotRefused(t))'
  BY NotRefusedStep
<1>3. TypeOK /\ (\A t \in Thread : NotRefused(t)) /\ [Next]_vars
         => [\A r \in Request :
                answer[r] = None /\ answer'[r] # None /\ answer'[r].status = 200 =>
                   \E t \in Thread : req[t] = r /\ ret[t] \in {1, -1} /\ result[t] \in Accepted]_vars
  BY SuccessStep
<1>4. Inv => TypeOK
  BY DEF Inv
<1> QED
  BY <1>1, <1>2, <1>3, <1>4, InductiveInv, PTL DEF Spec, RefusalsStand
=============================================================================
