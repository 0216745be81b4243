-------------------------- MODULE HttpServer_proofs --------------------------
(***************************************************************************)
(* Proofs about HttpServer, for every number of connections and threads.   *)
(***************************************************************************)
EXTENDS HttpServer, SequenceTheorems, TLAPS

USE DEF Open, Request

Busy == {"alive", "request", "piece", "reading", "respond", "close", "stop", "stop_assert", "stop_exchange", "stop_close"}

\* Where the threads are when: a connection is held only to be enqueued, none is
\* enqueued once the shutdown is announced, and threads leave only after it.
Phases ==
    /\ listener = "enqueue" <=> accepted # None
    /\ shutdown <=> listener \in {"notify", "join", "returned"}
    /\ \A w \in Worker : pc[w] = "exited" => shutdown /\ jobs = <<>>
    /\ \A w \in Worker : cur[w] # None <=> pc[w] \in Busy
    /\ \A w \in Worker : pc[w] \in Busy \ {"alive", "close"} => count[w] > 0
    /\ listener = "returned" => \A w \in Worker : pc[w] = "exited"

IInv == TypeOK /\ Phases /\ OneOwner /\ SomeoneAwake

-----------------------------------------------------------------------------
(* Types *)

\* The initial state is well typed.
LEMMA InitTypeOK == ASSUME Init PROVE TypeOK
<1>1. /\ conn \in [Conn -> {"new", "backlog", "refused", "closed"} \cup Open]
      /\ inbox \in [Conn -> Seq(Request)]
      /\ sent \in Nat
      /\ hungUp \subseteq Conn
  BY DEF Init
<1>2. /\ listener \in {"check", "accept", "enqueue", "close", "shutdown", "notify", "join", "returned"}
      /\ svrSock \in {"set", "invalid"}
      /\ svrCloses \in Nat
      /\ accepted \in Conn \cup {None}
      /\ jobs \in Seq(Conn)
  BY DEF Init
<1>3. /\ pc \in [Worker -> {"check", "waiting", "exited"} \cup Busy]
      /\ cur \in [Worker -> Conn \cup {None}]
  BY DEF Init
<1>4. count \in [Worker -> 0 .. KeepAliveMax]
  BY ServerAssumption DEF Init
<1>5. taken \in [Worker -> BOOLEAN]
  BY Zenon DEF Init
<1>6. listening \in BOOLEAN /\ isRunning \in BOOLEAN /\ aborted \in BOOLEAN /\ shutdown \in BOOLEAN
  BY DEF Init
<1>7. QED BY <1>1, <1>2, <1>3, <1>4, <1>5, <1>6 DEF TypeOK, Busy

\* A client's step keeps the types.
LEMMA ClientTypeOK ==
    ASSUME TypeOK, NEW c \in Conn, Client(c)
    PROVE  TypeOK'
<1>1. CASE Connect(c)
  BY <1>1 DEF Connect, TypeOK, clientVars, listenVars, poolVars
<1>2. CASE HangUp(c)
  BY <1>2 DEF HangUp, TypeOK, clientVars, listenVars, poolVars
<1>3. ASSUME NEW request \in Request, Send(c, request) PROVE TypeOK'
  BY <1>3 DEF Send, TypeOK, clientVars, listenVars, poolVars
<1>4. CASE SendPiece(c)
  BY <1>4 DEF SendPiece, TypeOK, clientVars, listenVars
<1>5. QED BY <1>1, <1>2, <1>3, <1>4 DEF Client

\* The connections that nobody accepted are refused, the others left alone.
LEMMA RefusedType ==
    ASSUME TypeOK
    PROVE  /\ Refused \in [Conn -> {"new", "backlog", "refused", "closed"} \cup Open]
           /\ \A c \in Conn : \A s \in Open : Refused[c] = s <=> conn[c] = s
BY DEF TypeOK, Refused

\* A step of the listening thread keeps the types.
LEMMA ListenTypeOK ==
    ASSUME TypeOK, Phases, Listen \/ AcceptError
    PROVE  TypeOK'
<1> USE DEF TypeOK, clientVars, listenVars, poolVars
<1>1. CASE CheckSocket
  BY <1>1 DEF CheckSocket
<1>2. CASE AcceptExhausted
  BY <1>2 DEF AcceptExhausted
<1>3. CASE AcceptFails
  BY <1>3 DEF AcceptFails
<1>4. CASE CloseListening
  <2>1. conn' \in [Conn -> {"new", "backlog", "refused", "closed"} \cup Open]
    BY <1>4, RefusedType DEF CloseListening
  <2>2. svrCloses' \in Nat
    BY <1>4 DEF CloseListening
  <2>3. listening' \in BOOLEAN
    BY <1>4 DEF CloseListening
  <2>4. QED BY <1>4, <2>1, <2>2, <2>3 DEF CloseListening
<1>5. ASSUME NEW c \in Conn, Accept(c) PROVE TypeOK'
  BY <1>5 DEF Accept
<1>6. CASE Enqueue
  <2>1. accepted \in Conn
    BY <1>6 DEF Enqueue, Phases
  <2>2. jobs' \in Seq(Conn)
    BY <1>6, <2>1 DEF Enqueue
  <2>3. pc' \in [Worker -> {"check", "waiting", "exited"} \cup Busy]
    <3>1. CASE Waiting = {}
      BY <1>6, <3>1 DEF Enqueue, Busy
    <3>2. CASE Waiting # {}
      <4>1. PICK w \in Waiting : pc' = [pc EXCEPT ![w] = "check"]
        BY <1>6, <3>2 DEF Enqueue
      <4>2. QED BY <4>1 DEF Busy
    <3>3. QED BY <3>1, <3>2
  <2>4. QED BY <1>6, <2>1, <2>2, <2>3 DEF Enqueue, Busy
<1>7. CASE Shutdown
  BY <1>7 DEF Shutdown
<1>8. CASE NotifyAll
  BY <1>8 DEF NotifyAll
<1>9. CASE Join
  BY <1>9 DEF Join
<1>10. QED
  <2>1. CASE Listen
    BY <2>1, <1>1, <1>2, <1>3, <1>4, <1>5, <1>6, <1>7, <1>8, <1>9 DEF Listen, AcceptClosed
  <2>2. CASE AcceptError
    BY <2>2, <1>3 DEF AcceptError
  <2>3. QED BY <2>1, <2>2

\* A step of a thread of the pool keeps the types.
LEMMA WorkTypeOK ==
    ASSUME TypeOK, Phases, NEW w \in Worker, Work(w) \/ WakeSpuriously(w)
    PROVE  TypeOK'
<1> USE DEF TypeOK, clientVars, listenVars, poolVars, Step
<1>1. CASE Take(w)
  <2>1. Head(jobs) \in Conn /\ Tail(jobs) \in Seq(Conn)
    BY <1>1, HeadTailProperties DEF Take
  <2>2. count' \in [Worker -> 0 .. KeepAliveMax]
    BY <1>1, ServerAssumption DEF Take
  <2>3. QED BY <1>1, <2>1, <2>2 DEF Take
<1>2. CASE WaitOrExit(w)
  BY <1>2 DEF WaitOrExit
<1>3. CASE Readable(w)
  BY <1>3 DEF Readable
<1>4. CASE KeepAliveEnds(w)
  BY <1>4 DEF KeepAliveEnds
<1>5. CASE ReadNothing(w)
  BY <1>5 DEF ReadNothing
<1>6. CASE ReadRequest(w)
  <2>1. cur[w] \in Conn
    BY <1>6 DEF ReadRequest, Phases, Busy
  <2>2. inbox' \in [Conn -> Seq(Request)]
    BY <1>6, <2>1, HeadTailProperties DEF ReadRequest
  <2>3. QED BY <1>6, <2>2 DEF ReadRequest
<1>8. CASE Close(w)
  <2>1. cur[w] \in Conn
    BY <1>8 DEF Close, Phases, Busy
  <2>2. count' \in [Worker -> 0 .. KeepAliveMax]
    BY <1>8, ServerAssumption DEF Close
  <2>3. inbox' \in [Conn -> Seq(Request)] /\ hungUp' \subseteq Conn
    BY <1>8, <2>1 DEF Close
  <2>4. QED BY <1>8, <2>1, <2>2, <2>3 DEF Close
<1>9. CASE StopCheck(w)
  BY <1>9 DEF StopCheck
<1>10. CASE StopAssert(w)
  BY <1>10 DEF StopAssert
<1>11. CASE StopExchange(w)
  <2>1. taken' \in [Worker -> BOOLEAN]
    BY <1>11, Zenon DEF StopExchange
  <2>2. QED BY <1>11, <2>1 DEF StopExchange
<1>12. CASE StopClose(w)
  <2>1. conn' \in [Conn -> {"new", "backlog", "refused", "closed"} \cup Open]
    BY <1>12, RefusedType DEF StopClose
  <2>2. svrCloses' \in Nat
    BY <1>12 DEF StopClose
  <2>3. listening' \in BOOLEAN
    BY <1>12 DEF StopClose
  <2>4. taken' \in [Worker -> BOOLEAN]
    BY <1>12, Zenon DEF StopClose
  <2>5. QED BY <1>12, <2>1, <2>2, <2>3, <2>4 DEF StopClose
<1>13. CASE WakeSpuriously(w)
  BY <1>13 DEF WakeSpuriously
<1>7. CASE Respond(w)
  <2>1. PICK next \in {"alive", "close"} : Step(w, "respond", next)
    BY <1>7 DEF Respond
  <2>2. pc' \in [Worker -> {"check", "waiting", "exited"} \cup Busy]
    BY <2>1 DEF Busy
  <2>3. count' \in [Worker -> 0 .. KeepAliveMax]
    <3>1. pc[w] = "respond"
      BY <2>1
    <3>2. count[w] > 0
      BY <3>1 DEF Phases, Busy
    <3>3. count[w] \in 0 .. KeepAliveMax /\ KeepAliveMax \in Nat
      BY ServerAssumption
    <3>4. count[w] - 1 \in 0 .. KeepAliveMax
      BY <3>2, <3>3
    <3>5. count' = [count EXCEPT ![w] = count[w] - 1] \/ count' = count
      BY <1>7, <2>1 DEF Respond
    <3>6. QED BY <3>4, <3>5
  <2>4. QED BY <1>7, <2>2, <2>3 DEF Respond, Busy
<1>14. CASE ReadPiece(w)
  BY <1>14 DEF ReadPiece
<1>15. CASE ReadFails(w)
  <2>1. PICK next \in {"close", "respond"} : Step(w, "reading", next)
    BY <1>15 DEF ReadFails
  <2>2. pc' \in [Worker -> {"check", "waiting", "exited"} \cup Busy]
    BY <2>1 DEF Busy
  <2>3. QED BY <1>15, <2>2 DEF ReadFails, Busy
<1>16. QED
  BY <1>1, <1>2, <1>3, <1>4, <1>5, <1>6, <1>7, <1>8, <1>9, <1>10, <1>11, <1>12, <1>13, <1>14, <1>15 DEF Work

-----------------------------------------------------------------------------
(* The inductive invariant *)

\* A step of a busy thread that stays busy, and moves no connection.
StaysBusy(w) ==
    /\ pc[w] \in Busy
    /\ \E next \in Busy : pc' = [pc EXCEPT ![w] = next]
    /\ pc'[w] \in Busy \ {"alive", "close"} => count'[w] > 0
    /\ \A v \in Worker : v # w => count'[v] = count[v]
    /\ \A c \in Conn : \A s \in Open : conn'[c] = s <=> conn[c] = s
    /\ UNCHANGED <<listener, accepted, jobs, shutdown, cur>>

\* Such a step keeps the invariant.
LEMMA StaysBusyInv ==
    ASSUME IInv, NEW w \in Worker, StaysBusy(w)
    PROVE  (Phases /\ OneOwner /\ SomeoneAwake)'
<1>1. PICK next \in Busy : pc' = [pc EXCEPT ![w] = next]
  BY DEF StaysBusy
<1>2. /\ pc'[w] = next
      /\ \A v \in Worker : v # w => pc'[v] = pc[v]
  BY <1>1 DEF IInv, TypeOK
<1>3. Phases'
  BY <1>2 DEF StaysBusy, IInv, Phases, Busy
<1>4. OneOwner'
  BY DEF StaysBusy, IInv, OneOwner
<1>5. SomeoneAwake'
  BY <1>2 DEF StaysBusy, IInv, SomeoneAwake, Waiting, Busy
<1>6. QED BY <1>3, <1>4, <1>5

\* A client's step keeps the invariant.
LEMMA ClientInv ==
    ASSUME IInv, NEW c \in Conn, Client(c)
    PROVE  (Phases /\ OneOwner /\ SomeoneAwake)'
<1>1. CASE SendPiece(c)
  <2>1. PICK w \in Worker : /\ pc[w] = "reading" \/ (pc[w] = "alive" /\ count[w] > 0)
                           /\ pc' = [pc EXCEPT ![w] = "piece"]
    BY <1>1 DEF SendPiece
  <2>2. StaysBusy(w)
    BY <1>1, <2>1 DEF SendPiece, StaysBusy, Busy, IInv, TypeOK, Phases, listenVars
  <2>3. QED BY <2>2, StaysBusyInv
<1>2. CASE Connect(c) \/ HangUp(c) \/ \E request \in Request : Send(c, request)
  <2>1. /\ UNCHANGED <<listener, accepted, jobs, shutdown, pc, cur, count>>
        /\ \A d \in Conn : \A s \in Open : conn'[d] = s <=> conn[d] = s
    BY <1>2 DEF Connect, Send, HangUp, listenVars, poolVars, IInv, TypeOK
  <2>2. QED BY <2>1 DEF IInv, Phases, OneOwner, SomeoneAwake, Waiting
<1>3. QED BY <1>1, <1>2 DEF Client

\* A step of the listening thread keeps the invariant.
LEMMA ListenInv ==
    ASSUME IInv, Listen \/ AcceptError
    PROVE  (Phases /\ OneOwner /\ SomeoneAwake)'
<1> USE DEF clientVars, listenVars, poolVars
<1>1. ASSUME CheckSocket \/ AcceptExhausted \/ AcceptFails \/ CloseListening
      PROVE  (Phases /\ OneOwner /\ SomeoneAwake)'
  <2>1. /\ UNCHANGED <<accepted, jobs, shutdown, pc, cur, count>>
        /\ listener \in {"check", "accept", "close"}
        /\ listener' \in {"check", "accept", "close", "shutdown"}
    BY <1>1 DEF CheckSocket, AcceptExhausted, AcceptFails, CloseListening
  <2>2. \A c \in Conn : \A st \in Open : conn'[c] = st <=> conn[c] = st
    BY <1>1, RefusedType DEF CheckSocket, AcceptExhausted, AcceptFails, CloseListening, IInv
  <2>3. Phases'
    BY <2>1 DEF IInv, Phases
  <2>4. OneOwner'
    BY <2>1, <2>2 DEF IInv, OneOwner
  <2>5. SomeoneAwake'
    BY <2>1 DEF IInv, SomeoneAwake, Waiting
  <2>6. QED BY <2>3, <2>4, <2>5
<1>2. ASSUME NEW c \in Conn, Accept(c) PROVE (Phases /\ OneOwner /\ SomeoneAwake)'
  <2>1. /\ listener = "accept" /\ listener' = "enqueue"
        /\ accepted = None /\ accepted' = c /\ c # None
        /\ UNCHANGED <<jobs, shutdown, pc, cur, count>>
        /\ conn[c] = "backlog" /\ conn'[c] = "held"
        /\ \A d \in Conn : d # c => conn'[d] = conn[d]
    BY <1>2, ServerAssumption DEF Accept, IInv, Phases, TypeOK
  <2>2. Phases'
    BY <2>1 DEF IInv, Phases
  <2>3. OneOwner'
    <3>1. \A d \in Conn : conn'[d] = "held" <=> accepted' = d
      BY <2>1, ServerAssumption DEF IInv, OneOwner
    <3>2. \A d \in Conn : \A st \in {"queued", "served"} : conn'[d] = st <=> conn[d] = st
      BY <2>1
    <3>3. QED BY <2>1, <3>1, <3>2 DEF IInv, OneOwner
  <2>4. SomeoneAwake'
    BY <2>1 DEF IInv, SomeoneAwake, Waiting
  <2>5. QED BY <2>2, <2>3, <2>4
<1>3. CASE Enqueue
  <2> DEFINE c == accepted
  <2>1. /\ c \in Conn /\ c # None /\ conn[c] = "held"
        /\ listener = "enqueue" /\ ~shutdown
    BY <1>3 DEF Enqueue, IInv, Phases, TypeOK, OneOwner
  <2>2. /\ listener' = "check" /\ accepted' = None
        /\ conn'[c] = "queued"
        /\ \A d \in Conn : d # c => conn'[d] = conn[d]
        /\ UNCHANGED <<shutdown, cur, count>>
    BY <1>3, <2>1 DEF Enqueue, IInv, TypeOK
  <2>3. /\ DOMAIN jobs' = 1 .. Len(jobs) + 1
        /\ DOMAIN jobs = 1 .. Len(jobs)
        /\ Len(jobs) \in Nat
        /\ jobs'[Len(jobs) + 1] = c
        /\ \A i \in DOMAIN jobs : jobs'[i] = jobs[i]
    BY <1>3, <2>1 DEF Enqueue, IInv, TypeOK
  <2>4. \A i \in DOMAIN jobs : jobs[i] # c
    BY <2>1 DEF IInv, OneOwner
  <2>5. OneOwner'
    <3>1. \A d \in Conn : conn'[d] = "held" <=> accepted' = d
      BY <2>1, <2>2, ServerAssumption DEF IInv, OneOwner
    <3>2. \A d \in Conn : conn'[d] = "queued" <=> \E i \in DOMAIN jobs' : jobs'[i] = d
      BY <2>1, <2>2, <2>3 DEF IInv, OneOwner
    <3>3. \A i, j \in DOMAIN jobs' : jobs'[i] = jobs'[j] => i = j
      BY <2>3, <2>4 DEF IInv, OneOwner
    <3>4. /\ \A d \in Conn : conn'[d] = "served" <=> \E w \in Worker : cur'[w] = d
          /\ \A v, w \in Worker : cur'[v] = cur'[w] /\ cur'[v] # None => v = w
      BY <2>1, <2>2 DEF IInv, OneOwner
    <3>5. QED BY <3>1, <3>2, <3>3, <3>4 DEF OneOwner
  <2>6. /\ \A w \in Worker : pc'[w] # pc[w] => pc[w] = "waiting" /\ pc'[w] = "check"
        /\ Waiting # {} => \E w \in Worker : pc'[w] = "check"
    BY <1>3 DEF Enqueue, Waiting, IInv, TypeOK
  <2>7. Phases'
    BY <2>1, <2>2, <2>6 DEF IInv, Phases, Busy
  <2>8. SomeoneAwake'
    <3>1. \E w \in Worker : pc'[w] \notin {"waiting", "exited"}
      <4>1. CASE Waiting # {}
        BY <2>6, <4>1
      <4>2. CASE Waiting = {}
        BY <2>1, <2>6, <4>2, ServerAssumption DEF IInv, Phases, Waiting
      <4>3. QED BY <4>1, <4>2
    <3>2. QED BY <2>2, <3>1 DEF SomeoneAwake
  <2>9. QED BY <2>5, <2>7, <2>8
<1>4. CASE Shutdown
  BY <1>4 DEF Shutdown, IInv, Phases, OneOwner, SomeoneAwake, Waiting
<1>5. CASE NotifyAll
  <2>1. /\ listener = "notify" /\ listener' = "join"
        /\ UNCHANGED <<conn, accepted, jobs, shutdown, cur, count>>
        /\ \A w \in Worker : pc'[w] = IF pc[w] = "waiting" THEN "check" ELSE pc[w]
    BY <1>5 DEF NotifyAll, Waiting
  <2>2. Phases' /\ OneOwner'
    BY <2>1 DEF IInv, Phases, OneOwner, Busy
  <2>3. SomeoneAwake'
    BY <2>1 DEF IInv, SomeoneAwake, Waiting
  <2>4. QED BY <2>2, <2>3
<1>6. CASE Join
  BY <1>6 DEF Join, IInv, Phases, OneOwner, SomeoneAwake, Waiting
<1>7. QED
  <2>1. CASE Listen
    BY <2>1, <1>1, <1>2, <1>3, <1>4, <1>5, <1>6 DEF Listen, AcceptClosed
  <2>2. CASE AcceptError
    BY <2>2, <1>1 DEF AcceptError
  <2>3. QED BY <2>1, <2>2

\* A step of a thread of the pool keeps the invariant.
LEMMA WorkInv ==
    ASSUME IInv, NEW w \in Worker, Work(w) \/ WakeSpuriously(w)
    PROVE  (Phases /\ OneOwner /\ SomeoneAwake)'
<1> USE DEF clientVars, listenVars, poolVars
<1>1. CASE Take(w)
  <2> DEFINE c == Head(jobs)
  <2>0. 1 \in DOMAIN jobs /\ c = jobs[1] /\ c \in Conn
    BY <1>1 DEF Take, IInv, TypeOK
  <2>1. /\ pc[w] = "check" /\ cur[w] = None
        /\ c \in Conn /\ c # None /\ c = jobs[1] /\ conn[c] = "queued"
        /\ 1 \in DOMAIN jobs
    <3>1. pc[w] = "check" /\ cur[w] = None
      BY <1>1 DEF Take, IInv, Phases, Busy
    <3>2. conn[c] = "queued"
      BY <2>0 DEF IInv, OneOwner
    <3>3. QED BY <2>0, <3>1, <3>2, ServerAssumption
  <2>2. /\ pc'[w] = "alive" /\ \A v \in Worker : v # w => pc'[v] = pc[v]
        /\ cur'[w] = c /\ \A v \in Worker : v # w => cur'[v] = cur[v]
        /\ \A v \in Worker : v # w => count'[v] = count[v]
        /\ conn'[c] = "served" /\ \A d \in Conn : d # c => conn'[d] = conn[d]
        /\ UNCHANGED <<listener, accepted, shutdown>>
    BY <1>1, <2>1 DEF Take, IInv, TypeOK
  <2>3. /\ DOMAIN jobs = 1 .. Len(jobs) /\ Len(jobs) \in Nat \ {0}
        /\ DOMAIN jobs' = 1 .. Len(jobs) - 1
        /\ \A i \in DOMAIN jobs' : jobs'[i] = jobs[i + 1] /\ i + 1 \in DOMAIN jobs
        /\ \A i \in DOMAIN jobs : i # 1 => i - 1 \in DOMAIN jobs' /\ jobs'[i - 1] = jobs[i]
    BY <1>1 DEF Take, IInv, TypeOK
  <2>4. Phases'
    BY <1>1, <2>1, <2>2 DEF Take, IInv, Phases, Busy
  <2>5. OneOwner'
    <3>1. \A d \in Conn : conn'[d] = "held" <=> accepted' = d
      BY <2>1, <2>2 DEF IInv, OneOwner
    <3>2. \A i, j \in DOMAIN jobs' : jobs'[i] = jobs'[j] => i = j
      BY <2>3 DEF IInv, OneOwner
    <3>3. \A i \in DOMAIN jobs' : jobs'[i] # c
      BY <2>1, <2>3 DEF IInv, OneOwner
    <3>4. \A d \in Conn : d # c => ((\E i \in DOMAIN jobs' : jobs'[i] = d) <=> \E i \in DOMAIN jobs : jobs[i] = d)
      BY <2>1, <2>3
    <3>5. \A d \in Conn : conn'[d] = "queued" <=> \E i \in DOMAIN jobs' : jobs'[i] = d
      BY <2>2, <3>3, <3>4 DEF IInv, OneOwner
    <3>6. \A v \in Worker : cur[v] # c
      BY <2>1 DEF IInv, OneOwner
    <3>7. \A d \in Conn : conn'[d] = "served" <=> \E v \in Worker : cur'[v] = d
      BY <2>1, <2>2, <3>6, ServerAssumption DEF IInv, OneOwner
    <3>8. \A u, v \in Worker : cur'[u] = cur'[v] /\ cur'[u] # None => u = v
      BY <2>2, <3>6 DEF IInv, OneOwner
    <3>9. QED BY <3>1, <3>2, <3>5, <3>7, <3>8 DEF OneOwner
  <2>6. SomeoneAwake'
    BY <2>2 DEF IInv, SomeoneAwake, Waiting
  <2>7. QED BY <2>4, <2>5, <2>6
<1>2. CASE WaitOrExit(w)
  <2>1. /\ pc[w] = "check" /\ jobs = <<>>
        /\ pc'[w] = IF shutdown THEN "exited" ELSE "waiting"
        /\ \A v \in Worker : v # w => pc'[v] = pc[v]
        /\ UNCHANGED <<conn, listener, accepted, jobs, shutdown, cur, count>>
    BY <1>2 DEF WaitOrExit, IInv, TypeOK
  <2>2. Phases' /\ OneOwner'
    BY <2>1 DEF IInv, Phases, OneOwner, Busy
  <2>3. SomeoneAwake'
    BY <2>1 DEF IInv, Phases, SomeoneAwake, Waiting
  <2>4. QED BY <2>2, <2>3
<1>3. CASE WakeSpuriously(w)
  <2>1. /\ pc[w] = "waiting" /\ pc'[w] = "check"
        /\ \A v \in Worker : v # w => pc'[v] = pc[v]
        /\ UNCHANGED <<conn, listener, accepted, jobs, shutdown, cur, count>>
    BY <1>3 DEF WakeSpuriously, IInv, TypeOK
  <2>2. Phases' /\ OneOwner'
    BY <2>1 DEF IInv, Phases, OneOwner, Busy
  <2>3. SomeoneAwake'
    BY <2>1 DEF IInv, SomeoneAwake, Waiting
  <2>4. QED BY <2>2, <2>3
<1>4. CASE Close(w)
  <2>1. /\ pc[w] = "close" /\ pc'[w] = "check"
        /\ \A v \in Worker : v # w => pc'[v] = pc[v]
        /\ cur[w] \in Conn /\ cur'[w] = None
        /\ \A v \in Worker : v # w => cur'[v] = cur[v]
        /\ conn[cur[w]] = "served" /\ conn'[cur[w]] = "closed"
        /\ \A d \in Conn : d # cur[w] => conn'[d] = conn[d]
        /\ \A v \in Worker : v # w => count'[v] = count[v]
        /\ UNCHANGED <<listener, accepted, jobs, shutdown>>
    BY <1>4 DEF Close, Step, IInv, TypeOK, Phases, Busy, OneOwner
  <2>2. Phases'
    BY <2>1 DEF IInv, Phases, Busy
  <2>3. OneOwner'
    BY <2>1, ServerAssumption DEF IInv, OneOwner
  <2>4. SomeoneAwake'
    BY <2>1 DEF IInv, SomeoneAwake, Waiting
  <2>5. QED BY <2>2, <2>3, <2>4
<1>5. ASSUME \/ Readable(w) \/ KeepAliveEnds(w) \/ ReadNothing(w)
             \/ ReadPiece(w) \/ ReadFails(w) \/ ReadRequest(w)
      PROVE  StaysBusy(w)
  BY <1>5 DEF Readable, KeepAliveEnds, ReadNothing, ReadPiece, ReadFails, ReadRequest, Step, StaysBusy, Busy, IInv, TypeOK, Phases
<1>6. CASE Respond(w)
  <2>1. PICK next \in {"alive", "close"} : pc[w] = "respond" /\ pc' = [pc EXCEPT ![w] = next]
    BY <1>6 DEF Respond, Step
  <2>2. StaysBusy(w)
    BY <1>6, <2>1 DEF Respond, StaysBusy, Busy, IInv, TypeOK
  <2>3. QED BY <2>2, StaysBusyInv
<1>7. ASSUME StopCheck(w) \/ StopAssert(w) \/ StopExchange(w)
      PROVE  StaysBusy(w)
  BY <1>7 DEF StopCheck, StopAssert, StopExchange, Step, StaysBusy, Busy, IInv, TypeOK, Phases
<1>8. ASSUME StopClose(w) PROVE StaysBusy(w)
  <2>1. \A c \in Conn : \A st \in Open : conn'[c] = st <=> conn[c] = st
    BY <1>8, RefusedType DEF StopClose, IInv
  <2>2. QED BY <1>8, <2>1 DEF StopClose, Step, StaysBusy, Busy, IInv, TypeOK, Phases
<1>9. QED
  BY <1>1, <1>2, <1>3, <1>4, <1>5, <1>6, <1>7, <1>8, StaysBusyInv DEF Work

\* The invariant holds at the start.
LEMMA InitInv == ASSUME Init PROVE IInv
<1>1. TypeOK
  BY InitTypeOK
<1>2. Phases /\ OneOwner /\ SomeoneAwake
  BY ServerAssumption DEF Init, Phases, OneOwner, SomeoneAwake, Waiting, Busy
<1>3. QED BY <1>1, <1>2 DEF IInv

\* Every step keeps the invariant.
LEMMA NextInv == ASSUME IInv, [Next]_vars PROVE IInv'
<1>1. CASE Listen \/ AcceptError
  BY <1>1, ListenTypeOK, ListenInv DEF IInv
<1>2. ASSUME NEW w \in Worker, Work(w) \/ WakeSpuriously(w) PROVE IInv'
  BY <1>2, WorkTypeOK, WorkInv DEF IInv
<1>3. ASSUME NEW c \in Conn, Client(c) PROVE IInv'
  BY <1>3, ClientTypeOK, ClientInv DEF IInv
<1>4. CASE UNCHANGED vars
  BY <1>4 DEF vars, clientVars, listenVars, poolVars, IInv, TypeOK, Phases, OneOwner, SomeoneAwake, Waiting
<1>5. QED BY <1>1, <1>2, <1>3, <1>4 DEF Next

-----------------------------------------------------------------------------
(* Theorems *)

\* The server's threads keep to the invariant: who owns a connection, and who
\* is awake, follows from where the threads are (httplib.h 513-579, 5032-5095).
THEOREM InductiveInv == Spec => []IInv
BY InitInv, NextInv, PTL DEF Spec

\* The variables of server, pool and clients keep their types; no thread serves
\* more requests of a connection than it may.
THEOREM TypeCorrect == Spec => []TypeOK
<1>1. IInv => TypeOK
  BY DEF IInv
<1>2. QED BY <1>1, InductiveInv, PTL

\* No connection is ever served by two threads, queued twice or mislaid, for any
\* number of connections and threads.
THEOREM AlwaysOneOwner == Spec => []OneOwner
<1>1. IInv => OneOwner
  BY DEF IInv
<1>2. QED BY <1>1, InductiveInv, PTL

\* No wake-up is lost between the queue, the shutdown and the waiting threads.
THEOREM AlwaysSomeoneAwake == Spec => []SomeoneAwake
<1>1. IInv => SomeoneAwake
  BY DEF IInv
<1>2. QED BY <1>1, InductiveInv, PTL

\* listen returns with every connection it accepted closed.
THEOREM AlwaysDrained == Spec => []ReturnsDrained
<1>1. ASSUME IInv PROVE ReturnsDrained
  <2>1. ASSUME listener = "returned", NEW c \in Conn PROVE conn[c] \notin Open
    <3>1. jobs = <<>> /\ accepted = None
      BY <1>1, <2>1, ServerAssumption DEF IInv, Phases
    <3>2. \A w \in Worker : cur[w] = None
      BY <1>1, <2>1 DEF IInv, Phases, Busy
    <3>3. QED BY <1>1, <2>1, <3>1, <3>2, ServerAssumption DEF IInv, OneOwner
  <2>2. QED BY <2>1 DEF ReturnsDrained
<1>2. QED BY <1>1, InductiveInv, PTL

-----------------------------------------------------------------------------
(* Who closes the listening socket *)

\* The socket is in svr_sock_, or with the one thread that took it out, or it was
\* closed by that thread.
OneTaker ==
    /\ svrSock = "set" => svrCloses = 0 /\ \A w \in Worker : ~taken[w]
    /\ \A w \in Worker : taken[w] => svrCloses = 0
    /\ \A v, w \in Worker : taken[v] /\ taken[w] => v = w
    /\ svrCloses <= 1

\* Only the exchange and the close of a stop touch what OneTaker speaks of.
LEMMA OneTakerStep ==
    ASSUME TypeOK, OneTaker, [Next]_vars
    PROVE  OneTaker'
<1> USE DEF clientVars, listenVars, poolVars
<1>1. CASE UNCHANGED <<svrSock, svrCloses, taken>>
  BY <1>1 DEF OneTaker
<1>2. ASSUME NEW w \in Worker, StopExchange(w)
      PROVE  OneTaker'
  <2>1. /\ svrSock' = "invalid" /\ svrCloses' = svrCloses
        /\ taken'[w] = (svrSock = "set")
        /\ \A v \in Worker : v # w => taken'[v] = taken[v]
    BY <1>2 DEF StopExchange, TypeOK
  <2> QED
    BY <2>1 DEF OneTaker
<1>3. ASSUME NEW w \in Worker, StopClose(w)
      PROVE  OneTaker'
  <2>1. /\ svrSock' = svrSock
        /\ svrCloses' = IF taken[w] THEN svrCloses + 1 ELSE svrCloses
        /\ ~taken'[w]
        /\ \A v \in Worker : v # w => taken'[v] = taken[v]
    BY <1>3 DEF StopClose, TypeOK
  <2>2. CASE taken[w]
    <3>1. svrCloses = 0 /\ svrSock # "set"
      BY <2>2 DEF OneTaker
    <3>2. svrCloses' = 1
      BY <2>1, <2>2, <3>1
    <3>3. \A v \in Worker : ~taken'[v]
      BY <2>1, <2>2, Zenon DEF OneTaker
    <3> QED
      BY <2>1, <3>1, <3>2, <3>3 DEF OneTaker
  <2>3. CASE ~taken[w]
    <3>1. svrCloses' = svrCloses
      BY <2>1, <2>3
    <3>2. \A v \in Worker : taken'[v] => taken[v]
      BY <2>1, <2>3, Zenon
    <3> QED
      BY <2>1, <3>1, <3>2, Zenon DEF OneTaker
  <2> QED
    BY <2>2, <2>3
<1>4. ASSUME Listen \/ AcceptError
      PROVE  UNCHANGED <<svrSock, svrCloses, taken>>
  BY <1>4 DEF Listen, CheckSocket, AcceptExhausted, AcceptClosed, AcceptError, AcceptFails,
              CloseListening, Accept, Enqueue, Shutdown, NotifyAll, Join
<1>5. ASSUME NEW w \in Worker, Work(w) \/ WakeSpuriously(w),
             ~StopExchange(w), ~StopClose(w)
      PROVE  UNCHANGED <<svrSock, svrCloses, taken>>
  BY <1>5 DEF Work, WakeSpuriously, Take, WaitOrExit, Readable, KeepAliveEnds, ReadNothing,
              ReadPiece, ReadFails, ReadRequest, Respond, Close, StopCheck, StopAssert
<1>6. ASSUME NEW c \in Conn, Client(c)
      PROVE  UNCHANGED <<svrSock, svrCloses, taken>>
  BY <1>6 DEF Client, Connect, Send, SendPiece, HangUp
<1>7. CASE UNCHANGED vars
  BY <1>1, <1>7 DEF vars
<1> QED
  BY <1>1, <1>2, <1>3, <1>4, <1>5, <1>6, <1>7 DEF Next

\* Of any number of requests to stop, one closes the listening socket
\* (httplib.h 4663-4670).
THEOREM AlwaysClosedOnce == Spec => []ClosedOnce
<1>1. Init => OneTaker
  BY DEF Init, OneTaker
<1>2. TypeOK /\ OneTaker /\ [Next]_vars => OneTaker'
  BY OneTakerStep
<1>3. OneTaker => ClosedOnce
  BY DEF OneTaker, ClosedOnce
<1> QED
  BY <1>1, <1>2, <1>3, TypeCorrect, PTL DEF Spec
=============================================================================
