----------------------------- MODULE HttpServer ------------------------------
(***************************************************************************)
(* The HTTP server that the DCAP service runs (sgx/src/include/httplib.h): *)
(* a thread that listens and hands each connection it accepts to a pool of *)
(* threads, which serve the requests of one connection at a time and close *)
(* it.  A handler may stop the server from within a request, as the        *)
(* handler of /stop does (sgx/src/App.cpp 79-81).                          *)
(*                                                                         *)
(* What is served is left to HttpRequest and DcapService: here a request   *)
(* stops the server or does not, and its connection goes on or ends.  A    *)
(* client may send it in pieces: a thread waits a bounded time for each     *)
(* piece and any number of times for the next.                             *)
(***************************************************************************)
EXTENDS Integers, Sequences, FiniteSets

CONSTANTS
    Conn,           \* connections that clients may open
    Worker,         \* threads of the pool
    None,
    KeepAliveMax,   \* keep_alive_max_count_
    OpenLimit,      \* connections the process has descriptors for
    AcceptErrors,   \* whether accept may fail for another reason
    MaxSent         \* bound: requests that clients send

ASSUME ServerAssumption ==
    /\ None \notin Conn
    /\ Worker # {}
    /\ KeepAliveMax \in Nat \ {0}
    /\ OpenLimit \in Nat \ {0}
    /\ AcceptErrors \in BOOLEAN

VARIABLES
    conn,       \* where each connection is
    inbox,      \* requests sent and not yet read
    sent,       \* how many requests were sent
    hungUp,     \* clients that closed their side
    listener,   \* what the listening thread does next
    svrSock,    \* svr_sock_: set, or INVALID_SOCKET
    listening,  \* the listening socket of the operating system is open
    svrCloses,  \* closes of its descriptor by stop
    isRunning,  \* is_running_
    accepted,   \* the connection the listening thread holds
    jobs,       \* jobs_
    shutdown,   \* shutdown_
    pc,         \* what each thread of the pool does next
    cur,        \* the connection it serves
    count,      \* requests it will still serve on it
    taken,      \* the socket stop took out of svr_sock_
    aborted     \* an assertion failed: the process is gone

clientVars == <<inbox, sent, hungUp>>
listenVars == <<listener, svrSock, listening, svrCloses, isRunning, accepted>>
poolVars == <<jobs, shutdown, pc, cur, count>>
vars == <<conn, clientVars, listenVars, poolVars, taken, aborted>>

Request == {"get", "stop"}
Open == {"held", "queued", "served"}     \* accepted and not closed

Init ==
    /\ conn = [c \in Conn |-> "new"]
    /\ inbox = [c \in Conn |-> <<>>]
    /\ sent = 0
    /\ hungUp = {}
    /\ listener = "check" /\ svrSock = "set" /\ listening = TRUE /\ svrCloses = 0
    /\ isRunning = TRUE
    /\ accepted = None
    /\ jobs = <<>> /\ shutdown = FALSE
    /\ pc = [w \in Worker |-> "check"]
    /\ cur = [w \in Worker |-> None]
    /\ count = [w \in Worker |-> 0]
    /\ taken = [w \in Worker |-> FALSE]
    /\ aborted = FALSE

-----------------------------------------------------------------------------
(* Clients.  What one sends, and whether it has gone, is looked at only by the  *)
(* thread that serves it: what it does before that is counted as done then.    *)

Connect(c) ==
    /\ conn[c] = "new"
    /\ conn' = [conn EXCEPT ![c] = IF listening THEN "backlog" ELSE "refused"]
    /\ UNCHANGED <<clientVars, listenVars, poolVars, taken, aborted>>

Send(c, request) ==
    /\ conn[c] = "served"
    /\ c \notin hungUp
    /\ sent < MaxSent
    /\ sent' = sent + 1
    /\ inbox' = [inbox EXCEPT ![c] = Append(@, request)]
    /\ UNCHANGED <<conn, hungUp, listenVars, poolVars, taken, aborted>>

\* A part of the next request comes to a thread that has read all there was, and
\* leaves the request unfinished.  Any number of them may follow each other.
SendPiece(c) ==
    /\ c \notin hungUp /\ inbox[c] = <<>>
    /\ \E w \in Worker :
           /\ cur[w] = c
           /\ pc[w] = "reading" \/ (pc[w] = "alive" /\ count[w] > 0)
           /\ pc' = [pc EXCEPT ![w] = "piece"]
    /\ UNCHANGED <<conn, clientVars, listenVars, jobs, shutdown, cur, count, taken, aborted>>

HangUp(c) ==
    /\ conn[c] = "served"
    /\ c \notin hungUp
    /\ hungUp' = hungUp \cup {c}
    /\ UNCHANGED <<conn, inbox, sent, listenVars, poolVars, taken, aborted>>

\* What the operating system does with the connections nobody accepted.
Refused == [c \in Conn |-> IF conn[c] = "backlog" THEN "refused" ELSE conn[c]]

-----------------------------------------------------------------------------
(* The listening thread: listen_internal *)

OpenCount == Cardinality({c \in Conn : conn[c] \in Open})

CheckSocket ==
    /\ listener = "check"
    /\ listener' = IF svrSock = "set" THEN "accept" ELSE "shutdown"
    /\ UNCHANGED <<conn, clientVars, svrSock, listening, svrCloses, isRunning, accepted, poolVars, taken, aborted>>

Accept(c) ==
    /\ listener = "accept" /\ listening
    /\ OpenCount < OpenLimit
    /\ conn[c] = "backlog"
    /\ conn' = [conn EXCEPT ![c] = "held"]
    /\ accepted' = c
    /\ listener' = "enqueue"
    /\ UNCHANGED <<clientVars, svrSock, listening, svrCloses, isRunning, poolVars, taken, aborted>>

\* No descriptor is left: try again.
AcceptExhausted ==
    /\ listener = "accept" /\ listening
    /\ OpenCount >= OpenLimit
    /\ listener' = "check"
    /\ UNCHANGED <<conn, clientVars, svrSock, listening, svrCloses, isRunning, accepted, poolVars, taken, aborted>>

AcceptFails ==
    /\ listener = "accept"
    /\ listener' = IF svrSock = "set" THEN "close" ELSE "shutdown"
    /\ UNCHANGED <<conn, clientVars, svrSock, listening, svrCloses, isRunning, accepted, poolVars, taken, aborted>>

\* accept fails on the socket that was closed, or for a reason of its own.
AcceptClosed == ~listening /\ AcceptFails
AcceptError == AcceptErrors /\ listening /\ AcceptFails

\* close_socket(svr_sock_), which stop may have emptied since; it stays set.
CloseListening ==
    /\ listener = "close"
    /\ listener' = "shutdown"
    /\ IF svrSock = "set"
       THEN /\ listening' = FALSE
            /\ conn' = Refused
       ELSE UNCHANGED <<listening, conn>>
    /\ UNCHANGED <<clientVars, svrSock, svrCloses, isRunning, accepted, poolVars, taken, aborted>>

Waiting == {w \in Worker : pc[w] = "waiting"}

\* enqueue: the job is appended and one waiting thread, if any, is woken.
Enqueue ==
    /\ listener = "enqueue"
    /\ jobs' = Append(jobs, accepted)
    /\ conn' = [conn EXCEPT ![accepted] = "queued"]
    /\ accepted' = None
    /\ IF Waiting = {} THEN pc' = pc
       ELSE \E w \in Waiting : pc' = [pc EXCEPT ![w] = "check"]
    /\ listener' = "check"
    /\ UNCHANGED <<clientVars, svrSock, listening, svrCloses, isRunning, shutdown, cur, count, taken, aborted>>

Shutdown ==
    /\ listener = "shutdown"
    /\ shutdown' = TRUE
    /\ listener' = "notify"
    /\ UNCHANGED <<conn, clientVars, svrSock, listening, svrCloses, isRunning, accepted, jobs, pc, cur, count, taken, aborted>>

\* Mutated form: one waiting thread is woken.
NotifyOne ==
    /\ listener = "notify"
    /\ IF Waiting = {} THEN pc' = pc
       ELSE \E w \in Waiting : pc' = [pc EXCEPT ![w] = "check"]
    /\ listener' = "join"
    /\ UNCHANGED <<conn, clientVars, svrSock, listening, svrCloses, isRunning, accepted, jobs, shutdown, cur, count, taken, aborted>>

NotifyAll ==
    /\ listener = "notify"
    /\ pc' = [w \in Worker |-> IF w \in Waiting THEN "check" ELSE pc[w]]
    /\ listener' = "join"
    /\ UNCHANGED <<conn, clientVars, svrSock, listening, svrCloses, isRunning, accepted, jobs, shutdown, cur, count, taken, aborted>>

Join ==
    /\ listener = "join"
    /\ \A w \in Worker : pc[w] = "exited"
    /\ isRunning' = FALSE
    /\ listener' = "returned"
    /\ UNCHANGED <<conn, clientVars, svrSock, listening, svrCloses, accepted, poolVars, taken, aborted>>

Listen ==
    \/ CheckSocket \/ AcceptExhausted \/ AcceptClosed \/ CloseListening
    \/ (\E c \in Conn : Accept(c))
    \/ Enqueue \/ Shutdown \/ NotifyAll \/ Join

-----------------------------------------------------------------------------
(* A thread of the pool: ThreadPool::worker *)

\* Mutated form: the job taken stays in the queue.
TakeFront(w) ==
    /\ pc[w] = "check"
    /\ jobs # <<>>
    /\ pc' = [pc EXCEPT ![w] = "alive"]
    /\ cur' = [cur EXCEPT ![w] = Head(jobs)]
    /\ count' = [count EXCEPT ![w] = KeepAliveMax]
    /\ conn' = [conn EXCEPT ![Head(jobs)] = "served"]
    /\ UNCHANGED <<clientVars, listenVars, jobs, shutdown, taken, aborted>>

\* The predicate is evaluated, and the next job taken, under the pool's mutex.
Take(w) ==
    /\ pc[w] = "check"
    /\ jobs # <<>>
    /\ pc' = [pc EXCEPT ![w] = "alive"]
    /\ cur' = [cur EXCEPT ![w] = Head(jobs)]
    /\ count' = [count EXCEPT ![w] = KeepAliveMax]
    /\ conn' = [conn EXCEPT ![Head(jobs)] = "served"]
    /\ jobs' = Tail(jobs)
    /\ UNCHANGED <<clientVars, listenVars, shutdown, taken, aborted>>

\* Mutated form: the thread leaves as soon as it sees the shutdown.
WaitOrExitAtOnce(w) ==
    /\ pc[w] = "check"
    /\ jobs = <<>> \/ shutdown
    /\ pc' = [pc EXCEPT ![w] = IF shutdown THEN "exited" ELSE "waiting"]
    /\ UNCHANGED <<conn, clientVars, listenVars, jobs, shutdown, cur, count, taken, aborted>>

WaitOrExit(w) ==
    /\ pc[w] = "check"
    /\ jobs = <<>>
    /\ pc' = [pc EXCEPT ![w] = IF shutdown THEN "exited" ELSE "waiting"]
    /\ UNCHANGED <<conn, clientVars, listenVars, jobs, shutdown, cur, count, taken, aborted>>

\* A condition variable may wake a thread for no reason.
WakeSpuriously(w) ==
    /\ pc[w] = "waiting"
    /\ pc' = [pc EXCEPT ![w] = "check"]
    /\ UNCHANGED <<conn, clientVars, listenVars, jobs, shutdown, cur, count, taken, aborted>>

-----------------------------------------------------------------------------
(* The connection it serves: process_and_close_socket, keep_alive, stop *)

Step(w, from, to) ==
    /\ pc[w] = from
    /\ pc' = [pc EXCEPT ![w] = to]

\* There is something to read, if only the end of the client's data.
Readable(w) ==
    /\ Step(w, "alive", "request")
    /\ count[w] > 0
    /\ inbox[cur[w]] # <<>> \/ cur[w] \in hungUp
    /\ UNCHANGED <<conn, clientVars, listenVars, jobs, shutdown, cur, count, taken, aborted>>

\* Mutated form: the wait for a request has no end.
KeepAliveCounts(w) ==
    /\ Step(w, "alive", "close")
    /\ count[w] = 0
    /\ UNCHANGED <<conn, clientVars, listenVars, jobs, shutdown, cur, count, taken, aborted>>

\* All requests of the connection are served, or none came for the time of a
\* keep-alive.
KeepAliveEnds(w) ==
    /\ Step(w, "alive", "close")
    /\ count[w] = 0 \/ (inbox[cur[w]] = <<>> /\ cur[w] \notin hungUp)
    /\ UNCHANGED <<conn, clientVars, listenVars, jobs, shutdown, cur, count, taken, aborted>>

\* process_request finds the connection closed by the client.
ReadNothing(w) ==
    /\ Step(w, "request", "close")
    /\ inbox[cur[w]] = <<>>
    /\ UNCHANGED <<conn, clientVars, listenVars, jobs, shutdown, cur, count, taken, aborted>>

\* A piece is read and the request goes on: the next recv has a time limit of its
\* own, the request has none.
ReadPiece(w) ==
    /\ Step(w, "piece", "reading")
    /\ UNCHANGED <<conn, clientVars, listenVars, jobs, shutdown, cur, count, taken, aborted>>

\* Nothing came for the time of a recv, or the client is gone, in the middle of a
\* request: no answer to an unfinished first line, a refusal of what came else.
ReadFails(w) ==
    /\ \E next \in {"close", "respond"} : Step(w, "reading", next)
    /\ inbox[cur[w]] = <<>>
    /\ UNCHANGED <<conn, clientVars, listenVars, jobs, shutdown, cur, count, taken, aborted>>

\* The request is complete.
ReadRequest(w) ==
    /\ pc[w] \in {"request", "reading"}
    /\ inbox[cur[w]] # <<>>
    /\ pc' = [pc EXCEPT ![w] = IF Head(inbox[cur[w]]) = "stop" THEN "stop" ELSE "respond"]
    /\ inbox' = [inbox EXCEPT ![cur[w]] = Tail(@)]
    /\ UNCHANGED <<conn, sent, hungUp, listenVars, jobs, shutdown, cur, count, taken, aborted>>

\* The response is written: the connection goes on, or ends because writing
\* failed or either side wants it closed.
Respond(w) ==
    /\ \E next \in {"alive", "close"} : Step(w, "respond", next)
    /\ count' = [count EXCEPT ![w] = IF pc'[w] = "alive" THEN @ - 1 ELSE @]
    /\ UNCHANGED <<conn, clientVars, listenVars, jobs, shutdown, cur, taken, aborted>>

\* What the client sent and nobody read is gone with the socket.
Close(w) ==
    /\ Step(w, "close", "check")
    /\ conn' = [conn EXCEPT ![cur[w]] = "closed"]
    /\ cur' = [cur EXCEPT ![w] = None]
    /\ count' = [count EXCEPT ![w] = 0]
    /\ inbox' = [inbox EXCEPT ![cur[w]] = <<>>]
    /\ hungUp' = hungUp \ {cur[w]}
    /\ UNCHANGED <<sent, listenVars, jobs, shutdown, taken, aborted>>

StopCheck(w) ==
    /\ Step(w, "stop", IF isRunning THEN "stop_assert" ELSE "respond")
    /\ UNCHANGED <<conn, clientVars, listenVars, jobs, shutdown, cur, count, taken, aborted>>

StopAssert(w) ==
    /\ Step(w, "stop_assert", "stop_exchange")
    /\ aborted' = (svrSock # "set")
    /\ UNCHANGED <<conn, clientVars, listenVars, jobs, shutdown, cur, count, taken>>

\* Mutated form: the socket is only read.
StopLoad(w) ==
    /\ Step(w, "stop_exchange", "stop_close")
    /\ taken' = [taken EXCEPT ![w] = svrSock = "set"]
    /\ UNCHANGED <<conn, clientVars, listenVars, jobs, shutdown, cur, count, aborted>>

StopExchange(w) ==
    /\ Step(w, "stop_exchange", "stop_close")
    /\ taken' = [taken EXCEPT ![w] = svrSock = "set"]
    /\ svrSock' = "invalid"
    /\ UNCHANGED <<conn, clientVars, listener, listening, svrCloses, isRunning, accepted, jobs, shutdown, cur, count, aborted>>

\* Mutated form: the socket is given up and left open.
StopForget(w) ==
    /\ Step(w, "stop_close", "respond")
    /\ taken' = [taken EXCEPT ![w] = FALSE]
    /\ UNCHANGED <<conn, clientVars, listenVars, jobs, shutdown, cur, count, aborted>>

\* The socket taken is shut down and closed; INVALID_SOCKET is nothing to close.
StopClose(w) ==
    /\ Step(w, "stop_close", "respond")
    /\ IF taken[w]
       THEN /\ listening' = FALSE
            /\ svrCloses' = svrCloses + 1
            /\ conn' = Refused
       ELSE UNCHANGED <<listening, svrCloses, conn>>
    /\ taken' = [taken EXCEPT ![w] = FALSE]
    /\ UNCHANGED <<clientVars, listener, svrSock, isRunning, accepted, jobs, shutdown, cur, count, aborted>>

Work(w) ==
    \/ Take(w) \/ WaitOrExit(w)
    \/ Readable(w) \/ KeepAliveEnds(w) \/ ReadNothing(w)
    \/ ReadPiece(w) \/ ReadFails(w) \/ ReadRequest(w)
    \/ Respond(w) \/ Close(w)
    \/ StopCheck(w) \/ StopAssert(w) \/ StopExchange(w) \/ StopClose(w)

Client(c) == Connect(c) \/ HangUp(c) \/ SendPiece(c) \/ (\E request \in Request : Send(c, request))

\* listen has returned, or every client is done with.
Idle == listener = "returned" \/ \A c \in Conn : conn[c] \in {"closed", "refused"}

Next ==
    \/ /\ ~aborted
       /\ \/ Listen \/ AcceptError
          \/ \E w \in Worker : Work(w) \/ WakeSpuriously(w)
          \/ \E c \in Conn : Client(c)
    \/ (aborted \/ Idle) /\ UNCHANGED vars

Spec == Init /\ [][Next]_vars

\* Threads are scheduled, a keep-alive and a recv run out by the clock, and a
\* handler returns; clients owe nothing, and accept need not fail.
Fairness ==
    /\ WF_vars(~aborted /\ Listen)
    /\ \A w \in Worker : WF_vars(~aborted /\ Work(w))

FairSpec == Spec /\ Fairness

-----------------------------------------------------------------------------
(* Properties *)

TypeOK ==
    /\ conn \in [Conn -> {"new", "backlog", "refused", "closed"} \cup Open]
    /\ inbox \in [Conn -> Seq(Request)]
    /\ sent \in Nat
    /\ hungUp \subseteq Conn
    /\ listener \in {"check", "accept", "enqueue", "close", "shutdown", "notify", "join", "returned"}
    /\ svrSock \in {"set", "invalid"}
    /\ listening \in BOOLEAN /\ isRunning \in BOOLEAN /\ aborted \in BOOLEAN
    /\ svrCloses \in Nat
    /\ accepted \in Conn \cup {None}
    /\ jobs \in Seq(Conn)
    /\ shutdown \in BOOLEAN
    /\ pc \in [Worker -> {"check", "waiting", "exited", "alive", "request", "piece", "reading", "respond",
                          "close", "stop", "stop_assert", "stop_exchange", "stop_close"}]
    /\ cur \in [Worker -> Conn \cup {None}]
    /\ count \in [Worker -> 0 .. KeepAliveMax]
    /\ taken \in [Worker -> BOOLEAN]

\* Every accepted connection is in one place until it is closed: in the hands of
\* the listening thread, once in the queue, or with one thread of the pool.
\* None is served by two threads and none falls between the two
\* (httplib.h 513-579, 5032-5095).
OneOwner ==
    /\ \A c \in Conn : conn[c] = "held" <=> accepted = c
    /\ \A c \in Conn : conn[c] = "queued" <=> \E i \in DOMAIN jobs : jobs[i] = c
    /\ \A i, j \in DOMAIN jobs : jobs[i] = jobs[j] => i = j
    /\ \A c \in Conn : conn[c] = "served" <=> \E w \in Worker : cur[w] = c
    /\ \A v, w \in Worker : cur[v] = cur[w] /\ cur[v] # None => v = w

\* When listen returns, nothing it accepted is left: the queue is drained and
\* every connection closed, whichever way the loop ended (httplib.h 5032-5095).
ReturnsDrained == listener = "returned" => \A c \in Conn : conn[c] \notin Open

\* No wake-up is lost: while a job waits, some thread of the pool is awake to
\* take it, and once the shutdown is announced no thread sleeps on
\* (httplib.h 513-579).
SomeoneAwake ==
    /\ jobs # <<>> => \E w \in Worker : pc[w] \notin {"waiting", "exited"}
    /\ listener \in {"join", "returned"} => Waiting = {}

\* However many requests to stop race, one of them takes the listening socket and
\* closes it (httplib.h 4663-4670).
ClosedOnce == svrCloses <= 1

\* stop never finds the socket gone while the server runs: the assertion at
\* httplib.h 4665.
StopAssertion == ~aborted

\* No client of the set keeps sending pieces for ever: its requests end, each
\* completed or given up.
RequestsEnd(clients) == \A c \in clients : <>[][~SendPiece(c)]_vars

\* A stop ends listen, although its caller is a thread that listen waits for
\* and other connections are kept alive meanwhile, provided that the requests
\* being read end: the code has no time limit for a request, and one client that
\* goes on for ever keeps the join waiting (httplib.h 4663-4670, 2135-2159).
StopEnds ==
    RequestsEnd(Conn) => (svrSock = "invalid" ~> listener = "returned" \/ aborted)

\* Clients that never come to the end of a request hold a thread each, and no
\* more: let there be one thread more than such clients (with fewer of them it is
\* easier), and the connection of every other client is served and closed, be the
\* client silent, busy or gone (httplib.h 2343-2377, 2135-2159).
AcceptedIsClosed ==
    \A endless \in {E \in SUBSET Conn : Cardinality(E) + 1 = Cardinality(Worker)} :
        RequestsEnd(Conn \ endless) =>
            \A c \in Conn \ endless : conn[c] \in Open ~> conn[c] = "closed" \/ aborted
=============================================================================
