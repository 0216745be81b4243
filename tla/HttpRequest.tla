------------------------------ MODULE HttpRequest -----------------------------
(***************************************************************************)
(* The requests of one connection of the HTTP server                       *)
(* (sgx/src/include/httplib.h, process_request and what it calls): each is *)
(* read from the connection's bytes, line by line and then by the length   *)
(* or the chunks of its content, routed to a handler and answered, while   *)
(* further requests may follow in the same bytes.                          *)
(*                                                                         *)
(* The bytes are a sequence of tokens: a request line, a header line, a    *)
(* blank line, a chunk's size line, or one byte of content, which is no    *)
(* line's end.  What the client means to send is script; its bytes may     *)
(* break off anywhere, by an end of the connection or by silence.  Only    *)
(* the last request of a script may tell a length beyond its content: a    *)
(* line is one unit here, and lengths must not end within one.             *)
(***************************************************************************)
EXTENDS HttpRanges, Functions, FiniteSets

CONSTANTS
    Scripts,        \* sequences of requests that clients mean to send
    KeepAliveMax,   \* keep_alive_max_count_
    PayloadMax,     \* payload_max_length_
    AnswerBody,     \* what a handler answers with
    NoValue

VARIABLES
    script,
    end,        \* "closed" or "silent": how the bytes end
    bytes,      \* all that arrive
    position,   \* of the next byte to read
    stage,
    count,      \* requests the connection may still carry
    req,        \* the request being read
    res,        \* its response, status -1 until it is decided
    closed,     \* connection_closed
    answers     \* what was written to the connection

streamVars == <<script, end, bytes>>
httpVars == <<streamVars, position, stage, count, req, res, closed, answers>>

BlankLine == [t |-> "blank"]
ContentByte == [t |-> "data"]
\* Values are texts, numbers or ranges.
TextValue(s) == [text |-> s]

\* A request as it is written: its line, its headers, and its content.
TokensOf(i, request) ==
    <<[t |-> "line", of |-> i, form |-> request.form, method |-> request.method, path |-> request.path,
       version |-> request.version]>>
      \o request.headers \o <<BlankLine>> \o request.content

Written(requests) == FlattenSeq([i \in DOMAIN requests |-> TokensOf(i, requests[i])])

\* What a client writes: headers are header lines, and content has no other lines
\* than those of chunks.
IsRequest(request) ==
    /\ request.headers \in Seq(Range(request.headers)) /\ request.content \in Seq(Range(request.content))
    /\ \A i \in DOMAIN request.headers : request.headers[i].t = "header"
    /\ \A i \in DOMAIN request.content :
          LET token == request.content[i]
          IN  token.t \in {"data", "size", "blank"} /\ (token.t = "size" => token.n \in Nat)
    /\ request.form \in {"good", "bad", "long"} /\ request.version \in {"1.0", "1.1"}

ASSUME RequestAssumption ==
    /\ KeepAliveMax \in Nat \ {0} /\ NoValue # TextValue("close") /\ NoValue \notin Nat
    /\ \A requests \in Scripts :
          requests \in Seq(Range(requests)) /\ \A i \in DOMAIN requests : IsRequest(requests[i])

NoRequest == [of |-> NoValue, method |-> NoValue, path |-> NoValue, version |-> NoValue, headers |-> <<>>,
              ranges |-> <<>>, got |-> 0]
NoResponse == [status |-> -1, body |-> <<>>, routed |-> FALSE]

HttpInit ==
    /\ script \in Scripts
    /\ end \in {"closed", "silent"}
    /\ \E n \in 0 .. Len(Written(script)) : bytes = SubSeq(Written(script), 1, n)
    /\ position = 1
    /\ stage = "line"
    /\ count = KeepAliveMax
    /\ req = NoRequest
    /\ res = NoResponse
    /\ closed = FALSE
    /\ answers = <<>>

-----------------------------------------------------------------------------
(* Reading: what is read from position i on, and where it ends                *)

Behind == Len(bytes) + 1

\* The first of some positions, behind all bytes if there is none.
FirstOf(positions) == IF positions = {} THEN Behind ELSE CHOOSE i \in positions : \A j \in positions : i <= j

\* A line up to its end, with any content bytes before it; where the bytes end
\* first, the line is what there is of it, unless nothing is or the read times
\* out.
Getline(i) ==
    LET j == FirstOf({k \in 1 .. Len(bytes) : k >= i /\ bytes[k].t # "data"})
    IN  [ok |-> j # Behind \/ (i # Behind /\ end = "closed"),
         line |-> IF j = i /\ i # Behind THEN bytes[i] ELSE ContentByte,
         next |-> IF j = Behind THEN Behind ELSE j + 1]

\* read_headers: the lines up to the first blank one.  No content is among them:
\* it would have spoilt the request's line first.
ReadHeaders(i) ==
    LET j == FirstOf({k \in i .. Len(bytes) : bytes[k] = BlankLine})
    IN  [ok |-> j # Behind, headers |-> SubSeq(bytes, i, j - 1), next |-> IF j = Behind THEN Behind ELSE j + 1]

\* The header lines of that name; others are passed over.
Named(r, name) == {i \in DOMAIN r.headers : r.headers[i].t = "header" /\ r.headers[i].name = name}
has_header(r, name) == Named(r, name) # {}
\* The first of that name.
get_header_value(r, name) ==
    IF has_header(r, name) THEN r.headers[CHOOSE i \in Named(r, name) : \A j \in Named(r, name) : i <= j].value ELSE NoValue

\* n bytes, or failure.
ReadLength(i, n) ==
    LET got == IF n <= Behind - i THEN n ELSE Behind - i
    IN  [ok |-> got = n, got |-> got, next |-> i + got]

\* Mutated form: the line that ends the last chunk is left in the stream.
LastChunkUnended(i) == [ok |-> TRUE, got |-> 0, next |-> i]

\* What follows a size of nothing.
LastChunk(i) ==
    LET after == Getline(i) IN [ok |-> after.ok /\ after.line = BlankLine, got |-> 0, next |-> after.next]

\* read_content_chunked.  A chunk that is not followed by a blank line ends the
\* content without an error.
ReadChunks(first) ==
    LET from[i \in 1 .. Behind] ==
            LET size == Getline(i)
                chunk == ReadLength(size.next, size.line.n)
                after == Getline(chunk.next)
            IN  IF ~size.ok \/ size.line.t # "size" THEN [ok |-> FALSE, got |-> 0, next |-> size.next]
                ELSE IF size.line.n = 0 THEN LastChunk(size.next)
                ELSE IF ~chunk.ok THEN chunk
                ELSE IF ~after.ok \/ after.line # BlankLine THEN [ok |-> after.ok, got |-> chunk.got, next |-> after.next]
                ELSE [from[after.next] EXCEPT !.got = @ + chunk.got]
    IN  from[first]

\* read_content: by chunks, to the end of the connection, or by length; with the
\* status of a failure.
ReadContent(r, i) ==
    LET chunked == get_header_value(r, "Transfer-Encoding") = TextValue("chunked")
        sized == has_header(r, "Content-Length")
        length == get_header_value(r, "Content-Length").number
        content == IF chunked THEN ReadChunks(i)
                   ELSE IF sized THEN ReadLength(i, length)
                   ELSE [ok |-> end = "closed", got |-> Behind - i, next |-> Behind]
        exceeds == ~chunked /\ sized /\ length > PayloadMax
    IN  [ok |-> content.ok /\ ~exceeds, got |-> IF exceeds THEN 0 ELSE content.got, next |-> content.next,
         status |-> IF exceeds THEN 413 ELSE 400]

-----------------------------------------------------------------------------
(* process_request, in its order; the connection ends where it returns false *)

Refuse(status) ==
    /\ res' = [res EXCEPT !.status = status]
    /\ stage' = "write"

ReadLine ==
    /\ stage = "line"
    /\ LET read == Getline(position)
           line == read.line
           form == IF line.t = "line" THEN line.form ELSE "bad"
       IN  \/ /\ count = 0 \/ ~read.ok
              /\ stage' = "ended" /\ UNCHANGED <<position, req, res>>
           \/ /\ count # 0 /\ read.ok /\ form = "bad"
              /\ Refuse(400) /\ position' = read.next /\ UNCHANGED req
           \/ /\ count # 0 /\ read.ok /\ form = "long"
              /\ Refuse(414) /\ position' = ReadHeaders(read.next).next /\ UNCHANGED req
           \/ /\ count # 0 /\ read.ok /\ form = "good"
              /\ req' = [req EXCEPT !.of = line.of, !.method = line.method, !.path = line.path, !.version = line.version]
              /\ stage' = "headers" /\ position' = read.next /\ UNCHANGED res
    /\ UNCHANGED <<streamVars, count, closed, answers>>

\* The connection ends after the answer.
AsksEnd(r) ==
    LET connection == get_header_value(r, "Connection")
    IN  connection = TextValue("close") \/ (r.version = "1.0" /\ connection # TextValue("Keep-Alive"))

Headers ==
    /\ stage = "headers"
    /\ LET read == ReadHeaders(position)
           r == [req EXCEPT !.headers = read.headers]
           range == parse_range_header(get_header_value(r, "Range").ranges)
       IN  /\ position' = read.next
           /\ \/ ~read.ok /\ Refuse(400) /\ req' = r /\ UNCHANGED closed
              \/ /\ read.ok /\ closed' = AsksEnd(r)
                 /\ \/ ~has_header(r, "Range") /\ req' = r /\ stage' = "expect" /\ UNCHANGED res
                    \/ /\ has_header(r, "Range")
                       /\ req' = [r EXCEPT !.ranges = range.ranges]
                       /\ IF range.ok THEN stage' = "expect" /\ UNCHANGED res ELSE Refuse(416)
    /\ UNCHANGED <<streamVars, count, answers>>

\* A client that waits for it is told to go on.
Expect ==
    /\ stage = "expect"
    /\ stage' = "content"
    /\ answers' = IF get_header_value(req, "Expect") = TextValue("100-continue")
                  THEN Append(answers, [of |-> req.of, status |-> 100, close |-> FALSE,
                                        told |-> TRUE, length |-> 0, sent |-> 0, got |-> 0])
                  ELSE answers
    /\ UNCHANGED <<streamVars, position, count, req, res, closed>>

\* What has content that is read: a DELETE only if it tells its length.
expect_content(r) ==
    /\ r.method \in {"POST", "PUT", "PATCH", "PRI", "DELETE"}
    /\ r.method = "DELETE" => has_header(r, "Content-Length")

\* The content is read before a handler is looked for.
Content ==
    /\ stage = "content"
    /\ IF expect_content(req)
       THEN LET read == ReadContent(req, position)
            IN  /\ position' = read.next
                /\ req' = [req EXCEPT !.got = read.got]
                /\ IF read.ok THEN stage' = "handle" /\ UNCHANGED res ELSE Refuse(read.status)
       ELSE stage' = "handle" /\ UNCHANGED <<position, req, res>>
    /\ UNCHANGED <<streamVars, count, closed, answers>>

\* routing: the handler of the method and path answers with a status, sets none,
\* or throws when it has set its answer; without one there is nothing.
Handle ==
    /\ stage = "handle"
    /\ stage' = "write"
    /\ \/ /\ req.path = "known" /\ req.method \in {"GET", "HEAD", "POST"}
          /\ \/ \E status \in {-1, 400} : res' = [res EXCEPT !.status = status, !.body = AnswerBody, !.routed = TRUE]
             \/ res' = [res EXCEPT !.status = 500, !.body = AnswerBody]
       \/ /\ req.path # "known" \/ req.method \notin {"GET", "HEAD", "POST"}
          /\ res' = [res EXCEPT !.status = IF req.method \in {"GET", "HEAD", "POST", "PUT", "DELETE", "OPTIONS", "PATCH"}
                                           THEN -1 ELSE 400]
    /\ UNCHANGED <<streamVars, position, count, req, closed, answers>>

StatusOf == IF res.status # -1 THEN res.status
            ELSE IF ~res.routed THEN 404 ELSE IF req.ranges = <<>> THEN 200 ELSE 206

\* The bytes of a body: those of each part of a multipart body.
BytesOf(applied) ==
    IF applied.form = "multipart" THEN FoldLeft(LAMBDA n, part : n + Len(part.data), 0, applied.data)
    ELSE Len(applied.data)

\* The response has a Content-Length.
TellsLength == res.routed \/ res.body = <<>>

\* Mutated form: the length is that of the body before its ranges were applied.
LengthUnapplied(applied) == Len(res.body)

\* The Content-Length of the response.
LengthOf(applied) == BytesOf(applied)

\* Mutated form: the last request of the connection is not told of the end.
SaysCloseIfAsked == get_header_value(req, "Connection") = TextValue("close")

SaysClose == count = 1 \/ get_header_value(req, "Connection") = TextValue("close")

\* Mutated form: a request that asks for the end is followed by others.
AfterIgnoringClose == "line"

\* After the response, the connection goes on or ends.
AfterWrite == IF closed THEN "ended" ELSE "line"

\* write_response_core, and the end of the loop in process_server_socket_core.
Write ==
    /\ stage = "write"
    /\ LET applied == IF res.routed THEN apply_ranges(req.ranges, res.body, StatusOf)
                      ELSE [status |-> StatusOf, form |-> "whole", data |-> res.body]
       IN  answers' = Append(answers, [of |-> req.of, status |-> applied.status, close |-> SaysClose,
                                       told |-> TellsLength, length |-> LengthOf(applied), got |-> req.got,
                                       sent |-> IF req.method = "HEAD" THEN 0 ELSE BytesOf(applied)])
    /\ stage' = AfterWrite
    /\ count' = IF closed THEN count ELSE count - 1
    /\ req' = NoRequest /\ res' = NoResponse /\ closed' = FALSE
    /\ UNCHANGED <<streamVars, position>>

Ended == stage = "ended" /\ UNCHANGED httpVars

HttpNext == ReadLine \/ Headers \/ Expect \/ Content \/ Handle \/ Write \/ Ended

HttpSpec == HttpInit /\ [][HttpNext]_httpVars

-----------------------------------------------------------------------------
(* Properties *)

\* How many of the first n answers are final.
Finals(n) == Cardinality({i \in 1 .. n : answers[i].status # 100})

UnitsOf(request) == Cardinality({i \in DOMAIN request.content : request.content[i].t = "data"})

\* A content of chunks, the last of which is empty.
WellChunked(content) ==
    LET sizes == {i \in DOMAIN content : content[i].t = "size"}
    IN  /\ 1 \in sizes
        /\ \A i \in sizes :
              LET n == content[i].n
              IN  IF n = 0 THEN i + 1 = Len(content) /\ content[i + 1] = BlankLine
                  ELSE /\ i + n + 2 \in sizes /\ content[i + n + 1] = BlankLine
                       /\ \A j \in i + 1 .. i + n : content[j].t = "data"

\* A request that the server reads to its end: no line, range or length makes it
\* give up early, and it has content, as it says, if its method has.
ReadWhole(request) ==
    /\ request.form = "good"
    /\ has_header(request, "Range") => parse_range_header(get_header_value(request, "Range").ranges).ok
    /\ IF ~expect_content(request) THEN request.content = <<>>
       ELSE IF get_header_value(request, "Transfer-Encoding") = TextValue("chunked") THEN WellChunked(request.content)
       ELSE /\ has_header(request, "Content-Length")
            /\ get_header_value(request, "Content-Length") = [number |-> Len(request.content)]
            /\ \A i \in DOMAIN request.content : request.content[i].t = "data"

AllWhole(n) == \A i \in 1 .. n : i \in DOMAIN script /\ ReadWhole(script[i])

\* The server keeps in step with its client: as long as the requests are ones
\* that it reads whole, the next answer is to the next request, and the handler
\* had that request's content and no byte more (httplib.h 3166-3204, 5313-5427).
InStep ==
    \A i \in DOMAIN answers : answers[i].status # 100 /\ AllWhole(Finals(i)) =>
        /\ answers[i].of = Finals(i)
        /\ answers[i].status \in {200, 206} => answers[i].got = UnitsOf(script[Finals(i)])

\* Whoever sends whole requests gets an answer to each, up to the one after which
\* the connection ends by its wish or the server's limit (httplib.h 2362-2377).
AllAnswered ==
    stage = "ended" /\ bytes = Written(script) /\ AllWhole(Len(script)) =>
        LET last == SelectInSeq(script, AsksEnd)
            wanted == IF last = 0 THEN Len(script) ELSE last
        IN  Finals(Len(answers)) = IF wanted < KeepAliveMax THEN wanted ELSE KeepAliveMax

\* The head of request k arrives: its line and, behind it, a blank one.
HeadArrived(k) ==
    \E i, j \in 1 .. Len(bytes) : i < j /\ bytes[i].t = "line" /\ bytes[i].of = k /\ bytes[j] = BlankLine

\* A request of HTTP/1.0 that asks for neither ends the connection, but its answer
\* says Keep-Alive (httplib.h 5368-5371, 4754-4761).
EndsUntold(request) ==
    request.version = "1.0" /\ get_header_value(request, "Connection") \notin {TextValue("close"), TextValue("Keep-Alive")}

\* An answer that announces the end of the connection is its last, and the last
\* one it may carry announces it (httplib.h 2369-2374, 4754-4761).
CloseIsLast ==
    /\ \A i \in DOMAIN answers : answers[i].close => i = Len(answers)
    /\ count = 0 => answers[Len(answers)].close

\* A request that ends the connection, whatever else is wrong with it, is the last
\* to be answered, and its answer announces the end unless the request is one of
\* those that end it untold (httplib.h 4754-4761, 5364-5371).
EndIsTold ==
    \A i \in DOMAIN answers :
        LET k == answers[i].of
        IN  answers[i].status # 100 /\ k \in DOMAIN script /\ HeadArrived(k) /\ AsksEnd(script[k]) =>
              i = Len(answers) /\ stage = "ended" /\ (answers[i].close \/ EndsUntold(script[k]))

\* Every end that the server itself makes.
EndAnnounced == CloseIsLast /\ EndIsTold

\* An answer's length is told as it is, so that the client finds the next one;
\* the answer of a handler that threw has none (httplib.h 4739-4811, 5187-5296).
LengthTold ==
    \A i \in DOMAIN answers :
        answers[i].status # 500 => answers[i].told /\ answers[i].sent \in {0, answers[i].length}

\* Each whole request is answered, with the length of its answer.  Only the last
\* answer of a connection announces the end, and it does so at the server's limit
\* and where the request ends the connection, but for one case: an HTTP/1.0
\* request without Keep-Alive (httplib.h 2362-2377, 4739-4811, 5187-5296,
\* 5368-5371).
AnswersComplete == AllAnswered /\ EndAnnounced /\ LengthTold
=============================================================================
