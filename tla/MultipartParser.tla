---------------------------- MODULE MultipartParser ---------------------------
(***************************************************************************)
(* The reader of multipart/form-data contents (sgx/src/include/httplib.h,  *)
(* MultipartFormDataParser), fed with the content block by block as it     *)
(* comes from the connection.                                              *)
(*                                                                         *)
(* A content is a sequence of symbols: "cr", "lf", "-", the characters of  *)
(* the boundary, others, and whole texts of header lines.                  *)
(***************************************************************************)
EXTENDS Integers, Sequences, SequencesExt

CONSTANTS
    Forms,      \* sequences of files, each with its header lines and content
    Headers,    \* what header lines say of a file: its name and filename, or
                \* its type; other lines say nothing
    Trailers,   \* what a client may send after the form
    Boundary,   \* boundary_, a sequence of symbols
    MaxBlock    \* bound: symbols of a block

VARIABLES
    form,       \* what the client sends
    rest,       \* what has not come yet
    blocks,     \* number of blocks so far, up to 2
    parser,     \* buf_, state_, is_valid_, file_, whether it has failed, and
                \* the files so far
    result      \* of read_content_core: "reading", "read" or "refused"

vars == <<form, rest, blocks, parser, result>>

Crlf == <<"cr", "lf">>
Dash == <<"-", "-">>

NoFile == [name |-> "", filename |-> "", content_type |-> ""]

\* A form as clients write it.
Written(files) ==
    FlattenSeq([i \in DOMAIN files |->
        Dash \o Boundary \o Crlf
             \o FlattenSeq([j \in DOMAIN files[i].headers |-> <<files[i].headers[j]>> \o Crlf])
             \o Crlf \o files[i].content \o Crlf])
      \o Dash \o Boundary \o Dash \o Crlf

Init ==
    /\ form \in Forms
    /\ \E trailer \in Trailers : rest = Written(form) \o trailer
    /\ blocks = 0
    /\ parser = [buf |-> <<>>, state |-> 0, is_valid |-> FALSE, file |-> NoFile, failed |-> FALSE, files |-> <<>>]
    /\ result = "reading"

-----------------------------------------------------------------------------
(* parse *)

\* The pattern lies at i.
At(buf, i, pattern) ==
    i + Len(pattern) - 1 <= Len(buf) /\ SubSeq(buf, i, i + Len(pattern) - 1) = pattern

\* The place of the first pattern, 0 if there is none.
Find(buf, pattern) == SelectInSeq([i \in DOMAIN buf |-> i], LAMBDA i : At(buf, i, pattern))

\* find_string: the symbols before the first pattern, or before what may be
\* the start of one.
Before(buf, pattern) ==
    LET starts(i) == buf[i] = pattern[1] /\ (Len(buf) - i + 1 < Len(pattern) \/ At(buf, i, pattern))
        at == SelectInSeq([i \in DOMAIN buf |-> i], starts)
    IN  IF at = 0 THEN Len(buf) ELSE at - 1

Drop(p, n) == [p EXCEPT !.buf = SubSeq(@, n + 1, Len(@))]
Go(p, state) == [p EXCEPT !.state = state]
Failed(p) == [p EXCEPT !.failed = TRUE]

\* content_callback: n symbols of content for the current file.
Content(p, n) ==
    [Drop(p, n) EXCEPT !.files[Len(p.files)].content = @ \o SubSeq(p.buf, 1, n)]

\* What a line says comes over what lines before it said.
Said(file, line) ==
    IF Len(line) = 1 /\ line[1] \in DOMAIN Headers
    THEN [f \in DOMAIN file |-> IF f \in DOMAIN Headers[line[1]] THEN Headers[line[1]][f] ELSE file[f]]
    ELSE file

\* header_callback
Opened(file, content) ==
    [name |-> file.name, filename |-> file.filename, content_type |-> file.content_type, content |-> content]

\* A blank line opens the file that the lines before it described.
HeaderLine(p, line) ==
    IF line = <<>> THEN Go([p EXCEPT !.files = Append(@, Opened(p.file, <<>>))], 3)
    ELSE [p EXCEPT !.file = Said(@, line)]

RECURSIVE Parse(_)

\* Mutated form: what may be the start of a delimiter is taken for content.
BodyHasty(p) ==
    LET delimiter == Crlf \o Dash \o Boundary
        at == Find(p.buf, delimiter)
    IN  IF at # 0 THEN Parse(Go(Drop(Content(p, at - 1), Len(delimiter)), 4))
        ELSE Content(p, Len(p.buf))

\* In a body: content goes up to a CR LF - -, then the delimiter is looked for;
\* if it is not there, as many symbols as it has are content.
Body(p) ==
    LET delimiter == Crlf \o Dash \o Boundary
        q == Content(p, Before(p.buf, Crlf \o Dash))
        at == Find(q.buf, delimiter)
    IN  IF Len(p.buf) < Len(Crlf \o Dash) THEN p
        ELSE IF Len(q.buf) < Len(delimiter) THEN q
        ELSE IF at # 0 THEN Parse(Go(Drop(Content(q, at - 1), Len(delimiter)), 4))
        ELSE Parse(Content(q, Len(delimiter)))

\* The loop of parse: it goes on until the buffer holds too little.
Parse(p) ==
    LET initial == Dash \o Boundary \o Crlf
        eol == Find(p.buf, Crlf)
        header == Drop(HeaderLine(p, SubSeq(p.buf, 1, eol - 1)), eol + 1)
    IN  IF p.buf = <<>> THEN p
        ELSE CASE p.state = 0 ->
                    IF Len(p.buf) < Len(initial) THEN p
                    ELSE IF Find(p.buf, initial) # 1 THEN Failed(p)
                    ELSE Parse(Go(Drop(p, Len(initial)), 1))
               [] p.state = 1 -> Parse(Go([p EXCEPT !.file = NoFile], 2))
               [] p.state = 2 -> IF eol = 0 THEN p ELSE Parse(header)
               [] p.state = 3 -> Body(p)
               [] p.state = 4 ->
                    IF Len(p.buf) < Len(Crlf) THEN p
                    ELSE IF IsPrefix(Crlf, p.buf) THEN Parse(Go(Drop(p, Len(Crlf)), 1))
                    ELSE IF IsPrefix(Dash \o Crlf, p.buf)
                    THEN Parse(Go([Drop(p, Len(Dash \o Crlf)) EXCEPT !.is_valid = TRUE], 5))
                    ELSE p
               [] p.state = 5 -> Failed([p EXCEPT !.is_valid = FALSE])

-----------------------------------------------------------------------------
(* read_content_core *)

\* The next block comes and is parsed; a failure refuses the request.
Feed(n) ==
    LET p == Parse([parser EXCEPT !.buf = @ \o SubSeq(rest, 1, n)])
    IN  /\ result = "reading" /\ n \in 1 .. Len(rest)
        /\ rest' = SubSeq(rest, n + 1, Len(rest))
        /\ blocks' = IF blocks = 2 THEN 2 ELSE blocks + 1
        /\ parser' = p
        /\ result' = IF p.failed THEN "refused" ELSE result
        /\ UNCHANGED form

\* The content has come to its end: the last delimiter must have.
Finish ==
    /\ result = "reading" /\ rest = <<>>
    /\ result' = IF parser.is_valid THEN "read" ELSE "refused"
    /\ UNCHANGED <<form, rest, blocks, parser>>

Next == (\E n \in 1 .. MaxBlock : Feed(n)) \/ Feed(Len(rest)) \/ Finish

Spec == Init /\ [][Next]_vars

-----------------------------------------------------------------------------
(* Properties *)

\* No content looks like the start of a delimiter.
Plain == \A i \in DOMAIN form : Find(form[i].content, Crlf \o Dash) = 0

Read == [i \in DOMAIN form |->
            Opened(FoldLeft(LAMBDA file, line : Said(file, <<line>>), NoFile, form[i].headers), form[i].content)]

\* Blocks end anywhere, in the midst of a delimiter as well: a form is read as
\* it was written, file by file, whichever way it comes in blocks; contents
\* with a CR LF - - of their own are, if they come in one.  Only what a client
\* sends after the form has it refused (httplib.h 3604-3720).
FormReadsBack ==
    result # "reading" /\ (Plain \/ blocks = 1) =>
        /\ parser.files = Read
        /\ result = "refused" => parser.state = 5
=============================================================================
