----------------------------- MODULE HttpSamples ------------------------------
(* Requests and forms for HttpRequest and MultipartParser. *)
EXTENDS Integers, Sequences, SequencesExt

CONSTANT Malformed

Header(name, value) == [t |-> "header", name |-> name, value |-> value]
Length(n) == Header("Content-Length", [number |-> n])
Close == Header("Connection", [text |-> "close"])
Chunked == Header("Transfer-Encoding", [text |-> "chunked"])

Data == [t |-> "data"]
Blank == [t |-> "blank"]
Size(n) == [t |-> "size", n |-> n]
Chunks == <<Size(2), Data, Data, Blank, Size(0), Blank>>
LongChunk == <<Size(1), Data, Data, Blank, Size(0), Blank>>

Request(form, method, path, version, headers, content) ==
    [form |-> form, method |-> method, path |-> path, version |-> version, headers |-> headers,
     content |-> content]
Get(version, headers) == Request("good", "GET", "known", version, headers, <<>>)
Post(headers, content) == Request("good", "POST", "known", "1.1", headers, content)

Plain ==
    {Get("1.1", <<>>), Get("1.1", <<Close>>), Get("1.0", <<>>), Get("1.0", <<Header("Connection", [text |-> "Keep-Alive"])>>),
     Request("good", "HEAD", "known", "1.1", <<>>, <<>>), Request("good", "GET", "other", "1.1", <<>>, <<>>),
     Request("good", "PATCH", "known", "1.1", <<Length(1)>>, <<Data>>),
     Request("good", "CONNECT", "known", "1.1", <<>>, <<>>)}

Ranged ==
    {Get("1.1", <<Header("Range", [ranges |-> ranges])>>) :
        ranges \in {Malformed, <<<<0, 0>>>>, <<<<7, -1>>>>, <<<<1, 2>>, <<-1, 1>>>>, <<<<0, 1>>, <<2, 1>>>>}}

Posts ==
    {Post(<<Length(2)>>, <<Data, Data>>), Post(<<Header("Expect", [text |-> "100-continue"]), Length(1)>>, <<Data>>),
     Post(<<Chunked>>, Chunks), Post(<<Chunked, Close>>, Chunks), Post(<<Length(0)>>, <<>>)}

\* What the server refuses, or reads otherwise than its client means it.
Odd ==
    {Post(<<>>, <<Data>>), Post(<<Length(4)>>, <<Data, Data, Data, Data>>), Post(<<Length(1)>>, <<Data, Data>>),
     Post(<<Chunked>>, LongChunk), Request("bad", "GET", "known", "1.1", <<>>, <<>>),
     Request("long", "GET", "known", "1.1", <<Close>>, <<>>),
     Get("1.1", <<Close, Header("Range", [ranges |-> Malformed])>>)}

\* Lengths beyond the content, within the limit and above it.
Short == {Post(<<Length(3)>>, <<Data>>), Post(<<Length(5)>>, <<Data>>)}

AnyRequest == Plain \cup Ranged \cup Posts \cup Odd
Few == {Get("1.1", <<>>), Get("1.1", <<Close>>), Post(<<Length(2)>>, <<Data, Data>>), Post(<<Chunked>>, Chunks)}

SampleScripts ==
    {<<a>> : a \in AnyRequest \cup Short} \cup {<<a, b>> : a \in AnyRequest, b \in AnyRequest \cup Short}
      \cup {<<a, b, c>> : a \in Few, b \in Few, c \in Few}

-----------------------------------------------------------------------------
(* Forms of one and of two files, with contents that resemble the delimiter *)

SampleHeaders ==
    [d1 |-> [name |-> "n1", filename |-> "f1"], d2 |-> [name |-> "n2", filename |-> ""],
     t1 |-> [content_type |-> "c1"]]

Contents ==
    SeqOf({"cr", "lf", "-", "b"}, 3)
      \cup {<<"cr", "lf", "-", "-">> \o s : s \in SeqOf({"cr", "lf", "-", "b"}, 1) \cup {<<"cr", "lf">>}}

File(headers, content) == [headers |-> headers, content |-> content]

SampleForms ==
    {<<File(<<"d1", "t1">>, c)>> : c \in Contents}
      \cup {<<File(<<"d2">>, c), File(<<"other", "t1", "d1">>, d)>> : c \in Contents, d \in {<<>>, <<"-">>}}

SampleTrailers == {<<>>, <<"cr", "lf">>}
=============================================================================
