------------------------------- MODULE HttpInput -------------------------------
(***************************************************************************)
(* What becomes of one input of a request: ranges applied to a body        *)
(* (HttpRanges), and texts that are converted and paths that are tested    *)
(* (UrlText).                                                              *)
(***************************************************************************)
EXTENDS HttpRanges, UrlText

VARIABLE input  \* its kind, and what there is of it

\* What may come: positions are numbers of an ssize_t, bodies are not empty.
Position == -1 .. (SizeLimit \div 2) - 1
RangeInputs ==
    [kind : {"ranges"}, ranges : Seq(Position \X Position) \ {<<>>, Malformed}, size : 1 .. SizeLimit \div 2]
PathInputs == [kind : {"path"}, path : Seq(Byte)]

-----------------------------------------------------------------------------
(* Ranges *)

\* RFC 7233: the positions of a body that a range selects.
Wanted(r, len) ==
    {i \in 0 .. len - 1 :
        CASE r[1] = -1 /\ r[2] = -1 -> TRUE
          [] r[1] = -1 -> i >= len - r[2]
          [] r[2] = -1 -> i >= r[1]
          [] OTHER -> i >= r[1] /\ i <= r[2]}

\* A sequence lists the members of a set of numbers upwards.
Lists(s, set) == Range(s) = set /\ \A i, j \in DOMAIN s : i < j => s[i] < s[j]

\* A range header is refused if one of its ranges runs backwards; otherwise the
\* answer has the bytes that each range selects, from the position it names, or
\* is 416 if some range selects none (httplib.h 3548-3580, 3808-3922, 5187-5296).
RangesServed ==
    input.kind = "ranges" =>
        LET ranges == input.ranges
            len == input.size
            parsed == parse_range_header(make_range_header(ranges))
            applied == apply_ranges(parsed.ranges, [i \in 1 .. len |-> i - 1], 206)
            parts == IF applied.form = "multipart" THEN applied.data
                     ELSE <<[range |-> applied.parts[1], data |-> applied.data]>>
        IN  /\ parsed.ok <=> \A i \in DOMAIN ranges : -1 \in {ranges[i][1], ranges[i][2]} \/ ranges[i][1] <= ranges[i][2]
            /\ parsed.ok =>
                  IF \E i \in DOMAIN ranges : Wanted(ranges[i], len) = {}
                  THEN applied.status = 416 /\ applied.data = <<>>
                  ELSE /\ applied.status = 206
                       /\ \A i \in DOMAIN ranges :
                             /\ Lists(parts[i].data, Wanted(ranges[i], len))
                             /\ parts[i].range.first = parts[i].data[1]

-----------------------------------------------------------------------------
(* Texts *)

\* What is escaped for a query, a URL or as a set of parameters is read back;
\* a percent sign or a NUL does not survive in a URL (httplib.h 1965-2053,
\* 3501-3534).
EscapesReadBack ==
    /\ input.kind = "text" =>
          \A plus \in BOOLEAN :
             /\ decode_url(encode_query_param(input.s), plus) = input.s
             /\ Range(input.s) \cap {0, Percent} = {} => decode_url(encode_url(input.s), plus) = input.s
    /\ input.kind = "params" => parse_query_text(params_to_query_str(input.params)) = input.params

\* Bit b of a text, 0 after its end.
BitOf(s, b) == IF b \div 8 < Len(s) THEN (s[(b \div 8) + 1] \div 2^(7 - (b % 8))) % 2 ELSE 0

\* RFC 4648: digit i of base64 is made of bits 6 i to 6 i + 5, as many as it
\* takes, and pads fill the last four.
Base64IsBits ==
    input.kind = "text" =>
        LET digits == base64_encode(input.s)
            wanted == (8 * Len(input.s) + 5) \div 6
        IN  /\ Len(digits) = 4 * ((Len(input.s) + 2) \div 3)
            /\ \A i \in DOMAIN digits :
                  digits[i] = IF i > wanted THEN Pad
                              ELSE FoldLeft(LAMBDA n, b : 2 * n + BitOf(input.s, 6 * (i - 1) + b), 0, <<0, 1, 2, 3, 4, 5>>)

\* Texts are converted without loss: escaped ones are read back, and base64 has
\* every bit (httplib.h 1890-1916, 1965-2053, 3501-3534).
TextsConverted == EscapesReadBack /\ Base64IsBits

-----------------------------------------------------------------------------
(* Paths *)

\* How many of the components that end by n lead up, and how many down.
Ups(path, n) == Cardinality({i \in Ends(path) \cap 1 .. n : Component(path, i) = <<Dot, Dot>>})
Downs(path, n) == Cardinality({i \in Ends(path) \cap 1 .. n : Component(path, i) \notin {<<Dot>>, <<Dot, Dot>>}})

\* A path is served only if none of its beginnings leads out of the directory it
\* is looked up in (httplib.h 1928-1963).
PathStaysInside ==
    input.kind = "path" =>
        (is_valid_path(input.path) <=> \A n \in DOMAIN input.path : Ups(input.path, n) <= Downs(input.path, n))
=============================================================================
