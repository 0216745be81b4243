------------------------------ MODULE HttpRanges ------------------------------
(***************************************************************************)
(* Range requests of the HTTP server (sgx/src/include/httplib.h): the      *)
(* header's ranges, and what of a response's body they select.             *)
(*                                                                         *)
(* A range is a pair of positions, -1 for one that is left out.  A header  *)
(* is a sequence of such pairs, as text "bytes=first-last, ...", or        *)
(* Malformed: a text of another form.                                      *)
(***************************************************************************)
EXTENDS Integers, Sequences, SequencesExt

CONSTANTS
    Malformed,
    TooLarge,   \* a number that std::stoll refuses
    SizeLimit   \* the first number that is too large for a size_t

ASSUME RangeAssumption == SizeLimit \in Nat /\ SizeLimit % 2 = 0 /\ TooLarge \notin Int

Absent == -1
SizeT(n) == n % SizeLimit

-----------------------------------------------------------------------------
(* The header *)

\* What make_range_header writes: positions as they are.
make_range_header(ranges) == ranges

\* The last position lies before the first.
Backwards(r) == r[1] # Absent /\ r[2] # Absent /\ r[1] > r[2]

\* parse_range_header: all the ranges, or failure.
parse_range_header(header) ==
    IF header = Malformed \/ header = <<>> THEN [ok |-> FALSE, ranges |-> <<>>]
    ELSE LET bad(r) == TooLarge \in {r[1], r[2]} \/ Backwards(r)
             upTo == SelectInSeq(header, bad)
         IN  [ok |-> upTo = 0,
              ranges |-> IF upTo = 0 THEN header ELSE SubSeq(header, 1, upTo - 1)]

-----------------------------------------------------------------------------
(* The body *)

\* Mutated form: the last byte is left out.
OffsetAndLengthExclusive(r, size) ==
    IF r = <<Absent, Absent>> THEN <<0, size>>
    ELSE LET first == IF r[1] # Absent THEN r[1] ELSE IF size > r[2] THEN size - r[2] ELSE 0
             last == IF r[1] = Absent \/ r[2] = Absent THEN size - 1 ELSE r[2]
         IN  <<first, SizeT(last - first)>>

\* get_range_offset_and_length: "-n" is the last n bytes.
OffsetAndLength(r, size) ==
    IF r = <<Absent, Absent>> THEN <<0, size>>
    ELSE LET first == IF r[1] # Absent THEN r[1] ELSE IF size > r[2] THEN size - r[2] ELSE 0
             last == IF r[1] = Absent \/ r[2] = Absent THEN size - 1 ELSE r[2]
         IN  <<first, SizeT(SizeT(last - first) + 1)>>

\* make_content_range_header_field, "bytes first-last/size".
ContentRange(offset, length, size) == [first |-> offset, last |-> SizeT(offset + length - 1), size |-> size]

\* std::string::substr from an offset within the body.
Substr(body, offset, length) ==
    SubSeq(body, offset + 1, IF offset + length < Len(body) THEN offset + length ELSE Len(body))

\* A part of a multipart body, its boundary and headers but for Content-Range
\* left out.
Part(body, r) ==
    LET o == OffsetAndLength(r, Len(body))
    IN  [range |-> ContentRange(o[1], o[2], Len(body)), data |-> Substr(body, o[1], o[2])]

Outside(body, r) == OffsetAndLength(r, Len(body))[1] >= Len(body)

\* apply_ranges to a response whose body is not empty: the body as it is, one
\* part of it with its Content-Range, or several in a multipart body.
apply_ranges(ranges, body, status) ==
    LET refused == [status |-> 416, form |-> "whole", parts |-> <<>>, data |-> <<>>]
    IN  IF ranges = <<>> THEN [status |-> status, form |-> "whole", parts |-> <<>>, data |-> body]
        ELSE IF Len(ranges) = 1 THEN
           LET part == Part(body, ranges[1])
           IN  IF Outside(body, ranges[1]) THEN [refused EXCEPT !.form = "part", !.parts = <<part.range>>]
               ELSE [status |-> status, form |-> "part", parts |-> <<part.range>>, data |-> part.data]
        ELSE IF \E i \in DOMAIN ranges : Outside(body, ranges[i]) THEN [refused EXCEPT !.form = "multipart"]
        ELSE [status |-> status, form |-> "multipart", parts |-> <<>>,
              data |-> [i \in DOMAIN ranges |-> Part(body, ranges[i])]]
=============================================================================
