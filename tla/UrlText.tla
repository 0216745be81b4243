-------------------------------- MODULE UrlText -------------------------------
(***************************************************************************)
(* The texts of URLs, queries and headers in sgx/src/include/httplib.h:    *)
(* escaping and its inverse, splitting, parameters, base64, and the test   *)
(* of a file's path.  A text is a sequence of bytes.                       *)
(***************************************************************************)
EXTENDS Integers, Sequences, SequencesExt, FiniteSets, Functions

Byte == 0 .. 255
Percent == 37
Plus == 43
Space == 32
Tab == 9
Ampersand == 38
Equals == 61
Slash == 47
Dot == 46

Digits == 48 .. 57
Alphanumeric == Digits \cup (65 .. 90) \cup (97 .. 122)
HexDigit(v) == IF v < 10 THEN 48 + v ELSE 55 + v
Escaped(c) == <<Percent, HexDigit(c \div 16), HexDigit(c % 16)>>

-----------------------------------------------------------------------------
(* Escaping *)

\* Letters, digits and - _ . ! ~ * ' ( )
Unescaped == Alphanumeric \cup {45, 95, Dot, 33, 126, 42, 39, 40, 41}

encode_query_param(s) == FlattenSeq([i \in DOMAIN s |-> IF s[i] \in Unescaped THEN <<s[i]>> ELSE Escaped(s[i])])

\* Up to the first NUL: blank, plus, ends of line, ' , ; and what is not ASCII
\* are escaped, a percent sign is not.
encode_url(s) ==
    LET nul == SelectInSeq(s, LAMBDA c : c = 0)
        escape == {Space, Plus, 13, 10, 39, 44, 59} \cup (128 .. 255)
    IN  FlattenSeq([i \in 1 .. (IF nul = 0 THEN Len(s) ELSE nul - 1) |->
                       IF s[i] \in escape THEN Escaped(s[i]) ELSE <<s[i]>>])

HexValue(c) ==
    CASE c \in Digits -> c - 48
      [] c \in 65 .. 70 -> c - 55
      [] c \in 97 .. 102 -> c - 87
      [] OTHER -> -1

\* from_hex_to_i: cnt digits from i on; the NUL after the text is none.
IsHex(s, i, cnt) == \A k \in i .. i + cnt - 1 : k \in DOMAIN s /\ HexValue(s[k]) # -1
from_hex_to_i(s, i, cnt) == FoldLeft(LAMBDA v, c : 16 * v + HexValue(c), 0, SubSeq(s, i, i + cnt - 1))

\* Of a code of four digits; surrogates have no bytes.
to_utf8(code) ==
    LET tail(bits) == 128 + ((code \div 2^bits) % 64)
    IN  IF code < 128 THEN <<code>>
        ELSE IF code < 2048 THEN <<192 + code \div 64, tail(0)>>
        ELSE IF code \in 55296 .. 57343 THEN <<>>
        ELSE <<224 + code \div 4096, tail(6), tail(0)>>

\* Bytes that decode_url takes from i on, and what it gives for them.
Unit(s, i, plus) ==
    LET more == s[i] = Percent /\ i < Len(s)
    IN  IF more /\ s[i + 1] = 117 /\ IsHex(s, i + 2, 4) THEN <<6, to_utf8(from_hex_to_i(s, i + 2, 4))>>
        ELSE IF more /\ s[i + 1] # 117 /\ IsHex(s, i + 1, 2) THEN <<3, <<from_hex_to_i(s, i + 1, 2)>>>>
        ELSE <<1, <<IF plus /\ s[i] = Plus THEN Space ELSE s[i]>>>>

decode_url(s, plus) ==
    LET from[i \in 1 .. Len(s) + 1] ==
            IF i > Len(s) THEN <<>> ELSE LET unit == Unit(s, i, plus) IN unit[2] \o from[i + unit[1]]
    IN  from[1]

-----------------------------------------------------------------------------
(* Splitting *)

Blank(c) == c \in {Space, Tab}

\* trim: what lies between left and right, without the blanks at its ends.
Trimmed(s, left, right) ==
    LET inner == {i \in left + 1 .. right : ~Blank(s[i])}
    IN  IF inner = {} THEN <<>>
        ELSE SubSeq(s, CHOOSE i \in inner : \A j \in inner : i <= j, CHOOSE i \in inner : \A j \in inner : i >= j)

\* split: the trimmed pieces between separators that are not empty.
split(s, d) ==
    LET bounds == <<0>> \o SelectSeq([i \in DOMAIN s |-> i], LAMBDA i : s[i] = d) \o <<Len(s) + 1>>
        pieces == [i \in 1 .. Len(bounds) - 1 |-> Trimmed(s, bounds[i], bounds[i + 1] - 1)]
    IN  SelectSeq(pieces, LAMBDA piece : piece # <<>>)

\* Mutated form: the value of a parameter is written as it is.
params_to_query_str_plain(params) ==
    FlattenSeq([i \in DOMAIN params |->
        (IF i = 1 THEN <<>> ELSE <<Ampersand>>) \o params[i][1] \o <<Equals>> \o params[i][2]])

\* The parameters, sorted by their keys, as a multimap has them; keys are not
\* escaped.
params_to_query_str(params) ==
    FlattenSeq([i \in DOMAIN params |->
        (IF i = 1 THEN <<>> ELSE <<Ampersand>>) \o params[i][1] \o <<Equals>> \o encode_query_param(params[i][2])])

\* parse_query_text: a pair is taken once; without a value it is empty, and of
\* several the last one counts.
parse_query_text(s) ==
    LET pairs == split(s, Ampersand)
        fields(i) == split(pairs[i], Equals)
        value(i) == IF Len(fields(i)) > 1 THEN decode_url(Last(fields(i)), TRUE) ELSE <<>>
        taken == SelectSeq([i \in DOMAIN pairs |-> i],
                           LAMBDA i : fields(i) # <<>> /\ \A j \in 1 .. i - 1 : pairs[j] # pairs[i])
    IN  [i \in DOMAIN taken |-> <<decode_url(fields(taken[i])[1], TRUE), value(taken[i])>>]

-----------------------------------------------------------------------------
(* Base64 *)

Pad == 64

\* Mutated form: the bits that are left at the end are not moved up.
LastDigit64Low(val, valb) == val % 64

\* The digit of the bits that are left at the end, of which valb + 6 are.
LastDigit64(val, valb) == ((val * 256) \div 2^(valb + 8)) % 64

\* base64_encode, its digits as numbers.  val keeps bits that are never looked
\* at again: those above the lowest sixteen are left out.
base64_encode(in) ==
    LET digits(acc, c) ==
            LET val == (acc.val * 256 + c) % 2^16
                first == (val \div 2^(acc.valb + 8)) % 64
                second == (val \div 2^(acc.valb + 2)) % 64
            IN  IF acc.valb + 2 >= 0
                THEN [val |-> val, valb |-> acc.valb - 4, out |-> acc.out \o <<first, second>>]
                ELSE [val |-> val, valb |-> acc.valb + 2, out |-> Append(acc.out, first)]
        done == FoldLeft(digits, [val |-> 0, valb |-> -6, out |-> <<>>], in)
        out == IF done.valb > -6 THEN Append(done.out, LastDigit64(done.val, done.valb)) ELSE done.out
    IN  out \o [i \in 1 .. ((4 - (Len(out) % 4)) % 4) |-> Pad]

-----------------------------------------------------------------------------
(* Paths *)

\* Where the components of a path end, and the component that ends at i.
Ends(path) == {i \in DOMAIN path : path[i] # Slash /\ (i = Len(path) \/ path[i + 1] = Slash)}
Component(path, i) ==
    SubSeq(path, CHOOSE j \in 1 .. i : (\A k \in j .. i : path[k] # Slash) /\ (j = 1 \/ path[j - 1] = Slash), i)

\* Mutated form: the level may go below that of the root.
NextLevelBelow(level, name) == IF name = <<Dot>> THEN level ELSE IF name = <<Dot, Dot>> THEN level - 1 ELSE level + 1

\* The level below the root after one component more; -1 once one has led above it.
NextLevel(level, name) ==
    IF level = -1 \/ name = <<Dot>> THEN level ELSE IF name = <<Dot, Dot>> THEN level - 1 ELSE level + 1

\* is_valid_path: no component leads above the root on the way.
is_valid_path(path) ==
    LET level[i \in 0 .. Len(path)] ==
            IF i = 0 THEN 0 ELSE IF i \in Ends(path) THEN NextLevel(level[i - 1], Component(path, i)) ELSE level[i - 1]
    IN  level[Len(path)] # -1
=============================================================================
