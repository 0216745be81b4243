------------------------------- MODULE JsonText -------------------------------
(***************************************************************************)
(* The reader and the writers of the DCAP service's JSON values            *)
(* (sgx/src/include/Json.h).  A text is a sequence of symbols: a bracket,  *)
(* a digit (0 or 1), a quote, a backslash, a letter or another character;  *)
(* "ws" is white space, a newline where it is written.  The tags JT and BT *)
(* are one symbol each, and padding is written as one symbol.              *)
(*                                                                         *)
(* The code has each function for std::string, whose text ends in a        *)
(* terminator, and once more for bytes, whose text ends without one and    *)
(* without a test.  One operator stands for both: the texts differ.        *)
(***************************************************************************)
EXTENDS Integers, Sequences, SequencesExt

CONSTANT HashDigits     \* hexadecimal digits of a hash: 2 * _hash_length

True == <<"t", "r", "u", "e">>
False == <<"f", "a", "l", "s", "e">>
NullWord == <<"n", "u", "l", "l">>
FIO_OBJ == <<"f", "i", "o">>
FLAT_OBJ == <<"f", "l", "a", "t">>

Digit == {"0", "1"}
Hex == Digit
Null == [t |-> "Null"]
Bool(b) == [t |-> "Boolean", b |-> b]
String(s) == [t |-> "String", s |-> s]
Array(l) == [t |-> "Array", l |-> l]
Object(m) == [t |-> "Object", m |-> m]

\* A first-in-order object: its members in the order of first assignment.
Ordered(type, m) == [t |-> type, m |-> m]

\* A number: digits \X 10 ^ -scale, with neither leading nor trailing zeros to drop.
Number(type, neg, digits, scale) ==
    [t |-> type, neg |-> neg, digits |-> digits, scale |-> scale]

-----------------------------------------------------------------------------
(* Conversions of strings *)

Special == {"q", "bs", "ws"}

Escape(c) == CASE c = "q" -> <<"bs", "q">>
               [] c = "bs" -> <<"bs", "bs">>
               [] c = "ws" -> <<"bs", "n">>
               [] OTHER -> <<c>>

\* Mutated form: backslashes pass unescaped.
JsonEscapeQuotesOnly(s) ==
    FlattenSeq([i \in DOMAIN s |-> IF s[i] = "bs" THEN <<"bs">> ELSE Escape(s[i])])
JsonEscape(s) == FlattenSeq([i \in DOMAIN s |-> Escape(s[i])])

IntegralText(n) == (IF n.neg THEN <<"-">> ELSE <<>>) \o n.digits

\* JSON::ToString: what a member is filed under when the reader meets its key.
KeyText(v) == CASE v.t = "String" -> JsonEscape(v.s)
                 [] v.t \in {"Hash", "Buffer"} -> v.s
                 [] v.t = "Integral" -> IntegralText(v)
                 [] OTHER -> <<>>

-----------------------------------------------------------------------------
(* Numbers *)

Zeros(n) == [i \in 1 .. n |-> "0"]

\* The leading symbols of s that are in S.
Span(s, S) ==
    SubSeq(s, 1, CHOOSE n \in 0 .. Len(s) :
                    /\ \A i \in 1 .. n : s[i] \in S
                    /\ n < Len(s) => s[n + 1] \notin S)

Drop(s, n) == SubSeq(s, n + 1, Len(s))

StripLeading(digits) ==
    LET zeros == Len(Span(digits, {"0"}))
    IN  IF zeros = Len(digits) THEN <<"0">> ELSE Drop(digits, zeros)

\* The value of digits \X 10 ^ -scale, in the one form that has it.
Canonical(type, neg, digits, scale) ==
    LET grown == IF scale < 0 THEN digits \o Zeros(-scale) ELSE digits
        places == IF scale < 0 THEN 0 ELSE scale
        trailing == Len(Span(Reverse(grown), {"0"}))
        cut == IF trailing < places THEN trailing ELSE places
        kept == StripLeading(SubSeq(grown, 1, Len(grown) - cut))
    IN  IF kept = <<"0">> THEN Number(type, FALSE, kept, 0)
        ELSE Number(type, neg, kept, places - cut)

\* std::stol and std::stod of s, as [ok, n]: the longest prefix that is a number.
Convert(type, s) ==
    LET neg == s # <<>> /\ s[1] = "-"
        rest == IF neg THEN Drop(s, 1) ELSE s
        whole == Span(rest, Digit)
        after == Drop(rest, Len(whole))
        frac == IF type = "Floating" /\ after # <<>> /\ after[1] = "."
                THEN Span(Drop(after, 1), Digit) ELSE <<>>
    IN  [ok |-> whole \o frac # <<>>,
         n |-> Canonical(type, neg, whole \o frac, Len(frac))]

\* std::stol of an exponent.
Exponent(s) ==
    LET n == Convert("Integral", s).n
        size == FoldLeft(LAMBDA acc, d : 10 * acc + (IF d = "1" THEN 1 ELSE 0), 0, n.digits)
    IN  IF n.neg THEN -size ELSE size

-----------------------------------------------------------------------------
(* Reading.  A reader takes the text, the position of the next symbol and    *)
(* the status so far to [v, at, st].  The status keeps the last error;       *)
(* "throw" (std::stol or std::stod found no number) and "overrun" (what the  *)
(* reader does next is decided by what lies in memory behind the text) end   *)
(* the reading at once.                                                      *)

Aborted(st) == st \in {"throw", "overrun"}

\* str[at]: nothing defined behind the text.
Sym(text, at) == IF at <= Len(text) THEN text[at] ELSE "out"

\* memcmp with the symbols from there on, or substr: the first that differs
\* decides, whatever further bytes are compared; none may be left to decide.
Compare(text, at, word) ==
    LET differ == {i \in DOMAIN word : Sym(text, at + i - 1) # word[i]}
    IN  CASE differ = {} -> "equal"
          [] differ # {} -> IF Sym(text, at + Min(differ) - 1) = "out" THEN "out" ELSE "differs"

ConsumeWs(text, at) ==
    IF at > Len(text) THEN at
    ELSE at + Len(Span(SubSeq(text, at, Len(text)), {"ws"}))

\* The status after a look at that symbol.
Seen(text, at, st) == IF Sym(text, at) = "out" THEN "overrun" ELSE st

Result(v, at, st) == [v |-> v, at |-> at, st |-> st]

ParseBool(text, at, st) ==
    LET found == [b \in BOOLEAN |-> Compare(text, at, IF b THEN True ELSE False)]
    IN  CASE found[TRUE] = "equal" -> Result(Bool(TRUE), at + Len(True), st)
          [] found[FALSE] = "equal" -> Result(Bool(FALSE), at + Len(False), st)
          [] \E b \in BOOLEAN : found[b] = "out" -> Result(Null, at, "overrun")
          [] OTHER -> Result(Null, at, "BOOL_ERROR")

ParseNull(text, at, st) ==
    CASE Compare(text, at, NullWord) = "equal" -> Result(Null, at + Len(NullWord), st)
      [] Compare(text, at, NullWord) = "out" -> Result(Null, at, "overrun")
      [] OTHER -> Result(Null, at, "NULL_ERROR")

\* Mutated forms: no number ends at a brace; none ends at a bracket.
EndsNumberNoBrace == {"ws", ",", "]"}
EndsNumberNoBracket == {"ws", ",", "}"}
EndsNumber == {"ws", ",", "]", "}"}

\* The first symbol of an exponent is dropped, and after a minus one more.
ParseNumber(text, at, st) ==
    LET rest == SubSeq(text, at, Len(text))
        val == Span(rest, Digit \cup {"-", "."})
        stop == at + Len(val)
        isDouble == \E i \in DOMAIN val : val[i] = "."
        type == IF isDouble THEN "Floating" ELSE "Integral"
        fails(pos) == Result(Null, pos, "NUMBER_ERROR")
    IN  CASE Sym(text, stop) = "e" ->
               LET minus == Sym(text, stop + 1) = "-"
                   from == IF minus THEN stop + 3 ELSE stop + 2
                   exps == IF from > Len(text) THEN <<>>
                           ELSE Span(SubSeq(text, from, Len(text)), Digit)
                   end == from + Len(exps)
                   exp_str == (IF minus THEN <<"-">> ELSE <<>>) \o exps
                   n == Convert(type, val)
               IN  IF "out" \in {Sym(text, stop + 1), Sym(text, end)} THEN Result(Null, end, "overrun")
                   ELSE IF Sym(text, end) \notin EndsNumber THEN fails(end + 1)
                   ELSE IF exps = <<>> \/ ~n.ok THEN Result(Null, end, "throw")
                   ELSE Result(Canonical("Floating", n.n.neg, n.n.digits,
                                         n.n.scale - Exponent(exp_str)), end, st)
          [] Sym(text, stop) = "out" -> Result(Null, stop, "overrun")
          [] Sym(text, stop) \notin EndsNumber \cup {"e", "out"} -> fails(stop + 1)
          [] OTHER ->
               LET n == Convert(type, val)
               IN  IF n.ok THEN Result(n.n, stop, st) ELSE Result(Null, stop, "throw")

\* A hash and a buffer are strings that begin with a tag, in hexadecimal; what
\* is no hexadecimal digit counts as 0.
FromString(val, at, st) ==
    LET tag == IF val = <<>> THEN "" ELSE val[1]
        digits == [i \in 1 .. Len(val) - 1 |-> IF val[i + 1] \in Hex THEN val[i + 1] ELSE "0"]
        even == Len(digits) % 2 = 0
    IN  CASE tag = "JT" /\ even ->
               IF Len(digits) < HashDigits THEN Result(Null, at, "overrun")
               ELSE Result([t |-> "Hash", s |-> SubSeq(digits, 1, HashDigits)], at, st)
          [] tag = "BT" ->
               IF even THEN Result([t |-> "Buffer", s |-> digits], at, st)
               ELSE IF Len(digits) = 1 THEN Result([t |-> "Buffer", s |-> <<>>], at, st)
               ELSE Result(Null, at, "overrun")
          [] OTHER -> Result(String(val), at, st)

Unescaped(c) == CASE c \in {"q", "bs"} -> <<c>>
                  [] c \in {"n", "t", "f"} -> <<"ws">>
                  [] OTHER -> <<"bs">>

\* Mutated form: the four digits are taken for granted.
CodePointUnchecked(text, at) == TRUE
CodePoint(text, at) == \A i \in 3 .. 6 : Sym(text, at + i) \in Hex

\* No digit that is there ends the code point: one behind the text may.
CodePointCut(text, at) == \A i \in 3 .. 6 : Sym(text, at + i) \in Hex \cup {"out"}

RECURSIVE StringFrom(_, _, _, _)

\* The loop of parse_string; at is the offset before ++offset.
StringFrom(text, at, val, st) ==
    LET c == Sym(text, at + 1)
        escaped == Sym(text, at + 2)
    IN  CASE c = "out" -> Result(Null, at, "overrun")
          [] c = "q" -> FromString(val, at + 2, st)
          [] c = "bs" /\ escaped = "out" -> Result(Null, at, "overrun")
          [] c = "bs" /\ escaped = "u" ->
               IF CodePoint(text, at)
               THEN StringFrom(text, at + 6,
                               val \o <<"bs", "u">> \o SubSeq(text, at + 3, at + 6), st)
               ELSE IF CodePointCut(text, at) THEN Result(Null, at, "overrun")
               ELSE Result(String(<<>>), at + 2, "STRING_ERROR")
          [] c = "bs" /\ escaped \notin {"u", "out"} ->
               StringFrom(text, at + 2, val \o Unescaped(escaped), st)
          [] OTHER -> StringFrom(text, at + 1, Append(val, c), st)

ParseString(text, at, st) == StringFrom(text, at, <<>>, st)

\* The members after an assignment Object[key] = v, for the three classes.  The
\* keys of ordered objects need no escape here: JsonOrderedObject has those.
Assign(o, key, v) ==
    IF o.t = "Object" THEN
       Object([k \in DOMAIN o.m \cup {key} |-> IF k = key THEN v ELSE o.m[k]])
    ELSE IF \E i \in DOMAIN o.m : o.m[i][1] = key THEN
       Ordered(o.t, [i \in DOMAIN o.m |-> IF o.m[i][1] = key THEN <<key, v>> ELSE o.m[i]])
    ELSE Ordered(o.t, Append(o.m, <<key, v>>))

RECURSIVE ParseNext(_, _, _), Members(_, _, _, _), Elements(_, _, _, _)

\* Mutated form: a missing comma is taken for the end of the object.
MembersLenient(text, at, o, st) ==
    LET key == ParseNext(text, at, st)
        colon == ConsumeWs(text, key.at)
        value == ParseNext(text, ConsumeWs(text, colon + 1), key.st)
        grown == Assign(o, KeyText(key.v), value.v)
        next == ConsumeWs(text, value.at)
        broken(pos) == Result(o, pos, Seen(text, pos, "OBJECT_ERROR"))
    IN  IF Aborted(key.st) THEN key
        ELSE IF Sym(text, colon) # ":" THEN broken(colon)
        ELSE IF Aborted(value.st) THEN value
        ELSE IF Sym(text, next) = "," THEN Members(text, next + 1, grown, value.st)
        ELSE Result(grown, next + 1, value.st)

\* The loop of parse_object.
Members(text, at, o, st) ==
    LET key == ParseNext(text, at, st)
        colon == ConsumeWs(text, key.at)
        value == ParseNext(text, ConsumeWs(text, colon + 1), key.st)
        grown == Assign(o, KeyText(key.v), value.v)
        next == ConsumeWs(text, value.at)
        broken(members, pos) == Result(members, pos, Seen(text, pos, "OBJECT_ERROR"))
    IN  IF Aborted(key.st) THEN key
        ELSE IF Sym(text, colon) # ":" THEN broken(o, colon)
        ELSE IF Aborted(value.st) THEN value
        ELSE CASE Sym(text, next) = "," -> Members(text, next + 1, grown, value.st)
               [] Sym(text, next) = "}" -> Result(grown, next + 1, value.st)
               [] OTHER -> broken(grown, next)

\* Both marks are compared without a look at how much text is left.
ParseObject(text, at, st) ==
    LET found(mark) == Compare(text, at + 1, mark)
        object(empty, skipped) ==
            LET from == ConsumeWs(text, at + 1 + skipped)
            IN  IF Sym(text, from) = "}" THEN Result(empty, from + 1, st)
                ELSE Members(text, from, empty, st)
    IN  CASE found(FIO_OBJ) = "equal" -> object(Ordered("FIOObject", <<>>), Len(FIO_OBJ))
          [] found(FLAT_OBJ) = "equal" -> object(Ordered("FlatObject", <<>>), Len(FLAT_OBJ))
          [] "out" \in {found(FIO_OBJ), found(FLAT_OBJ)} -> Result(Null, at + 1, "overrun")
          [] OTHER -> object(Object([k \in {} |-> Null]), 0)

\* The loop of parse_array.
Elements(text, at, l, st) ==
    LET value == ParseNext(text, at, st)
        grown == Append(l, value.v)
        next == ConsumeWs(text, value.at)
    IN  IF Aborted(value.st) THEN value
        ELSE CASE Sym(text, next) = "," -> Elements(text, next + 1, grown, value.st)
               [] Sym(text, next) = "]" -> Result(Array(grown), next + 1, value.st)
               [] OTHER -> Result(Array(<<>>), next, Seen(text, next, "ARRAY_ERROR"))

ParseArray(text, at, st) ==
    LET from == ConsumeWs(text, at + 1)
    IN  IF Sym(text, from) = "]" THEN Result(Array(<<>>), from + 1, st)
        ELSE Elements(text, from, <<>>, st)

ParseNext(text, at, st) ==
    LET from == ConsumeWs(text, at)
        c == Sym(text, from)
    IN  CASE c = "[" -> ParseArray(text, from, st)
          [] c = "{" -> ParseObject(text, from, st)
          [] c = "q" -> ParseString(text, from, st)
          [] c \in {"t", "f"} -> ParseBool(text, from, st)
          [] c = "n" -> ParseNull(text, from, st)
          [] c \in Digit \cup {"-"} -> ParseNumber(text, from, st)
          [] OTHER -> Result(Null, from, Seen(text, from, "STARTING_ERROR"))

\* Text after the first value is not looked at.
LoadBytes(text) ==
    IF text = <<>> THEN Result(Null, 1, "SUCCESS")
    ELSE ParseNext(text, 1, "SUCCESS")

LoadString(text) ==
    IF text = <<>> THEN Result(Null, 1, "SUCCESS")
    ELSE ParseNext(Append(text, "nul"), 1, "SUCCESS")

-----------------------------------------------------------------------------
(* Writing *)

Decimals == 6    \* of std::to_string

\* The double that std::to_string shows.
Rounded(n) ==
    LET cut == IF n.scale > Decimals THEN n.scale - Decimals ELSE 0
        kept == IF cut < Len(n.digits) THEN SubSeq(n.digits, 1, Len(n.digits) - cut) ELSE <<>>
    IN  Canonical(n.t, n.neg, kept, n.scale - cut)

\* std::to_string of the double without its trailing zeros and point.
FloatingText(double) ==
    LET n == Rounded(double)
        padded == Zeros(n.scale + 1 - Len(n.digits)) \o n.digits
        whole == Len(padded) - n.scale
    IN  (IF n.neg THEN <<"-">> ELSE <<>>) \o SubSeq(padded, 1, whole)
          \o (IF n.scale = 0 THEN <<>> ELSE <<".">> \o Drop(padded, whole))

Quoted(s) == <<"q">> \o s \o <<"q">>

Atom(v) ==
    CASE v.t = "Null" -> NullWord
      [] v.t = "Boolean" -> IF v.b THEN True ELSE False
      [] v.t = "String" -> Quoted(JsonEscape(v.s))
      [] v.t = "Hash" -> Quoted(<<"JT">> \o v.s)
      [] v.t = "Buffer" -> Quoted(<<"BT">> \o v.s)
      [] v.t = "Integral" -> IntegralText(v)
      [] v.t = "Floating" -> FloatingText(v)

\* Keys in the order of std::map, which is fixed by the keys; the order itself
\* is of no consequence to a reader.
Keys(m) == SetToSeq(DOMAIN m)

Joined(parts, comma) ==
    FlattenSeq([i \in DOMAIN parts |-> IF i = 1 THEN parts[i] ELSE comma \o parts[i]])

Mark(v, in_type) ==
    CASE ~in_type -> <<>>
      [] v.t = "FIOObject" -> FIO_OBJ
      [] v.t = "FlatObject" -> FLAT_OBJ

\* An ordered object's members with an empty key are passed over.
Named(m) == SelectSeq(m, LAMBDA member : member[1] # <<>>)

RECURSIVE Dump(_, _), DumpVector(_, _)

\* dump: an object without members is written without its mark.
Dump(v, in_type) ==
    LET colon == <<"ws", ":", "ws">>
        comma == <<",", "ws">>
        pair(key, value) == Quoted(key) \o colon \o Dump(value, in_type)
    IN  CASE v.t = "Object" ->
               IF DOMAIN v.m = {} THEN <<"{", "}">>
               ELSE LET keys == Keys(v.m)
                    IN  <<"{", "ws">>
                          \o Joined([i \in DOMAIN keys |-> pair(keys[i], v.m[keys[i]])], comma)
                          \o <<"ws", "}">>
          [] v.t \in {"FIOObject", "FlatObject"} ->
               LET m == Named(v.m)
               IN  IF m = <<>> THEN <<"{", "}">>
                   ELSE <<"{">> \o Mark(v, in_type) \o <<"ws">>
                          \o Joined([i \in DOMAIN m |-> pair(m[i][1], m[i][2])], comma)
                          \o <<"ws", "}">>
          [] v.t = "Array" ->
               <<"[", "ws">> \o Joined([i \in DOMAIN v.l |-> Dump(v.l[i], in_type)], comma)
                 \o <<"ws", "]">>
          [] OTHER -> Atom(v)

\* dump_vector: no white space, and the mark is always written.
DumpVector(v, in_type) ==
    LET pair(key, value) == Quoted(key) \o <<":">> \o DumpVector(value, in_type)
    IN  CASE v.t = "Object" ->
               LET keys == Keys(v.m)
               IN  <<"{">> \o Joined([i \in DOMAIN keys |-> pair(keys[i], v.m[keys[i]])], <<",">>)
                     \o <<"}">>
          [] v.t \in {"FIOObject", "FlatObject"} ->
               LET m == Named(v.m)
               IN  <<"{">> \o Mark(v, in_type)
                     \o Joined([i \in DOMAIN m |-> pair(m[i][1], m[i][2])], <<",">>) \o <<"}">>
          [] v.t = "Array" ->
               <<"[">> \o Joined([i \in DOMAIN v.l |-> DumpVector(v.l[i], in_type)], <<",">>)
                 \o <<"]">>
          [] OTHER -> Atom(v)

\* remove_char for the backslash and the newline, on the body of an answer.
Stripped(text) == SelectSeq(text, LAMBDA c : c \notin {"bs", "ws"})
=============================================================================
