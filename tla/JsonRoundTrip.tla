---------------------------- MODULE JsonRoundTrip ----------------------------
(***************************************************************************)
(* The life of JSON texts and values: a text is read, the value written by *)
(* one of the writers or into the body of an answer, and that text read    *)
(* again.                                                                  *)
(***************************************************************************)
EXTENDS JsonText

CONSTANTS
    Inputs,     \* texts somebody sends
    Values,     \* values with the texts RFC 8259 gives them
    Accounts    \* account texts of answers, without special characters

VARIABLES
    text,
    terminated, \* it is a std::string, not bytes
    value,
    st,         \* status of the last reading
    at,         \* where it ended
    origin,     \* where the text comes from
    expected    \* what it should read as

vars == <<text, terminated, value, st, at, origin, expected>>

-----------------------------------------------------------------------------
(* RFC 8259 texts of a value: numbers without exponents, strings without the *)
(* escapes of code points, white space around every token or none            *)

SpecEscape(c) == CASE c = "q" -> <<"bs", "q">> [] c = "bs" -> <<"bs", "bs">>
                   [] c = "ws" -> <<"bs", "n">> [] OTHER -> <<c>>

SpecString(s) == <<"q">> \o FlattenSeq([i \in DOMAIN s |-> SpecEscape(s[i])]) \o <<"q">>

RECURSIVE SpecText(_, _)
SpecText(v, gap) ==
    LET token(word) == gap \o word \o gap
        list(parts) == FlattenSeq([i \in DOMAIN parts |->
                          IF i = 1 THEN parts[i] ELSE token(<<",">>) \o parts[i]])
    IN  CASE v.t = "Null" -> token(NullWord)
          [] v.t = "Boolean" -> token(IF v.b THEN True ELSE False)
          [] v.t = "Integral" -> (IF v.neg THEN <<"-">> ELSE <<>>) \o v.digits
          [] v.t = "String" -> SpecString(v.s)
          [] v.t = "Array" ->
               token(<<"[">>) \o list([i \in DOMAIN v.l |-> SpecText(v.l[i], gap)]) \o token(<<"]">>)
          [] v.t = "Object" ->
               LET keys == SetToSeq(DOMAIN v.m)
               IN  token(<<"{">>)
                     \o list([i \in DOMAIN keys |->
                            SpecString(keys[i]) \o token(<<":">>) \o SpecText(v.m[keys[i]], gap)])
                     \o token(<<"}">>)

-----------------------------------------------------------------------------
(* The answers of the service *)

k(name) == <<name>>

IdOf(account) ==
    Object([key \in {k("pubkey"), k("mrenclave"), k("account")} |->
               IF key = k("account") THEN String(account) ELSE String(<<"0", "1">>)])

AnswerOf(account) ==
    Object([key \in {k("message"), k("status_code")} |->
               IF key = k("message") THEN IdOf(account)
               ELSE Number("Integral", FALSE, <<"1", "0", "0">>, 0)])

-----------------------------------------------------------------------------

Pending == "pending"

Init ==
    /\ value = Null /\ st = Pending /\ at = 0
    /\ terminated \in BOOLEAN
    /\ \/ text \in Inputs /\ origin = "input" /\ expected = Null
       \/ \E v \in Values, gap \in {<<>>, <<"ws">>} :
             text = SpecText(v, gap) /\ origin = "rfc" /\ expected = v
       \/ \E account \in Accounts :
             /\ text = Stripped(Dump(AnswerOf(account), FALSE))
             /\ origin = "answer" /\ terminated
             /\ expected = AnswerOf(account)

Read ==
    /\ st = Pending
    /\ LET r == IF terminated THEN LoadString(text) ELSE LoadBytes(text) IN value' = r.v /\ st' = r.st /\ at' = r.at
    /\ UNCHANGED <<text, terminated, origin, expected>>

\* What a written value is read as.  A double that shows no decimals comes back
\* as an integer, one that shows some to six places; without its mark an ordered
\* object comes back as a plain one, and a member with an empty key not at all.
RECURSIVE Settled(_, _, _)
Settled(v, in_type, empty) ==
    CASE v.t = "Floating" ->
           LET n == Rounded(v) IN IF n.scale = 0 THEN [n EXCEPT !.t = "Integral"] ELSE n
      [] v.t = "Array" -> Array([i \in DOMAIN v.l |-> Settled(v.l[i], in_type, empty)])
      [] v.t = "Object" -> Object([key \in DOMAIN v.m |-> Settled(v.m[key], in_type, empty)])
      [] v.t \in {"FIOObject", "FlatObject"} ->
           LET m == Named(v.m)
           IN  IF in_type /\ (m # <<>> \/ empty)
               THEN Ordered(v.t, [i \in DOMAIN m |-> <<m[i][1], Settled(m[i][2], in_type, empty)>>])
               ELSE Object([key \in {m[i][1] : i \in DOMAIN m} |->
                      Settled((CHOOSE member \in {m[i] : i \in DOMAIN m} : member[1] = key)[2],
                              in_type, empty)])
      [] OTHER -> v

\* A number needs a symbol after it: only structures are written on their own.
Structure == {"Array", "Object", "FIOObject", "FlatObject"}

Write(vector, in_type) ==
    /\ st = "SUCCESS"
    /\ value.t \in Structure
    /\ origin \in {"input", "rfc"}
    /\ text' = IF vector THEN DumpVector(value, in_type) ELSE Dump(value, in_type)
    /\ terminated' = ~vector
    /\ expected' = Settled(value, in_type, vector)
    /\ origin' = "written"
    /\ st' = Pending
    /\ UNCHANGED <<value, at>>

\* Nothing is left to do with this text.
Done == st # Pending /\ (st = "SUCCESS" /\ value.t \in Structure => origin \notin {"input", "rfc"})
          /\ UNCHANGED vars

Next == Read \/ (\E vector, in_type \in BOOLEAN : Write(vector, in_type)) \/ Done

Spec == Init /\ [][Next]_vars

-----------------------------------------------------------------------------
(* Properties *)

\* A text that was made for a value is read as that value, whoever wrote it.
\* "written": by either writer, from a value that was read before: escapes, tags,
\* marks and nesting survive the trip.  "rfc": well-formed, and within the
\* reader's means.  "answer": by the service, its backslashes and newlines removed
\* afterwards; no account, key or measurement that needs no escape is damaged
\* (Json.h 908-2012, App.cpp 94-103).
ReadAsMeant ==
    origin \in {"written", "rfc", "answer"} /\ st # Pending => st = "SUCCESS" /\ value = expected

\* The bracket structure of a text: the brackets open after each symbol, strings
\* passed over, or "bad".
Bracket(stack, c) ==
    CASE stack = <<"bad">> -> stack
      [] stack # <<>> /\ stack[1] = "esc" -> Tail(stack)
      [] stack # <<>> /\ stack[1] = "q" ->
           CASE c = "q" -> Tail(stack) [] c = "bs" -> <<"esc">> \o stack [] OTHER -> stack
      [] c \in {"q", "{", "["} -> <<c>> \o stack
      [] c = "}" -> IF stack # <<>> /\ stack[1] = "{" THEN Tail(stack) ELSE <<"bad">>
      [] c = "]" -> IF stack # <<>> /\ stack[1] = "[" THEN Tail(stack) ELSE <<"bad">>
      [] OTHER -> stack

\* A reading that reports success has taken in a balanced text: an error deep in
\* a structure is never lost on the way out (Json.h 1391-1587).
SuccessIsBalanced ==
    st = "SUCCESS" =>
        /\ at <= Len(text) + 1
        /\ FoldLeft(LAMBDA stack, c : Bracket(stack, c), <<>>, SubSeq(text, 1, at - 1)) = <<>>

\* What a closed text is read as does not depend on what lies in memory behind
\* it: only one cut short lets the reader decide by a symbol that is not there.
\* That is no promise to leave that memory alone: the comparisons with marks and
\* words take in up to four or five bytes, of which the first that differs decides
\* (1395-1400, 1907-1937).  Excepted are a tag with too few digits behind it, an
\* exponent, whose first digit is passed over unseen, and among bytes, which end
\* without a terminator, a text that is no structure or string
\* (Json.h 1391-1998).
Closed == FoldLeft(LAMBDA stack, c : Bracket(stack, c), <<>>, text) = <<>>
Delimited == LET from == ConsumeWs(text, 1) IN Sym(text, from) \in {"{", "[", "q"}

DecidedWithin ==
    st = "overrun" =>
        \/ ~Closed
        \/ \E i \in DOMAIN text : text[i] \in {"JT", "BT"}
        \/ \E i \in DOMAIN text : text[i] = "e" /\ i > 1 /\ text[i - 1] \in Digit \cup {"-", "."}
        \/ ~terminated /\ ~Delimited
=============================================================================
