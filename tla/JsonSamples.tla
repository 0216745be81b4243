----------------------------- MODULE JsonSamples ------------------------------
(* Texts and values for JsonRoundTrip. *)
EXTENDS JsonText

Structural == {"{", "}", "[", "]", ":", ",", "q", "x", "1", "ws"}
InString == {"x", "bs", "q", "n", "0", "ws", "JT", "BT"}
InNumber == {"0", "1", "-", ".", "e"}

In(open, texts, close) == {open \o s \o close : s \in texts}

\* Every short text; numbers and strings in an array and as a member; ordered
\* objects with up to two members; words and marks, whole and cut short.
Members2 == {<<"q", "x", "q", ":">> \o v : v \in {<<"1">>, True, <<"t">>}}
Words == {True, False, NullWord, FIO_OBJ, FLAT_OBJ}
SampleInputs ==
    SeqOf(Structural, 4)
      \cup In(<<"[">>, SeqOf(InNumber, 5), <<"]">>)
      \cup In(<<"{", "q", "x", "q", ":", "[">>, SeqOf(Structural, 2), <<"]", "}">>)
      \cup In(<<"[", "q">>, SeqOf(InString, 4), <<"q", "]">>)
      \cup In(<<"[", "q", "bs", "u">>, SeqOf({"0", "x", "q"}, 4), <<"q", "]">>)
      \cup In(<<"{", "q">>, SeqOf({"x", "bs", "ws", "JT", "0"}, 3), <<"q", ":", "1", "}">>)
      \cup {open \o SubSeq(word, 1, n) \o close : open \in SeqOf({"{", "["}, 2), word \in Words, n \in 1 .. 3,
                                                close \in SeqOf({"]", "}", "q"}, 2)}
      \cup UNION {In(<<"{">> \o mark, {<<>>} \cup Members2
                         \cup {a \o <<",", "q">> \o key \o <<"q", ":">> \o NullWord :
                                 a \in Members2, key \in {<<>>, <<"x">>, <<"0">>}},
                     <<"}">>) : mark \in {FIO_OBJ, FLAT_OBJ}}

Leaves == {Null, Bool(TRUE), Bool(FALSE), String(<<>>), String(<<"q", "bs">>), String(<<"ws", "x">>),
           Number("Integral", TRUE, <<"1", "0">>, 0), Number("Integral", FALSE, <<"0">>, 0)}
Lists(values) == {Array(l) : l \in SeqOf(values, 2)}
Maps(values) == {Object(m) : m \in UNION {[K -> values] : K \in SUBSET {<<"x">>, <<>>}}}
Level1 == Lists(Leaves) \cup Maps(Leaves)
Few == {Array(<<>>), Object([key \in {} |-> Null]), Array(<<Number("Integral", FALSE, <<"1">>, 0)>>),
        Object([key \in {<<"x">>} |-> Bool(FALSE)])}
SampleValues == Level1 \cup Lists(Few \cup Leaves) \cup Maps(Few \cup Leaves)
SampleAccounts == SeqOf({"x", "0", "n", "t"}, 2)
=============================================================================
