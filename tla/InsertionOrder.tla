--------------------------- MODULE InsertionOrder ----------------------------
(***************************************************************************)
(* What a first-in-order object promises: a map whose entries keep the     *)
(* order in which their keys were first assigned.                          *)
(***************************************************************************)
EXTENDS Integers, Sequences, SequencesExt

CONSTANTS Key, Value, NullValue

VARIABLE entries    \* pairs of a key and a value, oldest first

Position(key) == SelectInSeq(entries, LAMBDA entry : entry[1] = key)

Init == entries = <<>>

\* A key that is named for the first time gets an entry, one that has an entry
\* keeps its place.
Put(key, v) ==
    entries' = IF Position(key) = 0 THEN Append(entries, <<key, v>>)
               ELSE [entries EXCEPT ![Position(key)] = <<key, v>>]

Name(key) ==
    /\ Position(key) = 0
    /\ Put(key, NullValue)

Forget(key) ==
    /\ Position(key) # 0
    /\ entries' = RemoveAt(entries, Position(key))

Next == \E key \in Key : Name(key) \/ Forget(key) \/ \E v \in Value : Put(key, v)

Spec == Init /\ [][Next]_entries
=============================================================================
