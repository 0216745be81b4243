-------------------------- MODULE JsonOrderedObject --------------------------
(***************************************************************************)
(* The first-in-order objects of sgx/src/include/Json.h: FIOObject and     *)
(* FlatObject.  Two maps stand behind one: "key" takes a key to its slot,  *)
(* "val" a slot to its value.  A slot is a tag and the key, as one string; *)
(* tags are chosen so that the dictionary order of the slots is the order  *)
(* of their creation.  A third entry, "deq", is rebuilt from "val" whenever   *)
(* the members are listed and is not kept here.                            *)
(*                                                                         *)
(* Keys are numbered in dictionary order.  A slot that is looked up goes   *)
(* through ToString, which escapes it; tags need no escape.                *)
(***************************************************************************)
EXTENDS Integers, Sequences, FiniteSets, Functions, SequencesExt

CONSTANTS
    Key,
    Value, NullValue,
    EscapeKey,  \* json_escape of each key
    LastDigit,  \* 9, the last of the digits
    MaxTag      \* bound: digits of a tag

VARIABLES
    type,
    keys,       \* FIO_KEY: from keys to slots
    vals        \* FIO_VAL: from slots to values

orderedVars == <<type, keys, vals>>

OrderedInit ==
    /\ type \in {"FIOObject", "FlatObject"}
    /\ keys = [key \in {} |-> NullValue]
    /\ vals = [slot \in {} |-> NullValue]

-----------------------------------------------------------------------------
(* The order of std::map over slots: the separator between tag and key comes *)
(* before every digit                                                        *)

TagBefore(s, t) ==
    \E i \in DOMAIN t :
        /\ \A j \in 1 .. i - 1 : j \in DOMAIN s /\ s[j] = t[j]
        /\ i \in DOMAIN s => s[i] < t[i]

SlotBefore(r, s) == TagBefore(r.tag, s.tag) \/ (r.tag = s.tag /\ r.key < s.key)

InOrder(slots) ==
    CHOOSE seq \in [1 .. Cardinality(slots) -> slots] :
        \A i, j \in DOMAIN seq : i < j => SlotBefore(seq[i], seq[j])

\* Mutated form: tags count on as decimal numbers do, 10 after 9.
NextTagDecimal ==
    IF DOMAIN vals = {} THEN <<0>>
    ELSE LET tag == Last(InOrder(DOMAIN vals)).tag
         IN  IF Last(tag) >= LastDigit THEN <<1>> \o [i \in DOMAIN tag |-> 0]
             ELSE [tag EXCEPT ![Len(tag)] = @ + 1]

\* The tag after the largest in use: its last digit goes up, and after the last
\* digit another one is appended.
NextTag ==
    IF DOMAIN vals = {} THEN <<0>>
    ELSE LET tag == Last(InOrder(DOMAIN vals)).tag
         IN  IF Last(tag) >= LastDigit THEN Append(tag, 0)
             ELSE [tag EXCEPT ![Len(tag)] = @ + 1]

SlotOf(key) == [keys[key] EXCEPT !.key = EscapeKey[@]]

-----------------------------------------------------------------------------
(* operator[] of a key, and an assignment to what it returns *)

hasKey(key) == key \in DOMAIN keys

\* o[key] as it is used: read, or assigned v.
Index(key, assigned, v) ==
    LET slot == IF hasKey(key) THEN SlotOf(key) ELSE [tag |-> NextTag, key |-> key]
        old == IF slot \in DOMAIN vals THEN vals[slot] ELSE NullValue
    IN  /\ Len(slot.tag) <= MaxTag
        /\ keys' = IF hasKey(key) THEN keys
                   ELSE [k \in DOMAIN keys \cup {key} |-> IF k = key THEN slot ELSE keys[k]]
        /\ vals' = [s \in DOMAIN vals \cup {slot} |->
                       IF s # slot THEN vals[s] ELSE IF assigned THEN v ELSE old]
        /\ UNCHANGED type

Read(key) == Index(key, FALSE, NullValue)
Assign(key, v) == Index(key, TRUE, v)

erase(key) ==
    /\ hasKey(key)
    /\ keys' = Restrict(keys, DOMAIN keys \ {key})
    /\ vals' = Restrict(vals, DOMAIN vals \ {SlotOf(key)})
    /\ UNCHANGED type

\* FIOObjectRange: the members in the order of their slots.
FIOObjectRange ==
    LET slots == InOrder(DOMAIN vals)
    IN  [i \in DOMAIN slots |-> <<slots[i].key, vals[slots[i]]>>]

EnableFlat == type = "FIOObject" /\ type' = "FlatObject" /\ UNCHANGED <<keys, vals>>
DisableFlat == type = "FlatObject" /\ type' = "FIOObject" /\ UNCHANGED <<keys, vals>>

\* size: the number of keys.
size == Cardinality(DOMAIN keys)

OrderedNext ==
    \/ \E key \in Key : Read(key) \/ erase(key) \/ \E v \in Value : Assign(key, v)
    \/ EnableFlat
    \/ DisableFlat

OrderedSpec == OrderedInit /\ [][OrderedNext]_orderedVars

-----------------------------------------------------------------------------
(* Properties *)

\* The two maps agree: every key has its slot and every slot its key, so that
\* what size counts is what dump and FIOObjectRange show.
SlotsMatch ==
    /\ DOMAIN vals = {keys[key] : key \in DOMAIN keys}
    /\ size = Cardinality(DOMAIN vals)

Map == INSTANCE InsertionOrder WITH entries <- FIOObjectRange

\* An object of either type is a map in the order of first assignment, through
\* assignments, reads that create, and erasures in any order, whose size is that
\* of its listing (Json.h 464-509, 634-667, 785-801).
RefinesInsertionOrder == Map!Spec /\ []SlotsMatch
=============================================================================
