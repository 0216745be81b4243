---------------------- MODULE JsonOrderedObject_proofs -----------------------
(***************************************************************************)
(* An ordered object implements InsertionOrder, for every set of keys that *)
(* need no escape, every number of digits, and tags of any length.         *)
(***************************************************************************)
EXTENDS JsonOrderedObject, FiniteSetTheorems, FunctionTheorems, SequenceTheorems, WellFoundedInduction, TLAPS

\* Keys have an order, and none needs an escape: one that does is stored under two
\* names (Json.h 475).
KeyAssumption == Key \subseteq Int /\ \A key \in Key : EscapeKey[key] = key

Tags == Seq(Nat) \ {<<>>}
Slots == [tag : Tags, key : Key]

-----------------------------------------------------------------------------
(* The order of tags *)

LEMMA TagIrreflexive == ASSUME NEW t \in Seq(Nat) PROVE ~TagBefore(t, t)
  BY DEF TagBefore

LEMMA TagAsymmetric ==
    ASSUME NEW s \in Seq(Nat), NEW t \in Seq(Nat), TagBefore(s, t)
    PROVE  ~TagBefore(t, s)
<1> SUFFICES ASSUME TagBefore(t, s) PROVE FALSE
  OBVIOUS
<1>0. DOMAIN s = 1 .. Len(s) /\ DOMAIN t = 1 .. Len(t)
  OBVIOUS
<1>1. PICK i \in 1 .. Len(t) : /\ \A j \in 1 .. i - 1 : j \in 1 .. Len(s) /\ s[j] = t[j]
                               /\ i \in 1 .. Len(s) => s[i] < t[i]
  BY <1>0, Zenon DEF TagBefore
<1>2. PICK k \in 1 .. Len(s) : /\ \A j \in 1 .. k - 1 : j \in 1 .. Len(t) /\ t[j] = s[j]
                               /\ k \in 1 .. Len(t) => t[k] < s[k]
  BY <1>0, Zenon DEF TagBefore
<1>3. /\ Len(s) \in Nat /\ Len(t) \in Nat
      /\ \A j \in 1 .. Len(s) : s[j] \in Nat
      /\ \A j \in 1 .. Len(t) : t[j] \in Nat
  OBVIOUS
<1>4. CASE i < k
  <2>1. i \in 1 .. k - 1 /\ i \in 1 .. Len(s)
    BY <1>3, <1>4
  <2>2. t[i] = s[i] /\ s[i] < t[i] /\ t[i] \in Nat
    BY <1>1, <1>2, <1>3, <2>1
  <2> QED
    BY <2>2
<1>5. CASE k < i
  <2>1. k \in 1 .. i - 1 /\ k \in 1 .. Len(t)
    BY <1>3, <1>5
  <2>2. t[k] = s[k] /\ t[k] < s[k] /\ s[k] \in Nat
    BY <1>1, <1>2, <1>3, <2>1
  <2> QED
    BY <2>2
<1>6. CASE i = k
  <2>1. s[i] < t[i] /\ t[i] < s[i] /\ s[i] \in Nat /\ t[i] \in Nat
    BY <1>1, <1>2, <1>3, <1>6
  <2> QED
    BY <2>1
<1> QED
  BY <1>3, <1>4, <1>5, <1>6

LEMMA TagTransitive ==
    ASSUME NEW r \in Seq(Nat), NEW s \in Seq(Nat), NEW t \in Seq(Nat), TagBefore(r, s), TagBefore(s, t)
    PROVE  TagBefore(r, t)
<1>0. DOMAIN r = 1 .. Len(r) /\ DOMAIN s = 1 .. Len(s) /\ DOMAIN t = 1 .. Len(t)
  OBVIOUS
<1>1. PICK i \in 1 .. Len(s) : /\ \A j \in 1 .. i - 1 : j \in 1 .. Len(r) /\ r[j] = s[j]
                               /\ i \in 1 .. Len(r) => r[i] < s[i]
  BY <1>0, Zenon DEF TagBefore
<1>2. PICK k \in 1 .. Len(t) : /\ \A j \in 1 .. k - 1 : j \in 1 .. Len(s) /\ s[j] = t[j]
                               /\ k \in 1 .. Len(s) => s[k] < t[k]
  BY <1>0, Zenon DEF TagBefore
<1>3. /\ Len(r) \in Nat /\ Len(s) \in Nat /\ Len(t) \in Nat
      /\ \A j \in 1 .. Len(r) : r[j] \in Nat
      /\ \A j \in 1 .. Len(s) : s[j] \in Nat
      /\ \A j \in 1 .. Len(t) : t[j] \in Nat
  OBVIOUS
<1>5. CASE i < k
  <2>1. i \in 1 .. k - 1 /\ i \in 1 .. Len(t)
    BY <1>3, <1>5
  <2>2. \A j \in 1 .. i - 1 : j \in 1 .. Len(r) /\ r[j] = t[j]
    <3> SUFFICES ASSUME NEW j \in 1 .. i - 1 PROVE j \in 1 .. Len(r) /\ r[j] = t[j]
      OBVIOUS
    <3>1. j \in 1 .. k - 1
      BY <1>5
    <3> QED
      BY <1>1, <1>2, <3>1
  <2>3. i \in 1 .. Len(r) => r[i] < t[i]
    BY <1>1, <1>2, <2>1
  <2> QED
    BY <1>0, <2>1, <2>2, <2>3 DEF TagBefore
<1>6. CASE k <= i
  <2>1. \A j \in 1 .. k - 1 : j \in 1 .. Len(r) /\ r[j] = t[j]
    <3> SUFFICES ASSUME NEW j \in 1 .. k - 1 PROVE j \in 1 .. Len(r) /\ r[j] = t[j]
      OBVIOUS
    <3>1. j \in 1 .. i - 1
      BY <1>6
    <3> QED
      BY <1>1, <1>2, <3>1
  <2>2. ASSUME k \in 1 .. Len(r) PROVE r[k] < t[k]
    <3>1. k \in 1 .. Len(s)
      BY <1>3, <1>6
    <3>2. s[k] < t[k] /\ s[k] \in Nat /\ t[k] \in Nat /\ r[k] \in Nat
      BY <1>2, <1>3, <2>2, <3>1
    <3>3. r[k] = s[k] \/ r[k] < s[k]
      <4>1. CASE k < i
        <5>1. k \in 1 .. i - 1
          BY <4>1
        <5> QED
          BY <1>1, <5>1
      <4>2. CASE k = i
        BY <1>1, <2>2, <4>2
      <4> QED
        BY <1>6, <4>1, <4>2
    <3> QED
      BY <3>2, <3>3
  <2> QED
    BY <1>0, <2>1, <2>2 DEF TagBefore
<1> QED
  BY <1>5, <1>6

\* The tag that comes after one in use is larger: another digit, or a larger last.
TagAfter(tag) == IF Last(tag) >= LastDigit THEN Append(tag, 0) ELSE [tag EXCEPT ![Len(tag)] = @ + 1]

LEMMA TagAfterLarger ==
    ASSUME NEW tag \in Tags
    PROVE  TagAfter(tag) \in Tags /\ TagBefore(tag, TagAfter(tag))
<1> DEFINE n == Len(tag)
<1>1. n \in Nat /\ n >= 1 /\ DOMAIN tag = 1 .. n /\ \A j \in 1 .. n : tag[j] \in Nat
  BY EmptySeq DEF Tags
<1>2. CASE Last(tag) >= LastDigit
  <2>1. TagAfter(tag) = Append(tag, 0)
    BY <1>2 DEF TagAfter
  <2>2. /\ Append(tag, 0) \in Seq(Nat) /\ Len(Append(tag, 0)) = n + 1
        /\ DOMAIN Append(tag, 0) = 1 .. n + 1
        /\ \A j \in 1 .. n : Append(tag, 0)[j] = tag[j]
    BY DEF Tags
  <2> DEFINE new == Append(tag, 0)
  <2> HIDE DEF n, new
  <2>3. n + 1 \in DOMAIN new /\ n + 1 \notin DOMAIN tag
        /\ \A j \in 1 .. (n + 1) - 1 : j \in DOMAIN tag /\ tag[j] = new[j]
    BY <1>1, <2>2 DEF new
  <2>4. TagBefore(tag, new)
    BY <2>3 DEF TagBefore
  <2>5. new # <<>>
    BY <1>1, <2>2, EmptySeq DEF new
  <2> QED
    BY <2>1, <2>2, <2>4, <2>5 DEF Tags, new
<1>3. CASE ~(Last(tag) >= LastDigit)
  <2> DEFINE new == [tag EXCEPT ![n] = @ + 1]
  <2>1. TagAfter(tag) = new
    BY <1>3 DEF TagAfter
  <2>2. new \in [1 .. n -> Nat] /\ DOMAIN new = 1 .. n
        /\ new[n] = tag[n] + 1 /\ \A j \in 1 .. n - 1 : new[j] = tag[j]
    <3>1. tag \in [1 .. n -> Nat]
      BY DEF Tags
    <3> HIDE DEF n
    <3>2. n \in 1 .. n /\ tag[n] + 1 \in Nat /\ \A j \in 1 .. n - 1 : j \in 1 .. n /\ j # n
      BY <1>1
    <3> QED
      BY <3>1, <3>2
  <2> HIDE DEF new, n
  <2>3. new \in Seq(Nat) /\ Len(new) = n
    BY <1>1, <2>2
  <2>4. n \in DOMAIN new /\ tag[n] < new[n] /\ \A j \in 1 .. n - 1 : j \in DOMAIN tag /\ tag[j] = new[j]
    BY <1>1, <2>2
  <2>5. TagBefore(tag, new)
    BY <2>4 DEF TagBefore
  <2>6. new # <<>>
    BY <1>1, <2>3, EmptySeq
  <2> QED
    BY <2>1, <2>3, <2>5, <2>6 DEF Tags
<1> QED
  BY <1>2, <1>3

-----------------------------------------------------------------------------
(* The order of slots *)

\* The members of S, each once, in the order of their tags.
Lists(s, S) ==
    /\ s \in Seq(S)
    /\ S = {s[i] : i \in DOMAIN s}
    /\ \A i, j \in DOMAIN s : i < j => TagBefore(s[i].tag, s[j].tag)

LEMMA ListedOnce ==
    ASSUME NEW S \in SUBSET Slots, NEW s, Lists(s, S)
    PROVE  /\ Len(s) \in Nat /\ DOMAIN s = 1 .. Len(s)
           /\ \A i \in DOMAIN s : s[i] \in S /\ s[i] \in Slots /\ s[i].tag \in Seq(Nat)
           /\ \A i, j \in DOMAIN s : i # j => s[i].tag # s[j].tag
           /\ IsFiniteSet(S) /\ Cardinality(S) = Len(s)
           /\ s \in [1 .. Len(s) -> S]
<1> DEFINE n == Len(s)
<1>1. n \in Nat /\ DOMAIN s = 1 .. n /\ s \in [1 .. n -> S]
  BY DEF Lists
<1>2. \A i \in DOMAIN s : s[i] \in S /\ s[i] \in Slots /\ s[i].tag \in Seq(Nat)
  BY <1>1 DEF Slots, Tags
<1>3. \A i, j \in DOMAIN s : i # j => s[i].tag # s[j].tag
  <2> SUFFICES ASSUME NEW i \in DOMAIN s, NEW j \in DOMAIN s, i # j PROVE s[i].tag # s[j].tag
    OBVIOUS
  <2>1. i < j \/ j < i
    BY <1>1
  <2>2. TagBefore(s[i].tag, s[j].tag) \/ TagBefore(s[j].tag, s[i].tag)
    BY <2>1 DEF Lists
  <2> QED
    BY <1>2, <2>2, TagIrreflexive
<1>4. s \in Bijection(1 .. n, S)
  <2>1. \A i, j \in 1 .. n : s[i] = s[j] => i = j
    BY <1>1, <1>3
  <2>2. \A x \in S : \E i \in 1 .. n : s[i] = x
    BY <1>1 DEF Lists
  <2> HIDE DEF n
  <2> QED
    BY <1>1, <2>1, <2>2, Fun_IsBij
<1>5. IsFiniteSet(S) /\ Cardinality(S) = n
  <2> HIDE DEF n
  <2>1. IsFiniteSet(1 .. n) /\ Cardinality(1 .. n) = n
    BY <1>1, FS_Interval
  <2> QED
    BY <1>4, <2>1, FS_Bijection DEF ExistsBijection
<1> QED
  BY <1>1, <1>2, <1>3, <1>5

\* A set of natural numbers that has a member has a least one.
LEMMA LeastPosition ==
    ASSUME NEW T \in SUBSET Nat, T # {}
    PROVE  \E x \in T : \A y \in T : x <= y
<1> DEFINE R == OpToRel(<, Nat)
<1>1. IsWellFoundedOn(R, Nat)
  BY NatLessThanWellFounded, Zenon
<1>2. \E x \in T : \A y \in T : ~ (<<y, x>> \in R)
  <2> HIDE DEF R
  <2> QED
    BY <1>1, WFMin
<1>3. PICK x \in T : \A y \in T : ~ (<<y, x>> \in R)
  BY <1>2
<1>4. \A y \in T : ~(y < x)
  BY <1>3, Zenon DEF OpToRel
<1> QED
  BY <1>4

\* A list that goes on as another up to a position has no smaller slot there.
LEMMA NotSooner ==
    ASSUME NEW S \in SUBSET Slots, NEW s, NEW t, Lists(s, S), Lists(t, S), NEW i \in DOMAIN s \cap DOMAIN t,
           \A j \in 1 .. i - 1 : s[j] = t[j], s[i] # t[i]
    PROVE  TagBefore(t[i].tag, s[i].tag)
<1>1. /\ Len(s) \in Nat /\ DOMAIN s = 1 .. Len(s) /\ \A j \in DOMAIN s : s[j] \in S
      /\ \A j, k \in DOMAIN s : j # k => s[j].tag # s[k].tag
  BY ListedOnce
<1>2. Len(t) \in Nat /\ DOMAIN t = 1 .. Len(t) /\ \A j \in DOMAIN t : t[j] \in S
  BY ListedOnce
<1>3. PICK k \in DOMAIN t : t[k] = s[i]
  <2>1. s[i] \in S
    BY <1>1
  <2> QED
    BY <2>1 DEF Lists
<1>4. k # i
  BY <1>3
<1>5. ~(k < i)
  <2> SUFFICES ASSUME k < i PROVE FALSE
    OBVIOUS
  <2>1. k \in 1 .. i - 1 /\ k \in DOMAIN s /\ k # i
    BY <1>1, <1>2
  <2>2. s[k] = s[i]
    BY <1>3, <2>1
  <2> QED
    BY <1>1, <2>1, <2>2
<1>6. i < k
  BY <1>1, <1>2, <1>4, <1>5
<1> QED
  BY <1>3, <1>6 DEF Lists

LEMMA ListUnique ==
    ASSUME NEW S \in SUBSET Slots, NEW s, NEW t, Lists(s, S), Lists(t, S)
    PROVE  s = t
<1> DEFINE n == Len(s)
<1>1. n \in Nat /\ Cardinality(S) = n /\ s \in [1 .. n -> S] /\ \A j \in 1 .. n : s[j].tag \in Seq(Nat)
  BY ListedOnce
<1>2. t \in [1 .. n -> S] /\ \A j \in 1 .. n : t[j].tag \in Seq(Nat)
  BY <1>1, ListedOnce
<1> DEFINE T == {i \in 1 .. n : s[i] # t[i]}
<1>3. T = {}
  <2> SUFFICES ASSUME T # {} PROVE FALSE
    OBVIOUS
  <2>1. PICK i \in T : \A j \in T : i <= j
    <3>1. T \in SUBSET Nat
      BY <1>1
    <3> HIDE DEF T
    <3> QED
      BY <3>1, LeastPosition
  <2>2. i \in 1 .. n /\ s[i] # t[i] /\ \A j \in 1 .. i - 1 : s[j] = t[j]
    <3> HIDE DEF n
    <3> QED
      BY <1>1, <2>1
  <2>3. i \in DOMAIN s \cap DOMAIN t /\ \A j \in 1 .. i - 1 : t[j] = s[j]
    BY <1>1, <1>2, <2>2
  <2>4. TagBefore(t[i].tag, s[i].tag)
    BY <2>2, <2>3, NotSooner
  <2>5. TagBefore(s[i].tag, t[i].tag)
    BY <2>2, <2>3, NotSooner
  <2> QED
    BY <1>1, <1>2, <2>2, <2>4, <2>5, TagAsymmetric
<1>4. \A i \in 1 .. n : s[i] = t[i]
  BY <1>3
<1> HIDE DEF n
<1> QED
  BY <1>1, <1>2, <1>4

\* What the map of slots is iterated in is the list of the slots by tags, if there
\* is one.
LEMMA InOrderIsList ==
    ASSUME KeyAssumption, NEW S \in SUBSET Slots, NEW s, Lists(s, S)
    PROVE  InOrder(S) = s
<1> DEFINE n == Len(s)
           Sorted(q) == \A i, j \in DOMAIN q : i < j => SlotBefore(q[i], q[j])
           c == InOrder(S)
<1>1. /\ n \in Nat /\ DOMAIN s = 1 .. n /\ IsFiniteSet(S) /\ Cardinality(S) = n /\ s \in [1 .. n -> S]
      /\ \A i, j \in DOMAIN s : i # j => s[i].tag # s[j].tag
  BY ListedOnce
<1>2. Sorted(s)
  BY DEF Lists, SlotBefore
<1>3. c \in [1 .. n -> S] /\ Sorted(c)
  <2>1. \E q \in [1 .. Cardinality(S) -> S] : Sorted(q)
    BY <1>1, <1>2
  <2>2. c = CHOOSE q \in [1 .. Cardinality(S) -> S] : Sorted(q)
    BY DEF InOrder
  <2> HIDE DEF Sorted, c
  <2> QED
    BY <1>1, <2>1, <2>2
<1>4. \A x \in S : x.tag \in Seq(Nat) /\ x.key \in Int
  BY DEF Slots, Tags, KeyAssumption
<1> HIDE DEF c
<1>5. DOMAIN c = 1 .. n /\ \A i \in 1 .. n : c[i] \in S
  BY <1>3
<1>6. \A i, j \in 1 .. n : i < j => c[i] # c[j] /\ TagBefore(c[i].tag, c[j].tag)
  <2> SUFFICES ASSUME NEW i \in 1 .. n, NEW j \in 1 .. n, i < j
               PROVE  c[i] # c[j] /\ TagBefore(c[i].tag, c[j].tag)
    OBVIOUS
  <2>1. SlotBefore(c[i], c[j])
    BY <1>3, <1>5
  <2>2. c[i] # c[j]
    <3> SUFFICES ASSUME c[i] = c[j] PROVE FALSE
      OBVIOUS
    <3>1. TagBefore(c[i].tag, c[i].tag) \/ c[i].key < c[i].key
      BY <2>1 DEF SlotBefore
    <3>2. c[i].tag \in Seq(Nat) /\ c[i].key \in Int
      BY <1>4, <1>5
    <3>3. ~(c[i].key < c[i].key)
      BY <3>2
    <3> QED
      BY <3>1, <3>2, <3>3, TagIrreflexive
  <2>3. c[i].tag # c[j].tag
    <3>1. PICK k \in DOMAIN s : s[k] = c[i]
      BY <1>5 DEF Lists
    <3>2. PICK m \in DOMAIN s : s[m] = c[j]
      BY <1>5 DEF Lists
    <3> QED
      BY <1>1, <2>2, <3>1, <3>2
  <2> QED
    BY <2>1, <2>2, <2>3 DEF SlotBefore
<1>7. S = {c[i] : i \in 1 .. n}
  <2> DEFINE C == {c[i] : i \in 1 .. n}
  <2>1. C \in SUBSET S
    BY <1>5
  <2>2. c \in Bijection(1 .. n, C)
    <3>1. \A i, j \in 1 .. n : c[i] = c[j] => i = j
      <4> SUFFICES ASSUME NEW i \in 1 .. n, NEW j \in 1 .. n, c[i] = c[j], i # j PROVE FALSE
        OBVIOUS
      <4>1. i < j \/ j < i
        BY <1>1
      <4> QED
        BY <1>6, <4>1
    <3>2. c \in [1 .. n -> C] /\ \A x \in C : \E i \in 1 .. n : c[i] = x
      BY <1>3
    <3> HIDE DEF n, C
    <3> QED
      BY <3>1, <3>2, Fun_IsBij
  <2>3. Cardinality(C) = n
    <3> HIDE DEF n, C
    <3>1. IsFiniteSet(1 .. n) /\ Cardinality(1 .. n) = n
      BY <1>1, FS_Interval
    <3> QED
      BY <2>2, <3>1, FS_Bijection DEF ExistsBijection
  <2> HIDE DEF C, n
  <2>4. C = S
    BY <1>1, <2>1, <2>3, FS_Subset
  <2> QED
    BY <2>4 DEF C
<1>8. Lists(c, S)
  <2>1. c \in Seq(S)
    <3> HIDE DEF n
    <3> QED
      BY <1>1, <1>3
  <2> QED
    BY <1>5, <1>6, <1>7, <2>1 DEF Lists
<1>9. c = s
  BY <1>8, ListUnique
<1> QED
  BY <1>9 DEF c

-----------------------------------------------------------------------------
(* The invariant *)

\* Both maps go together: each key has the slot that is named after it, the slots
\* are those of the keys, and the map of slots has them in the order of their tags.
IInv ==
    /\ keys \in [DOMAIN keys -> Slots] /\ DOMAIN keys \subseteq Key
    /\ \A key \in DOMAIN keys : keys[key].key = key
    /\ vals \in [DOMAIN vals -> Value \cup {NullValue}]
    /\ DOMAIN vals = {keys[key] : key \in DOMAIN keys}
    /\ Lists(InOrder(DOMAIN vals), DOMAIN vals)

slots == InOrder(DOMAIN vals)
Pairs == Key \X (Value \cup {NullValue})
EntriesOf(s, v) == [i \in DOMAIN s |-> <<s[i].key, v[s[i]]>>]

LEMMA SlotParts ==
    ASSUME IInv
    PROVE  /\ DOMAIN vals \in SUBSET Slots
           /\ Len(slots) \in Nat /\ DOMAIN slots = 1 .. Len(slots)
           /\ \A i \in DOMAIN slots :
                 /\ slots[i] \in DOMAIN vals /\ slots[i] \in Slots
                 /\ slots[i].key \in DOMAIN keys /\ slots[i] = keys[slots[i].key]
           /\ \A i, j \in DOMAIN slots : i # j => slots[i] # slots[j]
           /\ \A key \in DOMAIN keys : \E i \in DOMAIN slots : slots[i] = keys[key]
           /\ Lists(slots, DOMAIN vals)
<1>1. DOMAIN vals \in SUBSET Slots /\ Lists(slots, DOMAIN vals)
  BY DEF IInv, slots
<1>2. /\ Len(slots) \in Nat /\ DOMAIN slots = 1 .. Len(slots)
      /\ \A i \in DOMAIN slots : slots[i] \in DOMAIN vals /\ slots[i] \in Slots
      /\ \A i, j \in DOMAIN slots : i # j => slots[i].tag # slots[j].tag
  BY <1>1, ListedOnce
<1>3. \A i \in DOMAIN slots : slots[i].key \in DOMAIN keys /\ slots[i] = keys[slots[i].key]
  <2> SUFFICES ASSUME NEW i \in DOMAIN slots
               PROVE  slots[i].key \in DOMAIN keys /\ slots[i] = keys[slots[i].key]
    OBVIOUS
  <2>1. PICK key \in DOMAIN keys : slots[i] = keys[key]
    BY <1>2 DEF IInv
  <2> QED
    BY <2>1 DEF IInv
<1>4. \A key \in DOMAIN keys : \E i \in DOMAIN slots : slots[i] = keys[key]
  <2>1. \A key \in DOMAIN keys : keys[key] \in DOMAIN vals
    BY DEF IInv
  <2>2. \A slot \in DOMAIN vals : \E i \in DOMAIN slots : slots[i] = slot
    BY <1>1 DEF Lists
  <2> QED
    BY <2>1, <2>2
<1>5. \A i, j \in DOMAIN slots : i # j => slots[i] # slots[j]
  BY <1>2
<1> QED
  BY <1>1, <1>2, <1>3, <1>4, <1>5

\* What the object shows as a sequence of pairs.
LEMMA Shown ==
    ASSUME IInv
    PROVE  /\ FIOObjectRange = EntriesOf(slots, vals)
           /\ FIOObjectRange \in Seq(Pairs) /\ Len(FIOObjectRange) = Len(slots)
           /\ \A i \in 1 .. Len(slots) : FIOObjectRange[i] = <<slots[i].key, vals[slots[i]]>>
<1>1. FIOObjectRange = EntriesOf(slots, vals)
  BY DEF FIOObjectRange, EntriesOf, slots
<1> DEFINE n == Len(slots)
<1>2. n \in Nat /\ DOMAIN slots = 1 .. n /\ \A i \in 1 .. n : slots[i] \in DOMAIN vals /\ slots[i].key \in Key
  BY SlotParts DEF IInv
<1>3. EntriesOf(slots, vals) \in [1 .. n -> Pairs]
  <2>1. \A i \in 1 .. n : <<slots[i].key, vals[slots[i]]>> \in Pairs
    BY <1>2 DEF IInv, Pairs
  <2> HIDE DEF n
  <2> QED
    BY <1>2, <2>1 DEF EntriesOf
<1>4. EntriesOf(slots, vals) \in Seq(Pairs) /\ Len(EntriesOf(slots, vals)) = n
  <2> HIDE DEF n
  <2> QED
    BY <1>2, <1>3
<1>5. \A i \in 1 .. n : EntriesOf(slots, vals)[i] = <<slots[i].key, vals[slots[i]]>>
  BY <1>2 DEF EntriesOf
<1> QED
  BY <1>1, <1>4, <1>5

\* The entry of a key is that of its slot, and there is none without one.
LEMMA Placed ==
    ASSUME IInv, NEW key
    PROVE  /\ ~hasKey(key) => Map!Position(key) = 0
           /\ hasKey(key) => /\ Map!Position(key) \in DOMAIN slots
                             /\ slots[Map!Position(key)] = keys[key]
<1> DEFINE n == Len(slots)
           P == {i \in 1 .. Len(FIOObjectRange) : FIOObjectRange[i][1] = key}
<1>1. n \in Nat /\ DOMAIN slots = 1 .. n
  BY SlotParts
<1>2. P = {i \in 1 .. n : slots[i].key = key}
  BY Shown
<1>3. Map!Position(key) = IF P # {} THEN CHOOSE x \in P : \A y \in P : x <= y ELSE 0
  BY DEF Map!Position, Map!SelectInSeq, Map!Min
<1> HIDE DEF P
<1>4. CASE ~hasKey(key)
  <2>1. P = {}
    BY <1>1, <1>2, <1>4, SlotParts DEF hasKey
  <2> QED
    BY <1>3, <1>4, <2>1
<1>5. CASE hasKey(key)
  <2>1. PICK p \in DOMAIN slots : slots[p] = keys[key]
    BY <1>5, SlotParts DEF hasKey
  <2>2. keys[key].key = key
    BY <1>5 DEF IInv, hasKey
  <2>3. \A i \in 1 .. n : slots[i].key = key => i = p
    BY <1>1, <2>1, SlotParts
  <2>4. P = {p} /\ p \in Nat
    BY <1>1, <1>2, <2>1, <2>2, <2>3
  <2>5. Map!Position(key) = p
    BY <1>3, <2>4
  <2> QED
    BY <1>5, <2>1, <2>5
<1> QED
  BY <1>4, <1>5

LEMMA InitInv == ASSUME OrderedInit PROVE IInv /\ FIOObjectRange = <<>>
<1>1. keys = [key \in {} |-> NullValue] /\ vals = [slot \in {} |-> NullValue]
  BY DEF OrderedInit
<1>2. DOMAIN keys = {} /\ DOMAIN vals = {}
  BY <1>1
<1>3. slots = <<>>
  <2>1. Cardinality({}) = 0 /\ 1 .. 0 = {}
    BY FS_EmptySet
  <2>2. <<>> \in [1 .. Cardinality({}) -> {}] /\ \A q \in [1 .. Cardinality({}) -> {}] : q = <<>>
    BY <2>1
  <2> DEFINE Sorted(q) == \A i, j \in DOMAIN q : i < j => SlotBefore(q[i], q[j])
  <2>3. Sorted(<<>>)
    OBVIOUS
  <2>4. slots = CHOOSE q \in [1 .. Cardinality({}) -> {}] : Sorted(q)
    BY <1>2 DEF slots, InOrder
  <2> HIDE DEF Sorted
  <2> QED
    BY <2>2, <2>3, <2>4
<1>4. Lists(slots, DOMAIN vals)
  BY <1>2, <1>3 DEF Lists
<1>5. IInv
  BY <1>1, <1>2, <1>4 DEF IInv, slots
<1>6. FIOObjectRange = <<>>
  BY <1>3 DEF FIOObjectRange, slots
<1> QED
  BY <1>5, <1>6

-----------------------------------------------------------------------------
(* Steps *)

\* A key that is there keeps its slot, and the slot its place.
LEMMA IndexOld ==
    ASSUME KeyAssumption, IInv, NEW key \in Key, NEW assigned \in BOOLEAN, NEW v \in Value \cup {NullValue},
           hasKey(key), Index(key, assigned, v)
    PROVE  /\ IInv'
           /\ FIOObjectRange' = IF assigned THEN [FIOObjectRange EXCEPT ![Map!Position(key)] = <<key, v>>]
                                ELSE FIOObjectRange
<1> DEFINE p == Map!Position(key)
<1>1. p \in DOMAIN slots /\ slots[p] = keys[key] /\ keys[key].key = key /\ keys[key] \in DOMAIN vals
  BY Placed DEF IInv, hasKey
<1>2. SlotOf(key) = keys[key]
  <2>1. keys[key] \in Slots
    BY DEF IInv, hasKey
  <2> QED
    BY <1>1, <2>1 DEF SlotOf, KeyAssumption, Slots
<1>3. keys' = keys /\ vals' = [s \in DOMAIN vals |-> IF assigned /\ s = keys[key] THEN v ELSE vals[s]]
  <2>1. DOMAIN vals \cup {keys[key]} = DOMAIN vals
    BY <1>1
  <2>2. vals' = [s \in DOMAIN vals |->
                   IF s # keys[key] THEN vals[s] ELSE IF assigned THEN v ELSE vals[keys[key]]]
    BY <1>1, <1>2, <2>1 DEF Index
  <2> QED
    BY <2>2 DEF Index
<1>4. DOMAIN vals' = DOMAIN vals /\ slots' = slots
  BY <1>3 DEF slots
<1>5. IInv'
  <2>1. vals' \in [DOMAIN vals -> Value \cup {NullValue}]
    BY <1>3 DEF IInv
  <2> QED
    BY <1>3, <1>4, <2>1 DEF IInv
<1>6. /\ Len(slots) \in Nat /\ DOMAIN slots = 1 .. Len(slots)
      /\ \A i \in DOMAIN slots : slots[i] \in DOMAIN vals
      /\ \A i \in DOMAIN slots : slots[i] = keys[key] => i = p
  BY <1>1, SlotParts
<1>7. FIOObjectRange = EntriesOf(slots, vals) /\ FIOObjectRange' = EntriesOf(slots, vals')
  BY <1>4 DEF FIOObjectRange, EntriesOf, slots
<1> HIDE DEF p
<1>8. CASE assigned
  <2>1. \A i \in DOMAIN slots : vals'[slots[i]] = IF i = p THEN v ELSE vals[slots[i]]
    BY <1>1, <1>3, <1>6, <1>8
  <2>2. EntriesOf(slots, vals') = [EntriesOf(slots, vals) EXCEPT ![p] = <<key, v>>]
    BY <1>1, <2>1 DEF EntriesOf
  <2> QED
    BY <1>5, <1>7, <1>8, <2>2 DEF p
<1>9. CASE ~assigned
  <2>1. \A i \in DOMAIN slots : vals'[slots[i]] = vals[slots[i]]
    BY <1>3, <1>6, <1>9
  <2>2. EntriesOf(slots, vals') = EntriesOf(slots, vals)
    BY <2>1 DEF EntriesOf
  <2> QED
    BY <1>5, <1>7, <1>9, <2>2
<1> QED
  BY <1>8, <1>9

\* The tag of a new slot comes after those of all that are there.
LEMMA NextTagLargest ==
    ASSUME IInv
    PROVE  NextTag \in Tags /\ \A i \in DOMAIN slots : TagBefore(slots[i].tag, NextTag)
<1> DEFINE n == Len(slots)
<1>1. /\ n \in Nat /\ DOMAIN slots = 1 .. n /\ Lists(slots, DOMAIN vals)
      /\ \A i \in 1 .. n : slots[i].tag \in Tags
  BY SlotParts DEF Slots
<1>2. DOMAIN vals = {slots[i] : i \in 1 .. n}
  BY <1>1 DEF Lists
<1>3. CASE DOMAIN vals = {}
  <2>1. NextTag = <<0>>
    BY <1>3 DEF NextTag
  <2>2. <<0>> \in Tags
    BY DEF Tags
  <2> QED
    BY <1>1, <1>2, <1>3, <2>1, <2>2
<1>4. CASE DOMAIN vals # {}
  <2>1. n \in 1 .. n
    BY <1>1, <1>2, <1>4
  <2>2. NextTag = TagAfter(slots[n].tag)
    BY <1>4 DEF NextTag, TagAfter, Last, slots
  <2>3. NextTag \in Tags /\ TagBefore(slots[n].tag, NextTag)
    BY <1>1, <2>1, <2>2, TagAfterLarger
  <2>4. ASSUME NEW i \in 1 .. n PROVE TagBefore(slots[i].tag, NextTag)
    <3>1. CASE i = n
      BY <2>3, <3>1
    <3>2. CASE i # n
      <4>1. i < n
        <5> HIDE DEF n
        <5> QED
          BY <1>1, <3>2
      <4>2. TagBefore(slots[i].tag, slots[n].tag)
        BY <1>1, <2>1, <4>1 DEF Lists
      <4>3. slots[i].tag \in Seq(Nat) /\ slots[n].tag \in Seq(Nat) /\ NextTag \in Seq(Nat)
        BY <1>1, <2>1, <2>3 DEF Tags
      <4> QED
        BY <2>3, <4>2, <4>3, TagTransitive
    <3> QED
      BY <3>1, <3>2
  <2> QED
    BY <1>1, <2>3, <2>4
<1> QED
  BY <1>3, <1>4

\* A key that is new gets a slot behind all others.
LEMMA IndexNew ==
    ASSUME KeyAssumption, IInv, NEW key \in Key, NEW assigned \in BOOLEAN, NEW v \in Value \cup {NullValue},
           ~hasKey(key), Index(key, assigned, v)
    PROVE  /\ IInv'
           /\ FIOObjectRange' = Append(FIOObjectRange, <<key, IF assigned THEN v ELSE NullValue>>)
<1> DEFINE n == Len(slots)
           slot == [tag |-> NextTag, key |-> key]
           w == IF assigned THEN v ELSE NullValue
           longer == Append(slots, slot)
           S == DOMAIN vals \cup {slot}
<1>1. /\ n \in Nat /\ DOMAIN slots = 1 .. n /\ Lists(slots, DOMAIN vals) /\ DOMAIN vals \in SUBSET Slots
      /\ \A i \in 1 .. n : slots[i] \in DOMAIN vals /\ slots[i] \in Slots
  BY SlotParts
<1>2. NextTag \in Tags /\ \A i \in 1 .. n : TagBefore(slots[i].tag, NextTag)
  BY <1>1, NextTagLargest
<1>3. slot \in Slots /\ slot \notin DOMAIN vals
  <2>1. slot.key = key /\ slot \in Slots
    BY <1>2 DEF Slots
  <2> QED
    BY <2>1 DEF IInv, hasKey
<1>4. /\ keys' = [k \in DOMAIN keys \cup {key} |-> IF k = key THEN slot ELSE keys[k]]
      /\ vals' = [s \in S |-> IF s # slot THEN vals[s] ELSE w]
  BY <1>3 DEF Index
<1>5. slot.tag = NextTag /\ slot.key = key
  OBVIOUS
<1> HIDE DEF slot, w
<1>6. /\ slots \in Seq(Slots) /\ longer \in Seq(Slots) /\ Len(longer) = n + 1 /\ DOMAIN longer = 1 .. n + 1
      /\ \A i \in 1 .. n : longer[i] = slots[i]
      /\ longer[n + 1] = slot
  <2>1. slots \in Seq(Slots)
    BY <1>1 DEF Lists
  <2> QED
    BY <1>3, <2>1
<1> HIDE DEF longer
<1>7. Lists(longer, S)
  <2>1. DOMAIN vals = {slots[i] : i \in 1 .. n}
    BY <1>1 DEF Lists
  <2>2. S = {longer[i] : i \in 1 .. n + 1}
    <3> HIDE DEF n
    <3> QED
      BY <1>1, <1>6, <2>1
  <2>3. longer \in Seq(S)
    <3>1. \A i \in 1 .. n + 1 : longer[i] \in S
      BY <2>2
    <3>2. longer \in [1 .. n + 1 -> S]
      BY <1>6, <3>1
    <3> HIDE DEF n, S
    <3> QED
      BY <1>1, <3>2
  <2>4. ASSUME NEW i \in 1 .. n + 1, NEW j \in 1 .. n + 1, i < j
        PROVE  TagBefore(longer[i].tag, longer[j].tag)
    <3>1. i \in 1 .. n
      BY <1>1, <2>4
    <3>2. CASE j = n + 1
      BY <1>2, <1>5, <1>6, <3>1, <3>2
    <3>3. CASE j # n + 1
      <4>1. j \in 1 .. n
        BY <1>1, <3>3
      <4> QED
        BY <1>1, <1>6, <2>4, <3>1, <4>1 DEF Lists
    <3> QED
      BY <3>2, <3>3
  <2> QED
    BY <1>6, <2>2, <2>3, <2>4 DEF Lists
<1>8. DOMAIN vals' = S /\ S \in SUBSET Slots
  BY <1>1, <1>3, <1>4
<1>9. slots' = longer
  <2>1. InOrder(S) = longer
    BY <1>7, <1>8, InOrderIsList
  <2> QED
    BY <1>8, <2>1 DEF slots
<1>10. IInv'
  <2>1. /\ keys' \in [DOMAIN keys' -> Slots] /\ DOMAIN keys' \subseteq Key
        /\ DOMAIN keys' = DOMAIN keys \cup {key}
        /\ keys'[key] = slot /\ \A k \in DOMAIN keys : keys'[k] = keys[k]
    BY <1>3, <1>4 DEF IInv, hasKey
  <2>2. \A k \in DOMAIN keys' : keys'[k].key = k
    BY <1>5, <2>1 DEF IInv
  <2>3. vals' \in [DOMAIN vals' -> Value \cup {NullValue}]
    BY <1>4, <1>8 DEF IInv, w
  <2>4. DOMAIN vals' = {keys'[k] : k \in DOMAIN keys'}
    BY <1>8, <2>1 DEF IInv
  <2>5. Lists(InOrder(DOMAIN vals'), DOMAIN vals')
    BY <1>7, <1>8, <1>9 DEF slots
  <2> QED
    BY <2>1, <2>2, <2>3, <2>4, <2>5 DEF IInv
<1>11. FIOObjectRange' = Append(FIOObjectRange, <<key, w>>)
  <2>1. FIOObjectRange' = EntriesOf(longer, vals')
    BY <1>9 DEF FIOObjectRange, EntriesOf, slots
  <2>2. /\ FIOObjectRange \in Seq(Pairs) /\ Len(FIOObjectRange) = n
        /\ \A i \in 1 .. n : FIOObjectRange[i] = <<slots[i].key, vals[slots[i]]>>
    BY Shown
  <2>3. <<key, w>> \in Pairs
    BY DEF Pairs, w
  <2> DEFINE e == <<key, w>>
             f == FIOObjectRange
  <2>4. /\ Append(f, e) \in Seq(Pairs) /\ Len(Append(f, e)) = n + 1
        /\ \A i \in 1 .. n : Append(f, e)[i] = f[i]
        /\ Append(f, e)[n + 1] = e
    <3> HIDE DEF e, f
    <3> QED
      BY <2>2, <2>3 DEF e, f
  <2>5. \A i \in 1 .. n + 1 : <<longer[i].key, vals'[longer[i]]>> = Append(f, e)[i]
    <3> SUFFICES ASSUME NEW i \in 1 .. n + 1 PROVE <<longer[i].key, vals'[longer[i]]>> = Append(f, e)[i]
      OBVIOUS
    <3>1. CASE i = n + 1
      BY <1>4, <1>5, <1>6, <2>4, <3>1
    <3>2. CASE i # n + 1
      <4>1. i \in 1 .. n
        BY <1>1, <3>2
      <4>2. vals'[slots[i]] = vals[slots[i]]
        BY <1>1, <1>3, <1>4, <4>1
      <4> QED
        BY <1>6, <2>2, <2>4, <4>1, <4>2
    <3> QED
      BY <3>1, <3>2
  <2>6. EntriesOf(longer, vals') = [i \in 1 .. n + 1 |-> Append(f, e)[i]]
    BY <1>6, <2>5 DEF EntriesOf
  <2>7. Append(f, e) = [i \in 1 .. n + 1 |-> Append(f, e)[i]]
    <3> DEFINE g == Append(f, e)
    <3>1. g \in Seq(Pairs) /\ Len(g) = n + 1
      BY <2>4
    <3> HIDE DEF g, n
    <3>2. g \in [1 .. n + 1 -> Pairs]
      BY <1>1, <3>1
    <3> QED
      BY <3>2 DEF g
  <2> QED
    BY <2>1, <2>6, <2>7
<1> QED
  BY <1>10, <1>11 DEF w

\* A sequence without its p-th entry.
Without(s, p) == SubSeq(s, 1, p - 1) \o SubSeq(s, p + 1, Len(s))

LEMMA WithoutParts ==
    ASSUME NEW S, NEW s \in Seq(S), NEW p \in 1 .. Len(s)
    PROVE  /\ Without(s, p) \in Seq(S) /\ Len(Without(s, p)) = Len(s) - 1
           /\ \A i \in 1 .. Len(s) - 1 : Without(s, p)[i] = IF i < p THEN s[i] ELSE s[i + 1]
<1> DEFINE n == Len(s)
           front == SubSeq(s, 1, p - 1)
           back == SubSeq(s, p + 1, n)
<1>1. n \in Nat /\ p \in Nat /\ 1 <= p /\ p <= n
  OBVIOUS
<1>2. front \in Seq(S) /\ Len(front) = p - 1 /\ \A i \in 1 .. p - 1 : front[i] = s[i]
  BY <1>1
<1>3. back \in Seq(S) /\ Len(back) = n - p /\ \A i \in 1 .. n - p : back[i] = s[p + i]
  BY <1>1
<1>4. Without(s, p) = front \o back
  BY DEF Without
<1> HIDE DEF front, back, n
<1>5. /\ front \o back \in Seq(S)
      /\ Len(front \o back) = Len(front) + Len(back)
      /\ \A i \in 1 .. Len(front) + Len(back) :
            (front \o back)[i] = IF i <= Len(front) THEN front[i] ELSE back[i - Len(front)]
  BY <1>2, <1>3, ConcatProperties, Zenon
<1>6. Len(front) + Len(back) = n - 1
  BY <1>1, <1>2, <1>3
<1>7. ASSUME NEW i \in 1 .. n - 1
      PROVE  Without(s, p)[i] = IF i < p THEN s[i] ELSE s[i + 1]
  <2>1. Without(s, p)[i] = IF i <= p - 1 THEN front[i] ELSE back[i - (p - 1)]
    BY <1>2, <1>4, <1>5, <1>6
  <2>2. CASE i < p
    <3>1. i \in 1 .. p - 1 /\ i <= p - 1
      BY <1>1, <2>2
    <3> QED
      BY <1>2, <2>1, <2>2, <3>1
  <2>3. CASE ~(i < p)
    <3>1. i - (p - 1) \in 1 .. n - p /\ ~(i <= p - 1) /\ p + (i - (p - 1)) = i + 1
      BY <1>1, <2>3
    <3> QED
      BY <1>3, <2>1, <2>3, <3>1
  <2> QED
    BY <2>2, <2>3
<1> QED
  BY <1>4, <1>5, <1>6, <1>7 DEF n

\* A key that is erased takes its slot along; the others stay in order.
LEMMA EraseStep ==
    ASSUME KeyAssumption, IInv, NEW key \in Key, erase(key)
    PROVE  /\ IInv'
           /\ FIOObjectRange' = Without(FIOObjectRange, Map!Position(key))
<1> DEFINE p == Map!Position(key)
           n == Len(slots)
           shorter == Without(slots, p)
           S == DOMAIN vals \ {keys[key]}
<1>0. hasKey(key)
  BY DEF erase
<1>1. p \in DOMAIN slots /\ slots[p] = keys[key] /\ keys[key].key = key /\ keys[key] \in DOMAIN vals
  BY <1>0, Placed DEF IInv, hasKey
<1>2. SlotOf(key) = keys[key]
  <2>1. keys[key] \in Slots
    BY <1>0 DEF IInv, hasKey
  <2> QED
    BY <1>1, <2>1 DEF SlotOf, KeyAssumption, Slots
<1>3. keys' = [k \in DOMAIN keys \ {key} |-> keys[k]] /\ vals' = [s \in S |-> vals[s]]
  BY <1>2 DEF erase, Restrict
<1>4. /\ n \in Nat /\ DOMAIN slots = 1 .. n /\ Lists(slots, DOMAIN vals) /\ DOMAIN vals \in SUBSET Slots
      /\ \A i \in 1 .. n : slots[i] \in DOMAIN vals
      /\ \A i, j \in 1 .. n : i # j => slots[i] # slots[j]
  BY SlotParts
<1> HIDE DEF p
<1>5. p \in 1 .. n /\ p \in Nat
  BY <1>1, <1>4
<1>6. /\ shorter \in Seq(DOMAIN vals) /\ Len(shorter) = n - 1 /\ DOMAIN shorter = 1 .. n - 1
      /\ \A i \in 1 .. n - 1 : shorter[i] = IF i < p THEN slots[i] ELSE slots[i + 1]
  <2>1. slots \in Seq(DOMAIN vals)
    BY <1>4 DEF Lists
  <2>2. /\ shorter \in Seq(DOMAIN vals) /\ Len(shorter) = n - 1
        /\ \A i \in 1 .. n - 1 : shorter[i] = IF i < p THEN slots[i] ELSE slots[i + 1]
    BY <1>5, <2>1, WithoutParts
  <2> HIDE DEF shorter, n
  <2> QED
    BY <1>4, <1>5, <2>2
<1> HIDE DEF shorter, n
<1>7. \A i \in 1 .. n - 1 : /\ i < p => i \in 1 .. n
                           /\ ~(i < p) => i + 1 \in 1 .. n /\ i + 1 # p
  BY <1>4, <1>5
<1>8. \A i \in 1 .. n - 1 : shorter[i] \in S
  BY <1>1, <1>4, <1>5, <1>6, <1>7
<1>9. Lists(shorter, S)
  <2>1. DOMAIN vals = {slots[i] : i \in 1 .. n}
    BY <1>4 DEF Lists
  <2>2. ASSUME NEW x \in S PROVE \E i \in 1 .. n - 1 : shorter[i] = x
    <3>1. PICK j \in 1 .. n : slots[j] = x
      BY <2>1
    <3>2. j # p
      BY <1>1, <3>1
    <3>3. CASE j < p
      <4>1. j \in 1 .. n - 1
        BY <1>4, <1>5, <3>3
      <4> QED
        BY <1>6, <3>1, <3>3, <4>1
    <3>4. CASE ~(j < p)
      <4>1. j - 1 \in 1 .. n - 1 /\ ~(j - 1 < p) /\ (j - 1) + 1 = j
        BY <1>4, <1>5, <3>2, <3>4
      <4> QED
        BY <1>6, <3>1, <4>1
    <3> QED
      BY <3>3, <3>4
  <2>3. S = {shorter[i] : i \in 1 .. n - 1}
    <3> HIDE DEF S
    <3> QED
      BY <1>8, <2>2
  <2>4. shorter \in Seq(S)
    <3>1. shorter \in [1 .. n - 1 -> DOMAIN vals] /\ n - 1 \in Nat
      BY <1>4, <1>5, <1>6
    <3>2. shorter \in [1 .. n - 1 -> S]
      BY <1>8, <3>1
    <3> HIDE DEF S
    <3> QED
      BY <3>1, <3>2
  <2>5. ASSUME NEW i \in 1 .. n - 1, NEW j \in 1 .. n - 1, i < j
        PROVE  TagBefore(shorter[i].tag, shorter[j].tag)
    <3> DEFINE a == IF i < p THEN i ELSE i + 1
               b == IF j < p THEN j ELSE j + 1
    <3>1. a \in 1 .. n /\ b \in 1 .. n /\ a < b
      BY <1>4, <1>5, <2>5
    <3>2. shorter[i] = slots[a] /\ shorter[j] = slots[b]
      BY <1>6
    <3> HIDE DEF a, b
    <3> QED
      BY <1>4, <3>1, <3>2 DEF Lists
  <2> QED
    BY <1>6, <2>3, <2>4, <2>5 DEF Lists
<1>10. DOMAIN vals' = S /\ S \in SUBSET Slots
  BY <1>3, <1>4
<1>11. slots' = shorter
  <2>1. InOrder(S) = shorter
    BY <1>9, <1>10, InOrderIsList
  <2> QED
    BY <1>10, <2>1 DEF slots
<1>12. IInv'
  <2>1. /\ keys' \in [DOMAIN keys' -> Slots] /\ DOMAIN keys' \subseteq Key
        /\ DOMAIN keys' = DOMAIN keys \ {key}
        /\ \A k \in DOMAIN keys' : keys'[k] = keys[k] /\ keys'[k].key = k
    BY <1>3 DEF IInv
  <2>2. vals' \in [DOMAIN vals' -> Value \cup {NullValue}]
    BY <1>3, <1>10 DEF IInv
  <2>3. DOMAIN vals' = {keys'[k] : k \in DOMAIN keys'}
    <3>1. \A k \in DOMAIN keys \ {key} : keys[k] # keys[key]
      BY <1>1 DEF IInv
    <3>2. DOMAIN vals = {keys[k] : k \in DOMAIN keys}
      BY DEF IInv
    <3>3. S = {keys[k] : k \in DOMAIN keys \ {key}}
      BY <3>1, <3>2
    <3> QED
      BY <1>10, <2>1, <3>3
  <2>4. Lists(InOrder(DOMAIN vals'), DOMAIN vals')
    BY <1>9, <1>10, <1>11 DEF slots
  <2> QED
    BY <2>1, <2>2, <2>3, <2>4 DEF IInv
<1>13. FIOObjectRange' = Without(FIOObjectRange, p)
  <2> DEFINE f == FIOObjectRange
             g == Without(f, p)
  <2>1. f \in Seq(Pairs) /\ Len(f) = n /\ \A i \in 1 .. n : f[i] = <<slots[i].key, vals[slots[i]]>>
    BY Shown DEF n
  <2>2. /\ g \in Seq(Pairs) /\ Len(g) = n - 1
        /\ \A i \in 1 .. n - 1 : g[i] = IF i < p THEN f[i] ELSE f[i + 1]
    <3> HIDE DEF f
    <3> QED
      BY <1>5, <2>1, WithoutParts
  <2>3. FIOObjectRange' = EntriesOf(shorter, vals')
    BY <1>11 DEF FIOObjectRange, EntriesOf, slots
  <2> HIDE DEF f, g
  <2>4. \A i \in 1 .. n - 1 : <<shorter[i].key, vals'[shorter[i]]>> = g[i]
    <3> SUFFICES ASSUME NEW i \in 1 .. n - 1 PROVE <<shorter[i].key, vals'[shorter[i]]>> = g[i]
      OBVIOUS
    <3>1. vals'[shorter[i]] = vals[shorter[i]]
      BY <1>3, <1>8
    <3>2. g[i] = <<shorter[i].key, vals[shorter[i]]>>
      BY <1>6, <1>7, <2>1, <2>2
    <3> QED
      BY <3>1, <3>2
  <2>5. EntriesOf(shorter, vals') = [i \in 1 .. n - 1 |-> g[i]]
    BY <1>6, <2>4 DEF EntriesOf
  <2>6. g = [i \in 1 .. n - 1 |-> g[i]]
    <3>1. g \in [1 .. n - 1 -> Pairs]
      BY <2>2
    <3> QED
      BY <3>1
  <2> QED
    BY <2>3, <2>5, <2>6 DEF f, g
<1> QED
  BY <1>12, <1>13 DEF p

-----------------------------------------------------------------------------
(* The refinement *)

LEMMA NextRefines ==
    ASSUME KeyAssumption, IInv, [OrderedNext]_orderedVars
    PROVE  IInv' /\ [Map!Next]_FIOObjectRange
<1>1. ASSUME NEW key \in Key, Read(key)
      PROVE  IInv' /\ [Map!Next]_FIOObjectRange
  <2>1. Index(key, FALSE, NullValue)
    BY <1>1 DEF Read
  <2>2. CASE hasKey(key)
    BY <2>1, <2>2, IndexOld
  <2>3. CASE ~hasKey(key)
    <3>1. IInv' /\ FIOObjectRange' = Append(FIOObjectRange, <<key, NullValue>>)
      BY <2>1, <2>3, IndexNew
    <3>2. Map!Position(key) = 0
      BY <2>3, Placed
    <3>3. Map!Name(key)
      BY <3>1, <3>2 DEF Map!Name, Map!Put
    <3> QED
      BY <3>1, <3>3 DEF Map!Next
  <2> QED
    BY <2>2, <2>3
<1>2. ASSUME NEW key \in Key, NEW v \in Value, Assign(key, v)
      PROVE  IInv' /\ [Map!Next]_FIOObjectRange
  <2>1. Index(key, TRUE, v)
    BY <1>2 DEF Assign
  <2>2. IInv' /\ Map!Put(key, v)
    <3>1. CASE hasKey(key)
      <4>1. IInv' /\ FIOObjectRange' = [FIOObjectRange EXCEPT ![Map!Position(key)] = <<key, v>>]
        BY <2>1, <3>1, IndexOld
      <4>2. Map!Position(key) # 0
        BY <3>1, Placed, SlotParts
      <4> QED
        BY <4>1, <4>2 DEF Map!Put
    <3>2. CASE ~hasKey(key)
      <4>1. IInv' /\ FIOObjectRange' = Append(FIOObjectRange, <<key, v>>)
        BY <2>1, <3>2, IndexNew
      <4>2. Map!Position(key) = 0
        BY <3>2, Placed
      <4> QED
        BY <4>1, <4>2 DEF Map!Put
    <3> QED
      BY <3>1, <3>2
  <2> QED
    BY <2>2 DEF Map!Next
<1>3. ASSUME NEW key \in Key, erase(key)
      PROVE  IInv' /\ [Map!Next]_FIOObjectRange
  <2>1. IInv' /\ FIOObjectRange' = Without(FIOObjectRange, Map!Position(key))
    BY <1>3, EraseStep
  <2>2. Map!Position(key) # 0
    BY <1>3, Placed, SlotParts DEF erase
  <2>3. Map!Forget(key)
    BY <2>1, <2>2 DEF Map!Forget, Map!RemoveAt, Without
  <2> QED
    BY <2>1, <2>3 DEF Map!Next
<1>4. CASE EnableFlat \/ DisableFlat \/ UNCHANGED orderedVars
  <2>1. keys' = keys /\ vals' = vals
    BY <1>4 DEF EnableFlat, DisableFlat, orderedVars
  <2> QED
    BY <2>1 DEF IInv, FIOObjectRange
<1> QED
  BY <1>1, <1>2, <1>3, <1>4 DEF OrderedNext

\* Both maps go together, and the slots are in the order of their tags: the
\* invariant of assignments and erasures (Json.h 464-509, 643-658).
THEOREM InductiveInv == ASSUME KeyAssumption PROVE OrderedSpec => []IInv
<1>1. OrderedInit => IInv
  BY InitInv
<1>2. IInv /\ [OrderedNext]_orderedVars => IInv'
  BY NextRefines
<1> QED
  BY <1>1, <1>2, PTL DEF OrderedSpec

\* Every key has its slot and every slot its key, so that what size counts is what
\* dump and FIOObjectRange show (Json.h 634-667).
THEOREM AlwaysMatch == ASSUME KeyAssumption PROVE OrderedSpec => []SlotsMatch
<1>1. IInv => SlotsMatch
  <2> SUFFICES ASSUME IInv PROVE SlotsMatch
    OBVIOUS
  <2> DEFINE f == [s \in DOMAIN vals |-> s.key]
  <2>1. IsFiniteSet(DOMAIN vals)
    BY SlotParts, ListedOnce
  <2>2. DOMAIN vals = {keys[key] : key \in DOMAIN keys} /\ \A key \in DOMAIN keys : keys[key].key = key
    BY DEF IInv
  <2>3. f \in [DOMAIN vals -> DOMAIN keys]
    BY <2>2
  <2>4. \A r, s \in DOMAIN vals : f[r] = f[s] => r = s
    BY <2>2
  <2>5. \A key \in DOMAIN keys : \E s \in DOMAIN vals : f[s] = key
    BY <2>2
  <2> HIDE DEF f
  <2>6. f \in Bijection(DOMAIN vals, DOMAIN keys)
    BY <2>3, <2>4, <2>5, Fun_IsBij
  <2>7. Cardinality(DOMAIN keys) = Cardinality(DOMAIN vals)
    BY <2>1, <2>6, FS_Bijection DEF ExistsBijection
  <2> QED
    BY <2>2, <2>7 DEF SlotsMatch, size
<1> QED
  BY <1>1, InductiveInv, PTL

\* An object of either type is a map in the order of first assignment, through
\* assignments, reads that create, and erasures in any order, with tags of any
\* length (Json.h 464-509, 634-667, 785-801).
THEOREM Refines == ASSUME KeyAssumption PROVE OrderedSpec => RefinesInsertionOrder
<1>1. OrderedInit => Map!Init
  BY InitInv DEF Map!Init
<1>2. IInv /\ [OrderedNext]_orderedVars => [Map!Next]_FIOObjectRange
  BY NextRefines
<1> QED
  BY <1>1, <1>2, InductiveInv, AlwaysMatch, PTL DEF OrderedSpec, RefinesInsertionOrder, Map!Spec
=============================================================================
