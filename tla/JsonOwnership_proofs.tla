-------------------------- MODULE JsonOwnership_proofs -------------------------
(***************************************************************************)
(* That every cell of the heap has one owner, for any number of objects,   *)
(* cells and members (JsonOwnership).                                      *)
(***************************************************************************)
EXTENDS JsonOwnership, FiniteSetTheorems, FunctionTheorems, SequenceTheorems, TLAPS

Labels == Label \cup {"element", "second", "key", "val"}
HeapTypes == {"String", "Hash", "Object", "Array", "Pair", "FIOObject"}
Objects == [type : {"Null", "Integral"}, word : Datum \cup {0}] \cup [type : HeapTypes, word : Cell]
Kids == Seq(Labels \X Objects)
CellType == [live : BOOLEAN, data : Datum \cup {0}, kids : Kids]

-----------------------------------------------------------------------------
(* Reachability *)

\* An object off the heap is null or a number.
LEMMA ObjectKinds ==
    ASSUME NEW v \in Objects
    PROVE  /\ OnHeap(v) => v \in [type : HeapTypes, word : Cell] /\ v.word \in Cell
           /\ v.type \in HeapTypes => OnHeap(v)
           /\ v = [type |-> v.type, word |-> v.word]
  BY DEF Objects, OnHeap, HeapTypes

\* The cells of an object are the least closed set with its own cell.
LEMMA LeastClosed ==
    ASSUME NEW h, NEW v, OnHeap(v), v.word \in Cell
    PROVE  /\ CellsOf(h, v) \subseteq Cell
           /\ v.word \in CellsOf(h, v)
           /\ \A S \in SUBSET Cell : v.word \in S /\ Closed(h, S) => CellsOf(h, v) \subseteq S
  BY DEF CellsOf

LEMMA CellsClosed ==
    ASSUME NEW h \in [Cell -> CellType], NEW v
    PROVE  Closed(h, CellsOf(h, v))
<1>1. CASE ~OnHeap(v)
  BY <1>1 DEF CellsOf, Closed
<1>2. CASE OnHeap(v)
  <2> SUFFICES ASSUME NEW c \in CellsOf(h, v), NEW i \in DOMAIN h[c].kids, OnHeap(h[c].kids[i][2])
               PROVE  h[c].kids[i][2].word \in CellsOf(h, v)
    BY DEF Closed
  <2> DEFINE w == h[c].kids[i][2]
  <2>1. c \in Cell
    BY <1>2 DEF CellsOf
  <2>2. w \in Objects
    BY <2>1 DEF CellType, Kids
  <2>3. w.word \in Cell
    BY <2>2, ObjectKinds
  <2>4. ASSUME NEW S \in SUBSET Cell, v.word \in S, Closed(h, S)
        PROVE  w.word \in S
    <3>1. c \in S
      BY <1>2, <2>4 DEF CellsOf
    <3> QED
      BY <2>4, <3>1 DEF Closed
  <2> QED
    BY <1>2, <2>3, <2>4 DEF CellsOf
<1> QED
  BY <1>1, <1>2

\* Each of them but its own is that of a member of another one.
LEMMA ParentWithin ==
    ASSUME NEW h \in [Cell -> CellType], NEW v, OnHeap(v), v.word \in Cell,
           NEW d \in CellsOf(h, v), d # v.word
    PROVE  \E c \in CellsOf(h, v) : \E i \in DOMAIN h[c].kids :
              OnHeap(h[c].kids[i][2]) /\ h[c].kids[i][2].word = d
<1> SUFFICES ASSUME \A c \in CellsOf(h, v) : \A i \in DOMAIN h[c].kids :
                        OnHeap(h[c].kids[i][2]) => h[c].kids[i][2].word # d
             PROVE  FALSE
  OBVIOUS
<1> DEFINE S == CellsOf(h, v) \ {d}
<1>1. Closed(h, S)
  BY CellsClosed DEF Closed
<1>2. v.word \in S /\ S \in SUBSET Cell
  BY LeastClosed
<1>3. CellsOf(h, v) \subseteq S
  BY <1>1, <1>2, LeastClosed
<1> QED
  BY <1>3

-----------------------------------------------------------------------------
(* Heaps with their objects: r gives the objects that are not members, those *)
(* of variables and those that an operation holds for a while                *)

SlotsIn(h, r) == [in : DOMAIN r, at : {0}] \cup {s \in [in : Cell, at : Nat \ {0}] : s.at \in DOMAIN h[s.in].kids}
ObjectAt(h, r, s) == IF s.at = 0 THEN r[s.in] ELSE h[s.in].kids[s.at][2]

Typed(h, r, L) ==
    /\ h \in [Cell -> CellType] /\ r \in [DOMAIN r -> Objects] /\ L \in SUBSET Cell
    /\ \A c \in Cell : ~h[c].live => h[c].kids = <<>> /\ c \notin L

\* An object on the heap has a cell that is in use, and no other has it.
Points(h, r, L) ==
    \A s \in SlotsIn(h, r) : LET v == ObjectAt(h, r, s) IN OnHeap(v) => h[v.word].live /\ v.word \notin L
Unique(h, r) ==
    \A s, t \in SlotsIn(h, r) :
        LET v == ObjectAt(h, r, s) w == ObjectAt(h, r, t)
        IN  OnHeap(v) /\ OnHeap(w) /\ v.word = w.word => s = t

\* A cell in use that is not lost is some object's.
Kept(h, r, L) ==
    \A c \in Cell : h[c].live /\ c \notin L =>
        \E s \in SlotsIn(h, r) : LET v == ObjectAt(h, r, s) IN OnHeap(v) /\ v.word = c

\* No cell is within itself: members are of higher rank.
RankOK(rank, h) ==
    \A c \in Cell : \A i \in DOMAIN h[c].kids :
        LET w == h[c].kids[i][2] IN OnHeap(w) => rank[w.word] > rank[c]
Ranked(h) == \E rank \in [Cell -> Nat] : RankOK(rank, h)

\* Pairs have one member.
PairsWhole(h, r) ==
    \A s \in SlotsIn(h, r) : LET v == ObjectAt(h, r, s) IN v.type = "Pair" => Len(h[v.word].kids) = 1

Owned(h, r, L) ==
    Typed(h, r, L) /\ Points(h, r, L) /\ Unique(h, r) /\ Kept(h, r, L) /\ Ranked(h) /\ PairsWhole(h, r)

\* Objects in their slots are objects.
LEMMA ObjectTyped ==
    ASSUME NEW h, NEW r, NEW L, Typed(h, r, L), NEW s \in SlotsIn(h, r)
    PROVE  /\ ObjectAt(h, r, s) \in Objects
           /\ OnHeap(ObjectAt(h, r, s)) => ObjectAt(h, r, s).word \in Cell
<1>1. ObjectAt(h, r, s) \in Objects
  <2>1. CASE s.at = 0
    <3>1. s.in \in DOMAIN r
      BY <2>1 DEF SlotsIn
    <3> QED
      BY <2>1, <3>1 DEF ObjectAt, Typed
  <2>2. CASE s.at # 0
    <3>1. s.in \in Cell /\ s.at \in DOMAIN h[s.in].kids
      BY <2>2 DEF SlotsIn
    <3>2. h[s.in].kids \in Seq(Labels \X Objects)
      BY <3>1 DEF Typed, CellType, Kids
    <3>3. h[s.in].kids[s.at] \in Labels \X Objects
      BY <3>1, <3>2
    <3> QED
      BY <2>2, <3>3 DEF ObjectAt
  <2> QED
    BY <2>1, <2>2
<1> QED
  BY <1>1, ObjectKinds

\* A slot is where it is.
LEMMA SlotEqual ==
    ASSUME NEW h, NEW r, NEW s \in SlotsIn(h, r), NEW t \in SlotsIn(h, r), s.in = t.in, s.at = t.at
    PROVE  s = t
<1>1. s = [in |-> s.in, at |-> s.at]
  BY DEF SlotsIn
<1>2. t = [in |-> t.in, at |-> t.at]
  BY DEF SlotsIn
<1> QED
  BY <1>1, <1>2

\* Members are objects, and slots.
LEMMA MemberSlot ==
    ASSUME NEW h, NEW r, NEW L, Typed(h, r, L), NEW c \in Cell, NEW i \in DOMAIN h[c].kids
    PROVE  /\ [in |-> c, at |-> i] \in SlotsIn(h, r)
           /\ ObjectAt(h, r, [in |-> c, at |-> i]) = h[c].kids[i][2]
           /\ i \in Nat \ {0} /\ h[c].live
<1>1. h[c].kids \in Seq(Labels \X Objects)
  BY DEF Typed, CellType, Kids
<1>2. i \in Nat \ {0}
  BY <1>1
<1> QED
  BY <1>1, <1>2 DEF SlotsIn, ObjectAt, Typed

\* Slots on the heap may be renamed, and others come and go.
LEMMA Renamed ==
    ASSUME NEW h, NEW r, NEW g, NEW q, NEW L, Owned(h, r, L), Typed(g, q, L), PairsWhole(g, q),
           \A c \in Cell : g[c].live = h[c].live,
           NEW to \in [SlotsIn(g, q) -> SlotsIn(h, r)],
           \A s \in SlotsIn(g, q) : OnHeap(ObjectAt(g, q, s)) =>
              /\ ObjectAt(h, r, to[s]) = ObjectAt(g, q, s)
              /\ s.at # 0 => to[s].at # 0 /\ to[s].in = s.in,
           \A s, t \in SlotsIn(g, q) :
              OnHeap(ObjectAt(g, q, s)) /\ OnHeap(ObjectAt(g, q, t)) /\ to[s] = to[t] => s = t,
           \A s \in SlotsIn(h, r) : OnHeap(ObjectAt(h, r, s)) =>
              \E t \in SlotsIn(g, q) : OnHeap(ObjectAt(g, q, t)) /\ to[t] = s
    PROVE  Owned(g, q, L)
<1>1. Typed(h, r, L) /\ Points(h, r, L) /\ Unique(h, r) /\ Kept(h, r, L) /\ Ranked(h)
  BY DEF Owned
<1>2. Points(g, q, L)
  <2> SUFFICES ASSUME NEW s \in SlotsIn(g, q), OnHeap(ObjectAt(g, q, s))
               PROVE  g[ObjectAt(g, q, s).word].live /\ ObjectAt(g, q, s).word \notin L
    BY DEF Points
  <2>1. ObjectAt(h, r, to[s]) = ObjectAt(g, q, s) /\ to[s] \in SlotsIn(h, r)
    OBVIOUS
  <2>2. ObjectAt(g, q, s).word \in Cell
    BY ObjectTyped
  <2> QED
    BY <1>1, <2>1, <2>2 DEF Points
<1>3. Unique(g, q)
  <2> SUFFICES ASSUME NEW s \in SlotsIn(g, q), NEW t \in SlotsIn(g, q),
                      OnHeap(ObjectAt(g, q, s)), OnHeap(ObjectAt(g, q, t)),
                      ObjectAt(g, q, s).word = ObjectAt(g, q, t).word
               PROVE  s = t
    BY DEF Unique
  <2>1. to[s] = to[t]
    BY <1>1 DEF Unique
  <2> QED
    BY <2>1
<1>4. Kept(g, q, L)
  <2> SUFFICES ASSUME NEW c \in Cell, g[c].live, c \notin L
               PROVE  \E s \in SlotsIn(g, q) : OnHeap(ObjectAt(g, q, s)) /\ ObjectAt(g, q, s).word = c
    BY DEF Kept
  <2>1. PICK s \in SlotsIn(h, r) : OnHeap(ObjectAt(h, r, s)) /\ ObjectAt(h, r, s).word = c
    BY <1>1 DEF Kept
  <2>2. PICK t \in SlotsIn(g, q) : OnHeap(ObjectAt(g, q, t)) /\ to[t] = s
    BY <2>1
  <2> QED
    BY <2>1, <2>2
<1>5. Ranked(g)
  <2>1. PICK rank \in [Cell -> Nat] : RankOK(rank, h)
    BY <1>1 DEF Ranked
  <2>2. RankOK(rank, g)
    <3> SUFFICES ASSUME NEW c \in Cell, NEW i \in DOMAIN g[c].kids, OnHeap(g[c].kids[i][2])
                 PROVE  rank[g[c].kids[i][2].word] > rank[c]
      BY DEF RankOK
    <3> DEFINE s == [in |-> c, at |-> i]
    <3>1. s \in SlotsIn(g, q) /\ ObjectAt(g, q, s) = g[c].kids[i][2] /\ s.at # 0 /\ s.in = c
      BY MemberSlot
    <3>2. to[s] \in SlotsIn(h, r) /\ to[s].at # 0 /\ to[s].in = c /\ ObjectAt(h, r, to[s]) = g[c].kids[i][2]
      BY <3>1
    <3>3. to[s].at \in DOMAIN h[c].kids /\ h[c].kids[to[s].at][2] = g[c].kids[i][2]
      BY <3>2 DEF SlotsIn, ObjectAt
    <3> QED
      BY <2>1, <3>3 DEF RankOK
  <2> QED
    BY <2>2 DEF Ranked
<1> QED
  BY <1>2, <1>3, <1>4, <1>5 DEF Owned

-----------------------------------------------------------------------------
(* What an object owns *)

\* What points into the cells of an object lies in them, but the object itself.
LEMMA OwnedWithin ==
    ASSUME NEW h, NEW r, NEW L, Typed(h, r, L), Unique(h, r),
           NEW s \in SlotsIn(h, r), OnHeap(ObjectAt(h, r, s)),
           NEW t \in SlotsIn(h, r), OnHeap(ObjectAt(h, r, t)), t # s,
           ObjectAt(h, r, t).word \in CellsOf(h, ObjectAt(h, r, s))
    PROVE  t.at # 0 /\ t.in \in CellsOf(h, ObjectAt(h, r, s))
<1> DEFINE v == ObjectAt(h, r, s)
           d == ObjectAt(h, r, t).word
<1>1. v.word \in Cell
  BY ObjectTyped
<1>2. d # v.word
  BY DEF Unique
<1>3. PICK c \in CellsOf(h, v) : \E i \in DOMAIN h[c].kids :
              OnHeap(h[c].kids[i][2]) /\ h[c].kids[i][2].word = d
  <2>1. h \in [Cell -> CellType]
    BY DEF Typed
  <2> HIDE DEF v, d
  <2> QED
    BY <1>1, <1>2, <2>1, ParentWithin DEF v, d
<1>4. PICK i \in DOMAIN h[c].kids : OnHeap(h[c].kids[i][2]) /\ h[c].kids[i][2].word = d
  BY <1>3
<1>5. c \in Cell
  BY <1>1, <1>3, LeastClosed
<1> DEFINE u == [in |-> c, at |-> i]
<1>6. u \in SlotsIn(h, r) /\ ObjectAt(h, r, u) = h[c].kids[i][2] /\ u.at # 0
  BY <1>5, MemberSlot
<1>7. u = t
  BY <1>4, <1>6 DEF Unique
<1> QED
  BY <1>3, <1>6, <1>7

\* No object lies within itself.
LEMMA NotWithin ==
    ASSUME NEW h, NEW r, NEW L, Typed(h, r, L), Ranked(h),
           NEW s \in SlotsIn(h, r), s.at # 0, OnHeap(ObjectAt(h, r, s))
    PROVE  s.in \notin CellsOf(h, ObjectAt(h, r, s))
<1> DEFINE v == ObjectAt(h, r, s)
<1>1. s.in \in Cell /\ s.at \in DOMAIN h[s.in].kids /\ v = h[s.in].kids[s.at][2]
  BY DEF SlotsIn, ObjectAt
<1>2. v.word \in Cell
  BY ObjectTyped
<1>3. PICK rank \in [Cell -> Nat] : RankOK(rank, h)
  BY DEF Ranked
<1> DEFINE S == {d \in Cell : rank[d] >= rank[v.word]}
<1>4. Closed(h, S)
  <2> SUFFICES ASSUME NEW c \in S, NEW i \in DOMAIN h[c].kids, OnHeap(h[c].kids[i][2])
               PROVE  h[c].kids[i][2].word \in S
    BY DEF Closed
  <2> DEFINE u == [in |-> c, at |-> i]
  <2>0. u \in SlotsIn(h, r) /\ ObjectAt(h, r, u) = h[c].kids[i][2]
    BY MemberSlot
  <2>1. h[c].kids[i][2].word \in Cell
    BY <2>0, ObjectTyped
  <2>2. rank[h[c].kids[i][2].word] > rank[c]
    BY <1>3 DEF RankOK
  <2> QED
    BY <1>2, <2>1, <2>2
<1>5. CellsOf(h, v) \subseteq S
  BY <1>2, <1>4, LeastClosed
<1>6. rank[v.word] > rank[s.in]
  BY <1>1, <1>3 DEF RankOK
<1>7. s.in \notin S
  <2>1. rank[s.in] \in Nat /\ rank[v.word] \in Nat
    BY <1>1, <1>2
  <2> QED
    BY <1>6, <2>1
<1> QED
  BY <1>5, <1>7

\* A slot with another object: the parts of Put.
HeapWith(h, s, v) == IF s.at = 0 THEN h ELSE [h EXCEPT ![s.in].kids[s.at][2] = v]
RootWith(r, s, v) == IF s.at = 0 THEN [r EXCEPT ![s.in] = v] ELSE r

LEMMA PutSlots ==
    ASSUME NEW h, NEW r, NEW L, Typed(h, r, L), NEW s \in SlotsIn(h, r), NEW v \in Objects
    PROVE  LET g == HeapWith(h, s, v) q == RootWith(r, s, v)
           IN  /\ Typed(g, q, L) /\ DOMAIN q = DOMAIN r
               /\ SlotsIn(g, q) = SlotsIn(h, r)
               /\ ObjectAt(g, q, s) = v
               /\ \A t \in SlotsIn(h, r) : t # s => ObjectAt(g, q, t) = ObjectAt(h, r, t)
               /\ \A c \in Cell : g[c].live = h[c].live /\ g[c].data = h[c].data
                                    /\ Len(g[c].kids) = Len(h[c].kids)
                                    /\ DOMAIN g[c].kids = DOMAIN h[c].kids
               /\ \A c \in Cell : s.at = 0 \/ c # s.in => g[c] = h[c]
<1> DEFINE g == HeapWith(h, s, v)
           q == RootWith(r, s, v)
<1>0. h \in [Cell -> CellType] /\ r \in [DOMAIN r -> Objects]
  BY DEF Typed
<1>1. CASE s.at = 0
  <2>1. s.in \in DOMAIN r /\ g = h /\ q = [r EXCEPT ![s.in] = v]
    BY <1>1 DEF SlotsIn, HeapWith, RootWith
  <2>2. q \in [DOMAIN r -> Objects] /\ DOMAIN q = DOMAIN r
    BY <1>0, <2>1
  <2>3. \A t \in SlotsIn(h, r) : t # s /\ t.at = 0 => t.in # s.in
    BY <1>1 DEF SlotsIn
  <2>4. \A t \in SlotsIn(h, r) : t # s => ObjectAt(g, q, t) = ObjectAt(h, r, t)
    BY <1>0, <1>1, <2>1, <2>3 DEF ObjectAt
  <2> QED
    BY <1>0, <1>1, <2>1, <2>2, <2>4 DEF Typed, SlotsIn, ObjectAt
<1>2. CASE s.at # 0
  <2>1. s.in \in Cell /\ s.at \in DOMAIN h[s.in].kids /\ q = r
    BY <1>2 DEF SlotsIn, RootWith
  <2> DEFINE kids == h[s.in].kids
             new == [kids EXCEPT ![s.at] = [@ EXCEPT ![2] = v]]
  <2>2. kids \in Seq(Labels \X Objects)
    BY <1>0, <2>1 DEF CellType, Kids
  <2>3. kids[s.at] \in Labels \X Objects /\ [kids[s.at] EXCEPT ![2] = v] \in Labels \X Objects
          /\ [kids[s.at] EXCEPT ![2] = v][2] = v
    BY <2>1, <2>2
  <2>4. new \in Kids /\ Len(new) = Len(kids) /\ DOMAIN new = DOMAIN kids
          /\ new[s.at][2] = v /\ \A i \in DOMAIN kids : i # s.at => new[i] = kids[i]
    BY <2>1, <2>2, <2>3 DEF Kids
  <2>5. g = [h EXCEPT ![s.in] = [@ EXCEPT !.kids = new]]
    BY <1>2, <2>1 DEF HeapWith
  <2> HIDE DEF new, kids
  <2>6. /\ g \in [Cell -> CellType]
        /\ \A c \in Cell : c # s.in => g[c] = h[c]
        /\ g[s.in].live = h[s.in].live /\ g[s.in].data = h[s.in].data /\ g[s.in].kids = new
    BY <1>0, <2>1, <2>4, <2>5 DEF CellType
  <2>7. \A c \in Cell : DOMAIN g[c].kids = DOMAIN h[c].kids /\ Len(g[c].kids) = Len(h[c].kids)
    BY <2>4, <2>6 DEF kids
  <2>8. \A c \in Cell : ~g[c].live => g[c].kids = <<>> /\ c \notin L
    <3>1. h[s.in].live
      BY <2>1 DEF Typed
    <3> QED
      BY <2>6, <3>1 DEF Typed
  <2>9. Typed(g, q, L)
    BY <2>1, <2>6, <2>8 DEF Typed
  <2>10. SlotsIn(g, q) = SlotsIn(h, r)
    BY <2>1, <2>7 DEF SlotsIn
  <2>11. ObjectAt(g, q, s) = v
    BY <1>2, <2>4, <2>6 DEF ObjectAt
  <2>12. ASSUME NEW t \in SlotsIn(h, r), t # s
         PROVE  ObjectAt(g, q, t) = ObjectAt(h, r, t)
    <3>1. CASE t.at = 0
      BY <2>1, <3>1 DEF ObjectAt
    <3>2. CASE t.at # 0 /\ t.in # s.in
      BY <2>6, <3>2 DEF ObjectAt, SlotsIn
    <3>3. CASE t.at # 0 /\ t.in = s.in
      <4>1. t.at # s.at /\ t.at \in DOMAIN kids
        <5>1. t.at # s.at
          BY <2>12, <3>3, SlotEqual
        <5>2. t.at \in DOMAIN kids
          BY <3>3 DEF SlotsIn, kids
        <5> QED
          BY <5>1, <5>2
      <4> QED
        BY <2>4, <2>6, <3>3, <4>1 DEF ObjectAt, kids
    <3> QED
      BY <3>1, <3>2, <3>3
  <2> QED
    BY <2>1, <2>6, <2>7, <2>9, <2>10, <2>11, <2>12
<1> QED
  BY <1>1, <1>2

\* An object goes with its cells, and its slot holds none from then on.
LEMMA Released ==
    ASSUME NEW h, NEW r, NEW L, Owned(h, r, L), NEW s \in SlotsIn(h, r), NEW v \in Objects, ~OnHeap(v)
    PROVE  LET old == ObjectAt(h, r, s)
               d == Delete(h, old)
               g == HeapWith(d, s, v)
               q == RootWith(r, s, v)
           IN  /\ Owned(g, q, L) /\ DOMAIN q = DOMAIN r
               /\ Typed(d, r, L) /\ s \in SlotsIn(d, r)
               /\ SlotsIn(g, q) = {t \in SlotsIn(h, r) : t.at = 0 \/ t.in \notin CellsOf(h, old)}
               /\ \A t \in SlotsIn(g, q) : t # s => ObjectAt(g, q, t) = ObjectAt(h, r, t)
               /\ ObjectAt(g, q, s) = v
               /\ \A c \in Cell : g[c].live <=> h[c].live /\ c \notin CellsOf(h, old)
               /\ \A c \in Cell : (s.at = 0 \/ c # s.in) /\ c \notin CellsOf(h, old) => g[c] = h[c]
<1> DEFINE old == ObjectAt(h, r, s)
           D == CellsOf(h, old)
           d == Delete(h, old)
           g == HeapWith(d, s, v)
           q == RootWith(r, s, v)
<1>1. Typed(h, r, L) /\ Points(h, r, L) /\ Unique(h, r) /\ Kept(h, r, L) /\ Ranked(h) /\ PairsWhole(h, r)
  BY DEF Owned
<1>2. D \subseteq Cell /\ (OnHeap(old) => old.word \in D) /\ Closed(h, D)
  <2>1. OnHeap(old) => old.word \in Cell
    BY <1>1, ObjectTyped
  <2>2. D \subseteq Cell /\ (OnHeap(old) => old.word \in D)
    BY <2>1, LeastClosed DEF CellsOf
  <2> QED
    BY <1>1, <2>2, CellsClosed DEF Typed
<1>3. s.at = 0 \/ s.in \notin D
  <2>1. CASE OnHeap(old)
    BY <1>1, <2>1, NotWithin
  <2>2. CASE ~OnHeap(old)
    BY <2>2 DEF CellsOf
  <2> QED
    BY <2>1, <2>2
<1>4. ASSUME NEW t \in SlotsIn(h, r), t # s, OnHeap(ObjectAt(h, r, t)), ObjectAt(h, r, t).word \in D
      PROVE  t.at # 0 /\ t.in \in D
  <2>1. OnHeap(old)
    BY <1>4 DEF CellsOf
  <2> QED
    BY <1>1, <1>4, <2>1, OwnedWithin
<1>5. ASSUME NEW c \in D PROVE c \notin L
  <2>1. OnHeap(old)
    BY DEF CellsOf
  <2>2. CASE c = old.word
    BY <1>1, <2>1, <2>2 DEF Points
  <2>3. CASE c # old.word
    <3>1. PICK e \in D : \E i \in DOMAIN h[e].kids : OnHeap(h[e].kids[i][2]) /\ h[e].kids[i][2].word = c
      <4>1. old.word \in Cell /\ h \in [Cell -> CellType]
        BY <1>1, <2>1, ObjectTyped DEF Typed
      <4> HIDE DEF old
      <4> QED
        BY <2>1, <2>3, <4>1, ParentWithin
    <3>2. PICK i \in DOMAIN h[e].kids : OnHeap(h[e].kids[i][2]) /\ h[e].kids[i][2].word = c
      BY <3>1
    <3> DEFINE u == [in |-> e, at |-> i]
    <3>3. u \in SlotsIn(h, r) /\ ObjectAt(h, r, u) = h[e].kids[i][2]
      BY <1>1, <1>2, MemberSlot
    <3> QED
      BY <1>1, <3>2, <3>3 DEF Points
  <2> QED
    BY <2>2, <2>3
<1>6. \A c \in Cell : d[c] = IF c \in D THEN Freed ELSE h[c]
  BY DEF Delete
<1>7. Typed(d, r, L)
  <2>1. Freed \in CellType
    BY DEF Freed, CellType, Kids
  <2>2. d \in [Cell -> CellType]
    BY <1>1, <2>1 DEF Delete, Typed
  <2>3. \A c \in Cell : ~d[c].live => d[c].kids = <<>> /\ c \notin L
    BY <1>1, <1>5, <1>6 DEF Typed, Freed
  <2> QED
    BY <1>1, <2>2, <2>3 DEF Typed
<1>8. SlotsIn(d, r) = {t \in SlotsIn(h, r) : t.at = 0 \/ t.in \notin D}
  <2>1. \A c \in Cell : DOMAIN d[c].kids = IF c \in D THEN {} ELSE DOMAIN h[c].kids
    BY <1>6 DEF Freed
  <2> QED
    BY <2>1 DEF SlotsIn
<1>9. \A t \in SlotsIn(d, r) : ObjectAt(d, r, t) = ObjectAt(h, r, t)
  BY <1>6, <1>8 DEF ObjectAt, SlotsIn
<1>10. s \in SlotsIn(d, r)
  BY <1>3, <1>8
<1> HIDE DEF old, D, d
<1>11. /\ Typed(g, q, L) /\ DOMAIN q = DOMAIN r /\ SlotsIn(g, q) = SlotsIn(d, r) /\ ObjectAt(g, q, s) = v
       /\ \A t \in SlotsIn(d, r) : t # s => ObjectAt(g, q, t) = ObjectAt(d, r, t)
       /\ \A c \in Cell : g[c].live = d[c].live /\ Len(g[c].kids) = Len(d[c].kids)
       /\ \A c \in Cell : s.at = 0 \/ c # s.in => g[c] = d[c]
  BY <1>7, <1>10, PutSlots
<1>12. \A t \in SlotsIn(g, q) : t # s => ObjectAt(g, q, t) = ObjectAt(h, r, t)
  BY <1>9, <1>11
<1>13. \A c \in Cell : g[c].live <=> h[c].live /\ c \notin D
  BY <1>6, <1>11 DEF Freed
<1> HIDE DEF g, q
\* An object that is left has its cell outside.
<1>14. ASSUME NEW t \in SlotsIn(g, q), OnHeap(ObjectAt(g, q, t))
       PROVE  /\ t \in SlotsIn(h, r) /\ t # s /\ ObjectAt(h, r, t) = ObjectAt(g, q, t)
              /\ ObjectAt(h, r, t).word \in Cell \ D
  <2>1. t # s
    BY <1>11, <1>14
  <2>2. t \in SlotsIn(h, r) /\ ObjectAt(h, r, t) = ObjectAt(g, q, t) /\ (t.at = 0 \/ t.in \notin D)
    BY <1>8, <1>11, <1>12, <2>1
  <2>3. ObjectAt(h, r, t).word \in Cell
    BY <1>1, <1>14, <2>2, ObjectTyped
  <2> QED
    BY <1>4, <1>14, <2>1, <2>2, <2>3
<1>15. Points(g, q, L)
  BY <1>1, <1>13, <1>14 DEF Points
<1>16. Unique(g, q)
  BY <1>1, <1>14 DEF Unique
<1>17. Kept(g, q, L)
  <2> SUFFICES ASSUME NEW c \in Cell, g[c].live, c \notin L
               PROVE  \E t \in SlotsIn(g, q) : OnHeap(ObjectAt(g, q, t)) /\ ObjectAt(g, q, t).word = c
    BY DEF Kept
  <2>1. h[c].live /\ c \notin D
    BY <1>13
  <2>2. PICK t \in SlotsIn(h, r) : OnHeap(ObjectAt(h, r, t)) /\ ObjectAt(h, r, t).word = c
    BY <1>1, <2>1 DEF Kept
  <2>3. t # s
    BY <1>2, <2>1, <2>2 DEF old
  <2>4. t.at = 0 \/ t.in \notin D
    <3> SUFFICES ASSUME t.at # 0, t.in \in D PROVE FALSE
      OBVIOUS
    <3>1. t.at \in DOMAIN h[t.in].kids /\ ObjectAt(h, r, t) = h[t.in].kids[t.at][2]
      BY DEF SlotsIn, ObjectAt
    <3>2. c \in D
      BY <1>2, <2>2, <3>1 DEF Closed
    <3> QED
      BY <2>1, <3>2
  <2> QED
    BY <1>8, <1>11, <1>12, <2>2, <2>3, <2>4
<1>18. Ranked(g)
  <2>1. PICK rank \in [Cell -> Nat] : RankOK(rank, h)
    BY <1>1 DEF Ranked
  <2>2. RankOK(rank, g)
    <3> SUFFICES ASSUME NEW c \in Cell, NEW i \in DOMAIN g[c].kids, OnHeap(g[c].kids[i][2])
                 PROVE  rank[g[c].kids[i][2].word] > rank[c]
      BY DEF RankOK
    <3> DEFINE u == [in |-> c, at |-> i]
    <3>1. u \in SlotsIn(g, q) /\ ObjectAt(g, q, u) = g[c].kids[i][2] /\ u.at # 0
      BY <1>11, MemberSlot
    <3>2. u \in SlotsIn(h, r) /\ ObjectAt(h, r, u) = g[c].kids[i][2]
      BY <1>14, <3>1
    <3>3. i \in DOMAIN h[c].kids /\ h[c].kids[i][2] = g[c].kids[i][2]
      BY <3>1, <3>2 DEF SlotsIn, ObjectAt
    <3> QED
      BY <2>1, <3>3 DEF RankOK
  <2> QED
    BY <2>2 DEF Ranked
<1>19. PairsWhole(g, q)
  <2> SUFFICES ASSUME NEW t \in SlotsIn(g, q), ObjectAt(g, q, t).type = "Pair"
               PROVE  Len(g[ObjectAt(g, q, t).word].kids) = 1
    BY DEF PairsWhole
  <2>1. OnHeap(ObjectAt(g, q, t))
    BY DEF OnHeap
  <2>2. /\ t \in SlotsIn(h, r) /\ ObjectAt(h, r, t) = ObjectAt(g, q, t)
        /\ ObjectAt(h, r, t).word \in Cell \ D
    BY <1>14, <2>1
  <2>3. Len(h[ObjectAt(h, r, t).word].kids) = 1
    BY <1>1, <2>2 DEF PairsWhole
  <2> QED
    BY <1>6, <1>11, <2>2, <2>3
<1>20. Owned(g, q, L)
  BY <1>11, <1>15, <1>16, <1>17, <1>18, <1>19 DEF Owned
<1>21. \A c \in Cell : (s.at = 0 \/ c # s.in) /\ c \notin D => g[c] = h[c]
  BY <1>6, <1>11
<1> QED
  BY <1>7, <1>8, <1>10, <1>11, <1>12, <1>13, <1>20, <1>21 DEF g, q, d, D, old

\* An object moves from one slot to another that holds no cell and does not lie
\* within it.
LEMMA Moved ==
    ASSUME NEW h, NEW r, NEW L, Owned(h, r, L), NEW s \in SlotsIn(h, r), NEW t \in SlotsIn(h, r), s # t,
           ~OnHeap(ObjectAt(h, r, s)), NEW left \in Objects, ~OnHeap(left),
           s.at = 0 \/ s.in \notin CellsOf(h, ObjectAt(h, r, t))
    PROVE  LET v == ObjectAt(h, r, t)
               g == HeapWith(HeapWith(h, s, v), t, left)
               q == RootWith(RootWith(r, s, v), t, left)
           IN  /\ Owned(g, q, L) /\ DOMAIN q = DOMAIN r /\ SlotsIn(g, q) = SlotsIn(h, r)
               /\ ObjectAt(g, q, s) = v /\ ObjectAt(g, q, t) = left
               /\ \A u \in SlotsIn(h, r) : u \notin {s, t} => ObjectAt(g, q, u) = ObjectAt(h, r, u)
               /\ \A c \in Cell : g[c].live = h[c].live
<1> DEFINE v == ObjectAt(h, r, t)
           h1 == HeapWith(h, s, v)
           r1 == RootWith(r, s, v)
           g == HeapWith(h1, t, left)
           q == RootWith(r1, t, left)
           D == CellsOf(h, v)
<1>1. Typed(h, r, L) /\ Points(h, r, L) /\ Unique(h, r) /\ Kept(h, r, L) /\ Ranked(h) /\ PairsWhole(h, r)
  BY DEF Owned
<1>2. v \in Objects /\ (OnHeap(v) => v.word \in Cell)
  BY <1>1, ObjectTyped
<1>3. /\ Typed(h1, r1, L) /\ DOMAIN r1 = DOMAIN r /\ SlotsIn(h1, r1) = SlotsIn(h, r) /\ ObjectAt(h1, r1, s) = v
      /\ \A u \in SlotsIn(h, r) : u # s => ObjectAt(h1, r1, u) = ObjectAt(h, r, u)
      /\ \A c \in Cell : h1[c].live = h[c].live /\ Len(h1[c].kids) = Len(h[c].kids)
  <2> HIDE DEF v
  <2> QED
    BY <1>1, <1>2, PutSlots
<1> HIDE DEF v, h1, r1
<1>4. /\ Typed(g, q, L) /\ DOMAIN q = DOMAIN r1 /\ SlotsIn(g, q) = SlotsIn(h1, r1) /\ ObjectAt(g, q, t) = left
      /\ \A u \in SlotsIn(h1, r1) : u # t => ObjectAt(g, q, u) = ObjectAt(h1, r1, u)
      /\ \A c \in Cell : g[c].live = h1[c].live /\ Len(g[c].kids) = Len(h1[c].kids)
  BY <1>3, PutSlots
<1> HIDE DEF g, q
<1>5. /\ SlotsIn(g, q) = SlotsIn(h, r) /\ ObjectAt(g, q, s) = v /\ ObjectAt(g, q, t) = left
      /\ \A u \in SlotsIn(h, r) : u \notin {s, t} => ObjectAt(g, q, u) = ObjectAt(h, r, u)
      /\ \A c \in Cell : g[c].live = h[c].live /\ Len(g[c].kids) = Len(h[c].kids)
  BY <1>3, <1>4
\* Where an object has come from.
<1> DEFINE from(u) == IF u = s THEN t ELSE u
<1>6. ASSUME NEW u \in SlotsIn(g, q), OnHeap(ObjectAt(g, q, u))
      PROVE  u # t /\ from(u) \in SlotsIn(h, r) /\ ObjectAt(h, r, from(u)) = ObjectAt(g, q, u)
  BY <1>5, <1>6 DEF v
<1>7. Points(g, q, L)
  <2> SUFFICES ASSUME NEW u \in SlotsIn(g, q), OnHeap(ObjectAt(g, q, u))
               PROVE  g[ObjectAt(g, q, u).word].live /\ ObjectAt(g, q, u).word \notin L
    BY DEF Points
  <2>1. from(u) \in SlotsIn(h, r) /\ ObjectAt(h, r, from(u)) = ObjectAt(g, q, u)
    BY <1>6
  <2>2. ObjectAt(g, q, u).word \in Cell
    BY <1>4, ObjectTyped
  <2> QED
    BY <1>1, <1>5, <2>1, <2>2 DEF Points
<1>8. Unique(g, q)
  <2> SUFFICES ASSUME NEW u \in SlotsIn(g, q), NEW w \in SlotsIn(g, q),
                      OnHeap(ObjectAt(g, q, u)), OnHeap(ObjectAt(g, q, w)),
                      ObjectAt(g, q, u).word = ObjectAt(g, q, w).word
               PROVE  u = w
    BY DEF Unique
  <2>1. from(u) = from(w)
    BY <1>1, <1>6 DEF Unique
  <2> QED
    BY <1>6, <2>1
<1>9. Kept(g, q, L)
  <2> SUFFICES ASSUME NEW c \in Cell, g[c].live, c \notin L
               PROVE  \E u \in SlotsIn(g, q) : OnHeap(ObjectAt(g, q, u)) /\ ObjectAt(g, q, u).word = c
    BY DEF Kept
  <2>1. PICK u \in SlotsIn(h, r) : OnHeap(ObjectAt(h, r, u)) /\ ObjectAt(h, r, u).word = c
    BY <1>1, <1>5 DEF Kept
  <2>2. CASE u = t
    BY <1>5, <2>1, <2>2 DEF v
  <2>3. CASE u # t
    BY <1>5, <2>1, <2>3
  <2> QED
    BY <2>2, <2>3
<1>10. Ranked(g)
  <2>1. PICK rank \in [Cell -> Nat] : RankOK(rank, h)
    BY <1>1 DEF Ranked
  <2> DEFINE up == IF s.at = 0 THEN 0 ELSE rank[s.in] + 1
             new == [c \in Cell |-> IF c \in D THEN rank[c] + up ELSE rank[c]]
  <2>2. up \in Nat /\ (s.at # 0 => s.in \in Cell /\ s.in \notin D)
    BY DEF SlotsIn, v
  <2>3. new \in [Cell -> Nat]
    BY <2>2
  <2>4. RankOK(new, g)
    <3> SUFFICES ASSUME NEW c \in Cell, NEW i \in DOMAIN g[c].kids, OnHeap(g[c].kids[i][2])
                 PROVE  new[g[c].kids[i][2].word] > new[c]
      BY DEF RankOK
    <3> DEFINE u == [in |-> c, at |-> i]
               w == g[c].kids[i][2]
    <3>1. u \in SlotsIn(g, q) /\ ObjectAt(g, q, u) = w /\ u.at # 0 /\ u.in = c
      BY <1>4, MemberSlot
    <3>2. w.word \in Cell
      BY <1>4, <3>1, ObjectTyped
    <3>3. CASE u = s
      <4>1. w = v /\ s.at # 0 /\ s.in = c
        BY <1>5, <3>1, <3>3
      <4>2. w.word \in D
        BY <1>2, <4>1, LeastClosed
      <4>3. new[w.word] = rank[w.word] + rank[c] + 1 /\ new[c] = rank[c]
        BY <2>2, <3>2, <4>1, <4>2
      <4> QED
        BY <3>2, <4>3
    <3>4. CASE u # s
      <4>1. u # t /\ u \in SlotsIn(h, r) /\ ObjectAt(h, r, u) = w
        BY <1>6, <3>1, <3>4
      <4>2. i \in DOMAIN h[c].kids /\ h[c].kids[i][2] = w
        BY <3>1, <4>1 DEF SlotsIn, ObjectAt
      <4>3. rank[w.word] > rank[c]
        BY <2>1, <4>2 DEF RankOK
      <4>4. w.word \in D => c \in D
        <5> SUFFICES ASSUME w.word \in D PROVE c \in D
          OBVIOUS
        <5>1. OnHeap(v)
          BY DEF CellsOf
        <5> QED
          BY <1>1, <3>1, <4>1, <5>1, OwnedWithin DEF v
      <4>5. c \in D => w.word \in D
        BY <1>1, <4>2, CellsClosed DEF Closed, Typed
      <4> HIDE DEF D, w, up
      <4> QED
        BY <2>2, <3>2, <4>3, <4>4, <4>5 DEF w
    <3> QED
      BY <3>3, <3>4
  <2> QED
    BY <2>3, <2>4 DEF Ranked
<1>11. PairsWhole(g, q)
  <2> SUFFICES ASSUME NEW u \in SlotsIn(g, q), ObjectAt(g, q, u).type = "Pair"
               PROVE  Len(g[ObjectAt(g, q, u).word].kids) = 1
    BY DEF PairsWhole
  <2>1. OnHeap(ObjectAt(g, q, u))
    BY DEF OnHeap
  <2>2. from(u) \in SlotsIn(h, r) /\ ObjectAt(h, r, from(u)) = ObjectAt(g, q, u)
    BY <1>6, <2>1
  <2>3. ObjectAt(g, q, u).word \in Cell
    BY <1>4, <2>1, ObjectTyped
  <2> QED
    BY <1>1, <1>5, <2>2, <2>3 DEF PairsWhole
<1>12. Owned(g, q, L)
  BY <1>4, <1>7, <1>8, <1>9, <1>10, <1>11 DEF Owned
<1> QED
  BY <1>3, <1>4, <1>5, <1>12 DEF g, q, h1, r1, v

-----------------------------------------------------------------------------
(* Objects that an operation holds *)

With(r, x, v) == [y \in DOMAIN r \cup {x} |-> IF y = x THEN v ELSE r[y]]
Without(r, x) == [y \in DOMAIN r \ {x} |-> r[y]]
RootSlot(x) == [in |-> x, at |-> 0]

\* One that holds no cell may begin,
LEMMA Begun ==
    ASSUME NEW h, NEW r, NEW L, Owned(h, r, L), NEW x, x \notin DOMAIN r, NEW v \in Objects, ~OnHeap(v)
    PROVE  LET q == With(r, x, v)
           IN  /\ Owned(h, q, L) /\ RootSlot(x) \in SlotsIn(h, q) /\ ObjectAt(h, q, RootSlot(x)) = v
               /\ SlotsIn(h, q) = SlotsIn(h, r) \cup {RootSlot(x)} /\ RootSlot(x) \notin SlotsIn(h, r)
               /\ \A s \in SlotsIn(h, r) : ObjectAt(h, q, s) = ObjectAt(h, r, s)
<1> DEFINE q == With(r, x, v)
<1>1. Typed(h, r, L) /\ PairsWhole(h, r)
  BY DEF Owned
<1>2. DOMAIN q = DOMAIN r \cup {x} /\ q[x] = v /\ \A y \in DOMAIN r : q[y] = r[y]
  BY DEF With
<1>3. Typed(h, q, L)
  <2>1. r \in [DOMAIN r -> Objects]
    BY <1>1 DEF Typed
  <2>2. \A y \in DOMAIN r \cup {x} : q[y] \in Objects
    BY <1>2, <2>1
  <2>3. q \in [DOMAIN q -> Objects]
    BY <1>2, <2>2 DEF With
  <2> QED
    BY <1>1, <2>3 DEF Typed
<1>4. /\ SlotsIn(h, q) = SlotsIn(h, r) \cup {RootSlot(x)} /\ RootSlot(x) \notin SlotsIn(h, r)
      /\ ObjectAt(h, q, RootSlot(x)) = v
  BY <1>2 DEF SlotsIn, RootSlot, ObjectAt
<1>5. \A s \in SlotsIn(h, r) : ObjectAt(h, q, s) = ObjectAt(h, r, s)
  BY <1>2 DEF SlotsIn, ObjectAt
<1> HIDE DEF q
<1>6. PairsWhole(h, q)
  BY <1>1, <1>4, <1>5 DEF PairsWhole, OnHeap
<1>7. Owned(h, q, L)
  <2>1. CASE SlotsIn(h, r) = {}
    <3>1. Typed(h, q, L) /\ PairsWhole(h, q) /\ Ranked(h)
      BY <1>3, <1>6 DEF Owned
    <3>2. Points(h, q, L) /\ Unique(h, q)
      BY <1>4, <2>1 DEF Points, Unique
    <3>3. Kept(h, q, L)
      BY <2>1 DEF Kept, Owned
    <3> QED
      BY <3>1, <3>2, <3>3 DEF Owned
  <2>2. CASE SlotsIn(h, r) # {}
    <3> DEFINE other == CHOOSE s \in SlotsIn(h, r) : TRUE
               to == [s \in SlotsIn(h, q) |-> IF s = RootSlot(x) THEN other ELSE s]
    <3>1. to \in [SlotsIn(h, q) -> SlotsIn(h, r)]
      BY <1>4, <2>2
    <3>2. \A s \in SlotsIn(h, q) : OnHeap(ObjectAt(h, q, s)) => s \in SlotsIn(h, r) /\ to[s] = s
      BY <1>4
    <3>3. \A s \in SlotsIn(h, r) : s \in SlotsIn(h, q) /\ to[s] = s
      BY <1>4
    <3> HIDE DEF to
    <3> QED
      BY <1>3, <1>5, <1>6, <3>1, <3>2, <3>3, Renamed
  <2> QED
    BY <2>1, <2>2
<1> QED
  BY <1>4, <1>5, <1>7 DEF q

\* and end.
LEMMA Done ==
    ASSUME NEW h, NEW r, NEW L, Owned(h, r, L), NEW x \in DOMAIN r, ~OnHeap(r[x])
    PROVE  LET q == Without(r, x)
           IN  /\ Owned(h, q, L)
               /\ SlotsIn(h, q) = SlotsIn(h, r) \ {RootSlot(x)}
               /\ \A s \in SlotsIn(h, q) : ObjectAt(h, q, s) = ObjectAt(h, r, s)
<1> DEFINE q == Without(r, x)
<1>1. Typed(h, r, L) /\ PairsWhole(h, r)
  BY DEF Owned
<1>2. DOMAIN q = DOMAIN r \ {x} /\ \A y \in DOMAIN q : q[y] = r[y]
  BY DEF Without
<1>3. Typed(h, q, L)
  BY <1>1, <1>2 DEF Typed, Without
<1>4. SlotsIn(h, q) = SlotsIn(h, r) \ {RootSlot(x)}
  BY <1>2 DEF SlotsIn, RootSlot
<1>5. \A s \in SlotsIn(h, q) : ObjectAt(h, q, s) = ObjectAt(h, r, s)
  BY <1>2 DEF SlotsIn, ObjectAt
<1>6. ObjectAt(h, r, RootSlot(x)) = r[x]
  BY DEF ObjectAt, RootSlot
<1> HIDE DEF q
<1>7. PairsWhole(h, q)
  BY <1>1, <1>4, <1>5 DEF PairsWhole
<1>8. Owned(h, q, L)
  <2> DEFINE to == [s \in SlotsIn(h, q) |-> s]
  <2>1. to \in [SlotsIn(h, q) -> SlotsIn(h, r)] /\ \A s \in SlotsIn(h, q) : to[s] = s
    BY <1>4
  <2>2. \A s \in SlotsIn(h, r) : OnHeap(ObjectAt(h, r, s)) => s \in SlotsIn(h, q)
    BY <1>4, <1>6
  <2> HIDE DEF to
  <2> QED
    BY <1>3, <1>5, <1>7, <2>1, <2>2, Renamed
<1> QED
  BY <1>4, <1>5, <1>8 DEF q

-----------------------------------------------------------------------------
(* Cells and an object that are a whole of their own, named x for a while *)

Only(k, N) == [c \in Cell |-> IF c \in N THEN k[c] ELSE Freed]
Alone(x, v) == [y \in {x} |-> v]
Whole(k, N, x, v) == N \subseteq Cell /\ (\A c \in N : k[c].live) /\ Owned(Only(k, N), Alone(x, v), {})

\* They may be added to a heap in cells that are free there.
LEMMA United ==
    ASSUME NEW h, NEW r, NEW L, Owned(h, r, L), NEW k \in [Cell -> CellType], NEW N, NEW x, NEW v,
           Whole(k, N, x, v), x \notin DOMAIN r,
           \A c \in N : ~h[c].live, \A c \in Cell \ N : k[c] = h[c]
    PROVE  LET q == With(r, x, v)
           IN  /\ Owned(k, q, L) /\ SlotsIn(h, r) \subseteq SlotsIn(k, q)
               /\ RootSlot(x) \in SlotsIn(k, q) /\ ObjectAt(k, q, RootSlot(x)) = v
               /\ \A s \in SlotsIn(h, r) : ObjectAt(k, q, s) = ObjectAt(h, r, s)
<1> DEFINE q == With(r, x, v)
           o == Only(k, N)
           p == Alone(x, v)
<1>1. Typed(h, r, L) /\ Points(h, r, L) /\ Unique(h, r) /\ Kept(h, r, L) /\ Ranked(h) /\ PairsWhole(h, r)
  BY DEF Owned
<1>2. Typed(o, p, {}) /\ Points(o, p, {}) /\ Unique(o, p) /\ Kept(o, p, {}) /\ Ranked(o) /\ PairsWhole(o, p)
  BY DEF Owned, Whole
<1>3. N \subseteq Cell /\ (\A c \in N : k[c].live) /\ (\A c \in Cell : o[c] = IF c \in N THEN k[c] ELSE Freed)
  BY DEF Whole, Only
<1>4. /\ DOMAIN q = DOMAIN r \cup {x} /\ q[x] = v /\ \A y \in DOMAIN r : q[y] = r[y]
      /\ DOMAIN p = {x} /\ p[x] = v
  BY DEF With, Alone
<1>5. v \in Objects
  BY <1>2, <1>4 DEF Typed
<1>6. Typed(k, q, L)
  <2>1. r \in [DOMAIN r -> Objects]
    BY <1>1 DEF Typed
  <2>2. \A y \in DOMAIN r \cup {x} : q[y] \in Objects
    BY <1>4, <1>5, <2>1
  <2>3. q \in [DOMAIN q -> Objects]
    BY <1>4, <2>2 DEF With
  <2>4. \A c \in Cell : ~k[c].live => k[c].kids = <<>> /\ c \notin L
    BY <1>1, <1>3 DEF Typed
  <2> QED
    BY <1>1, <2>3, <2>4 DEF Typed
<1> HIDE DEF q, o, p
\* The slots are those of the one and the other.
<1>7. ASSUME NEW t \in SlotsIn(h, r)
      PROVE  t \in SlotsIn(k, q) /\ ObjectAt(k, q, t) = ObjectAt(h, r, t) /\ t \notin SlotsIn(o, p)
  <2>1. CASE t.at = 0
    BY <1>4, <2>1 DEF SlotsIn, ObjectAt
  <2>2. CASE t.at # 0
    <3>1. t \in [in : Cell, at : Nat \ {0}] /\ t.at \in DOMAIN h[t.in].kids
      BY <2>2 DEF SlotsIn
    <3>2. h[t.in].live
      BY <1>1, <3>1 DEF Typed
    <3>3. t.in \notin N /\ k[t.in] = h[t.in] /\ o[t.in] = Freed
      BY <1>3, <3>1, <3>2
    <3> QED
      BY <2>2, <3>1, <3>3 DEF SlotsIn, ObjectAt, Freed
  <2> QED
    BY <2>1, <2>2
<1>8. ASSUME NEW t \in SlotsIn(o, p)
      PROVE  t \in SlotsIn(k, q) /\ ObjectAt(k, q, t) = ObjectAt(o, p, t)
  <2>1. CASE t.at = 0
    BY <1>4, <2>1 DEF SlotsIn, ObjectAt
  <2>2. CASE t.at # 0
    <3>1. t \in [in : Cell, at : Nat \ {0}] /\ t.at \in DOMAIN o[t.in].kids
      BY <2>2 DEF SlotsIn
    <3>2. t.in \in N /\ k[t.in] = o[t.in]
      BY <1>3, <3>1 DEF Freed
    <3> QED
      BY <2>2, <3>1, <3>2 DEF SlotsIn, ObjectAt
  <2> QED
    BY <2>1, <2>2
<1>9. ASSUME NEW t \in SlotsIn(k, q)
      PROVE  t \in SlotsIn(h, r) \/ t \in SlotsIn(o, p)
  <2>1. CASE t.at = 0
    BY <1>4, <2>1 DEF SlotsIn
  <2>2. CASE t.at # 0
    <3>1. t \in [in : Cell, at : Nat \ {0}] /\ t.at \in DOMAIN k[t.in].kids
      BY <2>2 DEF SlotsIn
    <3>2. k[t.in] = o[t.in] \/ k[t.in] = h[t.in]
      BY <1>3, <3>1
    <3> QED
      BY <3>1, <3>2 DEF SlotsIn
  <2> QED
    BY <2>1, <2>2
<1>10. ASSUME NEW t \in SlotsIn(k, q), OnHeap(ObjectAt(k, q, t))
       PROVE  LET w == ObjectAt(k, q, t).word
              IN  /\ w \in Cell /\ k[w].live /\ w \notin L
                  /\ \/ w \notin N /\ t \in SlotsIn(h, r) /\ h[w].live
                     \/ w \in N /\ t \in SlotsIn(o, p)
  <2> DEFINE w == ObjectAt(k, q, t).word
  <2>1. CASE t \in SlotsIn(h, r)
    <3>1. h[w].live /\ w \notin L
      BY <1>1, <1>7, <1>10, <2>1 DEF Points
    <3>2. w \in Cell
      BY <1>1, <1>7, <1>10, <2>1, ObjectTyped
    <3>3. w \notin N
      BY <3>1
    <3> QED
      BY <2>1, <3>1, <3>2, <3>3
  <2>2. CASE t \in SlotsIn(o, p)
    <3>1. o[w].live
      BY <1>2, <1>8, <1>10, <2>2 DEF Points
    <3>2. w \in Cell
      BY <1>2, <1>8, <1>10, <2>2, ObjectTyped
    <3>3. w \in N
      BY <1>3, <3>1, <3>2 DEF Freed
    <3>4. w \notin L
      BY <1>1, <3>2, <3>3 DEF Typed
    <3> QED
      BY <1>3, <2>2, <3>2, <3>3, <3>4
  <2> QED
    BY <1>9, <2>1, <2>2
<1>11. Points(k, q, L)
  BY <1>10 DEF Points
<1>12. Unique(k, q)
  <2> SUFFICES ASSUME NEW s \in SlotsIn(k, q), NEW t \in SlotsIn(k, q),
                      OnHeap(ObjectAt(k, q, s)), OnHeap(ObjectAt(k, q, t)),
                      ObjectAt(k, q, s).word = ObjectAt(k, q, t).word
               PROVE  s = t
    BY DEF Unique
  <2>1. \/ s \in SlotsIn(h, r) /\ t \in SlotsIn(h, r)
        \/ s \in SlotsIn(o, p) /\ t \in SlotsIn(o, p)
    BY <1>10
  <2>2. CASE s \in SlotsIn(h, r) /\ t \in SlotsIn(h, r)
    BY <1>1, <1>7, <2>2 DEF Unique
  <2>3. CASE s \in SlotsIn(o, p) /\ t \in SlotsIn(o, p)
    BY <1>2, <1>8, <2>3 DEF Unique
  <2> QED
    BY <2>1, <2>2, <2>3
<1>13. Kept(k, q, L)
  <2> SUFFICES ASSUME NEW c \in Cell, k[c].live, c \notin L
               PROVE  \E s \in SlotsIn(k, q) : OnHeap(ObjectAt(k, q, s)) /\ ObjectAt(k, q, s).word = c
    BY DEF Kept
  <2>1. CASE c \in N
    <3>1. o[c].live
      BY <1>3, <2>1
    <3>2. PICK s \in SlotsIn(o, p) : OnHeap(ObjectAt(o, p, s)) /\ ObjectAt(o, p, s).word = c
      BY <1>2, <3>1 DEF Kept
    <3> QED
      BY <1>8, <3>2
  <2>2. CASE c \notin N
    <3>1. PICK s \in SlotsIn(h, r) : OnHeap(ObjectAt(h, r, s)) /\ ObjectAt(h, r, s).word = c
      BY <1>1, <2>2 DEF Kept
    <3> QED
      BY <1>7, <3>1
  <2> QED
    BY <2>1, <2>2
<1>14. Ranked(k)
  <2>1. PICK rank \in [Cell -> Nat] : RankOK(rank, h)
    BY <1>1 DEF Ranked
  <2>2. PICK order \in [Cell -> Nat] : RankOK(order, o)
    BY <1>2 DEF Ranked
  <2> DEFINE new == [c \in Cell |-> IF c \in N THEN order[c] ELSE rank[c]]
  <2>3. new \in [Cell -> Nat]
    OBVIOUS
  <2>4. RankOK(new, k)
    <3> SUFFICES ASSUME NEW c \in Cell, NEW i \in DOMAIN k[c].kids, OnHeap(k[c].kids[i][2])
                 PROVE  new[k[c].kids[i][2].word] > new[c]
      BY DEF RankOK
    <3> DEFINE t == [in |-> c, at |-> i]
               w == k[c].kids[i][2].word
    <3>1. t \in SlotsIn(k, q) /\ ObjectAt(k, q, t) = k[c].kids[i][2] /\ t.at # 0 /\ t.in = c
      BY <1>6, MemberSlot
    <3>2. CASE w \notin N /\ t \in SlotsIn(h, r) /\ w \in Cell
      <4>1. i \in DOMAIN h[c].kids /\ h[c].kids[i][2] = k[c].kids[i][2]
        BY <1>7, <3>1, <3>2 DEF SlotsIn, ObjectAt
      <4>2. c \notin N
        BY <1>1, <4>1 DEF Typed
      <4>3. rank[w] > rank[c]
        BY <2>1, <4>1 DEF RankOK
      <4> QED
        BY <3>2, <4>2, <4>3
    <3>3. CASE w \in N /\ t \in SlotsIn(o, p) /\ w \in Cell
      <4>1. i \in DOMAIN o[c].kids /\ o[c].kids[i][2] = k[c].kids[i][2]
        BY <1>8, <3>1, <3>3 DEF SlotsIn, ObjectAt
      <4>2. c \in N
        BY <1>3, <4>1 DEF Freed
      <4>3. order[w] > order[c]
        BY <2>2, <4>1 DEF RankOK
      <4> QED
        BY <3>3, <4>2, <4>3
    <3> QED
      BY <1>10, <3>1, <3>2, <3>3
  <2> QED
    BY <2>3, <2>4 DEF Ranked
<1>15. PairsWhole(k, q)
  <2> SUFFICES ASSUME NEW t \in SlotsIn(k, q), ObjectAt(k, q, t).type = "Pair"
               PROVE  Len(k[ObjectAt(k, q, t).word].kids) = 1
    BY DEF PairsWhole
  <2> DEFINE w == ObjectAt(k, q, t).word
  <2>1. OnHeap(ObjectAt(k, q, t))
    BY DEF OnHeap
  <2>2. CASE w \notin N /\ t \in SlotsIn(h, r) /\ w \in Cell
    BY <1>1, <1>7, <2>2 DEF PairsWhole
  <2>3. CASE w \in N /\ t \in SlotsIn(o, p) /\ w \in Cell
    BY <1>2, <1>3, <1>8, <2>3 DEF PairsWhole
  <2> QED
    BY <1>10, <2>1, <2>2, <2>3
<1>16. Owned(k, q, L)
  BY <1>6, <1>11, <1>12, <1>13, <1>14, <1>15 DEF Owned
<1>17. RootSlot(x) \in SlotsIn(k, q) /\ ObjectAt(k, q, RootSlot(x)) = v
  BY <1>4 DEF RootSlot, SlotsIn, ObjectAt
<1> QED
  BY <1>7, <1>16, <1>17 DEF q

\* The cells of a whole are those of its object, and no others are within it.
LEMMA WholeCells ==
    ASSUME NEW k \in [Cell -> CellType], NEW N, NEW x, NEW v, Whole(k, N, x, v)
    PROVE  v \in Objects /\ CellsOf(k, v) \subseteq N
<1> DEFINE o == Only(k, N)
           p == Alone(x, v)
<1>1. Typed(o, p, {}) /\ Points(o, p, {})
  BY DEF Owned, Whole
<1>2. N \subseteq Cell /\ (\A c \in Cell : o[c] = IF c \in N THEN k[c] ELSE Freed) /\ DOMAIN p = {x} /\ p[x] = v
  BY DEF Whole, Only, Alone
<1>3. \A c \in Cell : o[c].live => c \in N
  BY <1>2 DEF Freed
<1> HIDE DEF o, p
<1>4. v \in Objects
  BY <1>1, <1>2 DEF Typed
<1>5. ASSUME OnHeap(v) PROVE v.word \in N
  <2>1. RootSlot(x) \in SlotsIn(o, p) /\ ObjectAt(o, p, RootSlot(x)) = v
    BY <1>2 DEF RootSlot, SlotsIn, ObjectAt
  <2> QED
    BY <1>1, <1>3, <1>5, <2>1, ObjectTyped DEF Points
<1>6. Closed(k, N)
  <2> SUFFICES ASSUME NEW c \in N, NEW i \in DOMAIN k[c].kids, OnHeap(k[c].kids[i][2])
               PROVE  k[c].kids[i][2].word \in N
    BY DEF Closed
  <2> DEFINE t == [in |-> c, at |-> i]
  <2>1. c \in Cell /\ o[c] = k[c]
    BY <1>2
  <2>2. t \in SlotsIn(o, p) /\ ObjectAt(o, p, t) = k[c].kids[i][2]
    BY <1>1, <2>1, MemberSlot
  <2> QED
    BY <1>1, <1>3, <2>2, ObjectTyped DEF Points
<1> QED
  <2>1. CASE OnHeap(v)
    BY <1>2, <1>4, <1>5, <1>6, <2>1, LeastClosed
  <2>2. CASE ~OnHeap(v)
    BY <1>4, <2>2 DEF CellsOf
  <2> QED
    BY <2>1, <2>2

\* What is put last stays.
LEMMA PutTwice ==
    ASSUME NEW h, NEW r, NEW L, Typed(h, r, L), NEW s \in SlotsIn(h, r), NEW u \in Objects, NEW v \in Objects
    PROVE  HeapWith(HeapWith(h, s, u), s, v) = HeapWith(h, s, v)
<1>1. CASE s.at = 0
  BY <1>1 DEF HeapWith
<1>2. CASE s.at # 0
  <2>1. s.in \in Cell /\ s.at \in DOMAIN h[s.in].kids /\ h \in [Cell -> CellType]
    BY <1>2 DEF SlotsIn, Typed
  <2> DEFINE kids == h[s.in].kids
             once == [kids EXCEPT ![s.at] = [@ EXCEPT ![2] = u]]
             twice == [once EXCEPT ![s.at] = [@ EXCEPT ![2] = v]]
  <2>2. kids \in Seq(Labels \X Objects)
    BY <2>1 DEF CellType, Kids
  <2>3. kids[s.at] \in Labels \X Objects
    BY <2>1, <2>2
  <2>4. [[kids[s.at] EXCEPT ![2] = u] EXCEPT ![2] = v] = [kids[s.at] EXCEPT ![2] = v]
    BY <2>3
  <2>5. twice = [kids EXCEPT ![s.at] = [@ EXCEPT ![2] = v]]
    BY <2>1, <2>2, <2>4
  <2>6. HeapWith(h, s, u) = [h EXCEPT ![s.in] = [@ EXCEPT !.kids = once]]
    BY <1>2, <2>1 DEF HeapWith
  <2>7. HeapWith(h, s, v) = [h EXCEPT ![s.in] = [@ EXCEPT !.kids = twice]]
    BY <1>2, <2>1, <2>5 DEF HeapWith
  <2> HIDE DEF once, kids
  <2> DEFINE g == HeapWith(h, s, u)
  <2>8. g[s.in].kids = once /\ g = [c \in Cell |-> IF c = s.in THEN [h[c] EXCEPT !.kids = once] ELSE h[c]]
    BY <2>1, <2>6 DEF CellType
  <2>9. HeapWith(g, s, v) = [g EXCEPT ![s.in] = [@ EXCEPT !.kids = twice]]
    <3>1. HeapWith(g, s, v) = [g EXCEPT ![s.in].kids[s.at][2] = v]
      BY <1>2 DEF HeapWith
    <3> HIDE DEF g
    <3> QED
      BY <2>8, <3>1
  <2> HIDE DEF g, twice
  <2>10. HeapWith(g, s, v) = [c \in Cell |-> IF c = s.in THEN [h[c] EXCEPT !.kids = twice] ELSE h[c]]
    <3>1. [[h[s.in] EXCEPT !.kids = once] EXCEPT !.kids = twice] = [h[s.in] EXCEPT !.kids = twice]
      BY <2>1 DEF CellType
    <3> QED
      BY <2>1, <2>8, <2>9, <3>1
  <2>11. HeapWith(h, s, v) = [c \in Cell |-> IF c = s.in THEN [h[c] EXCEPT !.kids = twice] ELSE h[c]]
    BY <2>1, <2>7
  <2> QED
    BY <2>10, <2>11 DEF g
<1> QED
  BY <1>1, <1>2

\* k is the heap d with a whole in cells that are free there.
Fills(k, N, d, v) ==
    /\ k \in [Cell -> CellType] /\ \A x : Whole(k, N, x, v)
    /\ (\A c \in N : ~d[c].live) /\ (\A c \in Cell \ N : k[c] = d[c])

\* An object goes with its cells, and such a whole takes its slot.
LEMMA Replaced ==
    ASSUME NEW h, NEW r, NEW L, Owned(h, r, L), NEW s \in SlotsIn(h, r),
           NEW k, NEW N, NEW v, Fills(k, N, Delete(h, ObjectAt(h, r, s)), v)
    PROVE  LET g == HeapWith(k, s, v)
               q == RootWith(r, s, v)
           IN  /\ Owned(g, q, L) /\ DOMAIN q = DOMAIN r
               /\ s \in SlotsIn(g, q) /\ ObjectAt(g, q, s) = v /\ Typed(k, r, L) /\ s \in SlotsIn(k, r)
               /\ \A t \in SlotsIn(h, r) : t # s /\ (t.at = 0 \/ t.in \notin CellsOf(h, ObjectAt(h, r, s)))
                     => t \in SlotsIn(g, q) /\ ObjectAt(g, q, t) = ObjectAt(h, r, t)
<1> DEFINE old == ObjectAt(h, r, s)
           d == Delete(h, old)
           g0 == HeapWith(d, s, Null)
           q0 == RootWith(r, s, Null)
           k0 == HeapWith(k, s, Null)
           g == HeapWith(k, s, v)
           q == RootWith(r, s, v)
<1> USE DEF Fills
<1>1. Null \in Objects /\ ~OnHeap(Null)
  BY DEF Null, Json, Objects, OnHeap
<1>2. /\ Owned(g0, q0, L) /\ DOMAIN q0 = DOMAIN r /\ Typed(d, r, L) /\ s \in SlotsIn(d, r)
      /\ SlotsIn(g0, q0) = {t \in SlotsIn(h, r) : t.at = 0 \/ t.in \notin CellsOf(h, old)}
      /\ (\A t \in SlotsIn(g0, q0) : t # s => ObjectAt(g0, q0, t) = ObjectAt(h, r, t))
      /\ ObjectAt(g0, q0, s) = Null
  BY <1>1, Released
<1>3. /\ SlotsIn(g0, q0) = SlotsIn(d, r)
      /\ \A c \in Cell : g0[c].live = d[c].live
      /\ \A c \in Cell : s.at = 0 \/ c # s.in => g0[c] = d[c]
  BY <1>1, <1>2, PutSlots
<1>4. PICK x : x \notin DOMAIN r
  BY NoSetContainsEverything
<1>5. Whole(k, N, x, v) /\ v \in Objects /\ CellsOf(k, v) \subseteq N /\ N \subseteq Cell
  <2>1. Whole(k, N, x, v)
    OBVIOUS
  <2> QED
    BY <2>1, WholeCells DEF Whole
<1>6. s.at # 0 => s.in \in Cell \ N /\ k[s.in] = d[s.in] /\ s.at \in DOMAIN k[s.in].kids
  <2> SUFFICES ASSUME s.at # 0 PROVE s.in \in Cell \ N /\ k[s.in] = d[s.in] /\ s.at \in DOMAIN k[s.in].kids
    OBVIOUS
  <2>1. s.in \in Cell /\ s.at \in DOMAIN d[s.in].kids
    BY <1>2 DEF SlotsIn
  <2>2. d[s.in].live
    BY <1>2, <2>1 DEF Typed
  <2> QED
    BY <2>1, <2>2
<1>7. Typed(k, r, L) /\ s \in SlotsIn(k, r)
  <2>1. \A c \in Cell : ~k[c].live => k[c].kids = <<>> /\ c \notin L
    BY <1>2, <1>5 DEF Typed, Whole
  <2>2. Typed(k, r, L)
    BY <1>2, <2>1 DEF Typed
  <2>3. s \in SlotsIn(k, r)
    BY <1>2, <1>6 DEF SlotsIn
  <2> QED
    BY <2>2, <2>3
<1>70. \A c \in Cell \ N : k[c] = d[c]
  OBVIOUS
<1> HIDE DEF d
<1>8. /\ k0 \in [Cell -> CellType]
      /\ \A c \in Cell : s.at = 0 \/ c # s.in => k0[c] = k[c]
      /\ \A c \in Cell : k0[c].live = k[c].live
  <2>1. /\ Typed(k0, RootWith(r, s, Null), L)
        /\ \A c \in Cell : s.at = 0 \/ c # s.in => k0[c] = k[c]
        /\ \A c \in Cell : k0[c].live = k[c].live
    BY <1>1, <1>7, PutSlots
  <2> QED
    BY <2>1 DEF Typed
<1>9. ASSUME NEW c \in Cell \ N PROVE k0[c] = g0[c]
  <2>1. CASE s.at = 0 \/ c # s.in
    BY <1>3, <1>70, <1>8, <2>1
  <2>2. CASE s.at # 0 /\ c = s.in
    <3>1. k \in [Cell -> CellType] /\ d \in [Cell -> CellType] /\ k[c] = d[c]
      BY <1>2, <1>6, <2>2 DEF Typed
    <3> QED
      BY <2>2, <3>1 DEF HeapWith
  <2> QED
    BY <2>1, <2>2
<1> HIDE DEF g0, q0, k0
<1>10. Whole(k0, N, x, v)
  <2>1. \A c \in N : k0[c] = k[c]
    BY <1>5, <1>6, <1>8
  <2>2. Only(k0, N) = Only(k, N)
    BY <2>1 DEF Only
  <2> QED
    BY <1>5, <2>1, <2>2 DEF Whole
<1> DEFINE q1 == With(q0, x, v)
<1>11. \A c \in N : ~g0[c].live
  BY <1>3, <1>5 DEF d, old
<1>12. /\ Owned(k0, q1, L) /\ SlotsIn(g0, q0) \subseteq SlotsIn(k0, q1)
       /\ RootSlot(x) \in SlotsIn(k0, q1) /\ ObjectAt(k0, q1, RootSlot(x)) = v
       /\ \A t \in SlotsIn(g0, q0) : ObjectAt(k0, q1, t) = ObjectAt(g0, q0, t)
  BY <1>2, <1>4, <1>8, <1>9, <1>10, <1>11, United
<1>13. s \in SlotsIn(k0, q1) /\ ~OnHeap(ObjectAt(k0, q1, s)) /\ s # RootSlot(x)
  <2>1. s \in SlotsIn(g0, q0)
    BY <1>2, <1>3
  <2>2. s # RootSlot(x)
    BY <1>4 DEF SlotsIn, RootSlot
  <2> QED
    BY <1>1, <1>2, <1>12, <2>1, <2>2
<1>14. s.at = 0 \/ s.in \notin CellsOf(k0, v)
  <2>1. CellsOf(k0, v) \subseteq N
    BY <1>8, <1>10, WholeCells
  <2> QED
    BY <1>6, <2>1
<1> DEFINE g1 == HeapWith(HeapWith(k0, s, v), RootSlot(x), Null)
           q2 == RootWith(RootWith(q1, s, v), RootSlot(x), Null)
<1> HIDE DEF q1
<1>15. /\ Owned(g1, q2, L) /\ DOMAIN q2 = DOMAIN q1 /\ SlotsIn(g1, q2) = SlotsIn(k0, q1)
       /\ ObjectAt(g1, q2, s) = v /\ ObjectAt(g1, q2, RootSlot(x)) = Null
       /\ \A u \in SlotsIn(k0, q1) : u \notin {s, RootSlot(x)} => ObjectAt(g1, q2, u) = ObjectAt(k0, q1, u)
  <2> DEFINE t == RootSlot(x)
  <2>1. t \in SlotsIn(k0, q1) /\ ObjectAt(k0, q1, t) = v
    BY <1>12
  <2> HIDE DEF t
  <2>2. s.at = 0 \/ s.in \notin CellsOf(k0, ObjectAt(k0, q1, t))
    BY <1>14, <2>1
  <2>3. s # t
    BY <1>13 DEF t
  <2> DEFINE e == HeapWith(HeapWith(k0, s, v), t, Null)
             f == RootWith(RootWith(q1, s, v), t, Null)
  <2>4. /\ Owned(e, f, L) /\ DOMAIN f = DOMAIN q1 /\ SlotsIn(e, f) = SlotsIn(k0, q1)
        /\ ObjectAt(e, f, s) = v /\ ObjectAt(e, f, t) = Null
        /\ \A u \in SlotsIn(k0, q1) : u \notin {s, t} => ObjectAt(e, f, u) = ObjectAt(k0, q1, u)
    BY <1>1, <1>12, <1>13, <2>1, <2>2, <2>3, Moved
  <2> QED
    BY <2>4 DEF t
<1>16. g1 = g
  <2>1. HeapWith(k0, s, v) = g
    BY <1>1, <1>5, <1>7, PutTwice DEF k0
  <2> QED
    BY <2>1 DEF HeapWith, RootSlot
<1>17. DOMAIN q1 = DOMAIN r \cup {x} /\ q2[x] = Null
  <2>1. DOMAIN q1 = DOMAIN r \cup {x}
    BY <1>2 DEF q1, With
  <2> QED
    BY <1>15, <2>1 DEF ObjectAt, RootSlot
<1>18. Without(q2, x) = q
  <2>1. DOMAIN q0 = DOMAIN r /\ q0 = RootWith(r, s, Null)
    BY <1>2 DEF q0
  <2>2. q1 = [y \in DOMAIN r \cup {x} |-> IF y = x THEN v ELSE q0[y]]
    BY <2>1 DEF q1, With
  <2>3. CASE s.at = 0
    <3>1. s.in \in DOMAIN r
      BY <2>3 DEF SlotsIn
    <3>2. q0 = [r EXCEPT ![s.in] = Null] /\ q = [r EXCEPT ![s.in] = v]
      BY <2>1, <2>3 DEF RootWith
    <3>3. q2 = [[q1 EXCEPT ![s.in] = v] EXCEPT ![x] = Null]
      BY <2>3 DEF RootWith, RootSlot
    <3>4. r \in [DOMAIN r -> Objects]
      BY <1>2 DEF Typed
    <3>5. q \in [DOMAIN r -> Objects]
      BY <1>5, <3>2, <3>4
    <3>6. \A y \in DOMAIN r : q2[y] = q[y]
      BY <1>4, <2>2, <3>1, <3>2, <3>3, <3>4
    <3>7. Without(q2, x) = [y \in DOMAIN r |-> q2[y]]
      BY <1>4, <1>15, <1>17 DEF Without
    <3> QED
      BY <3>5, <3>6, <3>7
  <2>4. CASE s.at # 0
    <3>1. q0 = r /\ q = r /\ q2 = [q1 EXCEPT ![x] = Null]
      BY <2>1, <2>4 DEF RootWith, RootSlot
    <3>2. r \in [DOMAIN r -> Objects]
      BY <1>2 DEF Typed
    <3>3. Without(q2, x) = [y \in DOMAIN r |-> q2[y]]
      BY <1>4, <1>15, <1>17 DEF Without
    <3>4. \A y \in DOMAIN r : q2[y] = r[y]
      BY <1>4, <2>2, <3>1
    <3> QED
      BY <3>1, <3>2, <3>3, <3>4
  <2> QED
    BY <2>3, <2>4
<1>19. x \in DOMAIN q2 /\ ~OnHeap(q2[x])
  BY <1>1, <1>15, <1>17
<1> HIDE DEF g1, q2, g, q
<1>20. /\ Owned(g, q, L) /\ SlotsIn(g, q) = SlotsIn(k0, q1) \ {RootSlot(x)}
       /\ \A t \in SlotsIn(g, q) : ObjectAt(g, q, t) = ObjectAt(g1, q2, t)
  <2>1. /\ Owned(g1, Without(q2, x), L) /\ SlotsIn(g1, Without(q2, x)) = SlotsIn(g1, q2) \ {RootSlot(x)}
        /\ \A t \in SlotsIn(g1, Without(q2, x)) : ObjectAt(g1, Without(q2, x), t) = ObjectAt(g1, q2, t)
    BY <1>15, <1>19, Done
  <2> QED
    BY <1>15, <1>16, <1>18, <2>1
<1>21. s \in SlotsIn(g, q) /\ ObjectAt(g, q, s) = v
  BY <1>13, <1>15, <1>20
<1>22. ASSUME NEW t \in SlotsIn(h, r), t # s, t.at = 0 \/ t.in \notin CellsOf(h, old)
       PROVE  t \in SlotsIn(g, q) /\ ObjectAt(g, q, t) = ObjectAt(h, r, t)
  <2>1. t \in SlotsIn(g0, q0) /\ ObjectAt(g0, q0, t) = ObjectAt(h, r, t)
    BY <1>2, <1>22
  <2>2. t # RootSlot(x)
    BY <1>4 DEF SlotsIn, RootSlot
  <2> QED
    BY <1>12, <1>15, <1>20, <1>22, <2>1, <2>2
<1>23. DOMAIN q = DOMAIN r
  <2>1. r \in [DOMAIN r -> Objects]
    BY <1>2 DEF Typed
  <2> QED
    BY <2>1 DEF q, RootWith
<1> QED
  BY <1>7, <1>20, <1>21, <1>22, <1>23 DEF g, q, old

\* The cells of an object of the heap, and the object, are a whole.
LEMMA WholeOf ==
    ASSUME NEW h, NEW r, NEW L, Owned(h, r, L), NEW s \in SlotsIn(h, r), NEW x
    PROVE  Whole(h, CellsOf(h, ObjectAt(h, r, s)), x, ObjectAt(h, r, s))
<1> DEFINE v == ObjectAt(h, r, s)
           C == CellsOf(h, v)
           o == Only(h, C)
           p == Alone(x, v)
<1>1. Typed(h, r, L) /\ Points(h, r, L) /\ Unique(h, r) /\ Ranked(h) /\ PairsWhole(h, r)
  BY DEF Owned
<1>2. v \in Objects /\ (OnHeap(v) => v.word \in Cell)
  BY <1>1, ObjectTyped
<1>3. h \in [Cell -> CellType]
  BY <1>1 DEF Typed
<1>4. C \subseteq Cell /\ (OnHeap(v) => v.word \in C) /\ Closed(h, C)
  <2> HIDE DEF v
  <2> QED
    BY <1>2, <1>3, LeastClosed, CellsClosed DEF CellsOf
<1>5. s.at = 0 \/ s.in \notin C
  <2>1. CASE OnHeap(v)
    BY <1>1, <2>1, NotWithin
  <2>2. CASE ~OnHeap(v)
    BY <2>2 DEF CellsOf
  <2> QED
    BY <2>1, <2>2
\* Each cell is that of the object itself or of a member.
<1>6. ASSUME NEW c \in C
      PROVE  \/ OnHeap(v) /\ c = v.word
             \/ \E e \in C : \E i \in DOMAIN h[e].kids : OnHeap(h[e].kids[i][2]) /\ h[e].kids[i][2].word = c
  <2>1. OnHeap(v)
    BY DEF CellsOf
  <2> HIDE DEF v
  <2> QED
    BY <1>2, <1>3, <2>1, ParentWithin
<1>7. \A c \in Cell : o[c] = IF c \in C THEN h[c] ELSE Freed
  BY DEF Only
<1>8. DOMAIN p = {x} /\ p[x] = v
  BY DEF Alone
<1> HIDE DEF v, C
<1>9. ASSUME NEW e \in C, NEW i \in DOMAIN h[e].kids
      PROVE  LET t == [in |-> e, at |-> i]
             IN  /\ t \in SlotsIn(h, r) /\ ObjectAt(h, r, t) = h[e].kids[i][2]
                 /\ t \in SlotsIn(o, p) /\ ObjectAt(o, p, t) = h[e].kids[i][2] /\ t.at # 0
                 /\ t # s /\ t # RootSlot(x)
  <2>1. e \in Cell /\ o[e] = h[e]
    BY <1>4, <1>7
  <2>2. i \in Nat \ {0}
    BY <1>1, <2>1, MemberSlot
  <2> HIDE DEF o, p
  <2> QED
    BY <1>1, <1>5, <2>1, <2>2, MemberSlot DEF SlotsIn, ObjectAt, RootSlot
<1>10. Typed(o, p, {})
  <2>1. Freed \in CellType
    BY DEF Freed, CellType, Kids
  <2>2. o \in [Cell -> CellType]
    BY <1>3, <2>1 DEF Only
  <2>3. p \in [DOMAIN p -> Objects]
    BY <1>2, <1>8 DEF Alone
  <2>4. \A c \in Cell : ~o[c].live => o[c].kids = <<>>
    BY <1>1, <1>7 DEF Typed, Freed
  <2> QED
    BY <2>2, <2>3, <2>4 DEF Typed
<1> HIDE DEF o, p
<1>11. RootSlot(x) \in SlotsIn(o, p) /\ ObjectAt(o, p, RootSlot(x)) = v
  BY <1>8 DEF RootSlot, SlotsIn, ObjectAt
<1> DEFINE to(t) == IF t = RootSlot(x) THEN s ELSE t
<1>12. ASSUME NEW t \in SlotsIn(o, p)
       PROVE  /\ to(t) \in SlotsIn(h, r) /\ ObjectAt(h, r, to(t)) = ObjectAt(o, p, t)
              /\ t # RootSlot(x) => t # s /\ t.at # 0 /\ t.in \in C
  <2>1. CASE t = RootSlot(x)
    BY <1>11, <2>1 DEF v
  <2>2. CASE t # RootSlot(x)
    <3>1. t \in [in : Cell, at : Nat \ {0}] /\ t.at \in DOMAIN o[t.in].kids
      BY <1>8, <2>2 DEF SlotsIn, RootSlot
    <3>2. t.in \in C /\ o[t.in] = h[t.in]
      BY <1>7, <3>1 DEF Freed
    <3>3. t = [in |-> t.in, at |-> t.at]
      BY <3>1
    <3> QED
      BY <1>9, <2>2, <3>1, <3>2, <3>3
  <2> QED
    BY <2>1, <2>2
<1>13. ASSUME NEW t \in SlotsIn(o, p), OnHeap(ObjectAt(o, p, t)) PROVE ObjectAt(o, p, t).word \in C
  <2>1. CASE t = RootSlot(x)
    BY <1>4, <1>11, <1>13, <2>1
  <2>2. CASE t # RootSlot(x)
    <3>1. t.in \in C /\ t.at \in DOMAIN h[t.in].kids /\ ObjectAt(o, p, t) = h[t.in].kids[t.at][2]
      BY <1>12, <2>2 DEF SlotsIn, ObjectAt
    <3> QED
      BY <1>4, <1>13, <3>1 DEF Closed
  <2> QED
    BY <2>1, <2>2
<1>14. ASSUME NEW c \in C PROVE h[c].live
  <2>1. CASE OnHeap(v) /\ c = v.word
    BY <1>1, <2>1 DEF Points, v
  <2>2. CASE \E e \in C : \E i \in DOMAIN h[e].kids : OnHeap(h[e].kids[i][2]) /\ h[e].kids[i][2].word = c
    <3>1. PICK e \in C : \E i \in DOMAIN h[e].kids : OnHeap(h[e].kids[i][2]) /\ h[e].kids[i][2].word = c
      BY <2>2
    <3>2. PICK i \in DOMAIN h[e].kids : OnHeap(h[e].kids[i][2]) /\ h[e].kids[i][2].word = c
      BY <3>1
    <3> DEFINE t == [in |-> e, at |-> i]
    <3>3. t \in SlotsIn(h, r) /\ ObjectAt(h, r, t) = h[e].kids[i][2]
      BY <1>9
    <3> HIDE DEF t
    <3> QED
      BY <1>1, <3>2, <3>3 DEF Points
  <2> QED
    BY <1>6, <2>1, <2>2
<1>15. Points(o, p, {})
  BY <1>4, <1>7, <1>13, <1>14 DEF Points
<1>16. Unique(o, p)
  <2> SUFFICES ASSUME NEW t \in SlotsIn(o, p), NEW u \in SlotsIn(o, p),
                      OnHeap(ObjectAt(o, p, t)), OnHeap(ObjectAt(o, p, u)),
                      ObjectAt(o, p, t).word = ObjectAt(o, p, u).word
               PROVE  t = u
    BY DEF Unique
  <2>1. to(t) = to(u)
    BY <1>1, <1>12 DEF Unique
  <2> QED
    BY <1>12, <2>1
<1>17. Kept(o, p, {})
  <2> SUFFICES ASSUME NEW c \in Cell, o[c].live
               PROVE  \E t \in SlotsIn(o, p) : OnHeap(ObjectAt(o, p, t)) /\ ObjectAt(o, p, t).word = c
    BY DEF Kept
  <2>1. c \in C
    BY <1>7 DEF Freed
  <2>2. CASE OnHeap(v) /\ c = v.word
    BY <1>11, <2>2
  <2>3. CASE \E e \in C : \E i \in DOMAIN h[e].kids : OnHeap(h[e].kids[i][2]) /\ h[e].kids[i][2].word = c
    <3>1. PICK e \in C : \E i \in DOMAIN h[e].kids : OnHeap(h[e].kids[i][2]) /\ h[e].kids[i][2].word = c
      BY <2>3
    <3>2. PICK i \in DOMAIN h[e].kids : OnHeap(h[e].kids[i][2]) /\ h[e].kids[i][2].word = c
      BY <3>1
    <3> DEFINE t == [in |-> e, at |-> i]
    <3>3. t \in SlotsIn(o, p) /\ ObjectAt(o, p, t) = h[e].kids[i][2]
      BY <1>9
    <3> HIDE DEF t
    <3> QED
      BY <3>2, <3>3
  <2> QED
    BY <1>6, <2>1, <2>2, <2>3
<1>18. Ranked(o)
  <2>1. PICK rank \in [Cell -> Nat] : RankOK(rank, h)
    BY <1>1 DEF Ranked
  <2>2. RankOK(rank, o)
    BY <1>7, <2>1 DEF RankOK, Freed
  <2> QED
    BY <2>2 DEF Ranked
<1>19. PairsWhole(o, p)
  <2> SUFFICES ASSUME NEW t \in SlotsIn(o, p), ObjectAt(o, p, t).type = "Pair"
               PROVE  Len(o[ObjectAt(o, p, t).word].kids) = 1
    BY DEF PairsWhole
  <2>1. OnHeap(ObjectAt(o, p, t))
    BY DEF OnHeap
  <2>2. ObjectAt(o, p, t).word \in C
    BY <1>13, <2>1
  <2>3. o[ObjectAt(o, p, t).word] = h[ObjectAt(o, p, t).word]
    BY <1>4, <1>7, <2>2
  <2> QED
    BY <1>1, <1>12, <2>3 DEF PairsWhole
<1>20. Owned(o, p, {})
  BY <1>10, <1>15, <1>16, <1>17, <1>18, <1>19 DEF Owned
<1> QED
  BY <1>4, <1>14, <1>20 DEF Whole, o, p, C, v

\* The cells of an object depend on nothing but them.
LEMMA CellsAgree ==
    ASSUME NEW h \in [Cell -> CellType], NEW g \in [Cell -> CellType], NEW v, OnHeap(v) => v.word \in Cell,
           \A c \in CellsOf(h, v) : g[c] = h[c]
    PROVE  CellsOf(g, v) = CellsOf(h, v)
<1>1. CASE ~OnHeap(v)
  BY <1>1 DEF CellsOf
<1>2. CASE OnHeap(v)
  <2>1. /\ CellsOf(h, v) \subseteq Cell /\ v.word \in CellsOf(h, v) /\ Closed(h, CellsOf(h, v))
        /\ CellsOf(g, v) \subseteq Cell /\ v.word \in CellsOf(g, v) /\ Closed(g, CellsOf(g, v))
    BY <1>2, LeastClosed, CellsClosed
  <2>2. Closed(g, CellsOf(h, v))
    BY <2>1 DEF Closed
  <2>3. CellsOf(g, v) \subseteq CellsOf(h, v)
    BY <1>2, <2>1, <2>2, LeastClosed
  <2>4. Closed(h, CellsOf(g, v))
    BY <2>1, <2>3 DEF Closed
  <2>5. CellsOf(h, v) \subseteq CellsOf(g, v)
    BY <1>2, <2>1, <2>4, LeastClosed
  <2> QED
    BY <2>3, <2>5
<1> QED
  BY <1>1, <1>2

\* A whole is one in every heap with its cells.
LEMMA WholeAgrees ==
    ASSUME NEW h, NEW g, NEW N, NEW x, NEW v, Whole(h, N, x, v), \A c \in N : g[c] = h[c]
    PROVE  Whole(g, N, x, v)
<1>1. Only(g, N) = Only(h, N)
  BY DEF Only
<1> QED
  BY <1>1 DEF Whole

\* Where Clone puts the copies of cells.
CopyMap(h, v) == CHOOSE f \in Injection(CellsOf(h, v), FreeCells(h)) : TRUE
CopyCells(h, v) == Range(CopyMap(h, v))
Fits(h, v) == Injection(CellsOf(h, v), FreeCells(h)) # {}

LEMMA CopyMapFits ==
    ASSUME NEW h, NEW v, Fits(h, v)
    PROVE  LET to == CopyMap(h, v) C == CellsOf(h, v)
           IN  /\ to \in [C -> FreeCells(h)] /\ DOMAIN to = C
               /\ \A c, d \in C : to[c] = to[d] => c = d
               /\ CopyCells(h, v) \subseteq FreeCells(h)
               /\ \A c \in C : to[c] \in CopyCells(h, v)
               /\ \A e \in CopyCells(h, v) : \E c \in C : to[c] = e
<1> DEFINE to == CopyMap(h, v)
           C == CellsOf(h, v)
<1>1. to \in Injection(C, FreeCells(h))
  BY DEF Fits, CopyMap
<1>2. to \in [C -> FreeCells(h)] /\ \A c, d \in C : to[c] = to[d] => c = d
  BY <1>1 DEF Injection, IsInjective
<1> HIDE DEF to, C
<1>3. CopyCells(h, v) = {to[c] : c \in C}
  BY <1>2 DEF CopyCells, Range, to
<1> QED
  BY <1>2, <1>3 DEF to, C

\* The heap of a copy, cell by cell.
LEMMA CloneCells ==
    ASSUME NEW h \in [Cell -> CellType], NEW v, v \in Objects, Closed(h, CellsOf(h, v)),
           OnHeap(v) => v.word \in CellsOf(h, v), Fits(h, v)
    PROVE  LET to == CopyMap(h, v)
               C == CellsOf(h, v)
               g == Clone(h, v).heap
               j == Clone(h, v).json
           IN  /\ g \in [Cell -> CellType] /\ j \in Objects /\ j = CopyOf(to, v)
               /\ \A c \in Cell \ CopyCells(h, v) : g[c] = h[c]
               /\ \A c \in C : /\ g[to[c]].live = h[c].live /\ DOMAIN g[to[c]].kids = DOMAIN h[c].kids
                               /\ Len(g[to[c]].kids) = Len(h[c].kids)
                               /\ \A i \in DOMAIN h[c].kids : g[to[c]].kids[i][2] = CopyOf(to, h[c].kids[i][2])
<1> DEFINE to == CopyMap(h, v)
           C == CellsOf(h, v)
           N == CopyCells(h, v)
           g == Clone(h, v).heap
           j == Clone(h, v).json
           from == [c \in Range(to) |-> CHOOSE d \in DOMAIN to : to[d] = c]
           copied(cell) == [cell EXCEPT !.kids = [i \in DOMAIN cell.kids |->
                                                    <<cell.kids[i][1], CopyOf(to, cell.kids[i][2])>>]]
<1>1. g = [c \in Cell |-> IF c \in N THEN copied(h[from[c]]) ELSE h[c]] /\ j = CopyOf(to, v)
  BY DEF Clone, CopyMap, CopyCells
<1>2. /\ to \in [C -> FreeCells(h)] /\ DOMAIN to = C /\ \A c, d \in C : to[c] = to[d] => c = d
      /\ N \subseteq FreeCells(h) /\ (\A c \in C : to[c] \in N) /\ (\A e \in N : \E c \in C : to[c] = e)
  BY CopyMapFits
<1>3. C \subseteq Cell /\ FreeCells(h) \subseteq Cell
  BY DEF CellsOf, FreeCells
<1>4. \A e \in N : from[e] \in C /\ to[from[e]] = e
  BY <1>2 DEF CopyCells
<1>5. \A c \in C : from[to[c]] = c
  BY <1>2, <1>4
<1> HIDE DEF from, N, C, to
<1>6. ASSUME NEW w \in Objects, OnHeap(w) => w.word \in C
      PROVE  CopyOf(to, w) \in Objects
  <2>1. CASE OnHeap(w)
    <3>1. w \in [type : HeapTypes, word : Cell]
      BY <2>1, ObjectKinds
    <3>2. to[w.word] \in Cell
      BY <1>2, <1>3, <1>6, <2>1
    <3> QED
      BY <2>1, <3>1, <3>2 DEF CopyOf, Json, Objects
  <2>2. CASE ~OnHeap(w)
    BY <2>2 DEF CopyOf
  <2> QED
    BY <2>1, <2>2
<1>7. ASSUME NEW c \in C
      PROVE  /\ copied(h[c]) \in CellType
             /\ copied(h[c]).live = h[c].live /\ DOMAIN copied(h[c]).kids = DOMAIN h[c].kids
             /\ Len(copied(h[c]).kids) = Len(h[c].kids)
             /\ \A i \in DOMAIN h[c].kids : copied(h[c]).kids[i][2] = CopyOf(to, h[c].kids[i][2])
  <2> DEFINE kids == h[c].kids
             new == [i \in DOMAIN kids |-> <<kids[i][1], CopyOf(to, kids[i][2])>>]
  <2>1. h[c] \in CellType /\ kids \in Seq(Labels \X Objects)
    BY <1>3 DEF CellType, Kids
  <2>2. ASSUME NEW i \in DOMAIN kids PROVE kids[i][1] \in Labels /\ CopyOf(to, kids[i][2]) \in Objects
    <3>1. kids[i] \in Labels \X Objects
      BY <2>1
    <3>2. OnHeap(kids[i][2]) => kids[i][2].word \in C
      BY DEF Closed, C
    <3>3. kids[i][1] \in Labels /\ kids[i][2] \in Objects
      BY <3>1
    <3> HIDE DEF kids
    <3> QED
      BY <1>6, <3>2, <3>3
  <2>3. new \in Kids /\ DOMAIN new = DOMAIN kids /\ Len(new) = Len(kids)
          /\ \A i \in DOMAIN kids : new[i][2] = CopyOf(to, kids[i][2])
    <3>1. DOMAIN kids = 1 .. Len(kids) /\ Len(kids) \in Nat
      BY <2>1
    <3>2. \A i \in 1 .. Len(kids) : new[i] \in Labels \X Objects
      BY <2>2, <3>1
    <3> QED
      BY <2>2, <3>1, <3>2 DEF Kids
  <2>4. copied(h[c]) = [h[c] EXCEPT !.kids = new]
    OBVIOUS
  <2> HIDE DEF new, copied
  <2> QED
    BY <2>1, <2>3, <2>4 DEF CellType
<1> HIDE DEF copied
<1>8. ASSUME NEW c \in Cell PROVE g[c] = IF c \in N THEN copied(h[from[c]]) ELSE h[c]
  BY <1>1
<1>9. \A c \in C : g[to[c]] = copied(h[c])
  BY <1>2, <1>3, <1>5, <1>8
<1>10. g \in [Cell -> CellType]
  BY <1>1, <1>4, <1>7
<1>11. j \in Objects
  BY <1>1, <1>6 DEF C
<1> HIDE DEF g, j
<1>12. \A c \in C : /\ g[to[c]].live = h[c].live /\ DOMAIN g[to[c]].kids = DOMAIN h[c].kids
                    /\ Len(g[to[c]].kids) = Len(h[c].kids)
                    /\ \A i \in DOMAIN h[c].kids : g[to[c]].kids[i][2] = CopyOf(to, h[c].kids[i][2])
  BY <1>7, <1>9
<1>13. \A c \in Cell \ N : g[c] = h[c]
  BY <1>8
<1>14. j = CopyOf(to, v)
  BY <1>1
<1> QED
  BY <1>10, <1>11, <1>12, <1>13, <1>14 DEF g, j, N, C, to

\* The copy of a whole is a whole, in cells that were free.
LEMMA Cloned ==
    ASSUME NEW h \in [Cell -> CellType], NEW v, NEW x, Whole(h, CellsOf(h, v), x, v), Fits(h, v)
    PROVE  LET N == CopyCells(h, v)
               g == Clone(h, v).heap
               j == Clone(h, v).json
           IN  /\ g \in [Cell -> CellType] /\ j \in Objects /\ Whole(g, N, x, j)
               /\ (\A c \in N : ~h[c].live) /\ (\A c \in Cell \ N : g[c] = h[c])
<1> DEFINE to == CopyMap(h, v)
           C == CellsOf(h, v)
           N == CopyCells(h, v)
           g == Clone(h, v).heap
           j == Clone(h, v).json
           o == Only(h, C)
           p == Alone(x, v)
           e == Only(g, N)
           f == Alone(x, j)
<1>1. /\ Typed(o, p, {}) /\ Points(o, p, {}) /\ Unique(o, p) /\ Kept(o, p, {}) /\ Ranked(o) /\ PairsWhole(o, p)
      /\ (\A c \in C : h[c].live) /\ C \subseteq Cell
  BY DEF Whole, Owned
<1>2. v \in Objects /\ Closed(h, C) /\ (OnHeap(v) => v.word \in C)
  <2>1. v \in Objects
    BY WholeCells
  <2> QED
    BY <2>1, ObjectKinds, LeastClosed, CellsClosed
<1>3. /\ to \in [C -> FreeCells(h)] /\ DOMAIN to = C /\ (\A c, d \in C : to[c] = to[d] => c = d)
      /\ N \subseteq FreeCells(h) /\ (\A c \in C : to[c] \in N) /\ (\A c \in N : \E d \in C : to[d] = c)
  BY CopyMapFits
<1>4. /\ g \in [Cell -> CellType] /\ j \in Objects /\ j = CopyOf(to, v)
      /\ \A c \in Cell \ N : g[c] = h[c]
      /\ \A c \in C : /\ g[to[c]].live = h[c].live /\ DOMAIN g[to[c]].kids = DOMAIN h[c].kids
                      /\ Len(g[to[c]].kids) = Len(h[c].kids)
                      /\ \A i \in DOMAIN h[c].kids : g[to[c]].kids[i][2] = CopyOf(to, h[c].kids[i][2])
  <2>1. /\ Clone(h, v).heap \in [Cell -> CellType] /\ Clone(h, v).json \in Objects
        /\ Clone(h, v).json = CopyOf(CopyMap(h, v), v)
        /\ (\A c \in Cell \ CopyCells(h, v) : Clone(h, v).heap[c] = h[c])
    BY <1>2, CloneCells
  <2>2. \A c \in C : /\ g[to[c]].live = h[c].live /\ DOMAIN g[to[c]].kids = DOMAIN h[c].kids
                     /\ Len(g[to[c]].kids) = Len(h[c].kids)
                     /\ \A i \in DOMAIN h[c].kids : g[to[c]].kids[i][2] = CopyOf(to, h[c].kids[i][2])
    BY <1>2, CloneCells
  <2> QED
    BY <2>1, <2>2
<1>5. /\ \A c \in Cell : o[c] = IF c \in C THEN h[c] ELSE Freed
      /\ \A c \in Cell : e[c] = IF c \in N THEN g[c] ELSE Freed
      /\ DOMAIN p = {x} /\ p[x] = v /\ DOMAIN f = {x} /\ f[x] = j
  BY DEF Only, Alone
<1>6. N \subseteq Cell /\ \A c \in N : ~h[c].live
  BY <1>3 DEF FreeCells
<1>7. \A c \in N : g[c].live
  BY <1>1, <1>3, <1>4
<1>8. Typed(e, f, {})
  <2>1. Freed \in CellType
    BY DEF Freed, CellType, Kids
  <2>2. e \in [Cell -> CellType]
    BY <1>4, <2>1 DEF Only
  <2>3. f \in [DOMAIN f -> Objects]
    BY <1>4, <1>5 DEF Alone
  <2>4. \A c \in Cell : ~e[c].live => e[c].kids = <<>>
    BY <1>5, <1>7 DEF Freed
  <2> QED
    BY <2>2, <2>3, <2>4 DEF Typed
<1> HIDE DEF to, C, N, g, j, o, p, e, f
\* Each slot of the copy is that of a slot of the original.
<1> DEFINE back(t, u) == t.at = u.at /\ IF t.at = 0 THEN t.in = u.in ELSE u.in \in C /\ t.in = to[u.in]
<1>9. ASSUME NEW t \in SlotsIn(e, f)
      PROVE  \E u \in SlotsIn(o, p) : back(t, u) /\ ObjectAt(e, f, t) = CopyOf(to, ObjectAt(o, p, u))
  <2>1. CASE t.at = 0
    <3>1. t \in SlotsIn(o, p)
      BY <1>5, <2>1 DEF SlotsIn
    <3>2. t.in = x
      BY <1>5, <2>1 DEF SlotsIn
    <3> QED
      BY <1>4, <1>5, <2>1, <3>1, <3>2 DEF ObjectAt
  <2>2. CASE t.at # 0
    <3>1. t \in [in : Cell, at : Nat \ {0}] /\ t.at \in DOMAIN e[t.in].kids
      BY <2>2 DEF SlotsIn
    <3>2. t.in \in N /\ e[t.in] = g[t.in]
      BY <1>5, <3>1 DEF Freed
    <3>3. PICK d \in C : to[d] = t.in
      BY <1>3, <3>2
    <3> DEFINE u == [in |-> d, at |-> t.at]
    <3>4. d \in Cell /\ o[d] = h[d] /\ t.at \in DOMAIN h[d].kids
      BY <1>1, <1>4, <1>5, <3>1, <3>2, <3>3
    <3>5. u \in SlotsIn(o, p) /\ back(t, u)
      BY <2>2, <3>1, <3>3, <3>4 DEF SlotsIn
    <3>6. ObjectAt(o, p, u) = h[d].kids[t.at][2]
      BY <2>2, <3>4 DEF ObjectAt
    <3>7. ObjectAt(e, f, t) = g[to[d]].kids[t.at][2]
      BY <2>2, <3>2, <3>3 DEF ObjectAt
    <3> QED
      BY <1>4, <3>4, <3>5, <3>6, <3>7
  <2> QED
    BY <2>1, <2>2
<1>10. ASSUME NEW u \in SlotsIn(o, p)
       PROVE  \E t \in SlotsIn(e, f) : back(t, u) /\ ObjectAt(e, f, t) = CopyOf(to, ObjectAt(o, p, u))
  <2>1. CASE u.at = 0
    <3>1. u \in SlotsIn(e, f)
      BY <1>5, <2>1 DEF SlotsIn
    <3>2. u.in = x
      BY <1>5, <2>1 DEF SlotsIn
    <3> QED
      BY <1>4, <1>5, <2>1, <3>1, <3>2 DEF ObjectAt
  <2>2. CASE u.at # 0
    <3>1. u \in [in : Cell, at : Nat \ {0}] /\ u.at \in DOMAIN o[u.in].kids
      BY <2>2 DEF SlotsIn
    <3>2. u.in \in C /\ o[u.in] = h[u.in] /\ u.at \in DOMAIN h[u.in].kids
      BY <1>5, <3>1 DEF Freed
    <3> DEFINE c == to[u.in]
               t == [in |-> c, at |-> u.at]
    <3>3. c \in N /\ c \in Cell
      BY <1>3, <1>6, <3>2
    <3>4. e[c] = g[c] /\ DOMAIN g[c].kids = DOMAIN h[u.in].kids
      BY <1>4, <1>5, <3>2, <3>3
    <3>5. t \in SlotsIn(e, f) /\ back(t, u)
      BY <2>2, <3>1, <3>2, <3>3, <3>4 DEF SlotsIn
    <3>6. ObjectAt(o, p, u) = h[u.in].kids[u.at][2] /\ ObjectAt(e, f, t) = g[c].kids[u.at][2]
      BY <2>2, <3>2, <3>4 DEF ObjectAt
    <3> QED
      BY <1>4, <3>2, <3>5, <3>6
  <2> QED
    BY <2>1, <2>2
<1>11. ASSUME NEW u \in SlotsIn(o, p), OnHeap(ObjectAt(o, p, u)) PROVE ObjectAt(o, p, u).word \in C
  <2>1. o[ObjectAt(o, p, u).word].live /\ ObjectAt(o, p, u).word \in Cell
    BY <1>1, <1>11, ObjectTyped DEF Points
  <2> QED
    BY <1>5, <2>1 DEF Freed
\* The object there has the copy of the cell.
<1>12. ASSUME NEW t \in SlotsIn(e, f), OnHeap(ObjectAt(e, f, t))
       PROVE  \E u \in SlotsIn(o, p) :
                 /\ back(t, u) /\ OnHeap(ObjectAt(o, p, u)) /\ ObjectAt(o, p, u).word \in C
                 /\ ObjectAt(e, f, t).word = to[ObjectAt(o, p, u).word]
                 /\ ObjectAt(e, f, t).type = ObjectAt(o, p, u).type
  <2>1. PICK u \in SlotsIn(o, p) : back(t, u) /\ ObjectAt(e, f, t) = CopyOf(to, ObjectAt(o, p, u))
    BY <1>9
  <2>2. OnHeap(ObjectAt(o, p, u))
    BY <1>12, <2>1 DEF CopyOf
  <2>3. ObjectAt(o, p, u).word \in C
    BY <1>11, <2>2
  <2>4. /\ ObjectAt(e, f, t).word = to[ObjectAt(o, p, u).word]
        /\ ObjectAt(e, f, t).type = ObjectAt(o, p, u).type
    BY <2>1, <2>2 DEF CopyOf, Json
  <2> QED
    BY <2>1, <2>2, <2>3, <2>4
<1>13. Points(e, f, {})
  <2> SUFFICES ASSUME NEW t \in SlotsIn(e, f), OnHeap(ObjectAt(e, f, t))
               PROVE  e[ObjectAt(e, f, t).word].live
    BY DEF Points
  <2>1. ObjectAt(e, f, t).word \in N
    BY <1>3, <1>12
  <2> QED
    BY <1>5, <1>6, <1>7, <2>1
<1>14. Unique(e, f)
  <2> SUFFICES ASSUME NEW s \in SlotsIn(e, f), NEW t \in SlotsIn(e, f),
                      OnHeap(ObjectAt(e, f, s)), OnHeap(ObjectAt(e, f, t)),
                      ObjectAt(e, f, s).word = ObjectAt(e, f, t).word
               PROVE  s = t
    BY DEF Unique
  <2>1. PICK u \in SlotsIn(o, p) :
           /\ back(s, u) /\ OnHeap(ObjectAt(o, p, u)) /\ ObjectAt(o, p, u).word \in C
           /\ ObjectAt(e, f, s).word = to[ObjectAt(o, p, u).word]
           /\ ObjectAt(e, f, s).type = ObjectAt(o, p, u).type
    BY <1>12
  <2>2. PICK w \in SlotsIn(o, p) :
           /\ back(t, w) /\ OnHeap(ObjectAt(o, p, w)) /\ ObjectAt(o, p, w).word \in C
           /\ ObjectAt(e, f, t).word = to[ObjectAt(o, p, w).word]
           /\ ObjectAt(e, f, t).type = ObjectAt(o, p, w).type
    BY <1>12
  <2>3. ObjectAt(o, p, u).word = ObjectAt(o, p, w).word
    <3> DEFINE a == ObjectAt(o, p, u).word
               b == ObjectAt(o, p, w).word
    <3>1. a \in C /\ b \in C /\ to[a] = to[b]
      BY <2>1, <2>2
    <3>2. \A c, d \in C : to[c] = to[d] => c = d
      BY <1>3
    <3> HIDE DEF a, b, back
    <3>3. a = b
      BY <3>1, <3>2
    <3> QED
      BY <3>3 DEF a, b
  <2>4. u = w
    BY <1>1, <2>1, <2>2, <2>3 DEF Unique
  <2>5. s.at = t.at /\ s.in = t.in
    BY <2>1, <2>2, <2>4
  <2> QED
    BY <2>5, SlotEqual
<1>15. Kept(e, f, {})
  <2> SUFFICES ASSUME NEW c \in Cell, e[c].live
               PROVE  \E t \in SlotsIn(e, f) : OnHeap(ObjectAt(e, f, t)) /\ ObjectAt(e, f, t).word = c
    BY DEF Kept
  <2>1. c \in N
    BY <1>5 DEF Freed
  <2>2. PICK d \in C : to[d] = c
    BY <1>3, <2>1
  <2>3. o[d].live /\ d \in Cell
    BY <1>1, <1>5
  <2>4. PICK u \in SlotsIn(o, p) : OnHeap(ObjectAt(o, p, u)) /\ ObjectAt(o, p, u).word = d
    BY <1>1, <2>3 DEF Kept
  <2>5. PICK t \in SlotsIn(e, f) : back(t, u) /\ ObjectAt(e, f, t) = CopyOf(to, ObjectAt(o, p, u))
    BY <1>10
  <2>6. ObjectAt(e, f, t) = Json(ObjectAt(o, p, u).type, c)
    BY <2>2, <2>4, <2>5 DEF CopyOf
  <2>7. OnHeap(ObjectAt(e, f, t)) /\ ObjectAt(e, f, t).word = c
    BY <2>4, <2>6 DEF OnHeap, Json
  <2> QED
    BY <2>7
<1>16. Ranked(e)
  <2>1. PICK rank \in [Cell -> Nat] : RankOK(rank, o)
    BY <1>1 DEF Ranked
  <2> DEFINE from(c) == CHOOSE d \in C : to[d] = c
             new == [c \in Cell |-> IF c \in N THEN rank[from(c)] ELSE 0]
  <2>2. \A d \in C : from(to[d]) = d
    BY <1>3
  <2>3. \A d \in C : d \in Cell /\ to[d] \in Cell /\ new[to[d]] = rank[d]
    BY <1>1, <1>3, <1>6, <2>2
  <2>4. new \in [Cell -> Nat]
    <3>1. \A c \in N : from(c) \in Cell
      BY <1>1, <1>3
    <3> HIDE DEF from
    <3> QED
      BY <3>1
  <2> HIDE DEF from, new
  <2>5. RankOK(new, e)
    <3> SUFFICES ASSUME NEW c \in Cell, NEW i \in DOMAIN e[c].kids, OnHeap(e[c].kids[i][2])
                 PROVE  new[e[c].kids[i][2].word] > new[c]
      BY DEF RankOK
    <3> DEFINE t == [in |-> c, at |-> i]
    <3>1. t \in SlotsIn(e, f) /\ ObjectAt(e, f, t) = e[c].kids[i][2] /\ t.at # 0 /\ t.in = c
      BY <1>8, MemberSlot
    <3> HIDE DEF t
    <3>2. PICK u \in SlotsIn(o, p) : /\ back(t, u) /\ OnHeap(ObjectAt(o, p, u)) /\ ObjectAt(o, p, u).word \in C
                                     /\ ObjectAt(e, f, t).word = to[ObjectAt(o, p, u).word]
      BY <1>12, <3>1
    <3>3. u.in \in C /\ c = to[u.in] /\ u.at # 0
      BY <3>1, <3>2
    <3>4. u.in \in Cell /\ u.at \in DOMAIN o[u.in].kids /\ ObjectAt(o, p, u) = o[u.in].kids[u.at][2]
      BY <3>3 DEF SlotsIn, ObjectAt
    <3>5. rank[ObjectAt(o, p, u).word] > rank[u.in]
      BY <2>1, <3>2, <3>4 DEF RankOK
    <3> QED
      BY <2>3, <3>1, <3>2, <3>3, <3>5
  <2> QED
    BY <2>4, <2>5 DEF Ranked
<1>17. PairsWhole(e, f)
  <2> SUFFICES ASSUME NEW t \in SlotsIn(e, f), ObjectAt(e, f, t).type = "Pair"
               PROVE  Len(e[ObjectAt(e, f, t).word].kids) = 1
    BY DEF PairsWhole
  <2>1. OnHeap(ObjectAt(e, f, t))
    BY DEF OnHeap
  <2>2. PICK u \in SlotsIn(o, p) : /\ ObjectAt(o, p, u).word \in C
                                   /\ ObjectAt(e, f, t).word = to[ObjectAt(o, p, u).word]
                                   /\ ObjectAt(e, f, t).type = ObjectAt(o, p, u).type
    BY <1>12, <2>1
  <2> DEFINE d == ObjectAt(o, p, u).word
  <2>3. Len(o[d].kids) = 1 /\ o[d] = h[d]
    BY <1>1, <1>5, <2>2 DEF PairsWhole
  <2>4. e[to[d]] = g[to[d]] /\ Len(g[to[d]].kids) = Len(h[d].kids)
    BY <1>3, <1>4, <1>5, <1>6, <2>2
  <2> QED
    BY <2>2, <2>3, <2>4
<1>18. Owned(e, f, {})
  BY <1>8, <1>13, <1>14, <1>15, <1>16, <1>17 DEF Owned
<1>19. Whole(g, N, x, j)
  BY <1>6, <1>7, <1>18 DEF Whole, e, f
<1> QED
  BY <1>4, <1>6, <1>19 DEF g, N, j

-----------------------------------------------------------------------------
(* New cells *)

\* An object off the heap is a whole without cells.
LEMMA NoCell ==
    ASSUME NEW k, NEW x, NEW v \in Objects, ~OnHeap(v)
    PROVE  Whole(k, {}, x, v)
<1> DEFINE o == Only(k, {})
           p == Alone(x, v)
<1>1. \A c \in Cell : o[c] = Freed
  BY DEF Only
<1>2. DOMAIN p = {x} /\ p[x] = v
  BY DEF Alone
<1>3. Typed(o, p, {})
  BY <1>2 DEF Typed, Only, Alone, Freed, CellType, Kids
<1> HIDE DEF o, p
<1>4. \A c \in Cell : ~o[c].live /\ DOMAIN o[c].kids = {}
  BY <1>1 DEF Freed
<1>5. \A t \in SlotsIn(o, p) : ~OnHeap(ObjectAt(o, p, t))
  BY <1>2, <1>4 DEF SlotsIn, ObjectAt
<1>6. Points(o, p, {}) /\ Unique(o, p) /\ PairsWhole(o, p)
  BY <1>5 DEF Points, Unique, PairsWhole, OnHeap
<1>7. Kept(o, p, {})
  BY <1>4 DEF Kept
<1>8. Ranked(o)
  <2> DEFINE rank == [c \in Cell |-> 0]
  <2>1. rank \in [Cell -> Nat] /\ RankOK(rank, o)
    BY <1>4 DEF RankOK
  <2> QED
    BY <2>1 DEF Ranked
<1> QED
  BY <1>3, <1>6, <1>7, <1>8 DEF Owned, Whole, o, p

\* A cell whose members are off the heap is a whole with the object that has it.
LEMMA OneCell ==
    ASSUME NEW k \in [Cell -> CellType], NEW c \in Cell, k[c].live,
           \A i \in DOMAIN k[c].kids : ~OnHeap(k[c].kids[i][2]),
           NEW type \in HeapTypes, type = "Pair" => Len(k[c].kids) = 1, NEW x
    PROVE  Whole(k, {c}, x, Json(type, c))
<1> DEFINE o == Only(k, {c})
           p == Alone(x, Json(type, c))
<1>1. \A e \in Cell : o[e] = IF e = c THEN k[c] ELSE Freed
  BY DEF Only
<1>2. DOMAIN p = {x} /\ p[x] = Json(type, c)
  BY DEF Alone
<1>3. Json(type, c) \in Objects /\ OnHeap(Json(type, c)) /\ Json(type, c).word = c /\ Json(type, c).type = type
  BY DEF Json, Objects, OnHeap, HeapTypes
<1>4. Typed(o, p, {})
  <2>1. Freed \in CellType
    BY DEF Freed, CellType, Kids
  <2>2. o \in [Cell -> CellType]
    BY <2>1 DEF Only
  <2>3. p \in [DOMAIN p -> Objects]
    BY <1>2, <1>3 DEF Alone
  <2> HIDE DEF o, p
  <2>4. \A e \in Cell : ~o[e].live => o[e].kids = <<>>
    BY <1>1 DEF Freed
  <2> QED
    BY <2>2, <2>3, <2>4 DEF Typed
<1> HIDE DEF o, p
<1>5. RootSlot(x) \in SlotsIn(o, p) /\ ObjectAt(o, p, RootSlot(x)) = Json(type, c)
  BY <1>2 DEF RootSlot, SlotsIn, ObjectAt
<1>6. \A t \in SlotsIn(o, p) : OnHeap(ObjectAt(o, p, t)) => t = RootSlot(x)
  <2> SUFFICES ASSUME NEW t \in SlotsIn(o, p), OnHeap(ObjectAt(o, p, t)) PROVE t = RootSlot(x)
    OBVIOUS
  <2>1. CASE t.at = 0
    BY <1>2, <2>1 DEF SlotsIn, RootSlot
  <2>2. CASE t.at # 0
    <3>1. t.in \in Cell /\ t.at \in DOMAIN o[t.in].kids /\ ObjectAt(o, p, t) = o[t.in].kids[t.at][2]
      BY <2>2 DEF SlotsIn, ObjectAt
    <3> QED
      BY <1>1, <3>1 DEF Freed
  <2> QED
    BY <2>1, <2>2
<1>7. Points(o, p, {})
  BY <1>1, <1>3, <1>5, <1>6 DEF Points
<1>8. Unique(o, p)
  BY <1>6 DEF Unique
<1>9. Kept(o, p, {})
  BY <1>1, <1>3, <1>5 DEF Kept, Freed
<1>10. PairsWhole(o, p)
  <2>1. \A t \in SlotsIn(o, p) : ObjectAt(o, p, t).type = "Pair" => t = RootSlot(x)
    BY <1>6 DEF OnHeap
  <2> QED
    BY <1>1, <1>3, <1>5, <2>1 DEF PairsWhole
<1>11. Ranked(o)
  <2> DEFINE rank == [e \in Cell |-> 0]
  <2>1. RankOK(rank, o)
    <3>1. \A e \in Cell : \A i \in DOMAIN o[e].kids : ~OnHeap(o[e].kids[i][2])
      BY <1>1 DEF Freed
    <3> QED
      BY <3>1 DEF RankOK
  <2>2. rank \in [Cell -> Nat]
    OBVIOUS
  <2> QED
    BY <2>1, <2>2 DEF Ranked
<1> QED
  BY <1>1, <1>4, <1>7, <1>8, <1>9, <1>10, <1>11 DEF Owned, Whole, o, p

\* So are the three cells of a first-in-order object.
LEMMA ThreeCells ==
    ASSUME NEW k \in [Cell -> CellType], NEW a \in Cell, NEW b \in Cell, NEW c \in Cell, a # b, a # c, b # c,
           k[a].live, k[b].live, k[c].live, k[a].kids = <<>>, k[b].kids = <<>>,
           k[c].kids = <<<<"key", Json("Object", a)>>, <<"val", Json("Object", b)>>>>, NEW x
    PROVE  Whole(k, {a, b, c}, x, Json("FIOObject", c))
<1> DEFINE v == Json("FIOObject", c)
           o == Only(k, {a, b, c})
           p == Alone(x, v)
           key == [in |-> c, at |-> 1]
           val == [in |-> c, at |-> 2]
<1>1. \A e \in Cell : o[e] = IF e \in {a, b, c} THEN k[e] ELSE Freed
  BY DEF Only
<1>2. DOMAIN p = {x} /\ p[x] = v
  BY DEF Alone
<1>3. v \in Objects /\ OnHeap(v) /\ v.word = c /\ v.type = "FIOObject"
  BY DEF Json, Objects, OnHeap, HeapTypes
<1>4. Typed(o, p, {})
  <2>1. Freed \in CellType
    BY DEF Freed, CellType, Kids
  <2>2. o \in [Cell -> CellType]
    BY <2>1 DEF Only
  <2>3. p \in [DOMAIN p -> Objects]
    BY <1>2, <1>3 DEF Alone
  <2> HIDE DEF o, p
  <2>4. \A e \in Cell : ~o[e].live => o[e].kids = <<>>
    BY <1>1 DEF Freed
  <2> QED
    BY <2>2, <2>3, <2>4 DEF Typed
<1> HIDE DEF o, p, v
<1>5. /\ o[c].kids[1][2] = Json("Object", a) /\ o[c].kids[2][2] = Json("Object", b) /\ DOMAIN o[c].kids = {1, 2}
      /\ \A e \in Cell : e # c => DOMAIN o[e].kids = {}
  <2>1. /\ k[c].kids[1][2] = Json("Object", a) /\ k[c].kids[2][2] = Json("Object", b)
        /\ Len(k[c].kids) = 2 /\ DOMAIN k[c].kids = {1, 2}
    <3>1. \A u, w : <<u, w>>[1] = u /\ <<u, w>>[2] = w
      OBVIOUS
    <3>2. \A u, w : Len(<<u, w>>) = 2 /\ DOMAIN <<u, w>> = 1 .. 2
      OBVIOUS
    <3>3. 1 .. 2 = {1, 2}
      OBVIOUS
    <3> QED
      BY <3>1, <3>2, <3>3
  <2>2. o[c] = k[c] /\ \A e \in Cell : e # c => o[e].kids = <<>>
    BY <1>1 DEF Freed
  <2> QED
    BY <2>1, <2>2
<1>6. SlotsIn(o, p) = {RootSlot(x), key, val}
  <2>1. \A t \in SlotsIn(o, p) : t \in {RootSlot(x), key, val}
    <3> SUFFICES ASSUME NEW t \in SlotsIn(o, p) PROVE t \in {RootSlot(x), key, val}
      OBVIOUS
    <3>1. CASE t.at = 0
      BY <1>2, <3>1 DEF SlotsIn, RootSlot
    <3>2. CASE t.at # 0
      <4>1. t \in [in : Cell, at : Nat \ {0}] /\ t.at \in DOMAIN o[t.in].kids
        BY <3>2 DEF SlotsIn
      <4>2. t.in = c /\ t.at \in {1, 2}
        BY <1>5, <4>1
      <4> QED
        BY <4>1, <4>2
    <3> QED
      BY <3>1, <3>2
  <2>2. RootSlot(x) \in SlotsIn(o, p) /\ key \in SlotsIn(o, p) /\ val \in SlotsIn(o, p)
    BY <1>2, <1>5 DEF SlotsIn, RootSlot
  <2> QED
    BY <2>1, <2>2
<1>7. /\ ObjectAt(o, p, RootSlot(x)) = v /\ ObjectAt(o, p, key) = Json("Object", a)
      /\ ObjectAt(o, p, val) = Json("Object", b)
  BY <1>2, <1>5 DEF ObjectAt, RootSlot
<1>8. /\ OnHeap(Json("Object", a)) /\ Json("Object", a).word = a /\ Json("Object", a).type = "Object"
      /\ OnHeap(Json("Object", b)) /\ Json("Object", b).word = b /\ Json("Object", b).type = "Object"
  BY DEF OnHeap, Json
<1>9. Points(o, p, {}) /\ PairsWhole(o, p)
  BY <1>1, <1>3, <1>6, <1>7, <1>8 DEF Points, PairsWhole
<1>10. Unique(o, p)
  BY <1>3, <1>6, <1>7, <1>8 DEF Unique
<1>11. Kept(o, p, {})
  <2> SUFFICES ASSUME NEW e \in Cell, o[e].live
               PROVE  \E t \in SlotsIn(o, p) : OnHeap(ObjectAt(o, p, t)) /\ ObjectAt(o, p, t).word = e
    BY DEF Kept
  <2>1. e \in {a, b, c}
    BY <1>1 DEF Freed
  <2> QED
    BY <1>3, <1>6, <1>7, <1>8, <2>1
<1>12. Ranked(o)
  <2> DEFINE rank == [e \in Cell |-> IF e = c THEN 0 ELSE 1]
  <2>1. RankOK(rank, o)
    <3> SUFFICES ASSUME NEW e \in Cell, NEW i \in DOMAIN o[e].kids, OnHeap(o[e].kids[i][2])
                 PROVE  rank[o[e].kids[i][2].word] > rank[e]
      BY DEF RankOK
    <3>1. e = c /\ i \in {1, 2}
      BY <1>5
    <3>2. o[e].kids[i][2].word \in {a, b}
      BY <1>5, <1>8, <3>1
    <3>3. rank[e] = 0 /\ rank[o[e].kids[i][2].word] = 1
      BY <3>1, <3>2
    <3> QED
      BY <3>3
  <2>2. rank \in [Cell -> Nat]
    OBVIOUS
  <2> QED
    BY <2>1, <2>2 DEF Ranked
<1> QED
  BY <1>1, <1>4, <1>9, <1>10, <1>11, <1>12 DEF Owned, Whole, o, p, v

\* A slot keeps what it has.
LEMMA PutSame ==
    ASSUME NEW h, NEW r, NEW L, Typed(h, r, L), NEW s \in SlotsIn(h, r)
    PROVE  HeapWith(h, s, ObjectAt(h, r, s)) = h /\ RootWith(r, s, ObjectAt(h, r, s)) = r
<1>1. h \in [Cell -> CellType] /\ r \in [DOMAIN r -> Objects]
  BY DEF Typed
<1>2. CASE s.at = 0
  BY <1>1, <1>2 DEF SlotsIn, ObjectAt, HeapWith, RootWith
<1>3. CASE s.at # 0
  <2>1. s.in \in Cell /\ s.at \in DOMAIN h[s.in].kids /\ ObjectAt(h, r, s) = h[s.in].kids[s.at][2]
    BY <1>3 DEF SlotsIn, ObjectAt
  <2> DEFINE kids == h[s.in].kids
             same == [kids EXCEPT ![s.at] = [@ EXCEPT ![2] = kids[s.at][2]]]
  <2>2. kids \in Seq(Labels \X Objects)
    BY <1>1, <2>1 DEF CellType, Kids
  <2>3. kids[s.at] \in Labels \X Objects
    BY <2>1, <2>2
  <2>4. [kids[s.at] EXCEPT ![2] = kids[s.at][2]] = kids[s.at]
    BY <2>3
  <2>5. same = kids
    BY <2>1, <2>2, <2>4
  <2>6. HeapWith(h, s, ObjectAt(h, r, s)) = [h EXCEPT ![s.in] = [@ EXCEPT !.kids = same]]
    BY <1>3, <2>1 DEF HeapWith
  <2>7. [h[s.in] EXCEPT !.kids = same] = h[s.in]
    BY <1>1, <2>1, <2>5 DEF CellType
  <2>8. RootWith(r, s, ObjectAt(h, r, s)) = r
    BY <1>3 DEF RootWith
  <2> QED
    BY <1>1, <2>1, <2>6, <2>7, <2>8
<1> QED
  BY <1>2, <1>3

\* What new does.
LEMMA NewCell ==
    ASSUME NEW h \in [Cell -> CellType], FreeCells(h) # {}, NEW type, NEW kids \in Kids
    PROVE  LET c == Fresh(h) g == New(h, type, kids).heap
           IN  /\ c \in Cell /\ ~h[c].live /\ c \in FreeCells(h) /\ New(h, type, kids).json = Json(type, c)
               /\ g \in [Cell -> CellType] /\ g[c].live /\ g[c].kids = kids
               /\ \A e \in Cell \ {c} : g[e] = h[e]
               /\ FreeCells(g) = FreeCells(h) \ {c}
<1> DEFINE c == Fresh(h)
           g == New(h, type, kids).heap
           cell == [live |-> TRUE, data |-> 0, kids |-> kids]
<1>1. c \in FreeCells(h)
  BY DEF Fresh
<1>2. c \in Cell /\ ~h[c].live
  BY <1>1 DEF FreeCells
<1> HIDE DEF c
<1>3. g = [h EXCEPT ![c] = cell] /\ New(h, type, kids).json = Json(type, c)
  BY DEF New, c
<1>4. cell \in CellType
  BY DEF CellType
<1>5. g \in [Cell -> CellType] /\ g[c] = cell /\ \A e \in Cell \ {c} : g[e] = h[e]
  BY <1>2, <1>3, <1>4
<1>6. FreeCells(g) = FreeCells(h) \ {c}
  BY <1>2, <1>5 DEF FreeCells
<1>7. New(h, type, kids).json = Json(type, c) /\ g[c].live /\ g[c].kids = kids
  BY <1>3, <1>5
<1> HIDE DEF g
<1> QED
  BY <1>1, <1>2, <1>5, <1>6, <1>7 DEF c, g

\* There are cells enough for a new object.
Spare(h, type) == FreeCells(h) # {} /\ (type = "FIOObject" => \A a, b : FreeCells(h) \ {a, b} # {})

\* SetType's part of Put.
LEMMA Retyped ==
    ASSUME NEW h, NEW r, NEW L, Owned(h, r, L), NEW s \in SlotsIn(h, r), NEW type \in HeapTypes \cup {"Integral"},
           Spare(h, type)
    PROVE  LET v == ObjectAt(h, r, s)
               set == SetType(h, v, type)
               g == HeapWith(set.heap, s, set.json)
               q == RootWith(r, s, set.json)
           IN  /\ Owned(g, q, L) /\ DOMAIN q = DOMAIN r
               /\ s \in SlotsIn(g, q) /\ ObjectAt(g, q, s) = set.json /\ set.json.type = type
               /\ Typed(set.heap, r, L) /\ s \in SlotsIn(set.heap, r)
               /\ \A t \in SlotsIn(h, r) : t # s /\ (t.at = 0 \/ t.in \notin CellsOf(h, v))
                     => t \in SlotsIn(g, q) /\ ObjectAt(g, q, t) = ObjectAt(h, r, t)
               /\ \A c \in Cell \ CellsOf(h, v) : h[c].live => set.heap[c] = h[c]
               /\ type # "FIOObject" => FreeCells(h) \ {set.json.word} \subseteq FreeCells(set.heap)
<1> DEFINE v == ObjectAt(h, r, s)
           set == SetType(h, v, type)
           g == HeapWith(set.heap, s, set.json)
           q == RootWith(r, s, set.json)
           d == Delete(h, v)
<1>1. Typed(h, r, L) /\ h \in [Cell -> CellType] /\ v \in Objects
  <2>1. Typed(h, r, L)
    BY DEF Owned
  <2> QED
    BY <2>1, ObjectTyped DEF Typed
<1>2. CASE v.type = type
  <2>1. set.heap = h /\ set.json = v
    BY <1>2 DEF SetType
  <2>2. g = h /\ q = r
    BY <1>1, <2>1, PutSame
  <2> QED
    BY <1>1, <1>2, <2>1, <2>2
<1>3. CASE v.type # type
  <2> USE DEF Spare
  <2>1. d \in [Cell -> CellType] /\ FreeCells(h) \subseteq FreeCells(d)
    <3>1. Freed \in CellType /\ ~Freed.live
      BY DEF Freed, CellType, Kids
    <3>2. \A c \in Cell : d[c] = IF c \in CellsOf(h, v) THEN Freed ELSE h[c]
      BY DEF Delete
    <3>3. d \in [Cell -> CellType]
      BY <1>1, <3>1 DEF Delete
    <3> HIDE DEF d
    <3> QED
      BY <3>1, <3>2, <3>3 DEF FreeCells
  \* A whole in the place of what is freed.
  <2>2. \E N : /\ Fills(set.heap, N, d, set.json) /\ set.json.type = type
               /\ type # "FIOObject" => FreeCells(h) \ {set.json.word} \subseteq FreeCells(set.heap)
    <3> USE DEF Fills
    <3> HIDE DEF d
    <3>1. FreeCells(d) # {}
      BY <2>1
    <3>2. CASE type = "Integral"
      <4>1. set.heap = d /\ set.json = Json(type, 0)
        BY <1>3, <3>2 DEF SetType, d
      <4>2. Json(type, 0) \in Objects /\ ~OnHeap(Json(type, 0)) /\ Json(type, 0).type = type
        BY <3>2 DEF Json, Objects, OnHeap
      <4>3. \A x : Whole(set.heap, {}, x, set.json)
        BY <4>1, <4>2, NoCell
      <4> QED
        BY <2>1, <4>1, <4>2, <4>3
    <3>3. CASE type \in {"String", "Hash", "Object", "Array", "Pair"}
      <4> DEFINE kids == IF type = "Pair" THEN <<<<"second", Null>>>> ELSE <<>>
      <4>1. set = New(d, type, kids)
        BY <1>3, <3>3 DEF SetType, d
      <4>2. kids \in Kids /\ (type = "Pair" => Len(kids) = 1) /\ \A i \in DOMAIN kids : ~OnHeap(kids[i][2])
        <5>1. <<"second", Null>> \in Labels \X Objects
          BY DEF Labels, Null, Json, Objects
        <5>2. /\ <<<<"second", Null>>>> \in Seq(Labels \X Objects)
              /\ Len(<<<<"second", Null>>>>) = 1 /\ DOMAIN <<<<"second", Null>>>> = {1}
              /\ <<<<"second", Null>>>>[1][2] = Null
          BY <5>1
        <5>3. ~OnHeap(Null)
          BY DEF OnHeap, Null, Json
        <5> QED
          BY <5>2, <5>3 DEF Kids
      <4> HIDE DEF kids
      <4> DEFINE c == Fresh(d)
      <4>3. /\ c \in Cell /\ ~d[c].live /\ set.json = Json(type, c)
            /\ set.heap \in [Cell -> CellType] /\ set.heap[c].live /\ set.heap[c].kids = kids
            /\ (\A e \in Cell \ {c} : set.heap[e] = d[e]) /\ FreeCells(set.heap) = FreeCells(d) \ {c}
        BY <2>1, <3>1, <4>1, <4>2, NewCell
      <4> HIDE DEF c, set
      <4>4. type \in HeapTypes
        BY <3>3 DEF HeapTypes
      <4>5. \A x : Whole(set.heap, {c}, x, Json(type, c))
        BY <4>2, <4>3, <4>4, OneCell
      <4>6. set.json.type = type /\ set.json.word = c
        BY <4>3 DEF Json
      <4>7. FreeCells(h) \ {set.json.word} \subseteq FreeCells(set.heap)
        BY <2>1, <4>3, <4>6
      <4> QED
        BY <4>3, <4>5, <4>6, <4>7
    <3>4. CASE type = "FIOObject"
      <4> DEFINE k1 == New(d, "Object", <<>>)
                 k2 == New(k1.heap, "Object", <<>>)
                 kids == <<<<"key", k1.json>>, <<"val", k2.json>>>>
                 a == Fresh(d)
                 b == Fresh(k1.heap)
                 c == Fresh(k2.heap)
      <4>1. set = New(k2.heap, type, kids)
        BY <1>3, <3>4 DEF SetType, d
      <4>2. <<>> \in Kids
        BY DEF Kids
      <4>3. /\ a \in Cell /\ ~d[a].live /\ k1.json = Json("Object", a)
            /\ k1.heap \in [Cell -> CellType] /\ k1.heap[a].live /\ k1.heap[a].kids = <<>>
            /\ (\A e \in Cell \ {a} : k1.heap[e] = d[e]) /\ FreeCells(k1.heap) = FreeCells(d) \ {a}
        BY <2>1, <3>1, <4>2, NewCell
      <4> HIDE DEF a, k1
      <4>4. FreeCells(k1.heap) # {}
        BY <2>1, <3>4, <4>3
      <4>5. /\ b \in Cell /\ ~k1.heap[b].live /\ k2.json = Json("Object", b)
            /\ k2.heap \in [Cell -> CellType] /\ k2.heap[b].live /\ k2.heap[b].kids = <<>>
            /\ (\A e \in Cell \ {b} : k2.heap[e] = k1.heap[e]) /\ FreeCells(k2.heap) = FreeCells(k1.heap) \ {b}
        BY <4>2, <4>3, <4>4, NewCell
      <4> HIDE DEF b, k2
      <4>6. FreeCells(k2.heap) # {}
        <5>1. FreeCells(h) \ {a, b} # {}
          BY <3>4
        <5>2. FreeCells(k2.heap) = FreeCells(d) \ {a, b}
          BY <4>3, <4>5
        <5> QED
          BY <2>1, <5>1, <5>2
      <4>7. kids \in Kids
        <5>1. Json("Object", a) \in Objects /\ Json("Object", b) \in Objects
          BY <4>3, <4>5 DEF Json, Objects, HeapTypes
        <5>2. <<"key", k1.json>> \in Labels \X Objects /\ <<"val", k2.json>> \in Labels \X Objects
          BY <4>3, <4>5, <5>1 DEF Labels
        <5> QED
          BY <5>2 DEF Kids
      <4> HIDE DEF kids
      <4>8. /\ c \in Cell /\ ~k2.heap[c].live /\ set.json = Json(type, c)
            /\ set.heap \in [Cell -> CellType] /\ set.heap[c].live /\ set.heap[c].kids = kids
            /\ (\A e \in Cell \ {c} : set.heap[e] = k2.heap[e])
        BY <4>1, <4>5, <4>6, <4>7, NewCell
      <4> HIDE DEF c, set
      <4>9. a # b /\ a # c /\ b # c
        BY <4>3, <4>5, <4>8
      <4>10. /\ set.heap[a].live /\ set.heap[a].kids = <<>> /\ set.heap[b].live /\ set.heap[b].kids = <<>>
             /\ set.heap[c].kids = <<<<"key", Json("Object", a)>>, <<"val", Json("Object", b)>>>>
        BY <4>3, <4>5, <4>8, <4>9 DEF kids
      <4>11. \A x : Whole(set.heap, {a, b, c}, x, Json("FIOObject", c))
        BY <4>3, <4>5, <4>8, <4>9, <4>10, ThreeCells
      <4>12. (\A e \in {a, b, c} : ~d[e].live) /\ (\A e \in Cell \ {a, b, c} : set.heap[e] = d[e])
        BY <4>3, <4>5, <4>8, <4>9
      <4>13. set.json.type = type
        BY <4>8 DEF Json
      <4> QED
        BY <3>4, <4>8, <4>11, <4>12, <4>13
    <3> QED
      BY <3>2, <3>3, <3>4 DEF HeapTypes
  <2> HIDE DEF set
  <2>3. PICK N : /\ Fills(set.heap, N, d, set.json) /\ set.json.type = type
                 /\ type # "FIOObject" => FreeCells(h) \ {set.json.word} \subseteq FreeCells(set.heap)
    BY <2>2
  <2>4. /\ Owned(g, q, L) /\ DOMAIN q = DOMAIN r
        /\ s \in SlotsIn(g, q) /\ ObjectAt(g, q, s) = set.json /\ Typed(set.heap, r, L) /\ s \in SlotsIn(set.heap, r)
        /\ \A t \in SlotsIn(h, r) : t # s /\ (t.at = 0 \/ t.in \notin CellsOf(h, v))
              => t \in SlotsIn(g, q) /\ ObjectAt(g, q, t) = ObjectAt(h, r, t)
    BY <2>3, Replaced
  <2>5. ASSUME NEW c \in Cell \ CellsOf(h, v), h[c].live PROVE set.heap[c] = h[c]
    <3>1. d[c] = h[c]
      BY DEF Delete
    <3> HIDE DEF d
    <3> QED
      BY <2>3, <2>5, <3>1 DEF Fills
  <2> QED
    BY <2>3, <2>4, <2>5 DEF set
<1> QED
  BY <1>2, <1>3

-----------------------------------------------------------------------------
(* Changes of a cell *)

\* Data and labels are of no account.
LEMMA SameMembers ==
    ASSUME NEW h, NEW r, NEW L, Owned(h, r, L), NEW g \in [Cell -> CellType],
           \A c \in Cell : /\ g[c].live = h[c].live /\ Len(g[c].kids) = Len(h[c].kids)
                           /\ DOMAIN g[c].kids = DOMAIN h[c].kids
                           /\ \A i \in DOMAIN h[c].kids : g[c].kids[i][2] = h[c].kids[i][2]
    PROVE  /\ Owned(g, r, L) /\ SlotsIn(g, r) = SlotsIn(h, r)
           /\ \A s \in SlotsIn(h, r) : ObjectAt(g, r, s) = ObjectAt(h, r, s)
<1>1. Typed(h, r, L) /\ PairsWhole(h, r)
  BY DEF Owned
<1>2. SlotsIn(g, r) = SlotsIn(h, r)
  BY DEF SlotsIn
<1>3. \A s \in SlotsIn(h, r) : ObjectAt(g, r, s) = ObjectAt(h, r, s)
  BY DEF SlotsIn, ObjectAt
<1>4. Typed(g, r, L)
  <2>1. ASSUME NEW c \in Cell, ~g[c].live PROVE g[c].kids = <<>> /\ c \notin L
    <3>1. h[c].kids = <<>> /\ c \notin L
      BY <1>1, <2>1 DEF Typed
    <3>2. g[c].kids \in Seq(Labels \X Objects) /\ Len(g[c].kids) = 0
      BY <3>1 DEF CellType, Kids
    <3> QED
      BY <3>1, <3>2
  <2> QED
    BY <1>1, <2>1 DEF Typed
<1>5. PairsWhole(g, r)
  <2> SUFFICES ASSUME NEW s \in SlotsIn(g, r), ObjectAt(g, r, s).type = "Pair"
               PROVE  Len(g[ObjectAt(g, r, s).word].kids) = 1
    BY DEF PairsWhole
  <2>1. ObjectAt(h, r, s) = ObjectAt(g, r, s) /\ s \in SlotsIn(h, r) /\ OnHeap(ObjectAt(h, r, s))
    BY <1>2, <1>3 DEF OnHeap
  <2>2. ObjectAt(h, r, s).word \in Cell
    BY <1>1, <2>1, ObjectTyped
  <2> QED
    BY <1>1, <2>1, <2>2 DEF PairsWhole
<1>6. Owned(g, r, L)
  <2> DEFINE to == [s \in SlotsIn(g, r) |-> s]
  <2>1. to \in [SlotsIn(g, r) -> SlotsIn(h, r)] /\ \A s \in SlotsIn(g, r) : to[s] = s
    BY <1>2
  <2> HIDE DEF to
  <2> QED
    BY <1>2, <1>3, <1>4, <1>5, <2>1, Renamed
<1> QED
  BY <1>2, <1>3, <1>6

\* The heap with a new last member of a cell, and its slot.
Push(h, c, label, w) == [h EXCEPT ![c].kids = Append(@, <<label, w>>)]
NextSlot(h, c) == [in |-> c, at |-> Len(h[c].kids) + 1]

\* A member more that holds no cell.
LEMMA Appended ==
    ASSUME NEW h, NEW r, NEW L, Owned(h, r, L), NEW s \in SlotsIn(h, r),
           OnHeap(ObjectAt(h, r, s)), ObjectAt(h, r, s).type # "Pair",
           NEW label \in Labels, NEW w \in Objects, ~OnHeap(w)
    PROVE  LET c == ObjectAt(h, r, s).word
               g == Push(h, c, label, w)
               t == NextSlot(h, c)
           IN  /\ Owned(g, r, L) /\ SlotsIn(g, r) = SlotsIn(h, r) \cup {t} /\ t \notin SlotsIn(h, r)
               /\ ObjectAt(g, r, t) = w
               /\ \A u \in SlotsIn(h, r) : ObjectAt(g, r, u) = ObjectAt(h, r, u)
               /\ \A e \in Cell : g[e].live = h[e].live
               /\ \A e \in Cell \ {c} : g[e] = h[e]
<1> DEFINE v == ObjectAt(h, r, s)
           c == v.word
           kids == h[c].kids
           more == Append(kids, <<label, w>>)
           n == Len(kids) + 1
           g == [h EXCEPT ![c].kids = Append(@, <<label, w>>)]
           t == [in |-> c, at |-> n]
<1>1. Typed(h, r, L) /\ Points(h, r, L) /\ Unique(h, r) /\ PairsWhole(h, r) /\ h \in [Cell -> CellType]
  BY DEF Owned, Typed
<1>2. c \in Cell /\ h[c].live
  BY <1>1, ObjectTyped DEF Points
<1>3. kids \in Seq(Labels \X Objects) /\ <<label, w>> \in Labels \X Objects /\ <<label, w>>[2] = w
  BY <1>1, <1>2 DEF CellType, Kids
<1>4. /\ more \in Kids /\ Len(kids) \in Nat /\ Len(more) = n
      /\ DOMAIN kids = 1 .. Len(kids) /\ DOMAIN more = 1 .. n /\ DOMAIN more = DOMAIN kids \cup {n}
      /\ n \notin DOMAIN kids /\ n \in Nat \ {0}
      /\ more[n] = <<label, w>> /\ \A i \in DOMAIN kids : more[i] = kids[i]
  BY <1>3 DEF Kids
<1>5. g = [h EXCEPT ![c] = [@ EXCEPT !.kids = more]]
  OBVIOUS
<1> HIDE DEF c, kids, more, n, g
<1>6. /\ g \in [Cell -> CellType] /\ g[c].live = h[c].live /\ g[c].kids = more
      /\ \A e \in Cell \ {c} : g[e] = h[e]
  BY <1>1, <1>2, <1>4, <1>5 DEF CellType
<1>7. \A e \in Cell : g[e].live = h[e].live
  BY <1>6
<1>8. Typed(g, r, L)
  <2>1. \A e \in Cell : ~g[e].live => g[e].kids = <<>> /\ e \notin L
    BY <1>1, <1>2, <1>6 DEF Typed
  <2> QED
    BY <1>1, <1>6, <2>1 DEF Typed
<1>9. SlotsIn(g, r) = SlotsIn(h, r) \cup {t} /\ t \notin SlotsIn(h, r)
  <2>1. \A e \in Cell : DOMAIN g[e].kids = IF e = c THEN DOMAIN h[e].kids \cup {n} ELSE DOMAIN h[e].kids
    BY <1>4, <1>6 DEF kids
  <2>2. t \in [in : Cell, at : Nat \ {0}] /\ t.in = c /\ t.at = n /\ n \notin DOMAIN h[c].kids
    BY <1>2, <1>4 DEF kids
  <2>3. ASSUME NEW u \in SlotsIn(g, r), u \notin SlotsIn(h, r) PROVE u = t
    <3>1. u \in [in : Cell, at : Nat \ {0}] /\ u.at \in DOMAIN g[u.in].kids /\ u.at \notin DOMAIN h[u.in].kids
      BY <2>3 DEF SlotsIn
    <3> QED
      BY <2>1, <3>1
  <2>4. SlotsIn(h, r) \subseteq SlotsIn(g, r)
    BY <2>1 DEF SlotsIn
  <2>5. t \in SlotsIn(g, r) /\ t \notin SlotsIn(h, r)
    BY <2>1, <2>2 DEF SlotsIn
  <2> QED
    BY <2>3, <2>4, <2>5
<1>10. ObjectAt(g, r, t) = w
  BY <1>3, <1>4, <1>6 DEF ObjectAt
<1>11. ASSUME NEW u \in SlotsIn(h, r) PROVE ObjectAt(g, r, u) = ObjectAt(h, r, u)
  <2>1. CASE u.at = 0 \/ u.in # c
    BY <1>6, <2>1 DEF SlotsIn, ObjectAt
  <2>2. CASE u.at # 0 /\ u.in = c
    BY <1>4, <1>6, <2>2 DEF SlotsIn, ObjectAt, kids
  <2> QED
    BY <2>1, <2>2
<1>12. PairsWhole(g, r)
  <2> SUFFICES ASSUME NEW u \in SlotsIn(g, r), ObjectAt(g, r, u).type = "Pair"
               PROVE  Len(g[ObjectAt(g, r, u).word].kids) = 1
    BY DEF PairsWhole
  <2>1. OnHeap(ObjectAt(g, r, u))
    BY DEF OnHeap
  <2>2. u \in SlotsIn(h, r) /\ ObjectAt(g, r, u) = ObjectAt(h, r, u)
    BY <1>9, <1>10, <1>11, <2>1
  <2>3. ObjectAt(h, r, u).word # c
    BY <1>1, <2>1, <2>2 DEF Unique, c
  <2>4. ObjectAt(h, r, u).word \in Cell
    BY <1>1, <2>1, <2>2, ObjectTyped
  <2> QED
    BY <1>1, <1>6, <2>2, <2>3, <2>4 DEF PairsWhole
<1>13. Owned(g, r, L)
  <2> DEFINE to == [u \in SlotsIn(g, r) |-> IF u = t THEN s ELSE u]
  <2>1. to \in [SlotsIn(g, r) -> SlotsIn(h, r)]
    BY <1>9
  <2>2. \A u \in SlotsIn(g, r) : OnHeap(ObjectAt(g, r, u)) => to[u] = u /\ ObjectAt(h, r, u) = ObjectAt(g, r, u)
    BY <1>9, <1>10, <1>11
  <2>3. \A u \in SlotsIn(h, r) : u \in SlotsIn(g, r) /\ to[u] = u /\ ObjectAt(h, r, u) = ObjectAt(g, r, u)
    BY <1>9, <1>11
  <2> HIDE DEF to, t
  <2>4. /\ \A u \in SlotsIn(g, r) : OnHeap(ObjectAt(g, r, u)) =>
              /\ ObjectAt(h, r, to[u]) = ObjectAt(g, r, u)
              /\ u.at # 0 => to[u].at # 0 /\ to[u].in = u.in
        /\ \A u, x \in SlotsIn(g, r) :
              OnHeap(ObjectAt(g, r, u)) /\ OnHeap(ObjectAt(g, r, x)) /\ to[u] = to[x] => u = x
        /\ \A u \in SlotsIn(h, r) : OnHeap(ObjectAt(h, r, u)) =>
              \E x \in SlotsIn(g, r) : OnHeap(ObjectAt(g, r, x)) /\ to[x] = u
    BY <2>2, <2>3
  <2> QED
    BY <1>7, <1>8, <1>12, <2>1, <2>4, Renamed
<1>14. \A u \in SlotsIn(h, r) : ObjectAt(g, r, u) = ObjectAt(h, r, u)
  BY <1>11
<1> QED
  BY <1>6, <1>7, <1>9, <1>10, <1>13, <1>14 DEF Push, NextSlot, t, n, kids, c, g, v

\* The heap without a member of a cell.
Cut(h, c, i) == [h EXCEPT ![c].kids = SubSeq(@, 1, i - 1) \o SubSeq(@, i + 1, Len(@))]

\* A member less, which held no cell.
LEMMA Removed ==
    ASSUME NEW h, NEW r, NEW L, Owned(h, r, L), NEW s \in SlotsIn(h, r),
           OnHeap(ObjectAt(h, r, s)), ObjectAt(h, r, s).type # "Pair",
           NEW i \in DOMAIN h[ObjectAt(h, r, s).word].kids, ~OnHeap(h[ObjectAt(h, r, s).word].kids[i][2])
    PROVE  LET c == ObjectAt(h, r, s).word
           IN  Owned(Cut(h, c, i), r, L)
<1> DEFINE v == ObjectAt(h, r, s)
           c == v.word
           kids == h[c].kids
           less == SubSeq(kids, 1, i - 1) \o SubSeq(kids, i + 1, Len(kids))
           g == [h EXCEPT ![c].kids = SubSeq(@, 1, i - 1) \o SubSeq(@, i + 1, Len(@))]
           from(j) == IF j < i THEN j ELSE j + 1
<1>1. Typed(h, r, L) /\ Points(h, r, L) /\ Unique(h, r) /\ PairsWhole(h, r) /\ h \in [Cell -> CellType]
  BY DEF Owned, Typed
<1>2. c \in Cell /\ h[c].live
  BY <1>1, ObjectTyped DEF Points
<1>3. kids \in Seq(Labels \X Objects) /\ i \in DOMAIN kids /\ ~OnHeap(kids[i][2])
  BY <1>1, <1>2 DEF CellType, Kids
<1>4. Len(kids) \in Nat /\ DOMAIN kids = 1 .. Len(kids) /\ i \in 1 .. Len(kids)
  BY <1>3
<1>5. g = [h EXCEPT ![c] = [@ EXCEPT !.kids = less]]
  OBVIOUS
<1> HIDE DEF c, kids, g
<1>6. /\ less \in Kids /\ Len(less) = Len(kids) - 1 /\ DOMAIN less = 1 .. (Len(kids) - 1)
      /\ \A j \in DOMAIN less : less[j] = kids[from(j)]
  <2> DEFINE a == SubSeq(kids, 1, i - 1)
             b == SubSeq(kids, i + 1, Len(kids))
  <2>1. /\ a \in Seq(Labels \X Objects) /\ Len(a) = i - 1
        /\ \A j \in 1 .. (i - 1) : a[j] = kids[j]
    BY <1>3, <1>4
  <2>2. /\ b \in Seq(Labels \X Objects) /\ Len(b) = Len(kids) - i
        /\ \A j \in 1 .. (Len(kids) - i) : b[j] = kids[i + j]
    BY <1>3, <1>4
  <2> HIDE DEF a, b
  <2>3. a \o b \in Seq(Labels \X Objects) /\ Len(a \o b) = Len(kids) - 1
    <3>1. a \o b \in Seq(Labels \X Objects) /\ Len(a \o b) = Len(a) + Len(b)
      BY <2>1, <2>2, ConcatProperties
    <3> QED
      BY <1>4, <2>1, <2>2, <3>1
  <2>4. ASSUME NEW j \in 1 .. (Len(kids) - 1) PROVE (a \o b)[j] = kids[from(j)]
    <3>1. CASE j < i
      BY <1>4, <2>1, <2>2, <3>1
    <3>2. CASE ~(j < i)
      <4>1. (a \o b)[j] = b[j - (i - 1)] /\ j - (i - 1) \in 1 .. (Len(kids) - i)
        BY <1>4, <2>1, <2>2, <3>2
      <4>2. i + (j - (i - 1)) = j + 1
        BY <1>4
      <4> QED
        BY <2>2, <3>2, <4>1, <4>2
    <3> QED
      BY <3>1, <3>2
  <2>5. less = a \o b
    BY DEF a, b
  <2> HIDE DEF less, from
  <2>6. less \in Seq(Labels \X Objects) /\ Len(less) = Len(kids) - 1
    BY <2>3, <2>5
  <2>7. DOMAIN less = 1 .. (Len(kids) - 1)
    BY <2>6
  <2> QED
    BY <2>4, <2>5, <2>6, <2>7 DEF Kids
<1> HIDE DEF less
<1>7. /\ g \in [Cell -> CellType] /\ g[c].live = h[c].live /\ g[c].kids = less
      /\ \A e \in Cell \ {c} : g[e] = h[e]
  BY <1>1, <1>2, <1>5, <1>6 DEF CellType
<1>8. \A e \in Cell : g[e].live = h[e].live
  BY <1>7
<1>9. Typed(g, r, L)
  <2>1. \A e \in Cell : ~g[e].live => g[e].kids = <<>> /\ e \notin L
    BY <1>1, <1>2, <1>7 DEF Typed
  <2> QED
    BY <1>1, <1>7, <2>1 DEF Typed
\* Members behind it have moved up.
<1> DEFINE back(u) == IF u.at # 0 /\ u.in = c /\ u.at >= i THEN [in |-> c, at |-> u.at + 1] ELSE u
<1>10. ASSUME NEW u \in SlotsIn(g, r)
       PROVE  /\ back(u) \in SlotsIn(h, r) /\ ObjectAt(h, r, back(u)) = ObjectAt(g, r, u)
              /\ back(u).in = u.in /\ (u.at # 0 => back(u).at # 0)
  <2>1. CASE u.at = 0 \/ u.in # c
    BY <1>7, <2>1 DEF SlotsIn, ObjectAt
  <2>2. CASE u.at # 0 /\ u.in = c
    <3>1. u \in [in : Cell, at : Nat \ {0}] /\ u.at \in DOMAIN less
      BY <1>7, <2>2 DEF SlotsIn
    <3>2. u.at \in 1 .. (Len(kids) - 1) /\ from(u.at) \in DOMAIN kids /\ from(u.at) # 0 /\ from(u.at) \in Nat
      BY <1>4, <1>6, <3>1
    <3>3. back(u).in = c /\ back(u).at = from(u.at) /\ back(u) \in [in : Cell, at : Nat \ {0}]
      BY <1>4, <2>2, <3>1, <3>2
    <3> HIDE DEF back, from
    <3>4. back(u) \in SlotsIn(h, r)
      BY <3>2, <3>3 DEF SlotsIn, kids
    <3>5. ObjectAt(g, r, u) = less[u.at][2] /\ ObjectAt(h, r, back(u)) = kids[from(u.at)][2]
      BY <1>7, <2>2, <3>2, <3>3 DEF ObjectAt, kids
    <3> QED
      BY <1>6, <2>2, <3>1, <3>2, <3>3, <3>4, <3>5
  <2> QED
    BY <2>1, <2>2
<1>11. ASSUME NEW u \in SlotsIn(g, r), NEW w \in SlotsIn(g, r), back(u) = back(w) PROVE u = w
  <2>1. u.in = w.in
    BY <1>10, <1>11
  <2>2. u.at \in Nat /\ w.at \in Nat
    BY DEF SlotsIn
  <2>3. u.at = w.at
    <3>1. CASE u.at # 0 /\ u.in = c /\ u.at >= i
      <4>1. back(u).at = u.at + 1
        BY <3>1
      <4>2. back(w).at = w.at \/ (back(w).at = w.at + 1 /\ w.at >= i)
        OBVIOUS
      <4>3. CASE back(w).at = w.at + 1
        BY <1>11, <2>2, <4>1, <4>3
      <4>4. CASE ~(w.at # 0 /\ w.in = c /\ w.at >= i)
        <5>1. back(w).at = w.at
          BY <4>4
        <5>2. w.at = u.at + 1
          BY <1>11, <4>1, <5>1
        <5> QED
          BY <1>4, <2>1, <2>2, <3>1, <4>4, <5>2
      <4> QED
        BY <4>3, <4>4
    <3>2. CASE ~(u.at # 0 /\ u.in = c /\ u.at >= i)
      <4>1. back(u).at = u.at
        BY <3>2
      <4>2. CASE w.at # 0 /\ w.in = c /\ w.at >= i
        <5>1. u.at = w.at + 1
          BY <1>11, <4>1, <4>2
        <5> QED
          BY <1>4, <2>1, <2>2, <3>2, <4>2, <5>1
      <4>3. CASE ~(w.at # 0 /\ w.in = c /\ w.at >= i)
        BY <1>11, <4>1, <4>3
      <4> QED
        BY <4>2, <4>3
    <3> QED
      BY <3>1, <3>2
  <2> QED
    BY <2>1, <2>3, SlotEqual
<1>12. ASSUME NEW u \in SlotsIn(h, r), OnHeap(ObjectAt(h, r, u))
       PROVE  \E w \in SlotsIn(g, r) : back(w) = u
  <2>1. CASE u.at = 0 \/ u.in # c
    <3>1. u \in SlotsIn(g, r)
      BY <1>7, <2>1 DEF SlotsIn
    <3> QED
      BY <2>1, <3>1
  <2>2. CASE u.at # 0 /\ u.in = c
    <3>1. u \in [in : Cell, at : Nat \ {0}] /\ u.at \in DOMAIN kids /\ ObjectAt(h, r, u) = kids[u.at][2]
      BY <2>2 DEF SlotsIn, ObjectAt, kids
    <3>2. u.at # i
      BY <1>3, <1>12, <3>1
    <3> DEFINE j == IF u.at < i THEN u.at ELSE u.at - 1
               w == [in |-> c, at |-> j]
    <3>3. j \in 1 .. (Len(kids) - 1) /\ j \in Nat \ {0}
      BY <1>4, <3>1, <3>2
    <3>4. w \in SlotsIn(g, r)
      BY <1>2, <1>6, <1>7, <3>3 DEF SlotsIn
    <3>5. back(w).in = u.in /\ back(w).at = u.at
      BY <1>4, <2>2, <3>1, <3>2, <3>3
    <3>6. back(w) \in SlotsIn(h, r)
      BY <1>10, <3>4
    <3>7. back(w) = u
      BY <3>5, <3>6, SlotEqual
    <3> QED
      BY <3>4, <3>7
  <2> QED
    BY <2>1, <2>2
<1> HIDE DEF back
<1>13. PairsWhole(g, r)
  <2> SUFFICES ASSUME NEW u \in SlotsIn(g, r), ObjectAt(g, r, u).type = "Pair"
               PROVE  Len(g[ObjectAt(g, r, u).word].kids) = 1
    BY DEF PairsWhole
  <2>1. OnHeap(ObjectAt(g, r, u))
    BY DEF OnHeap
  <2>2. back(u) \in SlotsIn(h, r) /\ ObjectAt(g, r, u) = ObjectAt(h, r, back(u))
    BY <1>10
  <2>3. ObjectAt(h, r, back(u)).word # c
    BY <1>1, <2>1, <2>2 DEF Unique, c
  <2>4. ObjectAt(h, r, back(u)).word \in Cell
    BY <1>1, <2>1, <2>2, ObjectTyped
  <2> QED
    BY <1>1, <1>7, <2>2, <2>3, <2>4 DEF PairsWhole
<1>14. Owned(g, r, L)
  <2> DEFINE to == [u \in SlotsIn(g, r) |-> back(u)]
  <2>1. to \in [SlotsIn(g, r) -> SlotsIn(h, r)] /\ \A u \in SlotsIn(g, r) : to[u] = back(u)
    BY <1>10
  <2> HIDE DEF to
  <2>2. /\ \A u \in SlotsIn(g, r) : OnHeap(ObjectAt(g, r, u)) =>
              /\ ObjectAt(h, r, to[u]) = ObjectAt(g, r, u)
              /\ u.at # 0 => to[u].at # 0 /\ to[u].in = u.in
        /\ \A u, x \in SlotsIn(g, r) :
              OnHeap(ObjectAt(g, r, u)) /\ OnHeap(ObjectAt(g, r, x)) /\ to[u] = to[x] => u = x
    BY <1>10, <1>11, <2>1
  <2>3. \A u \in SlotsIn(h, r) : OnHeap(ObjectAt(h, r, u)) =>
              \E x \in SlotsIn(g, r) : OnHeap(ObjectAt(g, r, x)) /\ to[x] = u
    BY <1>10, <1>12, <2>1
  <2> QED
    BY <1>8, <1>9, <1>13, <2>1, <2>2, <2>3, Renamed
<1> QED
  BY <1>14 DEF Cut, g, c, v

\* A cell is lost with the object that had it.
LEMMA Forgotten ==
    ASSUME NEW h, NEW r, NEW L, Owned(h, r, L), NEW s \in SlotsIn(h, r), OnHeap(ObjectAt(h, r, s)),
           NEW w \in Objects, ~OnHeap(w)
    PROVE  LET g == HeapWith(h, s, w)
               q == RootWith(r, s, w)
           IN  Owned(g, q, L \cup {ObjectAt(h, r, s).word}) /\ s \in SlotsIn(g, q) /\ ObjectAt(g, q, s) = w
<1> DEFINE v == ObjectAt(h, r, s)
           g == HeapWith(h, s, w)
           q == RootWith(r, s, w)
           M == L \cup {v.word}
<1>1. Typed(h, r, L) /\ Points(h, r, L) /\ Unique(h, r) /\ Kept(h, r, L) /\ Ranked(h) /\ PairsWhole(h, r)
  BY DEF Owned
<1>2. v.word \in Cell /\ h[v.word].live
  BY <1>1, ObjectTyped DEF Points
<1>3. /\ Typed(g, q, L) /\ SlotsIn(g, q) = SlotsIn(h, r) /\ ObjectAt(g, q, s) = w
      /\ \A t \in SlotsIn(h, r) : t # s => ObjectAt(g, q, t) = ObjectAt(h, r, t)
      /\ \A c \in Cell : g[c].live = h[c].live /\ Len(g[c].kids) = Len(h[c].kids)
  BY <1>1, PutSlots
<1> HIDE DEF v, g, q
<1>4. Typed(g, q, M)
  BY <1>2, <1>3 DEF Typed
<1>5. ASSUME NEW t \in SlotsIn(g, q), OnHeap(ObjectAt(g, q, t))
      PROVE  /\ t \in SlotsIn(h, r) /\ t # s /\ ObjectAt(h, r, t) = ObjectAt(g, q, t)
             /\ ObjectAt(h, r, t).word # v.word /\ ObjectAt(h, r, t).word \in Cell
  <2>1. t \in SlotsIn(h, r) /\ t # s /\ ObjectAt(h, r, t) = ObjectAt(g, q, t)
    BY <1>3, <1>5
  <2> QED
    BY <1>1, <1>5, <2>1, ObjectTyped DEF Unique, v
<1>6. Points(g, q, M)
  BY <1>1, <1>3, <1>5 DEF Points
<1>7. Unique(g, q)
  BY <1>1, <1>5 DEF Unique
<1>8. Kept(g, q, M)
  <2> SUFFICES ASSUME NEW c \in Cell, g[c].live, c \notin M
               PROVE  \E t \in SlotsIn(g, q) : OnHeap(ObjectAt(g, q, t)) /\ ObjectAt(g, q, t).word = c
    BY DEF Kept
  <2>1. PICK t \in SlotsIn(h, r) : OnHeap(ObjectAt(h, r, t)) /\ ObjectAt(h, r, t).word = c
    BY <1>1, <1>3 DEF Kept
  <2>2. t # s
    BY <2>1 DEF v
  <2> QED
    BY <1>3, <2>1, <2>2
<1>9. Ranked(g)
  <2>1. PICK rank \in [Cell -> Nat] : RankOK(rank, h)
    BY <1>1 DEF Ranked
  <2>2. RankOK(rank, g)
    <3> SUFFICES ASSUME NEW c \in Cell, NEW i \in DOMAIN g[c].kids, OnHeap(g[c].kids[i][2])
                 PROVE  rank[g[c].kids[i][2].word] > rank[c]
      BY DEF RankOK
    <3> DEFINE u == [in |-> c, at |-> i]
    <3>1. u \in SlotsIn(g, q) /\ ObjectAt(g, q, u) = g[c].kids[i][2] /\ u.at # 0
      BY <1>4, MemberSlot
    <3>2. u \in SlotsIn(h, r) /\ ObjectAt(h, r, u) = g[c].kids[i][2]
      BY <1>5, <3>1
    <3>3. i \in DOMAIN h[c].kids /\ h[c].kids[i][2] = g[c].kids[i][2]
      BY <3>1, <3>2 DEF SlotsIn, ObjectAt
    <3> QED
      BY <2>1, <3>3 DEF RankOK
  <2> QED
    BY <2>2 DEF Ranked
<1>10. PairsWhole(g, q)
  <2> SUFFICES ASSUME NEW t \in SlotsIn(g, q), ObjectAt(g, q, t).type = "Pair"
               PROVE  Len(g[ObjectAt(g, q, t).word].kids) = 1
    BY DEF PairsWhole
  <2>1. OnHeap(ObjectAt(g, q, t))
    BY DEF OnHeap
  <2> QED
    BY <1>1, <1>3, <1>5, <2>1 DEF PairsWhole
<1> QED
  BY <1>3, <1>4, <1>6, <1>7, <1>8, <1>9, <1>10 DEF Owned, g, q, v

-----------------------------------------------------------------------------
(* Copies of objects of the heap *)

\* Two objects that are not within each other share no cell.
LEMMA Apart ==
    ASSUME NEW h, NEW r, NEW L, Owned(h, r, L), NEW s \in SlotsIn(h, r), NEW t \in SlotsIn(h, r), s # t,
           t.at = 0 \/ t.in \notin CellsOf(h, ObjectAt(h, r, s)),
           OnHeap(ObjectAt(h, r, s)) => s.at = 0 \/ s.in \notin CellsOf(h, ObjectAt(h, r, t))
    PROVE  CellsOf(h, ObjectAt(h, r, s)) \cap CellsOf(h, ObjectAt(h, r, t)) = {}
<1> DEFINE v == ObjectAt(h, r, s)
           w == ObjectAt(h, r, t)
           S == CellsOf(h, w) \ CellsOf(h, v)
<1>1. Typed(h, r, L) /\ Unique(h, r) /\ h \in [Cell -> CellType]
  BY DEF Owned, Typed
<1>2. CASE ~OnHeap(v) \/ ~OnHeap(w)
  BY <1>2 DEF CellsOf
<1>3. CASE OnHeap(v) /\ OnHeap(w)
  <2>1. v.word \in Cell /\ w.word \in Cell
    BY <1>1, <1>3, ObjectTyped
  <2>2. CellsOf(h, w) \subseteq Cell /\ w.word \in CellsOf(h, w) /\ Closed(h, CellsOf(h, w))
    <3> HIDE DEF w
    <3> QED
      BY <1>1, <1>3, <2>1, LeastClosed, CellsClosed
  <2>3. w.word \in S
    BY <1>1, <1>3, <2>2, OwnedWithin
  <2>4. Closed(h, S)
    <3> SUFFICES ASSUME NEW c \in S, NEW i \in DOMAIN h[c].kids, OnHeap(h[c].kids[i][2])
                 PROVE  h[c].kids[i][2].word \in S
      BY DEF Closed
    <3> DEFINE u == [in |-> c, at |-> i]
    <3>1. h[c].kids[i][2].word \in CellsOf(h, w) /\ c \in Cell
      BY <2>2 DEF Closed
    <3>2. u \in SlotsIn(h, r) /\ ObjectAt(h, r, u) = h[c].kids[i][2] /\ u.at # 0 /\ u.in = c
      BY <1>1, <3>1, MemberSlot
    <3>3. u # s
      BY <1>3, <3>2
    <3> HIDE DEF u
    <3>4. ObjectAt(h, r, u).word \notin CellsOf(h, v)
      <4> SUFFICES ASSUME ObjectAt(h, r, u).word \in CellsOf(h, v) PROVE FALSE
        OBVIOUS
      <4>1. u.in \in CellsOf(h, v)
        BY <1>1, <1>3, <3>2, <3>3, OwnedWithin
      <4> QED
        BY <3>2, <4>1
    <3> QED
      BY <3>1, <3>2, <3>4
  <2>5. S \subseteq Cell
    BY <2>2
  <2>6. CellsOf(h, w) \subseteq S
    <3> HIDE DEF w, S
    <3> QED
      BY <1>3, <2>1, <2>3, <2>4, <2>5, LeastClosed
  <2> QED
    BY <2>6
<1> QED
  BY <1>2, <1>3

\* There is room for a copy, by number.
LEMMA RoomFits ==
    ASSUME NEW h, NEW v, IsFiniteSet(Cell), Cardinality(FreeCells(h)) >= Cardinality(CellsOf(h, v))
    PROVE  Fits(h, v)
<1> DEFINE C == CellsOf(h, v)
           F == FreeCells(h)
           m == Cardinality(C)
           n == Cardinality(F)
<1>1. C \subseteq Cell /\ F \subseteq Cell
  BY DEF CellsOf, FreeCells
<1>2. IsFiniteSet(C) /\ IsFiniteSet(F)
  BY <1>1, FS_Subset
<1>3. m \in Nat /\ n \in Nat /\ ExistsBijection(1 .. m, C) /\ ExistsBijection(1 .. n, F)
  BY <1>2, FS_CardinalityType
<1>4. ExistsInjection(C, 1 .. m) /\ ExistsInjection(1 .. n, F)
  BY <1>3, Fun_ExistsBijEquiv
<1>5. m <= n
  BY <1>3
<1>6. ExistsInjection(1 .. m, 1 .. n)
  BY <1>3, <1>5, Fun_NatInjLeq
<1> HIDE DEF C, F, m, n
<1>7. ExistsInjection(C, F)
  BY <1>4, <1>6, Fun_ExistsInjTransitive
<1> QED
  BY <1>7, Fun_ExistsInj DEF Fits, C, F

\* A copy may be held.
LEMMA Held ==
    ASSUME NEW h, NEW r, NEW L, Owned(h, r, L), NEW s \in SlotsIn(h, r), Fits(h, ObjectAt(h, r, s)),
           NEW x, x \notin DOMAIN r
    PROVE  LET copy == Clone(h, ObjectAt(h, r, s))
               q == With(r, x, copy.json)
           IN  /\ Owned(copy.heap, q, L) /\ SlotsIn(h, r) \subseteq SlotsIn(copy.heap, q)
               /\ RootSlot(x) \in SlotsIn(copy.heap, q) /\ ObjectAt(copy.heap, q, RootSlot(x)) = copy.json
               /\ \A t \in SlotsIn(h, r) : ObjectAt(copy.heap, q, t) = ObjectAt(h, r, t)
               /\ \A c \in Cell : h[c].live => copy.heap[c] = h[c]
               /\ CellsOf(copy.heap, copy.json) \subseteq CopyCells(h, ObjectAt(h, r, s))
               /\ CopyCells(h, ObjectAt(h, r, s)) \subseteq FreeCells(h)
               /\ FreeCells(h) \ CopyCells(h, ObjectAt(h, r, s)) \subseteq FreeCells(copy.heap)
<1> DEFINE v == ObjectAt(h, r, s)
           k == Clone(h, v).heap
           j == Clone(h, v).json
           N == CopyCells(h, v)
<1>1. h \in [Cell -> CellType]
  BY DEF Owned, Typed
<1>2. Whole(h, CellsOf(h, v), x, v) /\ Fits(h, v)
  BY WholeOf
<1>3. /\ k \in [Cell -> CellType] /\ Whole(k, N, x, j)
      /\ (\A c \in N : ~h[c].live) /\ (\A c \in Cell \ N : k[c] = h[c])
  <2> HIDE DEF v
  <2> QED
    BY <1>1, <1>2, Cloned
<1>4. CellsOf(k, j) \subseteq N /\ N \subseteq Cell
  BY <1>3, WholeCells DEF Whole
<1>5. N \subseteq FreeCells(h) /\ FreeCells(h) \ N \subseteq FreeCells(k)
  BY <1>3, <1>4 DEF FreeCells
<1>7. \A c \in Cell : h[c].live => k[c] = h[c]
  BY <1>3
<1> HIDE DEF v, k, j, N
<1>6. /\ Owned(k, With(r, x, j), L) /\ SlotsIn(h, r) \subseteq SlotsIn(k, With(r, x, j))
      /\ RootSlot(x) \in SlotsIn(k, With(r, x, j)) /\ ObjectAt(k, With(r, x, j), RootSlot(x)) = j
      /\ \A t \in SlotsIn(h, r) : ObjectAt(k, With(r, x, j), t) = ObjectAt(h, r, t)
  BY <1>3, United
<1> QED
  BY <1>4, <1>5, <1>6, <1>7 DEF v, k, j, N

\* A copy may take the place of an object that is not around its source.
LEMMA CopiedTo ==
    ASSUME NEW h, NEW r, NEW L, Owned(h, r, L), NEW s \in SlotsIn(h, r), NEW t \in SlotsIn(h, r), s # t,
           t.at = 0 \/ t.in \notin CellsOf(h, ObjectAt(h, r, s)),
           OnHeap(ObjectAt(h, r, s)) => s.at = 0 \/ s.in \notin CellsOf(h, ObjectAt(h, r, t)),
           Fits(h, ObjectAt(h, r, t))
    PROVE  LET copy == Clone(Delete(h, ObjectAt(h, r, s)), ObjectAt(h, r, t))
               g == HeapWith(copy.heap, s, copy.json)
               q == RootWith(r, s, copy.json)
           IN  /\ Owned(g, q, L) /\ DOMAIN q = DOMAIN r
               /\ s \in SlotsIn(g, q) /\ ObjectAt(g, q, s) = copy.json
               /\ Typed(copy.heap, r, L) /\ s \in SlotsIn(copy.heap, r)
               /\ \A u \in SlotsIn(h, r) : u # s /\ (u.at = 0 \/ u.in \notin CellsOf(h, ObjectAt(h, r, s)))
                     => u \in SlotsIn(g, q) /\ ObjectAt(g, q, u) = ObjectAt(h, r, u)
               /\ \A c \in Cell \ CellsOf(h, ObjectAt(h, r, s)) : h[c].live => copy.heap[c] = h[c]
<1> DEFINE v == ObjectAt(h, r, s)
           w == ObjectAt(h, r, t)
           d == Delete(h, v)
           k == Clone(d, w).heap
           j == Clone(d, w).json
           N == CopyCells(d, w)
<1>1. Typed(h, r, L) /\ h \in [Cell -> CellType] /\ (OnHeap(w) => w.word \in Cell)
  <2>1. Typed(h, r, L)
    BY DEF Owned
  <2> QED
    BY <2>1, ObjectTyped DEF Typed
<1>2. CellsOf(h, v) \cap CellsOf(h, w) = {}
  BY Apart
<1>3. /\ d \in [Cell -> CellType] /\ FreeCells(h) \subseteq FreeCells(d)
      /\ \A c \in CellsOf(h, w) : d[c] = h[c]
  <2>1. Freed \in CellType /\ ~Freed.live
    BY DEF Freed, CellType, Kids
  <2>2. \A c \in Cell : d[c] = IF c \in CellsOf(h, v) THEN Freed ELSE h[c]
    BY DEF Delete
  <2>3. d \in [Cell -> CellType]
    BY <1>1, <2>1 DEF Delete
  <2>4. CellsOf(h, w) \subseteq Cell
    BY DEF CellsOf
  <2> HIDE DEF d
  <2> QED
    BY <1>2, <2>1, <2>2, <2>3, <2>4 DEF FreeCells
<1> HIDE DEF d
<1>4. \A x : Whole(h, CellsOf(h, w), x, w)
  BY WholeOf
<1> HIDE DEF w
<1>5. CellsOf(d, w) = CellsOf(h, w)
  BY <1>1, <1>3, CellsAgree
<1>6. \A x : Whole(d, CellsOf(d, w), x, w)
  BY <1>3, <1>4, <1>5, WholeAgrees
<1>7. Fits(d, w)
  <2>1. PICK f \in Injection(CellsOf(h, w), FreeCells(h)) : TRUE
    BY DEF Fits, w
  <2>2. f \in Injection(CellsOf(d, w), FreeCells(d))
    <3>1. f \in [CellsOf(h, w) -> FreeCells(h)] /\ IsInjective(f)
      BY <2>1 DEF Injection
    <3>2. f \in [CellsOf(d, w) -> FreeCells(d)]
      BY <1>3, <1>5, <3>1
    <3> QED
      BY <3>1, <3>2 DEF Injection
  <2> QED
    BY <2>2 DEF Fits
<1>8. Fills(k, N, d, j)
  <2>1. /\ k \in [Cell -> CellType] /\ \A x : Whole(k, N, x, j)
        /\ (\A c \in N : ~d[c].live) /\ (\A c \in Cell \ N : k[c] = d[c])
    BY <1>3, <1>6, <1>7, Cloned
  <2> QED
    BY <2>1 DEF Fills
<1>10. ASSUME NEW c \in Cell \ CellsOf(h, v), h[c].live PROVE k[c] = h[c]
  <2>1. d[c] = h[c]
    BY DEF d, Delete
  <2> HIDE DEF k, N
  <2> QED
    BY <1>8, <1>10, <2>1 DEF Fills
<1> HIDE DEF k, j, N
<1>9. /\ Owned(HeapWith(k, s, j), RootWith(r, s, j), L) /\ DOMAIN RootWith(r, s, j) = DOMAIN r
      /\ s \in SlotsIn(HeapWith(k, s, j), RootWith(r, s, j))
      /\ ObjectAt(HeapWith(k, s, j), RootWith(r, s, j), s) = j
      /\ Typed(k, r, L) /\ s \in SlotsIn(k, r)
      /\ \A u \in SlotsIn(h, r) : u # s /\ (u.at = 0 \/ u.in \notin CellsOf(h, v))
            => /\ u \in SlotsIn(HeapWith(k, s, j), RootWith(r, s, j))
               /\ ObjectAt(HeapWith(k, s, j), RootWith(r, s, j), u) = ObjectAt(h, r, u)
  BY <1>8, Replaced DEF d
<1> QED
  BY <1>9, <1>10 DEF k, j, d, w

-----------------------------------------------------------------------------
(* What is put in a slot may be put there before or after changes elsewhere *)

MemberWith(cell, i, u) == [cell EXCEPT !.kids[i][2] = u]

LEMMA PutCells ==
    ASSUME NEW h, h = [c \in Cell |-> h[c]], NEW s, NEW u
    PROVE  HeapWith(h, s, u) =
              [c \in Cell |-> IF s.at # 0 /\ c = s.in THEN MemberWith(h[c], s.at, u) ELSE h[c]]
<1>1. CASE s.at = 0
  BY <1>1 DEF HeapWith
<1>2. CASE s.at # 0
  <2>1. HeapWith(h, s, u) = [h EXCEPT ![s.in].kids[s.at][2] = u]
    BY <1>2 DEF HeapWith
  <2>2. HeapWith(h, s, u) = [h EXCEPT ![s.in] = MemberWith(@, s.at, u)]
    BY <2>1 DEF MemberWith
  <2> QED
    BY <1>2, <2>2
<1> QED
  BY <1>1, <1>2

\* A cell with another member, member by member.
LEMMA MemberIs ==
    ASSUME NEW cell \in CellType, NEW i, NEW u \in Objects
    PROVE  /\ MemberWith(cell, i, u) = [cell EXCEPT !.kids = [j \in DOMAIN cell.kids |->
                                           <<cell.kids[j][1], IF j = i THEN u ELSE cell.kids[j][2]>>]]
           /\ MemberWith(cell, i, u) \in CellType /\ MemberWith(cell, i, u).live = cell.live
           /\ i = 0 => MemberWith(cell, i, u) = cell
<1> DEFINE K == cell.kids
           M == [K EXCEPT ![i][2] = u]
           T == [j \in DOMAIN K |-> <<K[j][1], IF j = i THEN u ELSE K[j][2]>>]
<1>1. K \in Seq(Labels \X Objects) /\ DOMAIN K = 1 .. Len(K) /\ Len(K) \in Nat
  BY DEF CellType, Kids
<1>2. \A j \in DOMAIN K : K[j] \in Labels \X Objects /\ K[j] = <<K[j][1], K[j][2]>>
  BY <1>1
<1>3. MemberWith(cell, i, u) = [cell EXCEPT !.kids = M]
  BY DEF MemberWith
<1> HIDE DEF K
<1>4. M = T
  <2>1. ASSUME NEW j \in DOMAIN K PROVE M[j] = T[j]
    <3>1. CASE j = i
      <4>1. M[j] = [K[j] EXCEPT ![2] = u]
        BY <3>1
      <4>2. [<<K[j][1], K[j][2]>> EXCEPT ![2] = u] = <<K[j][1], u>>
        OBVIOUS
      <4> QED
        BY <1>2, <3>1, <4>1, <4>2
    <3>2. CASE j # i
      BY <1>2, <3>2
    <3> QED
      BY <3>1, <3>2
  <2>2. M = [j \in DOMAIN K |-> M[j]]
    OBVIOUS
  <2> HIDE DEF M
  <2> QED
    BY <2>1, <2>2
<1>5. T \in Seq(Labels \X Objects)
  <2>1. \A j \in 1 .. Len(K) : T[j] \in Labels \X Objects
    BY <1>1, <1>2
  <2>2. T \in [1 .. Len(K) -> Labels \X Objects]
    BY <1>1, <2>1
  <2> QED
    BY <1>1, <2>2
<1>6. i = 0 => T = K
  <2> SUFFICES ASSUME i = 0 PROVE T = K
    OBVIOUS
  <2>1. \A j \in DOMAIN K : T[j] = K[j]
    BY <1>1, <1>2
  <2>2. K = [j \in 1 .. Len(K) |-> K[j]]
    BY <1>1
  <2> QED
    BY <1>1, <2>1, <2>2
<1> HIDE DEF M, T
<1>7. [cell EXCEPT !.kids = T] \in CellType /\ [cell EXCEPT !.kids = T].live = cell.live
  BY <1>5 DEF CellType, Kids
<1>8. T = K => [cell EXCEPT !.kids = T] = cell
  BY DEF CellType, K
<1> QED
  BY <1>3, <1>4, <1>6, <1>7, <1>8 DEF T, K

\* A change of another cell.
LEMMA EditAside ==
    ASSUME NEW h, h = [c \in Cell |-> h[c]], NEW s, NEW u, NEW c \in Cell, s.at = 0 \/ c # s.in, NEW cell
    PROVE  [HeapWith(h, s, u) EXCEPT ![c] = cell] = HeapWith([h EXCEPT ![c] = cell], s, u)
<1> DEFINE g == [h EXCEPT ![c] = cell]
           k == HeapWith(h, s, u)
<1>1. g = [e \in Cell |-> IF e = c THEN cell ELSE h[e]]
  OBVIOUS
<1>2. \A e \in Cell : g[e] = IF e = c THEN cell ELSE h[e]
  BY <1>1
<1>3. k = [e \in Cell |-> IF s.at # 0 /\ e = s.in THEN MemberWith(h[e], s.at, u) ELSE h[e]]
  BY PutCells
<1> HIDE DEF g, k
<1>4. g = [e \in Cell |-> g[e]]
  BY <1>1
<1>5. HeapWith(g, s, u) =
         [e \in Cell |-> IF s.at # 0 /\ e = s.in THEN MemberWith(g[e], s.at, u) ELSE g[e]]
  BY <1>4, PutCells
<1>6. [k EXCEPT ![c] = cell] =
         [e \in Cell |-> IF e = c THEN cell ELSE
                         IF s.at # 0 /\ e = s.in THEN MemberWith(h[e], s.at, u) ELSE h[e]]
  BY <1>3
<1>7. HeapWith(g, s, u) =
         [e \in Cell |-> IF e = c THEN cell ELSE
                         IF s.at # 0 /\ e = s.in THEN MemberWith(h[e], s.at, u) ELSE h[e]]
  BY <1>2, <1>5
<1> QED
  BY <1>6, <1>7 DEF g, k

\* Freeing and copying an object around which the slot does not lie.
LEMMA Aside ==
    ASSUME NEW h \in [Cell -> CellType], NEW s, s.at # 0 => s.in \in Cell /\ h[s.in].live,
           NEW u \in Objects, NEW v \in Objects, s.at = 0 \/ s.in \notin CellsOf(HeapWith(h, s, u), v)
    PROVE  LET g == HeapWith(h, s, u)
           IN  /\ CellsOf(h, v) = CellsOf(g, v) /\ FreeCells(h) = FreeCells(g)
               /\ Delete(g, v) = HeapWith(Delete(h, v), s, u)
               /\ Clone(g, v).json = Clone(h, v).json
               /\ Fits(g, v) => Clone(g, v).heap = HeapWith(Clone(h, v).heap, s, u)
<1> DEFINE g == HeapWith(h, s, u)
<1>1. h \in [Cell -> CellType] /\ (s.at # 0 => s.in \in Cell /\ h[s.in].live)
  OBVIOUS
<1>2. /\ g \in [Cell -> CellType]
      /\ \A c \in Cell : g[c].live = h[c].live
      /\ \A c \in Cell : s.at = 0 \/ c # s.in => g[c] = h[c]
  <2>1. g = [c \in Cell |-> IF s.at # 0 /\ c = s.in THEN MemberWith(h[c], s.at, u) ELSE h[c]]
    BY PutCells
  <2>2. \A c \in Cell : MemberWith(h[c], s.at, u) \in CellType /\ MemberWith(h[c], s.at, u).live = h[c].live
    BY MemberIs
  <2> HIDE DEF g
  <2> QED
    BY <2>1, <2>2
<1>3. \A c \in Cell : g[c] = IF s.at # 0 /\ c = s.in THEN MemberWith(h[c], s.at, u) ELSE h[c]
  BY <1>1, PutCells
<1> HIDE DEF g
<1>4. CellsOf(h, v) = CellsOf(g, v)
  <2>1. OnHeap(v) => v.word \in Cell
    BY ObjectKinds
  <2>2. \A c \in CellsOf(g, v) : h[c] = g[c]
    BY <1>2 DEF CellsOf, g
  <2> QED
    BY <1>1, <1>2, <2>1, <2>2, CellsAgree
<1>5. FreeCells(h) = FreeCells(g)
  BY <1>2 DEF FreeCells
<1> DEFINE C == CellsOf(h, v)
<1>6. s.at = 0 \/ s.in \notin C
  BY <1>4 DEF g
<1> HIDE DEF C
<1>7. Delete(g, v) = HeapWith(Delete(h, v), s, u)
  <2> DEFINE d == Delete(h, v)
  <2>1. d = [c \in Cell |-> IF c \in C THEN Freed ELSE h[c]]
    BY DEF Delete, C
  <2>2. Delete(g, v) = [c \in Cell |-> IF c \in C THEN Freed ELSE g[c]]
    BY <1>4 DEF Delete, C
  <2> HIDE DEF d
  <2>3. HeapWith(d, s, u) =
           [c \in Cell |-> IF s.at # 0 /\ c = s.in THEN MemberWith(d[c], s.at, u) ELSE d[c]]
    <3>1. d = [c \in Cell |-> d[c]]
      BY <2>1
    <3> QED
      BY <3>1, PutCells
  <2>4. ASSUME NEW c \in Cell
        PROVE  (IF c \in C THEN Freed ELSE g[c])
                  = IF s.at # 0 /\ c = s.in THEN MemberWith(d[c], s.at, u) ELSE d[c]
    <3>1. d[c] = IF c \in C THEN Freed ELSE h[c]
      BY <2>1
    <3> QED
      BY <1>3, <1>6, <3>1
  <2> QED
    BY <2>2, <2>3, <2>4 DEF d
<1>8. CopyMap(g, v) = CopyMap(h, v)
  BY <1>4, <1>5 DEF CopyMap
<1>9. Clone(g, v).json = Clone(h, v).json
  BY <1>4, <1>5 DEF Clone
<1>10. ASSUME Fits(g, v) PROVE Clone(g, v).heap = HeapWith(Clone(h, v).heap, s, u)
  <2> DEFINE to == CopyMap(h, v)
             N == Range(to)
             from == [c \in Range(to) |-> CHOOSE d \in DOMAIN to : to[d] = c]
             copied(cell) == [cell EXCEPT !.kids = [i \in DOMAIN cell.kids |->
                                                      <<cell.kids[i][1], CopyOf(to, cell.kids[i][2])>>]]
             k == Clone(h, v).heap
  <2>1. k = [c \in Cell |-> IF c \in N THEN copied(h[from[c]]) ELSE h[c]]
    BY DEF Clone, CopyMap
  <2>2. Clone(g, v).heap = [c \in Cell |-> IF c \in N THEN copied(g[from[c]]) ELSE g[c]]
    BY <1>4, <1>5 DEF Clone, CopyMap
  <2>3. /\ DOMAIN to = C /\ N \subseteq FreeCells(h) /\ \A e \in N : \E c \in C : to[c] = e
    <3>1. Fits(h, v)
      BY <1>4, <1>5, <1>10 DEF Fits
    <3> QED
      BY <3>1, CopyMapFits DEF CopyCells, C
  <2>4. \A c \in N : from[c] \in C
    BY <2>3
  <2>5. s.at # 0 => s.in \notin N
    BY <1>1, <2>3 DEF FreeCells
  <2> HIDE DEF k, N, from, copied
  <2>6. HeapWith(k, s, u) =
           [c \in Cell |-> IF s.at # 0 /\ c = s.in THEN MemberWith(k[c], s.at, u) ELSE k[c]]
    <3>1. k = [c \in Cell |-> k[c]]
      BY <2>1
    <3> QED
      BY <3>1, PutCells
  <2>7. ASSUME NEW c \in Cell
        PROVE  (IF c \in N THEN copied(g[from[c]]) ELSE g[c])
                  = IF s.at # 0 /\ c = s.in THEN MemberWith(k[c], s.at, u) ELSE k[c]
    <3>1. k[c] = IF c \in N THEN copied(h[from[c]]) ELSE h[c]
      BY <2>1
    <3>2. c \in N => g[from[c]] = h[from[c]]
      BY <1>2, <1>6, <2>4 DEF C, CellsOf
    <3> QED
      BY <1>3, <2>5, <3>1, <3>2
  <2> QED
    BY <2>2, <2>6, <2>7 DEF k
<1> QED
  BY <1>4, <1>5, <1>7, <1>9, <1>10 DEF g

-----------------------------------------------------------------------------
(* The end of an object that an operation holds *)

\* Its destructor frees its cells,
LEMMA Dropped ==
    ASSUME NEW h, NEW r, NEW L, Owned(h, r, L), NEW x \in DOMAIN r
    PROVE  Owned(Delete(h, r[x]), Without(r, x), L)
<1> DEFINE s == RootSlot(x)
           d == Delete(h, r[x])
           q == RootWith(r, s, Null)
<1>1. Null \in Objects /\ ~OnHeap(Null)
  BY DEF Null, Json, Objects, OnHeap
<1>2. s \in SlotsIn(h, r) /\ ObjectAt(h, r, s) = r[x] /\ s.at = 0 /\ s.in = x
  BY DEF RootSlot, SlotsIn, ObjectAt
<1>3. HeapWith(d, s, Null) = d /\ q = [r EXCEPT ![x] = Null]
  BY <1>2 DEF HeapWith, RootWith
<1> HIDE DEF s, d, q
<1>4. Owned(HeapWith(Delete(h, ObjectAt(h, r, s)), s, Null), RootWith(r, s, Null), L)
  BY <1>1, <1>2, Released
<1>5. Owned(d, q, L)
  BY <1>2, <1>3, <1>4 DEF d, q
<1>6. x \in DOMAIN q /\ q[x] = Null
  BY <1>3
<1>7. Owned(d, Without(q, x), L)
  BY <1>1, <1>5, <1>6, Done
<1>8. Without(q, x) = Without(r, x)
  BY <1>3 DEF Without
<1> QED
  BY <1>7, <1>8 DEF d

\* or it becomes a member.
LEMMA AppendedWith ==
    ASSUME NEW h, NEW r, NEW L, Owned(h, r, L), NEW x \in DOMAIN r, NEW s \in SlotsIn(h, r), s # RootSlot(x),
           OnHeap(ObjectAt(h, r, s)), ObjectAt(h, r, s).type # "Pair", NEW label \in Labels,
           ObjectAt(h, r, s).word \notin CellsOf(h, r[x])
    PROVE  LET c == ObjectAt(h, r, s).word
           IN  Owned(Push(h, c, label, r[x]), Without(r, x), L)
<1> DEFINE c == ObjectAt(h, r, s).word
           v == r[x]
           kids == h[c].kids
           g == [h EXCEPT ![c].kids = Append(@, <<label, Null>>)]
           e == [h EXCEPT ![c].kids = Append(@, <<label, v>>)]
           n == Len(kids) + 1
           t == [in |-> c, at |-> n]
           y == RootSlot(x)
<1>1. Null \in Objects /\ ~OnHeap(Null)
  BY DEF Null, Json, Objects, OnHeap
<1>2. Typed(h, r, L) /\ h \in [Cell -> CellType] /\ c \in Cell
  <2>1. Typed(h, r, L)
    BY DEF Owned
  <2> QED
    BY <2>1, ObjectTyped DEF Typed
<1>3. v \in Objects /\ (OnHeap(v) => v.word \in Cell)
  <2>1. v \in Objects
    BY <1>2 DEF Typed
  <2> QED
    BY <2>1, ObjectKinds
<1>4. y \in SlotsIn(h, r) /\ ObjectAt(h, r, y) = v /\ y.at = 0 /\ y.in = x
  BY DEF RootSlot, SlotsIn, ObjectAt
<1>5. /\ Owned(g, r, L) /\ SlotsIn(g, r) = SlotsIn(h, r) \cup {t} /\ t \notin SlotsIn(h, r)
      /\ ObjectAt(g, r, t) = Null
      /\ (\A u \in SlotsIn(h, r) : ObjectAt(g, r, u) = ObjectAt(h, r, u))
      /\ (\A f \in Cell \ {c} : g[f] = h[f])
  <2>1. g = Push(h, ObjectAt(h, r, s).word, label, Null) /\ t = NextSlot(h, ObjectAt(h, r, s).word)
    BY DEF Push, NextSlot
  <2> HIDE DEF g, t
  <2> QED
    BY <1>1, <2>1, Appended
<1>6. kids \in Seq(Labels \X Objects) /\ <<label, Null>> \in Labels \X Objects /\ <<label, v>> \in Labels \X Objects
  BY <1>1, <1>2, <1>3 DEF CellType, Kids
<1>7. n \in Nat \ {0} /\ t.at # 0 /\ t.in = c
  BY <1>6
<1>8. e = HeapWith(g, t, v)
  <2> DEFINE more == Append(kids, <<label, Null>>)
             last == Append(kids, <<label, v>>)
  <2>1. HeapWith(g, t, v) = [g EXCEPT ![c].kids[n][2] = v]
    BY <1>7 DEF HeapWith
  <2>2. g = [h EXCEPT ![c] = [@ EXCEPT !.kids = more]] /\ e = [h EXCEPT ![c] = [@ EXCEPT !.kids = last]]
    OBVIOUS
  <2>3. [more EXCEPT ![n] = [@ EXCEPT ![2] = v]] = last
    <3>1. /\ more \in Seq(Labels \X Objects) /\ last \in Seq(Labels \X Objects)
          /\ Len(more) = n /\ Len(last) = n /\ more[n] = <<label, Null>> /\ last[n] = <<label, v>>
          /\ \A i \in 1 .. Len(kids) : more[i] = kids[i] /\ last[i] = kids[i]
      BY <1>6, AppendProperties
    <3>2. [<<label, Null>> EXCEPT ![2] = v] = <<label, v>>
      OBVIOUS
    <3> HIDE DEF more, last, n, v, kids, c
    <3> DEFINE new == [more EXCEPT ![n] = [@ EXCEPT ![2] = v]]
    <3>3. DOMAIN new = 1 .. n /\ DOMAIN last = 1 .. n /\ new = [i \in 1 .. n |-> new[i]] /\ last = [i \in 1 .. n |-> last[i]]
      <4>1. DOMAIN more = 1 .. n /\ DOMAIN last = 1 .. n /\ last = [i \in 1 .. n |-> last[i]]
        BY <3>1
      <4>2. DOMAIN new = DOMAIN more /\ new = [i \in DOMAIN more |-> new[i]]
        OBVIOUS
      <4> QED
        BY <4>1, <4>2
    <3>4. \A i \in 1 .. n : new[i] = last[i]
      <4> SUFFICES ASSUME NEW i \in 1 .. n PROVE new[i] = last[i]
        OBVIOUS
      <4>1. CASE i = n
        BY <1>7, <3>1, <3>2, <4>1
      <4>2. CASE i # n
        <5>1. i \in 1 .. Len(kids)
          BY <1>6, <4>2 DEF n
        <5> QED
          BY <3>1, <4>2, <5>1
      <4> QED
        BY <4>1, <4>2
    <3> HIDE DEF new
    <3>5. new = last
      BY <3>3, <3>4
    <3> QED
      BY <3>5 DEF new
  <2> HIDE DEF more, last, kids, n, v, g, e, c
  <2>4. g[c].kids = more /\ g = [f \in Cell |-> IF f = c THEN [h[f] EXCEPT !.kids = more] ELSE h[f]]
    BY <1>2, <2>2 DEF CellType
  <2>5. HeapWith(g, t, v) = [g EXCEPT ![c] = [@ EXCEPT !.kids = last]]
    <3>1. [g EXCEPT ![c].kids[n][2] = v] = [g EXCEPT ![c] = [@ EXCEPT !.kids = [g[c].kids EXCEPT ![n] = [@ EXCEPT ![2] = v]]]]
      OBVIOUS
    <3> QED
      BY <2>1, <2>3, <2>4, <3>1
  <2>6. [g EXCEPT ![c] = [@ EXCEPT !.kids = last]] = [f \in Cell |-> IF f = c THEN [h[f] EXCEPT !.kids = last] ELSE h[f]]
    <3>1. [[h[c] EXCEPT !.kids = more] EXCEPT !.kids = last] = [h[c] EXCEPT !.kids = last]
      BY <1>2 DEF CellType
    <3> QED
      BY <1>2, <2>4, <3>1
  <2>7. e = [f \in Cell |-> IF f = c THEN [h[f] EXCEPT !.kids = last] ELSE h[f]]
    BY <1>2, <2>2
  <2> QED
    BY <2>5, <2>6, <2>7
<1>9. c \notin CellsOf(g, v)
  <2>1. g \in [Cell -> CellType]
    BY <1>5 DEF Owned, Typed
  <2>2. \A f \in CellsOf(h, v) : g[f] = h[f]
    <3>1. CellsOf(h, v) \subseteq Cell \ {c}
      BY DEF CellsOf
    <3> QED
      BY <1>5, <3>1
  <2> HIDE DEF g, v, c
  <2>3. CellsOf(g, v) = CellsOf(h, v)
    BY <1>2, <1>3, <2>1, <2>2, CellsAgree
  <2> QED
    BY <2>3 DEF v, c
<1> HIDE DEF g, e, v, t, y, c, n, kids
<1> DEFINE k == HeapWith(HeapWith(g, t, v), y, Null)
           q == RootWith(RootWith(r, t, v), y, Null)
<1>10. Owned(k, q, L) /\ ObjectAt(k, q, y) = Null
  <2>1. /\ t \in SlotsIn(g, r) /\ y \in SlotsIn(g, r) /\ t # y /\ ObjectAt(g, r, y) = v
        /\ ~OnHeap(ObjectAt(g, r, t))
    BY <1>1, <1>4, <1>5
  <2>2. t.at = 0 \/ t.in \notin CellsOf(g, ObjectAt(g, r, y))
    BY <1>7, <1>9, <2>1
  <2>3. /\ Owned(HeapWith(HeapWith(g, t, ObjectAt(g, r, y)), y, Null),
                 RootWith(RootWith(r, t, ObjectAt(g, r, y)), y, Null), L)
        /\ ObjectAt(HeapWith(HeapWith(g, t, ObjectAt(g, r, y)), y, Null),
                    RootWith(RootWith(r, t, ObjectAt(g, r, y)), y, Null), y) = Null
    BY <1>1, <1>5, <2>1, <2>2, Moved
  <2> QED
    BY <2>1, <2>3
<1>11. k = e /\ q = [r EXCEPT ![x] = Null]
  BY <1>4, <1>7, <1>8 DEF HeapWith, RootWith
<1>12. x \in DOMAIN q /\ q[x] = Null /\ Without(q, x) = Without(r, x)
  BY <1>11 DEF Without
<1>13. Owned(e, Without(q, x), L)
  BY <1>1, <1>10, <1>11, <1>12, Done
<1> QED
  BY <1>12, <1>13 DEF Push, e, v, c

-----------------------------------------------------------------------------
(* The operations *)

IInv == DOMAIN root = Var /\ Owned(heap, root, lost)

\* The slots of the state are those of its heap and variables.
LEMMA Here ==
    ASSUME IInv
    PROVE  /\ Typed(heap, root, lost) /\ Owned(heap, root, lost) /\ Slots = SlotsIn(heap, root)
           /\ \A s \in Slots : Object(s) = ObjectAt(heap, root, s)
<1>1. Typed(heap, root, lost) /\ Owned(heap, root, lost) /\ DOMAIN root = Var
  BY DEF IInv, Owned
<1>2. \A c \in Cell : heap[c].kids \in Seq(Labels \X Objects)
  BY <1>1 DEF Typed, CellType, Kids
<1>3. \A c \in Cell : \A i \in DOMAIN heap[c].kids : i \in Nat \ {0}
  BY <1>2
<1>4. Slots = SlotsIn(heap, root)
  BY <1>1, <1>3 DEF Slots, SlotsIn
<1>5. \A s : Object(s) = ObjectAt(heap, root, s)
  BY DEF Object, ObjectAt
<1> QED
  BY <1>1, <1>4, <1>5

\* What is put in a slot.
LEMMA PutIs ==
    ASSUME NEW s, NEW h, NEW v, Put(s, h, v)
    PROVE  root' = RootWith(root, s, v) /\ heap' = HeapWith(h, s, v)
  BY DEF Put, RootWith, HeapWith

\* Free cells in numbers.
LEMMA RoomFor ==
    ASSUME NEW h, Cardinality(FreeCells(h)) >= 1
    PROVE  /\ FreeCells(h) # {}
           /\ Cardinality(FreeCells(h)) >= 2 => \A a : FreeCells(h) \ {a} # {}
           /\ Cardinality(FreeCells(h)) >= 3 => \A a, b : FreeCells(h) \ {a, b} # {}
<1> DEFINE F == FreeCells(h)
<1>1. IsFiniteSet(F) /\ Cardinality(F) \in Nat
  <2>1. IsFiniteSet(F)
    BY CellAssumption, FS_Subset DEF FreeCells
  <2> QED
    BY <2>1, FS_CardinalityType
<1> HIDE DEF F
<1>2. F # {}
  BY <1>1, FS_EmptySet DEF F
<1>3. ASSUME NEW a PROVE IsFiniteSet(F \ {a}) /\ Cardinality(F \ {a}) \in Nat /\ Cardinality(F \ {a}) >= Cardinality(F) - 1
  <2>1. IsFiniteSet(F \ {a}) /\ Cardinality(F \ {a}) = IF a \in F THEN Cardinality(F) - 1 ELSE Cardinality(F)
    BY <1>1, FS_RemoveElement
  <2>2. Cardinality(F \ {a}) \in Nat
    BY <2>1, FS_CardinalityType
  <2> QED
    BY <1>1, <2>1, <2>2
<1>4. ASSUME NEW a, Cardinality(F) >= 2 PROVE F \ {a} # {}
  BY <1>1, <1>3, <1>4, FS_EmptySet
<1>5. ASSUME NEW a, NEW b, Cardinality(F) >= 3 PROVE F \ {a, b} # {}
  <2> DEFINE G == F \ {a}
  <2>1. IsFiniteSet(G) /\ Cardinality(G) \in Nat /\ Cardinality(G) >= 2
    BY <1>1, <1>3, <1>5
  <2>2. G \ {b} = F \ {a, b}
    OBVIOUS
  <2> HIDE DEF G
  <2>3. Cardinality(G \ {b}) = IF b \in G THEN Cardinality(G) - 1 ELSE Cardinality(G)
    BY <2>1, FS_RemoveElement
  <2>4. Cardinality(G \ {b}) >= 1
    BY <2>1, <2>3
  <2> QED
    BY <2>2, <2>4, FS_EmptySet
<1> QED
  BY <1>2, <1>4, <1>5 DEF F

\* The cell of an object does not have its slot, and changes besides it.
LEMMA OwnCell ==
    ASSUME NEW k, NEW r, NEW L, NEW s, Typed(k, r, L), s \in SlotsIn(k, r), NEW u \in Objects, OnHeap(u),
           Owned(HeapWith(k, s, u), RootWith(r, s, u), L)
    PROVE  LET c == u.word g == HeapWith(k, s, u)
           IN  /\ c \in Cell /\ (s.at = 0 \/ c # s.in) /\ g[c] = k[c]
               /\ \A cell : [g EXCEPT ![c] = cell] = HeapWith([k EXCEPT ![c] = cell], s, u)
<1> DEFINE c == u.word
           g == HeapWith(k, s, u)
           q == RootWith(r, s, u)
<1>1. c \in Cell
  BY ObjectKinds
<1>2. /\ s \in SlotsIn(g, q) /\ ObjectAt(g, q, s) = u
      /\ \A e \in Cell : s.at = 0 \/ e # s.in => g[e] = k[e]
  BY PutSlots
<1>3. s.at = 0 \/ c # s.in
  <2>1. Typed(g, q, L) /\ Ranked(g)
    BY DEF Owned
  <2>2. s.at # 0 => s.in \notin CellsOf(g, u)
    BY <1>2, <2>1, NotWithin
  <2>3. c \in CellsOf(g, u)
    BY <1>1, LeastClosed
  <2> QED
    BY <2>2, <2>3
<1>4. k = [e \in Cell |-> k[e]]
  BY DEF Typed
<1>5. \A cell : [g EXCEPT ![c] = cell] = HeapWith([k EXCEPT ![c] = cell], s, u)
  BY <1>1, <1>3, <1>4, EditAside
<1> QED
  BY <1>1, <1>2, <1>3, <1>5

LEMMA BecomeOwned ==
    ASSUME IInv, NEW s \in Slots, NEW type \in {"Object", "Array", "Pair", "FIOObject"}, Become(s, type)
    PROVE  IInv'
<1> DEFINE set == SetType(heap, ObjectAt(heap, root, s), type)
           g == HeapWith(set.heap, s, set.json)
           q == RootWith(root, s, set.json)
<1>1. Owned(heap, root, lost) /\ s \in SlotsIn(heap, root) /\ Object(s) = ObjectAt(heap, root, s)
  BY Here
<1>2. Cardinality(FreeCells(heap)) >= 3 /\ Put(s, set.heap, set.json) /\ lost' = lost
  BY <1>1 DEF Become, Room
<1>3. FreeCells(heap) # {} /\ \A a, b : FreeCells(heap) \ {a, b} # {}
  <2>1. Cardinality(FreeCells(heap)) >= 1
    <3>1. IsFiniteSet(FreeCells(heap))
      BY CellAssumption, FS_Subset DEF FreeCells
    <3>2. Cardinality(FreeCells(heap)) \in Nat
      BY <3>1, FS_CardinalityType
    <3> QED
      BY <1>2, <3>2
  <2> QED
    BY <1>2, <2>1, RoomFor
<1>4. type \in HeapTypes \cup {"Integral"}
  BY DEF HeapTypes
<1>5. Owned(g, q, lost) /\ DOMAIN q = DOMAIN root
  <2>1. Spare(heap, type)
    BY <1>3 DEF Spare
  <2> QED
    BY <1>1, <1>4, <2>1, Retyped
<1> HIDE DEF set
<1>6. root' = q /\ heap' = g
  BY <1>2, PutIs
<1> QED
  BY <1>2, <1>5, <1>6 DEF IInv

LEMMA AssignScalarOwned ==
    ASSUME IInv, NEW s \in Slots, NEW type \in {"Integral", "String"}, NEW d \in Datum, AssignScalar(s, type, d)
    PROVE  IInv'
<1> DEFINE set == SetType(heap, ObjectAt(heap, root, s), type)
           g == HeapWith(set.heap, s, set.json)
           q == RootWith(root, s, set.json)
<1>1. Owned(heap, root, lost) /\ s \in SlotsIn(heap, root) /\ Object(s) = ObjectAt(heap, root, s)
  BY Here
<1>2. Spare(heap, type) /\ lost' = lost
  <2>1. Cardinality(FreeCells(heap)) >= 1 /\ lost' = lost
    BY DEF AssignScalar, Room
  <2> QED
    BY <2>1, RoomFor DEF Spare
<1>3. type \in HeapTypes \cup {"Integral"} /\ type # "FIOObject"
  BY DEF HeapTypes
<1>4. /\ Owned(g, q, lost) /\ DOMAIN q = DOMAIN root /\ s \in SlotsIn(g, q) /\ ObjectAt(g, q, s) = set.json
      /\ set.json.type = type /\ Typed(set.heap, root, lost) /\ s \in SlotsIn(set.heap, root)
  BY <1>1, <1>2, <1>3, Retyped
<1>5. set.json \in Objects /\ Typed(g, q, lost)
  <2>1. Typed(g, q, lost)
    BY <1>4 DEF Owned
  <2> QED
    BY <1>4, <2>1, ObjectTyped
<1>6. DOMAIN root = Var
  BY DEF IInv
<1>7. CASE type = "Integral"
  <2> DEFINE v == Json(type, d)
  <2>1. v \in Objects /\ ~OnHeap(v) /\ ~OnHeap(set.json)
    BY <1>4, <1>7 DEF Json, Objects, OnHeap
  <2>2. Put(s, set.heap, v)
    BY <1>1, <1>7 DEF AssignScalar
  <2> HIDE DEF v, set
  <2>3. root' = RootWith(root, s, v) /\ heap' = HeapWith(set.heap, s, v)
    BY <2>2, PutIs
  <2>4. Delete(g, set.json) = g
    BY <1>5, <2>1 DEF Delete, CellsOf, Typed
  <2>5. HeapWith(g, s, v) = HeapWith(set.heap, s, v)
    BY <1>4, <1>5, <2>1, PutTwice
  <2>6. RootWith(q, s, v) = RootWith(root, s, v)
    BY DEF RootWith
  <2> HIDE DEF g, q
  <2>7. Owned(HeapWith(Delete(g, ObjectAt(g, q, s)), s, v), RootWith(q, s, v), lost) /\ DOMAIN RootWith(q, s, v) = DOMAIN q
    BY <1>4, <2>1, Released
  <2> QED
    BY <1>2, <1>4, <1>6, <2>3, <2>4, <2>5, <2>6, <2>7 DEF IInv
<1>8. CASE type = "String"
  <2> DEFINE c == set.json.word
             k == [set.heap EXCEPT ![c].data = d]
             e == [g EXCEPT ![c].data = d]
  <2>1. OnHeap(set.json)
    BY <1>4, <1>8 DEF OnHeap
  <2>2. Put(s, k, set.json)
    BY <1>1, <1>8 DEF AssignScalar
  <2>3. root' = q /\ heap' = HeapWith(k, s, set.json)
    BY <2>2, PutIs
  <2>4. /\ c \in Cell /\ g[c] = set.heap[c]
        /\ \A cell : [g EXCEPT ![c] = cell] = HeapWith([set.heap EXCEPT ![c] = cell], s, set.json)
    BY <1>4, <1>5, <2>1, OwnCell
  <2>5. g \in [Cell -> CellType]
    BY <1>5 DEF Typed
  <2> HIDE DEF set, g, q
  <2>6. e = HeapWith(k, s, set.json)
    <3>1. e = [g EXCEPT ![c] = [g[c] EXCEPT !.data = d]]
      OBVIOUS
    <3>2. k = [set.heap EXCEPT ![c] = [set.heap[c] EXCEPT !.data = d]]
      OBVIOUS
    <3> QED
      BY <2>4, <3>1, <3>2
  <2>7. /\ e \in [Cell -> CellType]
        /\ \A f \in Cell : e[f].live = g[f].live /\ e[f].kids = g[f].kids
    BY <2>4, <2>5 DEF CellType
  <2> HIDE DEF e, k
  <2>8. Owned(e, q, lost)
    BY <1>4, <2>7, SameMembers
  <2> QED
    BY <1>2, <1>4, <1>6, <2>3, <2>6, <2>8 DEF IInv
<1> QED
  BY <1>7, <1>8

LEMMA DestroyOwned ==
    ASSUME IInv, NEW x \in Var, Destroy(x)
    PROVE  IInv'
<1> DEFINE s == RootSlot(x)
<1>1. Owned(heap, root, lost) /\ s \in SlotsIn(heap, root) /\ ObjectAt(heap, root, s) = root[x] /\ DOMAIN root = Var
  BY DEF IInv, RootSlot, SlotsIn, ObjectAt
<1>2. Put(s, Delete(heap, root[x]), Null) /\ lost' = lost
  BY DEF Destroy, RootSlot
<1>3. Null \in Objects /\ ~OnHeap(Null)
  BY DEF Null, Json, Objects, OnHeap
<1> HIDE DEF s
<1>4. root' = RootWith(root, s, Null) /\ heap' = HeapWith(Delete(heap, root[x]), s, Null)
  BY <1>2, PutIs
<1>5. /\ Owned(HeapWith(Delete(heap, ObjectAt(heap, root, s)), s, Null), RootWith(root, s, Null), lost)
      /\ DOMAIN RootWith(root, s, Null) = DOMAIN root
  BY <1>1, <1>3, Released
<1> QED
  BY <1>1, <1>2, <1>4, <1>5 DEF IInv

LEMMA AddMemberOwned ==
    ASSUME IInv, NEW s \in Slots, NEW type \in {"Object", "Array"}, NEW label \in Labels, AddMember(s, type, label)
    PROVE  IInv'
<1> DEFINE set == SetType(heap, ObjectAt(heap, root, s), type)
           g == HeapWith(set.heap, s, set.json)
           q == RootWith(root, s, set.json)
           c == set.json.word
<1>1. /\ Owned(heap, root, lost) /\ s \in SlotsIn(heap, root) /\ Object(s) = ObjectAt(heap, root, s)
      /\ DOMAIN root = Var
  BY Here DEF IInv
<1>2. Spare(heap, type) /\ lost' = lost
  <2>1. Cardinality(FreeCells(heap)) >= 1 /\ lost' = lost
    BY DEF AddMember, Room
  <2> QED
    BY <2>1, RoomFor DEF Spare
<1>3. type \in HeapTypes \cup {"Integral"}
  BY DEF HeapTypes
<1>4. /\ Owned(g, q, lost) /\ DOMAIN q = DOMAIN root /\ s \in SlotsIn(g, q) /\ ObjectAt(g, q, s) = set.json
      /\ set.json.type = type /\ Typed(set.heap, root, lost) /\ s \in SlotsIn(set.heap, root)
  BY <1>1, <1>2, <1>3, Retyped
<1>5. set.json \in Objects /\ OnHeap(set.json) /\ set.json.type # "Pair"
  <2>1. Typed(g, q, lost)
    BY <1>4 DEF Owned
  <2> QED
    BY <1>4, <2>1, ObjectTyped DEF OnHeap
<1>6. Put(s, Push(set.heap, c, label, Null), set.json)
  BY <1>1 DEF AddMember, Push
<1>7. /\ c \in Cell /\ g[c] = set.heap[c]
      /\ \A cell : [g EXCEPT ![c] = cell] = HeapWith([set.heap EXCEPT ![c] = cell], s, set.json)
  BY <1>4, <1>5, OwnCell
<1>8. Null \in Objects /\ ~OnHeap(Null)
  BY DEF Null, Json, Objects, OnHeap
<1> HIDE DEF set
<1>9. root' = q /\ heap' = HeapWith(Push(set.heap, c, label, Null), s, set.json)
  BY <1>6, PutIs
<1> HIDE DEF g, q
<1>10. Push(g, c, label, Null) = HeapWith(Push(set.heap, c, label, Null), s, set.json)
  <2> DEFINE cell == [g[c] EXCEPT !.kids = Append(g[c].kids, <<label, Null>>)]
  <2>1. Push(g, c, label, Null) = [g EXCEPT ![c] = cell]
    BY DEF Push
  <2>2. Push(set.heap, c, label, Null) = [set.heap EXCEPT ![c] = cell]
    BY <1>7 DEF Push
  <2> HIDE DEF cell
  <2> QED
    BY <1>7, <2>1, <2>2
<1>11. Owned(Push(g, c, label, Null), q, lost)
  BY <1>4, <1>5, <1>8, Appended
<1> QED
  BY <1>1, <1>2, <1>4, <1>9, <1>10, <1>11 DEF IInv

LEMMA AssignHashOwned ==
    ASSUME IInv, NEW s \in Slots, NEW d \in Datum, AssignHash(s, d)
    PROVE  IInv'
<1> DEFINE set == SetType(heap, ObjectAt(heap, root, s), "Hash")
           g == HeapWith(set.heap, s, set.json)
           q == RootWith(root, s, set.json)
           old == set.json.word
           c == Fresh(set.heap)
           cell == [live |-> TRUE, data |-> d, kids |-> <<>>]
           v == Json("Hash", c)
           k == [set.heap EXCEPT ![c] = cell]
<1>1. /\ Owned(heap, root, lost) /\ s \in SlotsIn(heap, root) /\ Object(s) = ObjectAt(heap, root, s)
      /\ DOMAIN root = Var
  BY Here DEF IInv
<1>2. Spare(heap, "Hash") /\ (\A a : FreeCells(heap) \ {a} # {}) /\ lost' = lost \cup {old}
  <2>1. Cardinality(FreeCells(heap)) >= 2 /\ lost' = lost \cup {old}
    BY <1>1 DEF AssignHash, Room
  <2>2. IsFiniteSet(FreeCells(heap))
    BY CellAssumption, FS_Subset DEF FreeCells
  <2>3. Cardinality(FreeCells(heap)) \in Nat
    BY <2>2, FS_CardinalityType
  <2>4. Cardinality(FreeCells(heap)) >= 1
    BY <2>1, <2>3
  <2> QED
    BY <2>1, <2>4, RoomFor DEF Spare
<1>3. "Hash" \in HeapTypes \cup {"Integral"} /\ "Hash" # "FIOObject" /\ "Hash" \in HeapTypes /\ "Hash" # "Pair"
  BY DEF HeapTypes
<1>4. /\ Owned(g, q, lost) /\ DOMAIN q = DOMAIN root /\ s \in SlotsIn(g, q) /\ ObjectAt(g, q, s) = set.json
      /\ set.json.type = "Hash" /\ Typed(set.heap, root, lost) /\ s \in SlotsIn(set.heap, root)
      /\ FreeCells(heap) \ {old} \subseteq FreeCells(set.heap)
  BY <1>1, <1>2, <1>3, Retyped
<1>5. set.json \in Objects /\ OnHeap(set.json)
  <2>1. Typed(g, q, lost)
    BY <1>4 DEF Owned
  <2> QED
    BY <1>4, <2>1, ObjectTyped DEF OnHeap
<1>6. Put(s, k, v)
  BY <1>1 DEF AssignHash
<1>7. Null \in Objects /\ ~OnHeap(Null)
  BY DEF Null, Json, Objects, OnHeap
<1>8. c \in Cell /\ ~set.heap[c].live
  <2>1. FreeCells(set.heap) # {}
    BY <1>2, <1>4
  <2> QED
    BY <2>1 DEF Fresh, FreeCells
<1>9. s.at = 0 \/ c # s.in
  <2>1. set.heap[c].kids = <<>>
    BY <1>4, <1>8 DEF Typed
  <2> QED
    BY <1>4, <2>1 DEF SlotsIn
<1>10. v \in Objects /\ cell \in CellType
  BY <1>3, <1>8 DEF Json, Objects, CellType, Kids
<1> HIDE DEF set, c, v, cell
<1>11. root' = RootWith(root, s, v) /\ heap' = HeapWith(k, s, v)
  BY <1>6, PutIs
\* The first cell is lost.
<1> DEFINE g0 == HeapWith(set.heap, s, Null)
           q0 == RootWith(root, s, Null)
<1>12. Owned(g0, q0, lost \cup {old}) /\ s \in SlotsIn(g0, q0) /\ ObjectAt(g0, q0, s) = Null
  <2>1. /\ Owned(HeapWith(g, s, Null), RootWith(q, s, Null), lost \cup {ObjectAt(g, q, s).word})
        /\ s \in SlotsIn(HeapWith(g, s, Null), RootWith(q, s, Null))
        /\ ObjectAt(HeapWith(g, s, Null), RootWith(q, s, Null), s) = Null
    BY <1>4, <1>5, <1>7, Forgotten
  <2>2. HeapWith(g, s, Null) = g0
    BY <1>4, <1>5, <1>7, PutTwice
  <2>3. RootWith(q, s, Null) = q0
    BY DEF RootWith
  <2> HIDE DEF g, q, g0, q0
  <2> QED
    BY <1>4, <2>1, <2>2, <2>3
\* The second one takes the slot.
<1> DEFINE e == [g0 EXCEPT ![c] = cell]
<1>13. Typed(g0, q0, lost \cup {old}) /\ g0 \in [Cell -> CellType] /\ g0[c] = set.heap[c]
  <2>1. Typed(g0, q0, lost \cup {old})
    BY <1>12 DEF Owned
  <2>2. g0[c] = set.heap[c]
    BY <1>4, <1>7, <1>8, <1>9, PutSlots
  <2> QED
    BY <2>1, <2>2 DEF Typed
<1>14. e = HeapWith(k, s, Null)
  <2>1. set.heap = [f \in Cell |-> set.heap[f]]
    BY <1>4 DEF Typed
  <2> QED
    BY <1>8, <1>9, <2>1, EditAside
<1>15. HeapWith(e, s, v) = HeapWith(k, s, v) /\ RootWith(q0, s, v) = RootWith(root, s, v)
  <2>1. set.heap \in [Cell -> CellType] /\ k \in [Cell -> CellType] /\ \A f \in Cell : f # c => k[f] = set.heap[f]
    BY <1>4, <1>8, <1>10 DEF Typed
  <2>2. k[c] = cell /\ cell.live
    BY <1>4, <1>8 DEF Typed, cell
  <2> HIDE DEF k
  <2>3. Typed(k, root, lost)
    <3>1. \A f \in Cell : ~k[f].live => k[f].kids = <<>> /\ f \notin lost
      BY <1>4, <2>1, <2>2 DEF Typed
    <3> QED
      BY <1>4, <2>1, <3>1 DEF Typed
  <2>4. s \in SlotsIn(k, root)
    BY <1>4, <1>9, <2>1 DEF SlotsIn
  <2>5. HeapWith(HeapWith(k, s, Null), s, v) = HeapWith(k, s, v)
    BY <1>7, <1>10, <2>3, <2>4, PutTwice
  <2> QED
    BY <1>14, <2>5 DEF RootWith
<1> HIDE DEF g, q, g0, q0, k
<1>16. e \in [Cell -> CellType] /\ e[c] = cell /\ cell.live /\ cell.kids = <<>> /\ \A f \in Cell \ {c} : e[f] = g0[f]
  BY <1>8, <1>10, <1>13 DEF cell
<1> HIDE DEF e
<1>17. Fills(e, {c}, Delete(g0, ObjectAt(g0, q0, s)), v)
  <2>1. \A x : Whole(e, {c}, x, v)
    BY <1>3, <1>8, <1>16, OneCell DEF v
  <2>2. Delete(g0, ObjectAt(g0, q0, s)) = g0
    BY <1>7, <1>12, <1>13 DEF Delete, CellsOf
  <2> QED
    BY <1>8, <1>13, <1>16, <2>1, <2>2 DEF Fills
<1>18. Owned(HeapWith(e, s, v), RootWith(q0, s, v), lost \cup {old})
  BY <1>12, <1>17, Replaced
<1>19. DOMAIN RootWith(root, s, v) = DOMAIN root
  BY DEF RootWith
<1> QED
  BY <1>1, <1>2, <1>11, <1>15, <1>18, <1>19 DEF IInv

LEMMA EraseMemberOwned ==
    ASSUME IInv, NEW s \in Slots, Object(s).type = "Object", NEW i \in DOMAIN heap[Object(s).word].kids,
           EraseMember(s, i)
    PROVE  IInv'
<1> DEFINE v == ObjectAt(heap, root, s)
           c == v.word
           w == heap[c].kids[i][2]
           h == Delete(heap, w)
           t == [in |-> c, at |-> i]
           g == HeapWith(h, t, Null)
<1>1. /\ Owned(heap, root, lost) /\ s \in SlotsIn(heap, root) /\ Object(s) = v
      /\ DOMAIN root = Var /\ Typed(heap, root, lost) /\ heap \in [Cell -> CellType] /\ Ranked(heap)
  BY Here DEF IInv, Typed, Owned
<1>2. v \in Objects /\ OnHeap(v) /\ v.type # "Pair" /\ c \in Cell /\ i \in DOMAIN heap[c].kids
  BY <1>1, ObjectTyped DEF OnHeap
<1>3. /\ heap' = [h EXCEPT ![c].kids = SubSeq(@, 1, i - 1) \o SubSeq(@, i + 1, Len(@))]
      /\ root' = root /\ lost' = lost
  BY <1>1 DEF EraseMember
<1>4. t \in SlotsIn(heap, root) /\ ObjectAt(heap, root, t) = w /\ t.at # 0 /\ t.in = c /\ t.at = i /\ i \in Nat \ {0}
  BY <1>1, <1>2, MemberSlot
<1>5. Null \in Objects /\ ~OnHeap(Null)
  BY DEF Null, Json, Objects, OnHeap
<1>6. c \notin CellsOf(heap, w)
  <2>1. CASE OnHeap(w)
    BY <1>1, <1>4, <2>1, NotWithin
  <2>2. CASE ~OnHeap(w)
    BY <2>2 DEF CellsOf
  <2> QED
    BY <2>1, <2>2
<1>7. s # t /\ (s.at = 0 \/ s.in \notin CellsOf(heap, w))
  <2>1. s # t
    <3>1. SUFFICES ASSUME s = t PROVE FALSE
      OBVIOUS
    <3>2. v = w
      BY <1>4, <3>1
    <3>3. c \in CellsOf(heap, w)
      BY <1>2, <3>2, LeastClosed
    <3> QED
      BY <1>6, <3>3
  <2>2. ASSUME s.at # 0, s.in \in CellsOf(heap, w) PROVE FALSE
    <3>1. Closed(heap, CellsOf(heap, w))
      BY <1>1, CellsClosed
    <3>2. s.at \in DOMAIN heap[s.in].kids /\ heap[s.in].kids[s.at][2] = v
      BY <1>1, <2>2 DEF SlotsIn, ObjectAt
    <3>3. c \in CellsOf(heap, w)
      BY <1>2, <2>2, <3>1, <3>2 DEF Closed
    <3> QED
      BY <1>6, <3>3
  <2> QED
    BY <2>1, <2>2
<1> HIDE DEF t
<1>8. /\ Owned(g, root, lost) /\ s \in SlotsIn(g, root) /\ ObjectAt(g, root, s) = v
      /\ ObjectAt(g, root, t) = Null /\ Typed(h, root, lost) /\ t \in SlotsIn(h, root)
  <2>1. RootWith(root, t, Null) = root
    BY <1>4 DEF RootWith
  <2>2. LET old == ObjectAt(heap, root, t)
            d == Delete(heap, old)
            k == HeapWith(d, t, Null)
            q == RootWith(root, t, Null)
        IN  /\ Owned(k, q, lost) /\ DOMAIN q = DOMAIN root
            /\ Typed(d, root, lost) /\ t \in SlotsIn(d, root)
            /\ SlotsIn(k, q) = {u \in SlotsIn(heap, root) : u.at = 0 \/ u.in \notin CellsOf(heap, old)}
            /\ \A u \in SlotsIn(k, q) : u # t => ObjectAt(k, q, u) = ObjectAt(heap, root, u)
            /\ ObjectAt(k, q, t) = Null
    BY <1>1, <1>4, <1>5, Released
  <2> HIDE DEF g, h, v
  <2> QED
    BY <1>1, <1>4, <1>7, <2>1, <2>2 DEF g, h, v
<1>9. h[c] = heap[c] /\ h \in [Cell -> CellType]
  BY <1>2, <1>6, <1>8 DEF Delete, Typed
<1> DEFINE K == heap[c].kids
           M == [K EXCEPT ![i][2] = Null]
           rest == SubSeq(K, 1, i - 1) \o SubSeq(K, i + 1, Len(K))
<1>10. g[c].kids = M /\ g = [h EXCEPT ![c] = [h[c] EXCEPT !.kids = M]]
  <2>1. g = [h EXCEPT ![c].kids[i][2] = Null]
    BY <1>4 DEF HeapWith
  <2>2. g = [h EXCEPT ![c] = [h[c] EXCEPT !.kids = [h[c].kids EXCEPT ![i][2] = Null]]]
    BY <2>1
  <2> HIDE DEF g, h
  <2> QED
    BY <1>2, <1>9, <2>2 DEF CellType
<1>11. SubSeq(M, 1, i - 1) \o SubSeq(M, i + 1, Len(M)) = rest /\ i \in DOMAIN M /\ ~OnHeap(M[i][2])
  <2>1. K \in Seq(Labels \X Objects) /\ M \in Seq(Labels \X Objects) /\ Len(M) = Len(K) /\ i \in 1 .. Len(K) /\ M[i][2] = Null
    <3>1. K \in Seq(Labels \X Objects) /\ i \in 1 .. Len(K)
      BY <1>1, <1>2 DEF CellType, Kids
    <3>2. K[i] \in Labels \X Objects
      BY <3>1
    <3>3. [K[i] EXCEPT ![2] = Null] \in Labels \X Objects /\ [K[i] EXCEPT ![2] = Null][2] = Null
      BY <1>5, <3>2
    <3>4. M = [K EXCEPT ![i] = [K[i] EXCEPT ![2] = Null]]
      OBVIOUS
    <3> HIDE DEF K, M
    <3> QED
      BY <3>1, <3>3, <3>4
  <2>2. \A j \in 1 .. Len(K) : j # i => M[j] = K[j]
    BY <2>1
  <2> HIDE DEF K, M
  <2>3. SubSeq(M, 1, i - 1) = SubSeq(K, 1, i - 1)
    BY <2>1, <2>2
  <2>4. SubSeq(M, i + 1, Len(M)) = SubSeq(K, i + 1, Len(K))
    <3>1. i + 1 \in Int /\ Len(K) \in Int /\ \A j \in i + 1 .. Len(K) : M[j] = K[j] /\ M[j] \in Labels \X Objects
      <4>1. i + 1 \in Int /\ Len(K) \in Nat /\ DOMAIN M = 1 .. Len(K)
        BY <2>1
      <4>2. ASSUME NEW j \in i + 1 .. Len(K) PROVE j \in 1 .. Len(K) /\ j # i
        BY <2>1
      <4>3. \A j \in 1 .. Len(K) : M[j] \in Labels \X Objects
        BY <2>1
      <4> QED
        BY <2>2, <4>1, <4>2, <4>3
    <3> DEFINE X == SubSeq(M, i + 1, Len(K)) Y == SubSeq(K, i + 1, Len(K))
    <3>2. /\ X \in Seq(Labels \X Objects) /\ Len(X) = (IF i + 1 <= Len(K) THEN Len(K) - (i + 1) + 1 ELSE 0)
          /\ \A j \in 1 .. Len(K) - (i + 1) + 1 : X[j] = M[i + 1 + j - 1]
      BY <3>1, SubSeqProperties
    <3>3. /\ Y \in Seq(Labels \X Objects) /\ Len(Y) = (IF i + 1 <= Len(K) THEN Len(K) - (i + 1) + 1 ELSE 0)
          /\ \A j \in 1 .. Len(K) - (i + 1) + 1 : Y[j] = K[i + 1 + j - 1]
      BY <3>1, SubSeqProperties
    <3> HIDE DEF X, Y
    <3>4. Len(X) = Len(Y) /\ \A j \in 1 .. Len(X) : X[j] = Y[j]
      <4>1. \A j \in 1 .. Len(X) : j \in 1 .. Len(K) - (i + 1) + 1 /\ i + 1 + j - 1 \in i + 1 .. Len(K)
        BY <2>1, <3>2
      <4> QED
        BY <3>1, <3>2, <3>3, <4>1
    <3>5. X = Y
      BY <3>2, <3>3, <3>4, SeqEqual
    <3> QED
      BY <2>1, <3>5 DEF X, Y
  <2>5. SubSeq(M, 1, i - 1) \o SubSeq(M, i + 1, Len(M)) = rest
    BY <2>3, <2>4
  <2>6. i \in DOMAIN M /\ ~OnHeap(M[i][2])
    BY <1>5, <2>1
  <2> QED
    BY <2>5, <2>6
<1> DEFINE e == [g EXCEPT ![c].kids = SubSeq(@, 1, i - 1) \o SubSeq(@, i + 1, Len(@))]
<1>12. e = heap'
  <2>1. e = [g EXCEPT ![c] = [g[c] EXCEPT !.kids = rest]]
    <3>1. e = [g EXCEPT ![c] = [g[c] EXCEPT !.kids = SubSeq(g[c].kids, 1, i - 1) \o SubSeq(g[c].kids, i + 1, Len(g[c].kids))]]
      OBVIOUS
    <3> HIDE DEF e, g, rest, M
    <3> QED
      BY <1>10, <1>11, <3>1
  <2>2. heap' = [h EXCEPT ![c] = [h[c] EXCEPT !.kids = rest]]
    <3>1. heap' = [h EXCEPT ![c] = [h[c] EXCEPT !.kids = SubSeq(h[c].kids, 1, i - 1) \o SubSeq(h[c].kids, i + 1, Len(h[c].kids))]]
      BY <1>3
    <3> HIDE DEF h
    <3> QED
      BY <1>9, <3>1
  <2> HIDE DEF e, g, h, rest, M
  <2>3. g[c] = [h[c] EXCEPT !.kids = M] /\ [g[c] EXCEPT !.kids = rest] = [h[c] EXCEPT !.kids = rest]
    BY <1>2, <1>9, <1>10 DEF CellType
  <2>4. \A a, b : [[h EXCEPT ![c] = a] EXCEPT ![c] = b] = [h EXCEPT ![c] = b]
    BY <1>9
  <2> QED
    BY <1>10, <2>1, <2>2, <2>3, <2>4
<1> HIDE DEF g, h, M, rest
<1>13. Owned(e, root, lost)
  <2>1. Owned(Cut(g, ObjectAt(g, root, s).word, i), root, lost)
    BY <1>2, <1>8, <1>10, <1>11, Removed
  <2> QED
    BY <1>8, <2>1 DEF Cut
<1> QED
  BY <1>1, <1>3, <1>12, <1>13 DEF IInv

LEMMA CopyAssignOwned ==
    ASSUME IInv, NEW s \in Slots, NEW t \in Slots, CopyAssign(s, t)
    PROVE  IInv'
<1> DEFINE old == ObjectAt(heap, root, s)
           v == ObjectAt(heap, root, t)
           copy == Clone(Delete(heap, old), v)
<1>1. /\ Owned(heap, root, lost) /\ s \in SlotsIn(heap, root) /\ t \in SlotsIn(heap, root)
      /\ Object(s) = old /\ Object(t) = v /\ DOMAIN root = Var
  BY Here DEF IInv
<1>2. /\ s # t /\ (t.at = 0 \/ t.in \notin CellsOf(heap, old))
      /\ OnHeap(old) => s.at = 0 \/ s.in \notin CellsOf(heap, v)
      /\ Cardinality(FreeCells(heap)) >= Cardinality(CellsOf(heap, v))
      /\ Put(s, copy.heap, copy.json) /\ lost' = lost
  BY <1>1 DEF CopyAssign, Inside, Room, Weight
<1>3. Fits(heap, v)
  BY <1>2, CellAssumption, RoomFits
<1>4. root' = RootWith(root, s, copy.json) /\ heap' = HeapWith(copy.heap, s, copy.json)
  BY <1>2, PutIs
<1>5. /\ Owned(HeapWith(copy.heap, s, copy.json), RootWith(root, s, copy.json), lost)
      /\ DOMAIN RootWith(root, s, copy.json) = DOMAIN root
  BY <1>1, <1>2, <1>3, CopiedTo
<1> QED
  BY <1>1, <1>2, <1>4, <1>5 DEF IInv

\* What a move puts in two slots.
LEMMA MovedCells ==
    ASSUME NEW h \in [Cell -> CellType], NEW s, NEW t, NEW v \in Objects, NEW w \in Objects,
           s = [in |-> s.in, at |-> s.at], t = [in |-> t.in, at |-> t.at], s # t
    PROVE  HeapWith(HeapWith(h, s, v), t, w) =
              [c \in Cell |->
                 [h[c] EXCEPT !.kids = [i \in DOMAIN h[c].kids |->
                    <<h[c].kids[i][1], IF s = [in |-> c, at |-> i] THEN v
                                       ELSE IF t = [in |-> c, at |-> i] THEN w
                                       ELSE h[c].kids[i][2]>>]]]
<1> DEFINE at(u, c) == IF u.at # 0 /\ c = u.in THEN u.at ELSE 0
           k == HeapWith(h, s, v)
           g == HeapWith(k, t, w)
           moved(c, i) == <<h[c].kids[i][1], IF s = [in |-> c, at |-> i] THEN v
                                             ELSE IF t = [in |-> c, at |-> i] THEN w ELSE h[c].kids[i][2]>>
<1>1. k = [c \in Cell |-> MemberWith(h[c], at(s, c), v)] /\ k \in [Cell -> CellType]
  <2>1. k = [c \in Cell |-> IF s.at # 0 /\ c = s.in THEN MemberWith(h[c], s.at, v) ELSE h[c]]
    BY PutCells
  <2>2. \A c \in Cell : MemberWith(h[c], at(s, c), v) = IF s.at # 0 /\ c = s.in THEN MemberWith(h[c], s.at, v) ELSE h[c]
    BY MemberIs
  <2>3. \A c \in Cell : MemberWith(h[c], at(s, c), v) \in CellType
    BY MemberIs
  <2> HIDE DEF k, at
  <2> QED
    BY <2>1, <2>2, <2>3
<1> HIDE DEF k
<1>2. g = [c \in Cell |-> MemberWith(k[c], at(t, c), w)]
  <2>1. g = [c \in Cell |-> IF t.at # 0 /\ c = t.in THEN MemberWith(k[c], t.at, w) ELSE k[c]]
    BY <1>1, PutCells
  <2>2. \A c \in Cell : MemberWith(k[c], at(t, c), w) = IF t.at # 0 /\ c = t.in THEN MemberWith(k[c], t.at, w) ELSE k[c]
    BY <1>1, MemberIs
  <2> HIDE DEF g, at
  <2> QED
    BY <2>1, <2>2
<1>3. ASSUME NEW c \in Cell
      PROVE  MemberWith(k[c], at(t, c), w) = [h[c] EXCEPT !.kids = [i \in DOMAIN h[c].kids |-> moved(c, i)]]
  <2> DEFINE K == h[c].kids
             M == [j \in DOMAIN K |-> <<K[j][1], IF j = at(s, c) THEN v ELSE K[j][2]>>]
             T == [j \in DOMAIN M |-> <<M[j][1], IF j = at(t, c) THEN w ELSE M[j][2]>>]
  <2>1. k[c] = [h[c] EXCEPT !.kids = M]
    <3>1. k[c] = MemberWith(h[c], at(s, c), v)
      BY <1>1
    <3> HIDE DEF at
    <3> QED
      BY <3>1, MemberIs
  <2>2. k[c].kids = M
    BY <2>1 DEF CellType
  <2>3. MemberWith(k[c], at(t, c), w) = [k[c] EXCEPT !.kids = T]
    <3>1. k[c] \in CellType
      BY <1>1
    <3>2. MemberWith(k[c], at(t, c), w) = [k[c] EXCEPT !.kids = [j \in DOMAIN k[c].kids |->
                                           <<k[c].kids[j][1], IF j = at(t, c) THEN w ELSE k[c].kids[j][2]>>]]
      BY <3>1, MemberIs
    <3> HIDE DEF M, at
    <3> QED
      BY <2>2, <3>2
  <2>4. T = [i \in DOMAIN K |-> moved(c, i)]
    <3>1. \A j \in DOMAIN K : j \in Nat \ {0}
      BY DEF CellType, Kids
    <3>2. \A j \in DOMAIN K : /\ j = at(s, c) <=> s = [in |-> c, at |-> j]
                              /\ j = at(t, c) <=> t = [in |-> c, at |-> j]
      BY <3>1
    <3>3. DOMAIN T = DOMAIN K /\ \A j \in DOMAIN K : T[j] = <<K[j][1], IF j = at(t, c) THEN w ELSE IF j = at(s, c) THEN v ELSE K[j][2]>>
      OBVIOUS
    <3>4. \A j \in DOMAIN K : T[j] = moved(c, j)
      BY <3>2, <3>3
    <3>5. T = [j \in DOMAIN K |-> T[j]]
      BY <3>3
    <3> HIDE DEF T
    <3> QED
      BY <3>4, <3>5
  <2> HIDE DEF T, M, moved
  <2>5. [[h[c] EXCEPT !.kids = M] EXCEPT !.kids = T] = [h[c] EXCEPT !.kids = T]
    BY DEF CellType
  <2> QED
    BY <2>1, <2>3, <2>4, <2>5
<1> HIDE DEF at
<1> QED
  BY <1>2, <1>3 DEF k

LEMMA MoveAssignOwned ==
    ASSUME IInv, NEW s \in Slots, NEW t \in Slots, MoveAssign(s, t)
    PROVE  IInv'
<1> DEFINE old == ObjectAt(heap, root, s)
           v == ObjectAt(heap, root, t)
           h == Delete(heap, old)
           g == HeapWith(h, s, Null)
           q == RootWith(root, s, Null)
<1>1. /\ Owned(heap, root, lost) /\ s \in SlotsIn(heap, root) /\ t \in SlotsIn(heap, root)
      /\ Object(s) = old /\ Object(t) = v /\ DOMAIN root = Var /\ Typed(heap, root, lost)
      /\ heap \in [Cell -> CellType]
  BY Here DEF IInv, Typed
<1>2. /\ s # t /\ (t.at = 0 \/ t.in \notin CellsOf(heap, old)) /\ (s.at = 0 \/ s.in \notin CellsOf(heap, v))
      /\ lost' = lost
  BY <1>1 DEF MoveAssign, Inside
<1>3. /\ root' = [x \in Var |-> IF s = [in |-> x, at |-> 0] THEN v
                                 ELSE IF t = [in |-> x, at |-> 0] THEN Null ELSE root[x]]
      /\ heap' = [c \in Cell |->
                     [h[c] EXCEPT !.kids = [i \in DOMAIN h[c].kids |->
                         <<h[c].kids[i][1], IF s = [in |-> c, at |-> i] THEN v
                                            ELSE IF t = [in |-> c, at |-> i] THEN Null ELSE h[c].kids[i][2]>>]]]
  BY <1>1 DEF MoveAssign, LeftBehind
<1>4. Null \in Objects /\ ~OnHeap(Null)
  BY DEF Null, Json, Objects, OnHeap
<1>5. v \in Objects /\ (OnHeap(v) => v.word \in Cell)
  BY <1>1, ObjectTyped
\* The target goes,
<1>6. /\ Owned(g, q, lost) /\ DOMAIN q = DOMAIN root /\ Typed(h, root, lost) /\ s \in SlotsIn(h, root)
      /\ SlotsIn(g, q) = {u \in SlotsIn(heap, root) : u.at = 0 \/ u.in \notin CellsOf(heap, old)}
      /\ (\A u \in SlotsIn(g, q) : u # s => ObjectAt(g, q, u) = ObjectAt(heap, root, u))
      /\ ObjectAt(g, q, s) = Null
      /\ \A c \in Cell : (s.at = 0 \/ c # s.in) /\ c \notin CellsOf(heap, old) => g[c] = heap[c]
  BY <1>1, <1>4, Released
<1>7. s \in SlotsIn(g, q)
  <2>1. s.at # 0 => s.in \notin CellsOf(heap, old)
    <3> SUFFICES ASSUME s.at # 0 PROVE s.in \notin CellsOf(heap, old)
      OBVIOUS
    <3>1. CASE OnHeap(old)
      BY <1>1, <3>1, NotWithin DEF Owned
    <3>2. CASE ~OnHeap(old)
      BY <3>2 DEF CellsOf
    <3> QED
      BY <3>1, <3>2
  <2> HIDE DEF g, q, old
  <2> QED
    BY <1>1, <1>6, <2>1
\* and the source moves.
<1>8. CellsOf(g, v) = CellsOf(heap, v)
  <2>1. CellsOf(heap, old) \cap CellsOf(heap, v) = {}
    BY <1>1, <1>2, Apart
  <2>2. CellsOf(heap, v) \subseteq Cell
    BY DEF CellsOf
  <2>3. g \in [Cell -> CellType]
    BY <1>6 DEF Owned, Typed
  <2> HIDE DEF g, h, q, old, v
  <2>4. \A c \in CellsOf(heap, v) : g[c] = heap[c]
    BY <1>2, <1>6, <2>1, <2>2
  <2> QED
    BY <1>1, <1>5, <2>3, <2>4, CellsAgree
<1> HIDE DEF g, q, h, old
<1> DEFINE e == HeapWith(HeapWith(g, s, v), t, Null)
           p == RootWith(RootWith(q, s, v), t, Null)
<1>9. Owned(e, p, lost) /\ DOMAIN p = DOMAIN q
  <2>1. t \in SlotsIn(g, q) /\ ObjectAt(g, q, t) = v
    BY <1>1, <1>2, <1>6
  <2> HIDE DEF v
  <2>2. s.at = 0 \/ s.in \notin CellsOf(g, ObjectAt(g, q, t))
    BY <1>2, <1>8, <2>1
  <2>3. ~OnHeap(ObjectAt(g, q, s))
    BY <1>4, <1>6
  <2>4. /\ Owned(HeapWith(HeapWith(g, s, ObjectAt(g, q, t)), t, Null),
                 RootWith(RootWith(q, s, ObjectAt(g, q, t)), t, Null), lost)
        /\ DOMAIN RootWith(RootWith(q, s, ObjectAt(g, q, t)), t, Null) = DOMAIN q
    BY <1>2, <1>4, <1>6, <1>7, <2>1, <2>2, <2>3, Moved
  <2> QED
    BY <2>1, <2>4
<1>10. s = [in |-> s.in, at |-> s.at] /\ t = [in |-> t.in, at |-> t.at]
  BY <1>1 DEF SlotsIn
<1>11. e = heap'
  <2>1. HeapWith(g, s, v) = HeapWith(h, s, v)
    BY <1>4, <1>5, <1>6, PutTwice DEF g
  <2>2. h \in [Cell -> CellType]
    BY <1>6 DEF Typed
  <2> HIDE DEF v
  <2>3. HeapWith(HeapWith(h, s, v), t, Null) =
              [c \in Cell |->
                     [h[c] EXCEPT !.kids = [i \in DOMAIN h[c].kids |->
                         <<h[c].kids[i][1], IF s = [in |-> c, at |-> i] THEN v
                                            ELSE IF t = [in |-> c, at |-> i] THEN Null ELSE h[c].kids[i][2]>>]]]
    BY <1>2, <1>4, <1>5, <1>10, <2>2, MovedCells
  <2> QED
    BY <1>3, <2>1, <2>3
<1>12. p = root'
  <2> HIDE DEF v
  <2>1. root = [x \in Var |-> root[x]]
    BY <1>1 DEF Typed
  <2>2. q = [x \in Var |-> IF s = [in |-> x, at |-> 0] THEN Null ELSE root[x]]
    BY <1>10, <2>1 DEF q, RootWith
  <2>3. RootWith(q, s, v) = [x \in Var |-> IF s = [in |-> x, at |-> 0] THEN v ELSE root[x]]
    BY <1>10, <2>2 DEF RootWith
  <2>4. p = [x \in Var |-> IF t = [in |-> x, at |-> 0] THEN Null ELSE RootWith(q, s, v)[x]]
    <3> DEFINE a == RootWith(q, s, v)
    <3>1. a = [x \in Var |-> a[x]]
      BY <2>3
    <3> HIDE DEF a
    <3>2. RootWith(a, t, Null) = [x \in Var |-> IF t = [in |-> x, at |-> 0] THEN Null ELSE a[x]]
      BY <1>10, <3>1 DEF RootWith
    <3> QED
      BY <3>2 DEF a
  <2> QED
    BY <1>2, <1>3, <2>3, <2>4
<1> HIDE DEF e, p
<1> QED
  BY <1>1, <1>2, <1>6, <1>9, <1>11, <1>12 DEF IInv

\* A new member besides a slot.
LEMMA PushAside ==
    ASSUME NEW h, h = [c \in Cell |-> h[c]], NEW s, NEW u, NEW c \in Cell, s.at = 0 \/ c # s.in, NEW label, NEW w
    PROVE  Push(HeapWith(h, s, u), c, label, w) = HeapWith(Push(h, c, label, w), s, u)
<1> DEFINE g == HeapWith(h, s, u)
           cell == [h[c] EXCEPT !.kids = Append(h[c].kids, <<label, w>>)]
<1>1. g[c] = h[c]
  BY PutCells
<1>2. Push(h, c, label, w) = [h EXCEPT ![c] = cell]
  BY DEF Push
<1> HIDE DEF g
<1>3. Push(g, c, label, w) = [g EXCEPT ![c] = cell]
  BY <1>1 DEF Push
<1> HIDE DEF cell
<1>4. [HeapWith(h, s, u) EXCEPT ![c] = cell] = HeapWith([h EXCEPT ![c] = cell], s, u)
  BY EditAside
<1> QED
  BY <1>2, <1>3, <1>4 DEF g

\* The cells of an object are in use.
LEMMA CellsLive ==
    ASSUME NEW h, NEW r, NEW L, Owned(h, r, L), NEW s \in SlotsIn(h, r)
    PROVE  CellsOf(h, ObjectAt(h, r, s)) \subseteq Cell /\ \A c \in CellsOf(h, ObjectAt(h, r, s)) : h[c].live
<1>1. \A x : Whole(h, CellsOf(h, ObjectAt(h, r, s)), x, ObjectAt(h, r, s))
  BY WholeOf
<1> QED
  BY <1>1 DEF Whole

\* A copy takes no more cells than what it is of.
LEMMA CopySize ==
    ASSUME NEW h, NEW v, Fits(h, v)
    PROVE  /\ Cardinality(CopyCells(h, v)) <= Cardinality(CellsOf(h, v))
           /\ Cardinality(CopyCells(h, v)) \in Nat /\ Cardinality(CellsOf(h, v)) \in Nat
<1> DEFINE C == CellsOf(h, v)
           N == CopyCells(h, v)
           to == CopyMap(h, v)
<1>1. to \in [C -> N] /\ \A e \in N : \E c \in C : to[c] = e
  BY CopyMapFits
<1>2. IsFiniteSet(C)
  BY CellAssumption, FS_Subset DEF CellsOf
<1> HIDE DEF C, N, to
<1>3. to \in Surjection(C, N)
  BY <1>1 DEF Surjection
<1>4. IsFiniteSet(N) /\ Cardinality(N) <= Cardinality(C)
  BY <1>2, <1>3, FS_Surjection
<1> QED
  BY <1>2, <1>4, FS_CardinalityType DEF C, N

\* A copy has objects in its cells.
LEMMA CloneTyped ==
    ASSUME NEW h \in [Cell -> CellType], NEW v \in Objects, Fits(h, v)
    PROVE  /\ Clone(h, v).heap \in [Cell -> CellType] /\ Clone(h, v).json \in Objects
           /\ \A c \in Cell : h[c].live => Clone(h, v).heap[c] = h[c]
<1>1. Closed(h, CellsOf(h, v)) /\ (OnHeap(v) => v.word \in CellsOf(h, v))
  BY CellsClosed, LeastClosed, ObjectKinds
<1>2. /\ Clone(h, v).heap \in [Cell -> CellType] /\ Clone(h, v).json \in Objects
      /\ \A c \in Cell \ CopyCells(h, v) : Clone(h, v).heap[c] = h[c]
  BY <1>1, CloneCells
<1>3. CopyCells(h, v) \subseteq FreeCells(h)
  BY CopyMapFits
<1> QED
  BY <1>2, <1>3 DEF FreeCells

\* More room does.
LEMMA FitsMore ==
    ASSUME NEW h, NEW g, NEW v, Fits(h, v), CellsOf(g, v) = CellsOf(h, v), FreeCells(h) \subseteq FreeCells(g)
    PROVE  Fits(g, v)
<1>1. Injection(CellsOf(h, v), FreeCells(h)) \subseteq Injection(CellsOf(g, v), FreeCells(g))
  BY DEF Injection, IsInjective
<1> QED
  BY <1>1 DEF Fits

\* The argument is held and the target becomes a container: neither is within
\* the other, and there is room for another copy.
LEMMA ArgHeld ==
    ASSUME NEW h, NEW r, NEW L, Owned(h, r, L), NEW s \in SlotsIn(h, r), NEW t \in SlotsIn(h, r), NEW x, x \notin DOMAIN r,
           NEW type \in {"Array", "Pair"},
           Cardinality(FreeCells(h)) >= 2 * Cardinality(CellsOf(h, ObjectAt(h, r, t))) + 1
    PROVE  LET arg == Clone(h, ObjectAt(h, r, t))
               set == SetType(arg.heap, ObjectAt(h, r, s), type)
               g == HeapWith(set.heap, s, set.json)
               q == With(RootWith(r, s, set.json), x, arg.json)
           IN  /\ Owned(g, q, L) /\ s \in SlotsIn(g, q) /\ ObjectAt(g, q, s) = set.json
               /\ RootSlot(x) \in SlotsIn(g, q) /\ ObjectAt(g, q, RootSlot(x)) = arg.json /\ s # RootSlot(x)
               /\ set.json \in Objects /\ set.json.type = type /\ OnHeap(set.json) /\ arg.json \in Objects
               /\ set.heap \in [Cell -> CellType] /\ (s.at # 0 => s.in \in Cell /\ set.heap[s.in].live)
               /\ set.json.word \in Cell /\ (s.at = 0 \/ set.json.word # s.in)
               /\ set.json.word \notin CellsOf(g, arg.json)
               /\ s.at = 0 \/ s.in \notin CellsOf(g, arg.json)
               /\ Fits(g, arg.json)
<1> DEFINE v == ObjectAt(h, r, t)
           old == ObjectAt(h, r, s)
           arg == Clone(h, v)
           j == arg.json
           k == arg.heap
           set == SetType(k, old, type)
           g == HeapWith(set.heap, s, set.json)
           p == With(r, x, j)
           q == With(RootWith(r, s, set.json), x, j)
           c == set.json.word
           y == RootSlot(x)
           N == CopyCells(h, v)
           F == FreeCells(h)
           W == Cardinality(CellsOf(h, v))
           A == CellsOf(k, j)
<1>1. IsFiniteSet(F) /\ Cardinality(F) \in Nat /\ W \in Nat
  <2>1. IsFiniteSet(F) /\ IsFiniteSet(CellsOf(h, v))
    BY CellAssumption, FS_Subset DEF FreeCells, CellsOf
  <2> QED
    BY <2>1, FS_CardinalityType
<1>2. Fits(h, v) /\ Cardinality(F) >= 2 * W + 1
  <2>1. Cardinality(F) >= 2 * W + 1
    OBVIOUS
  <2>2. Cardinality(F) >= W
    BY <1>1, <2>1
  <2> QED
    BY <2>1, <2>2, CellAssumption, RoomFits
<1>3. /\ Owned(k, p, L) /\ SlotsIn(h, r) \subseteq SlotsIn(k, p)
      /\ y \in SlotsIn(k, p) /\ ObjectAt(k, p, y) = j
      /\ \A u \in SlotsIn(h, r) : ObjectAt(k, p, u) = ObjectAt(h, r, u)
      /\ \A e \in Cell : h[e].live => k[e] = h[e]
      /\ A \subseteq N /\ N \subseteq F /\ F \ N \subseteq FreeCells(k)
  BY <1>2, Held
<1>4. Cardinality(N) <= W /\ Cardinality(N) \in Nat /\ IsFiniteSet(N) /\ IsFiniteSet(A)
  <2>1. IsFiniteSet(N) /\ IsFiniteSet(A)
    BY <1>1, <1>3, FS_Subset
  <2> QED
    BY <1>2, <2>1, CopySize
<1>5. IsFiniteSet(F \ N) /\ Cardinality(F \ N) \in Nat /\ Cardinality(F \ N) >= W + 1
  <2>1. IsFiniteSet(F \ N) /\ Cardinality(F \ N) = Cardinality(F) - Cardinality(F \cap N)
    BY <1>1, FS_Difference
  <2>2. F \cap N = N
    BY <1>3
  <2>3. Cardinality(F \ N) \in Nat
    BY <2>1, FS_CardinalityType
  <2> HIDE DEF F, N, W
  <2> QED
    BY <1>1, <1>2, <1>4, <2>1, <2>2, <2>3
<1>6. s \in SlotsIn(k, p) /\ ObjectAt(k, p, s) = old /\ y \in SlotsIn(k, p) /\ ObjectAt(k, p, y) = j
  BY <1>3
<1>7. Typed(h, r, L) /\ Typed(k, p, L) /\ (s.at # 0 => s.in \in Cell /\ h[s.in].live /\ s.in \notin F)
  <2>1. Typed(h, r, L) /\ Typed(k, p, L)
    BY <1>3 DEF Owned
  <2>2. s.at # 0 => s.in \in Cell /\ s.at \in DOMAIN h[s.in].kids
    BY DEF SlotsIn
  <2> QED
    BY <2>1, <2>2 DEF Typed, FreeCells
<1>9. s # y /\ y.at = 0 /\ y.in = x
  BY DEF SlotsIn, RootSlot
<1>10. Spare(k, type)
  <2>1. F \ N # {}
    <3> HIDE DEF F, N, W
    <3> QED
      BY <1>1, <1>5, FS_EmptySet
  <2> QED
    BY <1>3, <2>1 DEF Spare
<1>11. j \in Objects
  BY <1>6, <1>7, ObjectTyped
<1> HIDE DEF k, j, N, F, W, p, v, y
<1>12. type \in HeapTypes \cup {"Integral"} /\ type # "FIOObject"
  BY DEF HeapTypes
\* The target.
<1> DEFINE z == RootWith(p, s, set.json)
<1>13. /\ Owned(g, z, L) /\ s \in SlotsIn(g, z) /\ ObjectAt(g, z, s) = set.json /\ set.json.type = type
       /\ Typed(set.heap, p, L) /\ s \in SlotsIn(set.heap, p)
       /\ (\A u \in SlotsIn(k, p) : u # s /\ (u.at = 0 \/ u.in \notin CellsOf(k, old))
             => u \in SlotsIn(g, z) /\ ObjectAt(g, z, u) = ObjectAt(k, p, u))
       /\ (\A e \in Cell \ CellsOf(k, old) : k[e].live => set.heap[e] = k[e])
       /\ FreeCells(k) \ {c} \subseteq FreeCells(set.heap)
  <2>1. LET w == ObjectAt(k, p, s)
            st == SetType(k, w, type)
            gg == HeapWith(st.heap, s, st.json)
            qq == RootWith(p, s, st.json)
        IN  /\ Owned(gg, qq, L)
            /\ s \in SlotsIn(gg, qq) /\ ObjectAt(gg, qq, s) = st.json /\ st.json.type = type
            /\ Typed(st.heap, p, L) /\ s \in SlotsIn(st.heap, p)
            /\ \A u \in SlotsIn(k, p) : u # s /\ (u.at = 0 \/ u.in \notin CellsOf(k, w))
                  => u \in SlotsIn(gg, qq) /\ ObjectAt(gg, qq, u) = ObjectAt(k, p, u)
            /\ \A e \in Cell \ CellsOf(k, w) : k[e].live => st.heap[e] = k[e]
            /\ type # "FIOObject" => FreeCells(k) \ {st.json.word} \subseteq FreeCells(st.heap)
    BY <1>3, <1>6, <1>10, <1>12, Retyped
  <2> HIDE DEF old
  <2> QED
    BY <1>6, <1>12, <2>1
<1>14. z = q
  <2>1. p = With(r, x, j) /\ r = [u \in DOMAIN r |-> r[u]]
    BY <1>7 DEF p, Typed
  <2>2. s.at = 0 => s.in \in DOMAIN r /\ s.in # x
    BY DEF SlotsIn
  <2> HIDE DEF set
  <2> QED
    BY <2>1, <2>2 DEF RootWith, With
<1>15. y \in SlotsIn(g, z) /\ ObjectAt(g, z, y) = j
  BY <1>6, <1>9, <1>13
<1>16. set.json \in Objects /\ OnHeap(set.json) /\ Typed(g, z, L) /\ Unique(g, z)
  <2>1. Typed(g, z, L) /\ Unique(g, z)
    BY <1>13 DEF Owned
  <2> HIDE DEF g, z, set
  <2> QED
    BY <1>13, <2>1, ObjectTyped DEF OnHeap
<1>17. c \in Cell /\ (s.at = 0 \/ c # s.in)
  <2> HIDE DEF set
  <2> QED
    BY <1>13, <1>16, OwnCell
<1>18. set.heap \in [Cell -> CellType] /\ (s.at # 0 => s.in \in Cell /\ set.heap[s.in].live)
  <2> HIDE DEF set
  <2>1. s.at # 0 => s.in \in Cell /\ s.at \in DOMAIN set.heap[s.in].kids
    BY <1>13 DEF SlotsIn
  <2> QED
    BY <1>13, <2>1 DEF Typed
\* The cells of the argument.
<1>19. A \subseteq F /\ A \subseteq Cell /\ (\A e \in A : k[e].live)
  <2>1. CellsOf(k, ObjectAt(k, p, y)) \subseteq Cell /\ \A e \in CellsOf(k, ObjectAt(k, p, y)) : k[e].live
    BY <1>3, <1>6, CellsLive
  <2> QED
    BY <1>3, <1>6, <2>1
<1>20. s.at = 0 \/ s.in \notin A
  BY <1>7, <1>19
<1>21. CellsOf(k, old) \cap A = {}
  <2>1. CellsOf(k, ObjectAt(k, p, s)) \cap CellsOf(k, ObjectAt(k, p, y)) = {}
    <3>1. y.at = 0
      BY <1>9
    <3>2. s.at = 0 \/ s.in \notin CellsOf(k, ObjectAt(k, p, y))
      BY <1>6, <1>20
    <3> QED
      BY <1>3, <1>6, <1>9, <3>1, <3>2, Apart
  <2> QED
    BY <1>6, <2>1
<1> HIDE DEF A, old
<1>22. CellsOf(g, j) = A
  <2>1. \A e \in Cell : s.at = 0 \/ e # s.in => g[e] = set.heap[e]
    <3> HIDE DEF set
    <3> QED
      BY <1>13, <1>16, PutSlots
  <2> HIDE DEF set, g
  <2>2. \A e \in A : g[e] = k[e]
    BY <1>13, <1>19, <1>20, <1>21, <2>1
  <2>3. g \in [Cell -> CellType] /\ k \in [Cell -> CellType] /\ (OnHeap(j) => j.word \in Cell)
    BY <1>7, <1>11, <1>16, ObjectKinds DEF Typed
  <2> QED
    BY <2>2, <2>3, CellsAgree DEF A
<1>23. c \notin A
  <2> HIDE DEF set, g, z
  <2>1. ASSUME c \in A PROVE FALSE
    <3>1. c \in CellsOf(g, ObjectAt(g, z, y))
      BY <1>15, <1>22, <2>1
    <3>2. OnHeap(ObjectAt(g, z, y))
      BY <3>1 DEF CellsOf
    <3>3. s.at # 0 /\ s.in \in CellsOf(g, ObjectAt(g, z, y))
      BY <1>9, <1>13, <1>15, <1>16, <3>1, <3>2, OwnedWithin
    <3> QED
      BY <1>15, <1>20, <1>22, <3>3
  <2> QED
    BY <2>1
<1>24. Fits(g, j)
  <2>1. FreeCells(g) = FreeCells(set.heap)
    <3>1. s.at = 0 \/ s.in \notin CellsOf(HeapWith(set.heap, s, set.json), j)
      BY <1>20, <1>22
    <3> HIDE DEF set
    <3> QED
      BY <1>11, <1>16, <1>18, <3>1, Aside
  <2> DEFINE G == F \ N
  <2> HIDE DEF set, g
  <2>2. G \ {c} \subseteq FreeCells(g)
    BY <1>3, <1>13, <2>1
  <2> HIDE DEF G
  <2>3. IsFiniteSet(G \ {c}) /\ Cardinality(G \ {c}) >= W /\ Cardinality(G \ {c}) \in Nat
    <3>1. IsFiniteSet(G) /\ Cardinality(G) \in Nat /\ Cardinality(G) >= W + 1
      BY <1>5 DEF G
    <3>2. IsFiniteSet(G \ {c}) /\ Cardinality(G \ {c}) = IF c \in G THEN Cardinality(G) - 1 ELSE Cardinality(G)
      BY <3>1, FS_RemoveElement
    <3>3. Cardinality(G \ {c}) \in Nat
      BY <3>2, FS_CardinalityType
    <3> QED
      BY <1>1, <3>1, <3>2, <3>3
  <2>4. IsFiniteSet(FreeCells(g)) /\ Cardinality(FreeCells(g)) \in Nat /\ Cardinality(G \ {c}) <= Cardinality(FreeCells(g))
    <3>1. IsFiniteSet(FreeCells(g))
      BY CellAssumption, FS_Subset DEF FreeCells
    <3> QED
      BY <2>2, <3>1, FS_Subset, FS_CardinalityType
  <2>5. Cardinality(A) <= Cardinality(N) /\ Cardinality(A) \in Nat
    <3>1. A \in SUBSET N
      BY <1>3 DEF A
    <3> QED
      BY <1>4, <3>1, FS_Subset, FS_CardinalityType
  <2>6. Cardinality(FreeCells(g)) >= Cardinality(CellsOf(g, j))
    BY <1>1, <1>4, <1>22, <2>3, <2>4, <2>5
  <2> QED
    BY <2>6, CellAssumption, RoomFits
<1> HIDE DEF g, q, set, z
<1> QED
  BY <1>9, <1>11, <1>13, <1>14, <1>15, <1>16, <1>17, <1>18, <1>20, <1>22, <1>23, <1>24
     DEF g, q, set, y, j, k, v, old

LEMMA AppendToOwned ==
    ASSUME IInv, NEW s \in Slots, NEW t \in Slots, AppendTo(s, t)
    PROVE  IInv'
<1> DEFINE v == ObjectAt(heap, root, t)
           arg == Clone(heap, v)
           set == SetType(arg.heap, ObjectAt(heap, root, s), "Array")
           kid == Clone(set.heap, arg.json)
           c == set.json.word
           more == Push(kid.heap, c, "element", kid.json)
           r == RootWith(root, s, set.json)
<1>1. /\ Owned(heap, root, lost) /\ s \in SlotsIn(heap, root) /\ t \in SlotsIn(heap, root)
      /\ Object(s) = ObjectAt(heap, root, s) /\ Object(t) = v /\ DOMAIN root = Var
  BY Here DEF IInv
<1>2. /\ Cardinality(FreeCells(heap)) >= 2 * Cardinality(CellsOf(heap, v)) + 1
      /\ Put(s, Delete(more, arg.json), set.json) /\ lost' = lost
  BY <1>1 DEF AppendTo, Room, Weight, Push
<1>3. PICK x : x \notin DOMAIN root
  BY NoSetContainsEverything
<1> DEFINE g == HeapWith(set.heap, s, set.json)
           q == With(r, x, arg.json)
<1>4. "Array" \in {"Array", "Pair"}
  OBVIOUS
<1>5. /\ Owned(g, q, lost) /\ s \in SlotsIn(g, q) /\ ObjectAt(g, q, s) = set.json
      /\ RootSlot(x) \in SlotsIn(g, q) /\ ObjectAt(g, q, RootSlot(x)) = arg.json /\ s # RootSlot(x)
      /\ set.json \in Objects /\ set.json.type = "Array" /\ OnHeap(set.json) /\ arg.json \in Objects
      /\ set.heap \in [Cell -> CellType] /\ (s.at # 0 => s.in \in Cell /\ set.heap[s.in].live)
      /\ c \in Cell /\ (s.at = 0 \/ c # s.in)
      /\ c \notin CellsOf(g, arg.json)
      /\ (s.at = 0 \/ s.in \notin CellsOf(g, arg.json))
      /\ Fits(g, arg.json)
  BY <1>1, <1>2, <1>3, <1>4, ArgHeld
<1>6. root' = r /\ heap' = HeapWith(Delete(more, arg.json), s, set.json)
  <2> HIDE DEF more, set, arg
  <2> QED
    BY <1>2, PutIs
<1> DEFINE a == arg.json
           A == CellsOf(g, a)
           second == Clone(g, a)
<1>7. /\ FreeCells(set.heap) = FreeCells(g) /\ CellsOf(set.heap, a) = A
      /\ second.json = kid.json /\ second.heap = HeapWith(kid.heap, s, set.json)
  <2> HIDE DEF set, arg
  <2> QED
    BY <1>5, Aside
<1>8. /\ kid.heap \in [Cell -> CellType] /\ kid.json \in Objects
      /\ \A e \in Cell : set.heap[e].live => kid.heap[e] = set.heap[e]
  <2>1. Fits(set.heap, a)
    <3> HIDE DEF set, arg, g
    <3> QED
      BY <1>5, <1>7 DEF Fits
  <2> HIDE DEF set, arg
  <2> QED
    BY <1>5, <2>1, CloneTyped
<1>9. g \in [Cell -> CellType] /\ g[c].live /\ A \subseteq Cell /\ (\A e \in A : g[e].live) /\ DOMAIN r = DOMAIN root
  <2> HIDE DEF set, arg, g, q
  <2>1. g \in [Cell -> CellType]
    BY <1>5 DEF Owned, Typed
  <2>2. g[c].live
    BY <1>5 DEF Owned, Points
  <2>3. CellsOf(g, ObjectAt(g, q, RootSlot(x))) \subseteq Cell /\ \A e \in CellsOf(g, ObjectAt(g, q, RootSlot(x))) : g[e].live
    BY <1>5, CellsLive
  <2>4. DOMAIN r = DOMAIN root
    BY DEF RootWith
  <2> HIDE DEF r
  <2> QED
    BY <1>5, <2>1, <2>2, <2>3, <2>4
\* The copy of the argument is held, too,
<1>10. PICK y : y \notin DOMAIN q
  BY NoSetContainsEverything
<1> DEFINE k == second.heap
           p == With(q, y, second.json)
<1>11. /\ Owned(k, p, lost) /\ s \in SlotsIn(k, p) /\ ObjectAt(k, p, s) = set.json
       /\ (\A e \in Cell : g[e].live => k[e] = g[e])
       /\ CellsOf(k, second.json) \subseteq FreeCells(g) /\ s # RootSlot(y)
  <2> HIDE DEF set, arg, g, q
  <2>1. Fits(g, ObjectAt(g, q, RootSlot(x)))
    BY <1>5
  <2>2. LET copy == Clone(g, ObjectAt(g, q, RootSlot(x)))
            w == With(q, y, copy.json)
        IN  /\ Owned(copy.heap, w, lost) /\ SlotsIn(g, q) \subseteq SlotsIn(copy.heap, w)
            /\ \A u \in SlotsIn(g, q) : ObjectAt(copy.heap, w, u) = ObjectAt(g, q, u)
            /\ \A e \in Cell : g[e].live => copy.heap[e] = g[e]
            /\ CellsOf(copy.heap, copy.json) \subseteq CopyCells(g, ObjectAt(g, q, RootSlot(x)))
            /\ CopyCells(g, ObjectAt(g, q, RootSlot(x))) \subseteq FreeCells(g)
    BY <1>5, <1>10, <2>1, Held
  <2>3. Clone(g, ObjectAt(g, q, RootSlot(x))) = second
    BY <1>5
  <2>4. s # RootSlot(y)
    BY <1>5, <1>10 DEF SlotsIn, RootSlot
  <2> HIDE DEF second, r
  <2> QED
    BY <1>5, <2>2, <2>3, <2>4
\* and becomes a member,
<1>12. p[y] = kid.json /\ y \in DOMAIN p /\ Without(p, y) = q
  <2>1. q = [u \in DOMAIN q |-> q[u]]
    BY DEF With
  <2> HIDE DEF q, second, kid
  <2> QED
    BY <1>7, <1>10, <2>1 DEF With, Without
<1>13. Owned(Push(k, c, "element", kid.json), q, lost)
  <2> HIDE DEF p, k, q, second, kid, set, g, r, arg
  <2>1. c \notin CellsOf(k, p[y])
    BY <1>7, <1>9, <1>11, <1>12 DEF FreeCells
  <2>2. "element" \in Labels /\ set.json.type # "Pair"
    BY <1>5 DEF Labels
  <2>3. Owned(Push(k, ObjectAt(k, p, s).word, "element", p[y]), Without(p, y), lost)
    BY <1>5, <1>11, <1>12, <2>1, <2>2, AppendedWith
  <2> QED
    BY <1>11, <1>12, <2>3
<1>14. Push(k, c, "element", kid.json) = HeapWith(more, s, set.json)
  <2> HIDE DEF set, arg, g
  <2>1. kid.heap = [e \in Cell |-> kid.heap[e]]
    BY <1>8
  <2> HIDE DEF kid, second
  <2>2. Push(HeapWith(kid.heap, s, set.json), c, "element", kid.json) = HeapWith(more, s, set.json)
    BY <1>5, <2>1, PushAside
  <2> QED
    BY <1>7, <2>2
\* and the argument goes.
<1>15. more \in [Cell -> CellType] /\ (s.at # 0 => s.in \in Cell /\ more[s.in].live)
  <2> HIDE DEF set, arg, g, kid
  <2>1. <<"element", kid.json>> \in Labels \X Objects
    BY <1>8 DEF Labels
  <2>2. kid.heap[c].kids \in Seq(Labels \X Objects)
    BY <1>5, <1>8 DEF CellType, Kids
  <2>3. Append(kid.heap[c].kids, <<"element", kid.json>>) \in Kids
    BY <2>1, <2>2, AppendProperties DEF Kids
  <2>4. more = [kid.heap EXCEPT ![c] = [kid.heap[c] EXCEPT !.kids = Append(kid.heap[c].kids, <<"element", kid.json>>)]]
    BY DEF Push
  <2> HIDE DEF more
  <2>5. more \in [Cell -> CellType]
    BY <1>5, <1>8, <2>3, <2>4 DEF CellType
  <2>6. \A e \in Cell \ {c} : more[e] = kid.heap[e]
    BY <1>8, <2>4
  <2> QED
    BY <1>5, <1>8, <2>5, <2>6
<1>16. CellsOf(HeapWith(more, s, set.json), a) = A
  <2> DEFINE e == HeapWith(more, s, set.json)
  <2> HIDE DEF set, arg, kid
  <2>1. \A f \in Cell \ {c} : e[f] = k[f]
    <3>1. e = [k EXCEPT ![c].kids = Append(k[c].kids, <<"element", kid.json>>)]
      BY <1>14 DEF Push
    <3>2. k \in [Cell -> CellType]
      BY <1>11 DEF Owned, Typed
    <3> HIDE DEF k, e
    <3> QED
      BY <3>1, <3>2
  <2>2. e \in [Cell -> CellType]
    <3>1. Owned(e, q, lost)
      BY <1>13, <1>14
    <3> HIDE DEF e, q
    <3> QED
      BY <3>1 DEF Owned, Typed
  <2> HIDE DEF e, k, g
  <2>3. \A f \in A : e[f] = g[f]
    BY <1>5, <1>9, <1>11, <2>1
  <2>4. OnHeap(a) => a.word \in Cell
    BY <1>5, ObjectKinds
  <2>5. CellsOf(e, a) = CellsOf(g, a)
    BY <1>9, <2>2, <2>3, <2>4, CellsAgree
  <2> QED
    BY <2>5 DEF e
<1>17. Delete(HeapWith(more, s, set.json), a) = HeapWith(Delete(more, a), s, set.json)
  <2> HIDE DEF set, arg, g, more
  <2>1. s.at = 0 \/ s.in \notin CellsOf(HeapWith(more, s, set.json), a)
    BY <1>5, <1>16
  <2> QED
    BY <1>5, <1>15, <2>1, Aside
<1>18. x \in DOMAIN q /\ q[x] = a /\ Without(q, x) = r
  <2>1. r = [u \in DOMAIN r |-> r[u]]
    <3>1. root = [u \in DOMAIN root |-> root[u]]
      BY <1>1 DEF Owned, Typed
    <3> QED
      BY <3>1 DEF RootWith
  <2>2. x \notin DOMAIN r
    BY <1>3, <1>9
  <2> HIDE DEF r, arg
  <2> QED
    BY <2>1, <2>2 DEF With, Without
<1> HIDE DEF q, more, set, kid, arg, g, r
<1>19. Owned(HeapWith(more, s, set.json), q, lost)
  BY <1>13, <1>14
<1>20. Owned(Delete(HeapWith(more, s, set.json), q[x]), Without(q, x), lost)
  BY <1>18, <1>19, Dropped
<1> QED
  BY <1>1, <1>2, <1>6, <1>9, <1>17, <1>18, <1>20 DEF IInv

LEMMA SetPairOwned ==
    ASSUME IInv, NEW s \in Slots, NEW t \in Slots, NEW d \in Datum, SetPair(s, d, t)
    PROVE  IInv'
<1> DEFINE v == ObjectAt(heap, root, t)
           arg == Clone(heap, v)
           set == SetType(arg.heap, ObjectAt(heap, root, s), "Pair")
           j == set.json
           k == set.heap
           a == arg.json
           c == j.word
           old == k[c].kids[1][2]
           f == Delete(k, old)
           copy == Clone(f, a)
           e == [copy.heap EXCEPT ![c].data = d, ![c].kids = <<<<"second", copy.json>>>>]
           r == RootWith(root, s, j)
<1>1. /\ Owned(heap, root, lost) /\ s \in SlotsIn(heap, root) /\ t \in SlotsIn(heap, root)
      /\ Object(s) = ObjectAt(heap, root, s) /\ Object(t) = v /\ DOMAIN root = Var
  BY Here DEF IInv
<1>2. /\ Cardinality(FreeCells(heap)) >= 2 * Cardinality(CellsOf(heap, v)) + 1
      /\ Put(s, Delete(e, a), j) /\ lost' = lost
  BY <1>1 DEF SetPair, Room, Weight
<1>3. PICK x : x \notin DOMAIN root
  BY NoSetContainsEverything
<1> DEFINE g == HeapWith(k, s, j)
           q == With(r, x, a)
           y == RootSlot(x)
           A == CellsOf(g, a)
<1>4. "Pair" \in {"Array", "Pair"}
  OBVIOUS
<1>5. /\ Owned(g, q, lost) /\ s \in SlotsIn(g, q) /\ ObjectAt(g, q, s) = j
      /\ y \in SlotsIn(g, q) /\ ObjectAt(g, q, y) = a /\ s # y
      /\ j \in Objects /\ j.type = "Pair" /\ OnHeap(j) /\ a \in Objects
      /\ k \in [Cell -> CellType] /\ (s.at # 0 => s.in \in Cell /\ k[s.in].live)
      /\ c \in Cell /\ (s.at = 0 \/ c # s.in)
      /\ c \notin A
      /\ (s.at = 0 \/ s.in \notin A)
      /\ Fits(g, a)
  BY <1>1, <1>2, <1>3, <1>4, ArgHeld
<1>6. root' = r /\ heap' = HeapWith(Delete(e, a), s, j)
  <2> HIDE DEF e, set, arg
  <2> QED
    BY <1>2, PutIs
<1> HIDE DEF set, arg
<1>7. y.at = 0 /\ DOMAIN r = DOMAIN root
  BY DEF RootSlot, RootWith
<1>8. Typed(g, q, lost) /\ g \in [Cell -> CellType] /\ Ranked(g) /\ g[c].live /\ g[c] = k[c]
  <2> HIDE DEF g, q
  <2>1. Typed(g, q, lost) /\ g \in [Cell -> CellType] /\ Ranked(g) /\ Points(g, q, lost)
    BY <1>5 DEF Owned, Typed
  <2>2. g[c].live
    BY <1>5, <2>1 DEF Points
  <2>3. g[c] = k[c]
    BY <1>5, PutCells DEF g
  <2> QED
    BY <2>1, <2>2, <2>3
\* The member of the pair
<1> DEFINE m == [in |-> c, at |-> 1]
<1>9. /\ m \in SlotsIn(g, q) /\ ObjectAt(g, q, m) = old /\ m.at = 1 /\ m.in = c /\ m # y
      /\ Len(g[c].kids) = 1 /\ old \in Objects
  <2> HIDE DEF g, q
  <2>1. Len(g[c].kids) = 1
    BY <1>5 DEF Owned, PairsWhole
  <2>2. 1 \in DOMAIN g[c].kids
    <3>1. g[c].kids \in Seq(Labels \X Objects)
      BY <1>5, <1>8 DEF CellType, Kids
    <3> QED
      BY <2>1, <3>1
  <2>3. m \in SlotsIn(g, q) /\ ObjectAt(g, q, m) = g[c].kids[1][2]
    BY <1>5, <1>8, <2>2, MemberSlot
  <2>4. ObjectAt(g, q, m) \in Objects
    BY <1>8, <2>3, ObjectTyped
  <2>5. m # y
    BY <1>7
  <2> QED
    BY <1>8, <2>1, <2>3, <2>4, <2>5
<1> HIDE DEF m, y
<1> DEFINE O == CellsOf(g, old)
<1>10. c \notin O
  <2> HIDE DEF g, q, old
  <2>1. CASE OnHeap(old)
    BY <1>8, <1>9, <2>1, NotWithin
  <2>2. CASE ~OnHeap(old)
    BY <2>2 DEF CellsOf
  <2> QED
    BY <2>1, <2>2
<1>11. s.at = 0 \/ s.in \notin O
  <2> HIDE DEF g, q, old
  <2> SUFFICES ASSUME s.at # 0, s.in \in O PROVE FALSE
    OBVIOUS
  <2>1. Closed(g, O)
    BY <1>8, CellsClosed
  <2>2. s.at \in DOMAIN g[s.in].kids /\ g[s.in].kids[s.at][2] = j
    BY <1>5 DEF SlotsIn, ObjectAt
  <2>3. c \in O
    BY <1>5, <2>1, <2>2 DEF Closed
  <2> QED
    BY <1>10, <2>3
<1>12. O \cap A = {}
  <2> HIDE DEF g, q, old
  <2>1. m.at = 0 \/ m.in \notin CellsOf(g, ObjectAt(g, q, y))
    BY <1>5, <1>9
  <2>2. CellsOf(g, ObjectAt(g, q, m)) \cap CellsOf(g, ObjectAt(g, q, y)) = {}
    BY <1>5, <1>7, <1>9, <2>1, Apart
  <2> QED
    BY <1>5, <1>9, <2>2
<1>13. A \subseteq Cell /\ (\A h \in A : g[h].live)
  <2> HIDE DEF g, q
  <2>1. CellsOf(g, ObjectAt(g, q, y)) \subseteq Cell /\ \A h \in CellsOf(g, ObjectAt(g, q, y)) : g[h].live
    BY <1>5, CellsLive
  <2> QED
    BY <1>5, <2>1
\* is assigned the copy of the argument,
<1> DEFINE fg == Delete(g, old)
           cg == Clone(fg, a)
           p == HeapWith(cg.heap, m, cg.json)
<1>14. /\ Owned(p, q, lost) /\ m \in SlotsIn(p, q) /\ ObjectAt(p, q, m) = cg.json
       /\ Typed(cg.heap, q, lost)
       /\ \A h \in Cell \ O : g[h].live => cg.heap[h] = g[h]
  <2> HIDE DEF g, q, old
  <2>1. RootWith(q, m, cg.json) = q
    BY <1>9 DEF RootWith
  <2>2. OnHeap(ObjectAt(g, q, m)) => m.at = 0 \/ m.in \notin CellsOf(g, ObjectAt(g, q, y))
    BY <1>5, <1>9
  <2>3. Fits(g, ObjectAt(g, q, y))
    BY <1>5
  <2>4. LET cp == Clone(Delete(g, ObjectAt(g, q, m)), ObjectAt(g, q, y))
            gg == HeapWith(cp.heap, m, cp.json)
            qq == RootWith(q, m, cp.json)
        IN  /\ Owned(gg, qq, lost)
            /\ m \in SlotsIn(gg, qq) /\ ObjectAt(gg, qq, m) = cp.json
            /\ Typed(cp.heap, q, lost)
            /\ \A h \in Cell \ CellsOf(g, ObjectAt(g, q, m)) : g[h].live => cp.heap[h] = g[h]
    BY <1>5, <1>7, <1>9, <2>2, <2>3, CopiedTo
  <2>5. Clone(Delete(g, ObjectAt(g, q, m)), ObjectAt(g, q, y)) = cg
    BY <1>5, <1>9
  <2> HIDE DEF cg
  <2> QED
    BY <1>5, <1>9, <2>1, <2>4, <2>5
<1>15. /\ CellsOf(k, old) = O /\ fg = HeapWith(f, s, j)
  <2> HIDE DEF old, k, j
  <2> QED
    BY <1>5, <1>9, <1>11, Aside
<1>16. /\ f \in [Cell -> CellType] /\ fg \in [Cell -> CellType] /\ (s.at # 0 => s.in \in Cell /\ f[s.in].live)
       /\ \A h \in Cell \ O : fg[h] = g[h]
  <2>1. Freed \in CellType
    BY DEF Freed, CellType, Kids
  <2> HIDE DEF old, k, j, g
  <2>2. f \in [Cell -> CellType] /\ fg \in [Cell -> CellType]
    BY <1>5, <1>8, <2>1 DEF Delete
  <2>3. \A h \in Cell \ O : fg[h] = g[h] /\ f[h] = k[h]
    BY <1>15 DEF Delete
  <2> HIDE DEF f, fg, O
  <2> QED
    BY <1>5, <1>11, <2>2, <2>3
<1>17. CellsOf(fg, a) = A /\ Fits(fg, a)
  <2> HIDE DEF old, k, j, fg
  <2>1. \A h \in A : fg[h] = g[h]
    BY <1>12, <1>13, <1>16
  <2>2. OnHeap(a) => a.word \in Cell
    BY <1>5, ObjectKinds
  <2>3. CellsOf(fg, a) = A
    <3> HIDE DEF g
    <3> QED
      BY <1>8, <1>16, <2>1, <2>2, CellsAgree
  <2>4. FreeCells(g) \subseteq FreeCells(fg)
    BY DEF FreeCells, Delete, Freed, fg
  <2> QED
    BY <1>5, <2>3, <2>4, FitsMore
<1>18. cg.json = copy.json /\ cg.heap = HeapWith(copy.heap, s, j)
  <2>1. s.at = 0 \/ s.in \notin CellsOf(HeapWith(f, s, j), a)
    BY <1>5, <1>15, <1>17
  <2>2. Fits(HeapWith(f, s, j), a)
    BY <1>15, <1>17
  <2> HIDE DEF f, j, a
  <2>3. /\ Clone(HeapWith(f, s, j), a).json = Clone(f, a).json
        /\ Clone(HeapWith(f, s, j), a).heap = HeapWith(Clone(f, a).heap, s, j)
    BY <1>5, <1>16, <2>1, <2>2, Aside
  <2> QED
    BY <1>15, <2>3
<1>19. copy.heap \in [Cell -> CellType] /\ copy.json \in Objects /\ (s.at # 0 => s.in \in Cell /\ copy.heap[s.in].live)
  <2>1. CellsOf(f, a) = CellsOf(HeapWith(f, s, j), a) /\ FreeCells(f) = FreeCells(HeapWith(f, s, j))
    <3>1. s.at = 0 \/ s.in \notin CellsOf(HeapWith(f, s, j), a)
      BY <1>5, <1>15, <1>17
    <3> HIDE DEF f, j, a
    <3> QED
      BY <1>5, <1>16, <3>1, Aside
  <2>2. Fits(f, a)
    BY <1>15, <1>17, <2>1 DEF Fits
  <2> HIDE DEF f, a, fg
  <2>3. copy.heap \in [Cell -> CellType] /\ copy.json \in Objects /\ \A h \in Cell : f[h].live => copy.heap[h] = f[h]
    BY <1>5, <1>16, <2>2, CloneTyped
  <2> HIDE DEF copy
  <2> QED
    BY <1>16, <2>3
\* its data and label are set,
<1> DEFINE cell == [copy.heap[c] EXCEPT !.data = d, !.kids = <<<<"second", copy.json>>>>]
           w == [p EXCEPT ![c] = cell]
<1>20. /\ cell \in CellType /\ cell.live = copy.heap[c].live /\ cell.kids = <<<<"second", copy.json>>>>
       /\ Len(cell.kids) = 1 /\ DOMAIN cell.kids = {1} /\ cell.kids[1][2] = copy.json
       /\ e = [copy.heap EXCEPT ![c] = cell]
  <2>1. e = [copy.heap EXCEPT ![c] = cell]
    OBVIOUS
  <2> HIDE DEF copy, c, e
  <2> DEFINE one == <<<<"second", copy.json>>>>
             was == copy.heap[c]
  <2>2. was \in CellType /\ <<"second", copy.json>> \in Labels \X Objects
    BY <1>5, <1>19 DEF Labels
  <2>3. one \in Kids /\ Len(one) = 1 /\ DOMAIN one = {1} /\ one[1][2] = copy.json
    BY <2>2 DEF Kids
  <2>4. cell = [was EXCEPT !.data = d, !.kids = one]
    OBVIOUS
  <2> HIDE DEF one, was, cell
  <2>5. cell \in CellType /\ cell.live = was.live /\ cell.kids = one
    BY <2>2, <2>3, <2>4 DEF CellType
  <2> QED
    BY <2>1, <2>3, <2>5 DEF one, was
<1>21. e \in [Cell -> CellType] /\ e[c] = cell /\ (\A h \in Cell \ {c} : e[h] = copy.heap[h])
       /\ (s.at # 0 => s.in \in Cell /\ e[s.in].live)
  <2> HIDE DEF copy, c, e, cell
  <2> QED
    BY <1>5, <1>19, <1>20
<1>22. w = HeapWith(e, s, j)
  <2> HIDE DEF copy, c, cg, cell, j
  <2>1. p = [cg.heap EXCEPT ![c].kids[1][2] = cg.json]
    BY <1>9 DEF HeapWith
  <2>2. cg.heap = [h \in Cell |-> cg.heap[h]]
    BY <1>14 DEF Typed
  <2>3. w = [cg.heap EXCEPT ![c] = cell]
    BY <1>5, <2>1, <2>2
  <2>4. copy.heap = [h \in Cell |-> copy.heap[h]]
    BY <1>19
  <2>5. [HeapWith(copy.heap, s, j) EXCEPT ![c] = cell] = HeapWith([copy.heap EXCEPT ![c] = cell], s, j)
    <3>1. c \in Cell /\ (s.at = 0 \/ c # s.in)
      BY <1>5
    <3> DEFINE h == copy.heap
    <3>2. h = [u \in Cell |-> h[u]]
      BY <2>4
    <3> HIDE DEF cell, h
    <3>3. [HeapWith(h, s, j) EXCEPT ![c] = cell] = HeapWith([h EXCEPT ![c] = cell], s, j)
      BY <3>1, <3>2, EditAside
    <3> QED
      BY <3>3 DEF h
  <2> HIDE DEF e, w
  <2> QED
    BY <1>18, <1>20, <2>3, <2>5
<1>23. cg.heap[c] = g[c] /\ copy.heap[c].live /\ m \in SlotsIn(cg.heap, q)
  <2>1. cg.heap[c] = g[c]
    BY <1>5, <1>8, <1>10, <1>14
  <2>2. copy.heap[c] = cg.heap[c]
    <3>1. copy.heap = [h \in Cell |-> copy.heap[h]]
      BY <1>19
    <3> HIDE DEF copy, c, cg, j
    <3> QED
      BY <1>5, <1>18, <3>1, PutCells
  <2> HIDE DEF copy, c, cg, g, q
  <2>3. m \in SlotsIn(cg.heap, q)
    BY <1>9, <2>1 DEF SlotsIn
  <2> QED
    BY <1>8, <2>1, <2>2, <2>3
<1>24. p[c].live /\ Len(p[c].kids) = 1 /\ DOMAIN p[c].kids = {1} /\ p[c].kids[1][2] = copy.json /\ p \in [Cell -> CellType]
  <2> HIDE DEF copy, c, cg, g, q
  <2>1. /\ p[c].live = cg.heap[c].live /\ Len(p[c].kids) = Len(cg.heap[c].kids)
    <3>1. cg.json \in Objects
      BY <1>18, <1>19
    <3> QED
      BY <1>5, <1>14, <1>23, <3>1, PutSlots
  <2>2. p \in [Cell -> CellType]
    <3> HIDE DEF p
    <3> QED
      BY <1>14 DEF Owned, Typed
  <2>3. p[c].kids[1][2] = cg.json
    <3>1. ObjectAt(p, q, m) = p[m.in].kids[m.at][2]
      BY <1>9 DEF ObjectAt
    <3> HIDE DEF p
    <3> QED
      BY <1>9, <1>14, <3>1
  <2> HIDE DEF p
  <2>4. Len(p[c].kids) = 1
    BY <1>9, <1>23, <2>1
  <2>5. p[c].kids \in Seq(Labels \X Objects)
    BY <1>5, <2>2 DEF CellType, Kids
  <2> QED
    BY <1>8, <1>18, <1>23, <2>1, <2>2, <2>3, <2>4, <2>5
<1>25. Owned(w, q, lost)
  <2> HIDE DEF copy, c, cg, g, q, p, cell
  <2>1. w \in [Cell -> CellType] /\ w[c] = cell /\ \A h \in Cell \ {c} : w[h] = p[h]
    BY <1>5, <1>20, <1>24
  <2> HIDE DEF w
  <2>2. \A h \in Cell : /\ w[h].live = p[h].live /\ Len(w[h].kids) = Len(p[h].kids)
                        /\ DOMAIN w[h].kids = DOMAIN p[h].kids
                        /\ \A i \in DOMAIN p[h].kids : w[h].kids[i][2] = p[h].kids[i][2]
    <3> SUFFICES ASSUME NEW h \in Cell
                 PROVE  /\ w[h].live = p[h].live /\ Len(w[h].kids) = Len(p[h].kids)
                        /\ DOMAIN w[h].kids = DOMAIN p[h].kids
                        /\ \A i \in DOMAIN p[h].kids : w[h].kids[i][2] = p[h].kids[i][2]
      OBVIOUS
    <3>1. CASE h = c
      <4>1. w[h].live /\ p[h].live
        BY <1>20, <1>23, <1>24, <2>1, <3>1
      <4>2. Len(w[h].kids) = 1 /\ DOMAIN w[h].kids = {1} /\ w[h].kids[1][2] = copy.json
        BY <1>20, <2>1, <3>1
      <4>3. w[h].live = p[h].live
        BY <1>20, <1>23, <1>24, <2>1, <3>1, <4>1
      <4> QED
        BY <1>24, <3>1, <4>2, <4>3
    <3>2. CASE h # c
      BY <2>1, <3>2
    <3> QED
      BY <3>1, <3>2
  <2> QED
    BY <1>14, <2>1, <2>2, SameMembers
\* and the argument goes.
<1>26. Delete(w, a) = HeapWith(Delete(e, a), s, j)
  <2>1. CellsOf(w, a) = A
    <3> HIDE DEF copy, c, cg, g, q, cell, a
    <3>1. \A h \in Cell \ {c} : w[h] = cg.heap[h]
      <4>1. p = [cg.heap EXCEPT ![c].kids[1][2] = cg.json]
        BY <1>9 DEF HeapWith
      <4>2. cg.heap = [h \in Cell |-> cg.heap[h]]
        BY <1>14 DEF Typed
      <4> QED
        BY <4>1, <4>2
    <3>2. w \in [Cell -> CellType]
      BY <1>5, <1>20, <1>24
    <3> HIDE DEF w, p
    <3>3. \A h \in A : w[h] = g[h]
      BY <1>5, <1>12, <1>13, <1>14, <3>1
    <3>4. OnHeap(a) => a.word \in Cell
      BY <1>5, ObjectKinds
    <3> QED
      BY <1>8, <3>2, <3>3, <3>4, CellsAgree
  <2> HIDE DEF w, e, a, j
  <2>2. s.at = 0 \/ s.in \notin CellsOf(HeapWith(e, s, j), a)
    BY <1>5, <1>22, <2>1
  <2>3. Delete(HeapWith(e, s, j), a) = HeapWith(Delete(e, a), s, j)
    <3>1. e \in [Cell -> CellType] /\ (s.at # 0 => s.in \in Cell /\ e[s.in].live) /\ j \in Objects /\ a \in Objects
      BY <1>5, <1>21
    <3> QED
      BY <2>2, <3>1, Aside
  <2> QED
    BY <1>22, <2>3
<1>27. x \in DOMAIN q /\ q[x] = a /\ Without(q, x) = r
  <2>1. r = [u \in DOMAIN r |-> r[u]]
    <3>1. root = [u \in DOMAIN root |-> root[u]]
      BY <1>1 DEF Owned, Typed
    <3> QED
      BY <3>1 DEF RootWith
  <2>2. x \notin DOMAIN r
    BY <1>3, <1>7
  <2> HIDE DEF r, a
  <2> QED
    BY <2>1, <2>2 DEF With, Without
<1> HIDE DEF q, w, e, a, j, g, r
<1>28. Owned(Delete(w, q[x]), Without(q, x), lost)
  BY <1>25, <1>27, Dropped
<1> QED
  BY <1>1, <1>2, <1>6, <1>7, <1>26, <1>27, <1>28 DEF IInv

-----------------------------------------------------------------------------
(* The specification *)

LEMMA OperateOwned ==
    ASSUME IInv, NEW s \in Places, Operate(s)
    PROVE  IInv'
<1>1. Places \subseteq Slots
  BY DEF Places
<1>2. ASSUME NEW d \in Datum, AssignHash(s, d) PROVE IInv'
  BY <1>1, <1>2, AssignHashOwned
<1>3. ASSUME NEW d \in Datum, NEW type \in {"Integral", "String"}, AssignScalar(s, type, d) PROVE IInv'
  BY <1>1, <1>3, AssignScalarOwned
<1>4. ASSUME NEW type \in {"Object", "Array", "Pair", "FIOObject"}, Become(s, type) PROVE IInv'
  BY <1>1, <1>4, BecomeOwned
<1>5. ASSUME NEW label \in Label, AddMember(s, "Object", label) PROVE IInv'
  BY <1>1, <1>5, AddMemberOwned DEF Labels
<1>6. ASSUME AddMember(s, "Array", "element") PROVE IInv'
  BY <1>1, <1>6, AddMemberOwned DEF Labels
<1>7. ASSUME Object(s).type = "Object", NEW i \in DOMAIN heap[Object(s).word].kids, EraseMember(s, i) PROVE IInv'
  BY <1>1, <1>7, EraseMemberOwned
<1>8. ASSUME NEW q \in Places, CopyAssign(s, q) PROVE IInv'
  BY <1>1, <1>8, CopyAssignOwned
<1>9. ASSUME NEW q \in Places, MoveAssign(s, q) PROVE IInv'
  BY <1>1, <1>9, MoveAssignOwned
<1>10. ASSUME NEW q \in Places, AppendTo(s, q) PROVE IInv'
  BY <1>1, <1>10, AppendToOwned
<1>11. ASSUME NEW q \in Places, NEW d \in Datum, SetPair(s, d, q) PROVE IInv'
  BY <1>1, <1>11, SetPairOwned
<1> QED
  BY <1>2, <1>3, <1>4, <1>5, <1>6, <1>7, <1>8, <1>9, <1>10, <1>11 DEF Operate

LEMMA NothingOwned == ObjectsInit => IInv
<1> SUFFICES ASSUME ObjectsInit PROVE IInv
  OBVIOUS
<1>1. /\ root = [x \in Var |-> Null] /\ heap = [c \in Cell |-> Freed] /\ lost = {}
      /\ Freed \in CellType /\ ~Freed.live /\ Freed.kids = <<>> /\ DOMAIN Freed.kids = {}
      /\ Null \in Objects /\ ~OnHeap(Null) /\ Null.type # "Pair"
  BY DEF ObjectsInit, Freed, CellType, Kids, Null, Json, Objects, OnHeap
<1>2. Typed(heap, root, lost)
  BY <1>1 DEF Typed
<1>3. \A s \in SlotsIn(heap, root) : ObjectAt(heap, root, s) = Null
  BY <1>1 DEF SlotsIn, ObjectAt
<1>4. Points(heap, root, lost) /\ Unique(heap, root) /\ PairsWhole(heap, root)
  BY <1>1, <1>3 DEF Points, Unique, PairsWhole
<1>5. Kept(heap, root, lost)
  BY <1>1 DEF Kept
<1>6. Ranked(heap)
  <2>1. [c \in Cell |-> 0] \in [Cell -> Nat]
    OBVIOUS
  <2>2. RankOK([c \in Cell |-> 0], heap)
    BY <1>1 DEF RankOK
  <2> QED
    BY <2>1, <2>2 DEF Ranked
<1> QED
  BY <1>1, <1>2, <1>4, <1>5, <1>6 DEF IInv, Owned

\* The heap with its objects stays owned: members are typed, every object on the
\* heap has a live cell of its own, live cells but the lost ones have an object,
\* and no cell lies in itself, whatever is assigned, copied, moved, appended,
\* erased or destroyed (Json.h 226-421, 1229-1318).
THEOREM InductiveInv == ObjectsSpec => []IInv
<1>1. IInv /\ [ObjectsNext]_objectVars => IInv'
  <2> SUFFICES ASSUME IInv, [ObjectsNext]_objectVars PROVE IInv'
    OBVIOUS
  <2>1. ASSUME NEW s \in Places, Operate(s) PROVE IInv'
    BY <2>1, OperateOwned
  <2>2. ASSUME NEW x \in Var, Destroy(x) PROVE IInv'
    BY <2>2, DestroyOwned
  <2>3. CASE UNCHANGED objectVars
    BY <2>3 DEF objectVars, IInv
  <2> QED
    BY <2>1, <2>2, <2>3 DEF ObjectsNext
<1> QED
  BY <1>1, NothingOwned, PTL DEF ObjectsSpec

\* Every cell in use has one owner, so that none is freed twice, used when it is
\* freed, or left behind; only assigned hashes lose cells (Json.h 226-421,
\* 455-462, 1229-1318).
THEOREM AlwaysOwned == ObjectsSpec => []CellsAreOwned
<1>1. IInv => CellsAreOwned
  <2> SUFFICES ASSUME IInv PROVE CellsAreOwned
    OBVIOUS
  <2>1. /\ Points(heap, root, lost) /\ Unique(heap, root) /\ Kept(heap, root, lost)
        /\ Slots = SlotsIn(heap, root) /\ \A s \in Slots : Object(s) = ObjectAt(heap, root, s)
    BY Here DEF Owned
  <2>2. ASSUME NEW c \in Cell, heap[c].live PROVE Cardinality(Owners(c)) = IF c \in lost THEN 0 ELSE 1
    <3>1. CASE c \in lost
      <4>1. Owners(c) = {}
        BY <2>1, <3>1 DEF Owners, Points
      <4> QED
        BY <3>1, <4>1, FS_EmptySet
    <3>2. CASE c \notin lost
      <4>1. PICK s \in Slots : OnHeap(Object(s)) /\ Object(s).word = c
        BY <2>1, <2>2, <3>2 DEF Kept
      <4>2. Owners(c) = {s}
        BY <2>1, <4>1 DEF Owners, Unique
      <4> QED
        BY <3>2, <4>2, FS_Singleton
    <3> QED
      BY <3>1, <3>2
  <2> QED
    BY <2>1, <2>2 DEF CellsAreOwned, Points
<1> QED
  BY <1>1, InductiveInv, PTL
=============================================================================
