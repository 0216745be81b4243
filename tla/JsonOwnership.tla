----------------------------- MODULE JsonOwnership ----------------------------
(***************************************************************************)
(* The objects of sgx/src/include/Json.h in memory: an object is a type    *)
(* and a word, which for most types points to a cell of the heap that the  *)
(* object owns.  Constructors, assignments and SetType take and free cells *)
(* by hand; the word and the type of an object change at different times.  *)
(*                                                                         *)
(* A cell holds data (the characters of a string, the first of a pair) and *)
(* its member objects, with the keys of a map as labels.  Members are kept *)
(* in the order of their creation.  "FIOObject" stands for "FlatObject",   *)
(* and "String" for "Buffer", too.                                         *)
(***************************************************************************)
EXTENDS Integers, Sequences, FiniteSets, Functions

CONSTANTS
    Var,        \* objects that are not members of others
    Label,      \* keys
    Datum,
    Cell,       \* bound: cells of the heap
    MaxLost,    \* bound: cells that are lost
    MaxKids,    \* bound: members of a container
    MaxDepth    \* bound: members on the way to an object

ASSUME CellAssumption == IsFiniteSet(Cell)

VARIABLES
    root,       \* the objects of Var
    heap,       \* the cells
    lost        \* cells without an owner that operator= of a hash leaves

objectVars == <<root, heap, lost>>

Json(type, word) == [type |-> type, word |-> word]
Null == Json("Null", 0)
Freed == [live |-> FALSE, data |-> 0, kids |-> <<>>]
OnHeap(v) == v.type \notin {"Null", "Integral"}

FreeCells(h) == {c \in Cell : ~h[c].live}
Fresh(h) == CHOOSE c \in FreeCells(h) : TRUE

ObjectsInit ==
    /\ root = [x \in Var |-> Null]
    /\ heap = [c \in Cell |-> Freed]
    /\ lost = {}

-----------------------------------------------------------------------------
(* Cells: an operation on the heap gives the heap after it, and the object   *)

\* S has the cells of all members of its cells.
Closed(h, S) == \A c \in S : \A i \in DOMAIN h[c].kids : OnHeap(h[c].kids[i][2]) => h[c].kids[i][2].word \in S

\* The cells of an object: its own, those of its members, and so on.
CellsOf(h, v) ==
    IF ~OnHeap(v) THEN {}
    ELSE LET sets == {S \in SUBSET Cell : v.word \in S /\ Closed(h, S)}
         IN  {c \in Cell : \A S \in sets : c \in S}

\* ClearInternal and the destructor: members go with their container.
Delete(h, v) == LET gone == CellsOf(h, v) IN [c \in Cell |-> IF c \in gone THEN Freed ELSE h[c]]

\* A copy's object, when the copy of each cell is known.
CopyOf(to, v) == IF OnHeap(v) THEN Json(v.type, to[v.word]) ELSE v

\* The copy constructor and operator=(const JSON &) after ClearInternal: a new
\* cell, and copies of the members, with theirs.
Clone(h, v) ==
    LET to == CHOOSE f \in Injection(CellsOf(h, v), FreeCells(h)) : TRUE
        from == [c \in Range(to) |-> CHOOSE d \in DOMAIN to : to[d] = c]
        copied(cell) == [cell EXCEPT !.kids = [i \in DOMAIN cell.kids |->
                                                 <<cell.kids[i][1], CopyOf(to, cell.kids[i][2])>>]]
    IN  [heap |-> [c \in Cell |-> IF c \in Range(to) THEN copied(h[from[c]]) ELSE h[c]], json |-> CopyOf(to, v)]

\* new, with the members it starts with.
New(h, type, kids) ==
    [heap |-> [h EXCEPT ![Fresh(h)] = [live |-> TRUE, data |-> 0, kids |-> kids]], json |-> Json(type, Fresh(h))]

\* Mutated form: the old cell is forgotten.
SetTypeLeaky(h, v, type) ==
    IF v.type = type THEN [heap |-> h, json |-> v]
    ELSE CASE type = "Integral" -> [heap |-> h, json |-> Json(type, 0)]
           [] type = "Pair" -> New(h, type, <<<<"second", Null>>>>)
           [] type = "FIOObject" ->
                LET key == New(h, "Object", <<>>)
                    val == New(key.heap, "Object", <<>>)
                IN  New(val.heap, type, <<<<"key", key.json>>, <<"val", val.json>>>>)
           [] OTHER -> New(h, type, <<>>)

\* SetType: nothing for the same type, else the old cell is freed and a new
\* one made.
SetType(h, v, type) ==
    IF v.type = type THEN [heap |-> h, json |-> v]
    ELSE LET g == Delete(h, v)
         IN  CASE type = "Integral" -> [heap |-> g, json |-> Json(type, 0)]
               [] type = "Pair" -> New(g, type, <<<<"second", Null>>>>)
               [] type = "FIOObject" ->
                    LET key == New(g, "Object", <<>>)
                        val == New(key.heap, "Object", <<>>)
                    IN  New(val.heap, type, <<<<"key", key.json>>, <<"val", val.json>>>>)
               [] OTHER -> New(g, type, <<>>)

-----------------------------------------------------------------------------
(* Places: a variable, or a member of a cell *)

Slots == {[in |-> x, at |-> 0] : x \in Var}
           \cup UNION {{[in |-> c, at |-> i] : i \in DOMAIN heap[c].kids} : c \in Cell}

Object(s) == IF s.at = 0 THEN root[s.in] ELSE heap[s.in].kids[s.at][2]

\* s lies in the value of v.
Inside(s, v) == s.at # 0 /\ s.in \in CellsOf(heap, v)

\* The object at s becomes v, in heap h.
Put(s, h, v) ==
    /\ root' = IF s.at = 0 THEN [root EXCEPT ![s.in] = v] ELSE root
    /\ heap' = IF s.at = 0 THEN h ELSE [h EXCEPT ![s.in].kids[s.at][2] = v]

\* Cells that are as deep as may be have no members.
Bounded ==
    LET below(c) == {heap'[c].kids[i][2].word : i \in {k \in DOMAIN heap'[c].kids : OnHeap(heap'[c].kids[k][2])}}
        level[n \in 0 .. MaxDepth] ==
            IF n = 0 THEN {root'[x].word : x \in {y \in Var : OnHeap(root'[y])}}
            ELSE UNION {below(c) : c \in level[n - 1]}
    IN  \A c \in level[MaxDepth] : heap'[c].kids = <<>>

\* There is room for n cells more.
Room(n) == Cardinality(FreeCells(heap)) >= n
Weight(v) == Cardinality(CellsOf(heap, v))

-----------------------------------------------------------------------------
(* Operations.  The source of an assignment lies neither in its target nor,  *)
(* where that owns a cell, around it: it would be read when it is freed       *)

\* operator= of an integer, a string, or other scalars; AppendStr and the like
\* change the data in the cell.
AssignScalar(s, type, d) ==
    LET set == SetType(heap, Object(s), type)
    IN  /\ Room(1)
        /\ IF type = "Integral" THEN Put(s, set.heap, Json(type, d))
           ELSE Put(s, [set.heap EXCEPT ![set.json.word].data = d], set.json)
        /\ UNCHANGED lost

\* operator= of a hash takes a cell after SetType has taken one.
AssignHash(s, d) ==
    LET set == SetType(heap, Object(s), "Hash")
        c == Fresh(set.heap)
    IN  /\ Room(2) /\ Cardinality(lost) < MaxLost
        /\ Put(s, [set.heap EXCEPT ![c] = [live |-> TRUE, data |-> d, kids |-> <<>>]], Json("Hash", c))
        /\ lost' = lost \cup {set.json.word}

\* Array(), Object(), FIOObject(), Pair(), and every use of an object as one.
Become(s, type) ==
    LET set == SetType(heap, Object(s), type)
    IN  Room(3) /\ Put(s, set.heap, set.json) /\ UNCHANGED lost

\* operator=(const JSON &), and the copy constructor for a null object.
CopyAssign(s, q) ==
    LET copy == Clone(Delete(heap, Object(s)), Object(q))
    IN  /\ s # q /\ ~Inside(q, Object(s)) /\ (Inside(s, Object(q)) => ~OnHeap(Object(s)))
        /\ Room(Weight(Object(q)))
        /\ Put(s, copy.heap, copy.json)
        /\ UNCHANGED lost

\* Mutated form: the object that is moved from keeps its word and type.
LeftBehindBoth(v) == v

\* What a move leaves.
LeftBehind(v) == Null

\* operator=(JSON &&), and the move constructor for a null object.
MoveAssign(s, q) ==
    LET h == Delete(heap, Object(s))
    IN  /\ s # q /\ ~Inside(q, Object(s)) /\ ~Inside(s, Object(q))
        /\ root' = [x \in Var |-> IF s = [in |-> x, at |-> 0] THEN Object(q)
                                  ELSE IF q = [in |-> x, at |-> 0] THEN LeftBehind(Object(q)) ELSE root[x]]
        /\ heap' = [c \in Cell |->
                       [h[c] EXCEPT !.kids = [i \in DOMAIN h[c].kids |->
                           <<h[c].kids[i][1], IF s = [in |-> c, at |-> i] THEN Object(q)
                                              ELSE IF q = [in |-> c, at |-> i] THEN LeftBehind(Object(q))
                                              ELSE h[c].kids[i][2]>>]]]
        /\ UNCHANGED lost

\* operator[] of a key or an index that is not there yet.
AddMember(s, type, label) ==
    LET set == SetType(heap, Object(s), type)
        kids == set.heap[set.json.word].kids
    IN  /\ Room(1) /\ Len(kids) < MaxKids
        /\ type = "Object" => \A i \in DOMAIN kids : kids[i][1] # label
        /\ Put(s, [set.heap EXCEPT ![set.json.word].kids = Append(@, <<label, Null>>)], set.json)
        /\ UNCHANGED lost

\* append: its argument is a copy, and its member a copy of that.
AppendTo(s, q) ==
    LET arg == Clone(heap, Object(q))
        set == SetType(arg.heap, Object(s), "Array")
        kid == Clone(set.heap, arg.json)
        kids == set.heap[set.json.word].kids
    IN  /\ Room(2 * Weight(Object(q)) + 1) /\ Len(kids) < MaxKids
        /\ Put(s, Delete([kid.heap EXCEPT ![set.json.word].kids = Append(@, <<"element", kid.json>>)], arg.json),
               set.json)
        /\ UNCHANGED lost

\* SetPair: its argument is a copy, which is assigned.
SetPair(s, d, q) ==
    LET arg == Clone(heap, Object(q))
        set == SetType(arg.heap, Object(s), "Pair")
        copy == Clone(Delete(set.heap, set.heap[set.json.word].kids[1][2]), arg.json)
    IN  /\ Room(2 * Weight(Object(q)) + 1)
        /\ Put(s, Delete([copy.heap EXCEPT ![set.json.word].data = d,
                                           ![set.json.word].kids = <<<<"second", copy.json>>>>], arg.json),
               set.json)
        /\ UNCHANGED lost

\* erase of a key.
EraseMember(s, i) ==
    LET v == Object(s)
        h == Delete(heap, heap[v.word].kids[i][2])
    IN  /\ heap' = [h EXCEPT ![v.word].kids = SubSeq(@, 1, i - 1) \o SubSeq(@, i + 1, Len(@))]
        /\ UNCHANGED <<root, lost>>

\* The destructor of a variable, whose next life starts as null.
Destroy(x) ==
    /\ Put([in |-> x, at |-> 0], Delete(heap, root[x]), Null)
    /\ UNCHANGED lost

\* The two members of a first-in-order object are its own affair.
Places == {s \in Slots : s.at = 0 \/ heap[s.in].kids[s.at][1] \notin {"key", "val"}}

Operate(s) ==
    \/ \E d \in Datum : AssignHash(s, d) \/ \E type \in {"Integral", "String"} : AssignScalar(s, type, d)
    \/ \E type \in {"Object", "Array", "Pair", "FIOObject"} : Become(s, type)
    \/ (\E label \in Label : AddMember(s, "Object", label)) \/ AddMember(s, "Array", "element")
    \/ Object(s).type = "Object" /\ \E i \in DOMAIN heap[Object(s).word].kids : EraseMember(s, i)
    \/ \E q \in Places : CopyAssign(s, q) \/ MoveAssign(s, q) \/ AppendTo(s, q) \/ \E d \in Datum : SetPair(s, d, q)

ObjectsNext == ((\E s \in Places : Operate(s)) \/ (\E x \in Var : Destroy(x))) /\ Bounded

ObjectsSpec == ObjectsInit /\ [][ObjectsNext]_objectVars

-----------------------------------------------------------------------------
(* Properties *)

\* The objects around a cell: variables and members that have its address.
Owners(c) == {s \in Slots : OnHeap(Object(s)) /\ Object(s).word = c}

\* Every cell in use has one owner, so that none is freed twice, used when it is
\* freed, or left behind; only assigned hashes lose cells (Json.h 226-421,
\* 455-462, 1229-1318).
CellsAreOwned ==
    /\ \A s \in Slots : OnHeap(Object(s)) => heap[Object(s).word].live
    /\ \A c \in Cell : heap[c].live => Cardinality(Owners(c)) = IF c \in lost THEN 0 ELSE 1
=============================================================================
