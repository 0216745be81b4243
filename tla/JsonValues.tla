------------------------------ MODULE JsonValues ------------------------------
(***************************************************************************)
(* What programs expect of the JSON objects of sgx/src/include/Json.h: each *)
(* variable holds a value of its own, a tree.  An operation changes the    *)
(* place it is called on, and nothing else but a place that is moved from. *)
(*                                                                         *)
(* A tree has a type, some data, and members: pairs of a label and a tree. *)
(* A place is a variable and the positions of members on the way down.     *)
(***************************************************************************)
EXTENDS Integers, Sequences, SequencesExt

CONSTANTS
    Var,
    Label,
    Datum,
    MaxDepth    \* bound: members on the way to a place

VARIABLE value

Tree(type, data, kids) == [type |-> type, data |-> data, kids |-> kids]
NullTree == Tree("Null", 0, <<>>)
\* A container as SetType makes it; a first-in-order object is made of two others.
Empty(type) ==
    Tree(type, 0, CASE type = "Pair" -> <<<<"second", NullTree>>>>
                    [] type = "FIOObject" -> <<<<"key", Tree("Object", 0, <<>>)>>, <<"val", Tree("Object", 0, <<>>)>>>>
                    [] OTHER -> <<>>)

RECURSIVE PathsOf(_, _), At(_, _), Replaced(_, _, _)
PathsOf(tree, depth) ==
    {<<>>} \cup (IF depth = 0 THEN {}
                 ELSE UNION {{<<i>> \o p : p \in PathsOf(tree.kids[i][2], depth - 1)} : i \in DOMAIN tree.kids})
At(tree, path) == IF path = <<>> THEN tree ELSE At(tree.kids[Head(path)][2], Tail(path))
Replaced(tree, path, new) ==
    IF path = <<>> THEN new
    ELSE [tree EXCEPT !.kids[Head(path)][2] = Replaced(@, Tail(path), new)]

PlacesIn(v) == UNION {{[var |-> x, path |-> p] : p \in PathsOf(v[x], MaxDepth)} : x \in Var}
TreeAt(v, p) == At(v[p.var], p.path)

\* p is q, or a place in the value at q.
Within(p, q) == p.var = q.var /\ IsPrefix(q.path, p.path)

Put(v, p, tree) == [v EXCEPT ![p.var] = Replaced(@, p.path, tree)]

\* What a tree is when it is used as one of that type.
Turned(tree, type) == IF tree.type = type THEN tree ELSE Empty(type)

\* With a member more, at the end.
Extended(tree, type, label, kid) == [Turned(tree, type) EXCEPT !.kids = Append(@, <<label, kid>>)]

Without(tree, i) == [tree EXCEPT !.kids = SubSeq(@, 1, i - 1) \o SubSeq(@, i + 1, Len(@))]

\* What an operation makes of a tree: a scalar, an empty container, the tree
\* with a member more or less, or a value from anywhere, as it is or inside it.
Becomes(v, tree, new) ==
    \/ new.type \in {"Integral", "String", "Hash"} /\ new.data \in Datum /\ new.kids = <<>>
    \/ new.type \in {"Object", "Array", "Pair", "FIOObject"} /\ new = Turned(tree, new.type)
    \/ \E label \in Label : new = Extended(tree, "Object", label, NullTree)
    \/ \E i \in DOMAIN tree.kids : new = Without(tree, i)
    \/ \E q \in PlacesIn(v) :
          LET source == TreeAt(v, q)
          IN  \/ new = source
              \/ new = Extended(tree, "Array", "element", source)
              \/ \E d \in Datum : new = Tree("Pair", d, <<<<"second", source>>>>)
    \/ new = Extended(tree, "Array", "element", NullTree)

\* One place has changed, or one has moved to another.
Changed(v, w) ==
    \E p \in PlacesIn(v) \cap PlacesIn(w) :
        LET new == TreeAt(w, p)
        IN  \/ /\ w = Put(v, p, new)
               /\ Becomes(v, TreeAt(v, p), new) \/ (p.path = <<>> /\ new = NullTree)
            \/ \E q \in PlacesIn(v) :
                  /\ ~Within(p, q) /\ ~Within(q, p)
                  /\ new = TreeAt(v, q) /\ w = Put(Put(v, p, new), q, NullTree)

Init == value = [x \in Var |-> NullTree]

Next == Changed(value, value')

Spec == Init /\ [][Next]_value
=============================================================================
