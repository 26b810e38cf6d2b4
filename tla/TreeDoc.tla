------------------------------ MODULE TreeDoc ------------------------------
(***************************************************************************)
(* Device trees as documents: the nodes in order, each with its depth (1   *)
(* for the root), its name and its properties.  A value is a sequence of   *)
(* u32 cells, or a text, which has no cells and a length that is no        *)
(* multiple of four.  A path is a text split at its slashes: "/a" is       *)
(* <<"", "a">>, and "/" is <<"", "">>.                                     *)
(***************************************************************************)
EXTENDS Integers, SequencesExt

CellsVal(c) == [cells |-> c, text |-> <<>>]
IsCells(v)  == v.text = <<>>

\* The node at depth k on the way from the root to node i.
AncestorAt(d, i, k) == CHOOSE j \in 1 .. i :
    d[j].depth = k /\ \A n \in j + 1 .. i : d[n].depth > k

PathOf(d, i) == [k \in 1 .. d[i].depth - 1 |-> d[AncestorAt(d, i, k + 1)].name]

\* The node with this path, 0 if there is none.
NodeAt(d, path) ==
    LET found == {i \in DOMAIN d : PathOf(d, i) = path}
    IN  IF found = {} THEN 0 ELSE CHOOSE i \in found : \A j \in found : i <= j

TreeOf(d) == [p \in {PathOf(d, i) : i \in DOMAIN d} |-> d[NodeAt(d, p)].props]

\* The phandle of a node with these properties, 0 if it has none.
PhandleIn(props) ==
    LET named(s) == s \in DOMAIN props /\ IsCells(props[s]) /\ Len(props[s].cells) = 1
    IN  IF named("phandle") THEN props["phandle"].cells[1]
        ELSE IF named("linux,phandle") THEN props["linux,phandle"].cells[1]
        ELSE 0
=============================================================================
