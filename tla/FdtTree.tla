------------------------------- MODULE FdtTree -------------------------------
(***************************************************************************)
(* The device tree that a blob stands for, read off the tags: its nodes in *)
(* document order with their properties, and its reservations.  Nothing    *)
(* here is the library's: it is the reading against which the calls of     *)
(* fdt_rw.c and fdt_sw.c and the searches of fdt_ro.c are checked.         *)
(***************************************************************************)
EXTENDS FdtBlob

\* The offsets of the nodes of walk w, and the number of the node at o.
Nodes(w) == {x.at : x \in Tagged(w, {FDT_BEGIN_NODE})}

NodeNo(w, o) == IF o \in Nodes(w) THEN Cardinality({t \in Nodes(w) : t <= o})
                ELSE 0

\* The properties of the node at o: the ones before its first subnode.
PropsOf(w, o) ==
    {x \in Tagged(w, {FDT_PROP}) :
        /\ x.at > o
        /\ \A y \in w : o < y.at /\ y.at < x.at => y.tag \in {FDT_PROP, FDT_NOP}}

PropName(m, o) == fdt_string(m, Value(At(m, o + 2)))

ValueAt(m, o) ==
    [i \in 1 .. PropLen(m, o) |->
        m[PropData(m, o) + (i - 1) \div 4].d[((i - 1) % 4) + 1]]

PropsAt(m, w, o) ==
    LET ps == {x.at : x \in PropsOf(w, o)}
    IN  [s \in {PropName(m, t) : t \in ps} |->
            ValueAt(m, CHOOSE t \in ps : PropName(m, t) = s)]

Decoded(m) ==
    LET w == Walk(m, 0)
        node(i) == CHOOSE x \in Tagged(w, {FDT_BEGIN_NODE}) : NodeNo(w, x.at) = i
    IN  [i \in 1 .. Cardinality(Nodes(w)) |->
            [depth |-> Depth(w, node(i)),
             name  |-> NameAt(m, node(i).at),
             props |-> PropsAt(m, w, node(i).at)]]

Reserved(m) ==
    [i \in 1 .. fdt_num_mem_rsv(m) |->
        LET e == fdt_off_mem_rsvmap(m) + RsvSize * (i - 1)
        IN  <<Value(m[e + 1]), Value(m[e + 3])>>]
=============================================================================
