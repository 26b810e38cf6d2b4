------------------------------ MODULE FdtRoTree ------------------------------
(***************************************************************************)
(* What the read-only functions find, compared with the device tree that   *)
(* the blob stands for, after any sequence of edits: with FDT_NOP between  *)
(* the items, with strings that no property uses any more, and with the    *)
(* remains of edits that failed.                                           *)
(***************************************************************************)
EXTENDS FdtRwTree, FdtRo

CONSTANTS
    Strings,    \* strings to look for in a list
    Phandles,   \* phandles to look for
    BufLens     \* sizes of the buffer of fdt_get_path

\* Left out: fdt_set_name(), which cannot replace a name such as "aliases" (it
\* leaves a word behind it that is no tag), and two functions that have no effect
\* which fdt_setprop() or fdt_add_subnode() does not have.
NoEdits == {"set_name", "setprop_inplace", "add_subnode_namelen"}

\* The edits that change the blob, in full or half way before they fail.
RoSpec == TreeInit /\ [][TreeNext /\ mem' # mem /\ call'.op \notin NoEdits]_treeVars

\* The numbers of a set in ascending order.
Ascending(S) == [n \in 1 .. Cardinality(S) |->
                    CHOOSE x \in S : Cardinality({y \in S : y <= x}) = n]

\* The offsets of the nodes, in document order.
NodeOffsets == Ascending(Nodes(Walk(mem, 0)))

\* The nodes on the way from node i up to the root, node i included.
Ancestors(i) ==
    {j \in 1 .. i : \A k \in j + 1 .. i : doc[k].depth > doc[j].depth}

AncestorAt(i, depth) == CHOOSE j \in Ancestors(i) : doc[j].depth = depth

Children(i) == {j \in DOMAIN doc : doc[j].depth = doc[i].depth + 1 /\ i \in Ancestors(j)}

\* The offsets of the nodes in S, in document order.
InOrderOf(at, S) == [n \in 1 .. Cardinality(S) |-> at[Ascending(S)[n]]]

\* The names from below the root down to node i.
PathTo(i) == [d \in 1 .. doc[i].depth - 1 |-> doc[AncestorAt(i, d + 1)].name]

\* What the names of a path take up, each with its terminator and a slash.
Space(path) == MapThenSumSet(LAMBDA n : NameLen[path[n]] + 2, DOMAIN path)

\* No node on the way has an older sibling that its name could be mistaken for.
Unambiguous(i) ==
    \A j \in Ancestors(i) \ {1} :
        \A k \in Children(AncestorAt(j, doc[j].depth - 1)) :
            k < j => doc[j].name \notin {doc[k].name, BaseName[doc[k].name]}

-----------------------------------------------------------------------------

\* Counting depths over a tree with gaps: every node is found at its depth, below
\* the right parent and the right ancestors, and the root has none.
NodesAgree ==
    LET at == NodeOffsets
    IN  \A i \in DOMAIN doc :
            /\ fdt_node_depth(mem, at[i]) = doc[i].depth - 1
            /\ fdt_parent_offset(mem, at[i]) =
                    IF i = 1 THEN -FDT_ERR_NOTFOUND
                    ELSE at[AncestorAt(i, doc[i].depth - 1)]
            /\ \A d \in 1 .. doc[i].depth :
                    fdt_supernode_atdepth_offset(mem, at[i], d - 1).ret
                        = at[AncestorAt(i, d)]

\* fdt_for_each_subnode goes through the children of a node, each one once, and
\* neither into their children nor out into the siblings of the node.
SubnodesAgree ==
    LET at == NodeOffsets
    IN  \A i \in DOMAIN doc :
            fdt_for_each_subnode(mem, at[i]) = InOrderOf(at, Children(i))

\* fdt_for_each_property_offset goes through the properties of a node, each one
\* once, and fdt_getprop finds each of them and no others.
PropertiesAgree ==
    LET at == NodeOffsets IN
    \A i \in DOMAIN doc :
        LET o     == at[i]
            offs  == fdt_for_each_property_offset(mem, o)
            props == doc[i].props
        IN  /\ {fdt_getprop_by_offset(mem, offs[n]) : n \in DOMAIN offs}
                    = {[len |-> Len(props[s]), name |-> s, val |-> props[s]]
                        : s \in DOMAIN props}
            /\ Len(offs) = Cardinality(DOMAIN props)
            /\ \A s \in UNION {DOMAIN doc[j].props : j \in DOMAIN doc} :
                    fdt_getprop(mem, o, s) =
                        IF s \in DOMAIN props
                        THEN [len |-> Len(props[s]), val |-> props[s]]
                        ELSE Null(-FDT_ERR_NOTFOUND)

\* The full path of a node, and an alias that stands for it, lead to that node;
\* a path of names that no node has leads nowhere.  fdt_get_path collects the names
\* on the way to a node, as far down as the walk has come, or finds no space.
PathsAgree ==
    LET at   == NodeOffsets
        tree == {i \in DOMAIN doc : i > 1 /\ Unambiguous(i)}
        aliases == {i \in tree : PathTo(i) = <<"aliases">>}
    IN  /\ \A i \in tree : fdt_path_offset(mem, Absolute(PathTo(i))) = at[i]
        /\ LET names == {doc[j].name : j \in DOMAIN doc}
           IN  \A s \in NodeNames \ (names \cup {BaseName[n] : n \in names}) :
                \A i \in tree : fdt_path_offset(mem, Absolute(Append(PathTo(i), s)))
                                    = -FDT_ERR_NOTFOUND
        /\ doc # <<>> => \A s \in Names \ ({""} \cup PropNames) :
            fdt_path_offset(mem, [alias |-> s, rest |-> <<>>]) =
                IF \A a \in aliases : s \notin DOMAIN doc[a].props
                THEN -FDT_ERR_BADPATH
                ELSE LET to == ReadPath[doc[CHOOSE a \in aliases : TRUE].props[s]]
                         nodes == {i \in tree : PathTo(i) = to}
                     IN  IF nodes = {} THEN -FDT_ERR_NOTFOUND ELSE at[Min(nodes)]
        /\ \A i \in DOMAIN doc, buflen \in BufLens :
            fdt_get_path(mem, at[i], buflen) =
                [ret |-> IF Space(<<"">> \o PathTo(i)) <= buflen THEN 0
                         ELSE -FDT_ERR_NOSPACE,
                 path |-> LET fit == {n \in 0 .. doc[i].depth :
                                        Space(SubSeq(<<"">> \o PathTo(i), 1, n)) <= buflen}
                          IN  SubSeq(<<"">> \o PathTo(i), 1, Max(fit))]

\* The phandle of node i: of four bytes, the new name before the old one.
PhandleOf(i) ==
    LET named == {s \in {"phandle", "linux,phandle"} \cap DOMAIN doc[i].props :
                    Len(doc[i].props[s]) = 4}
    IN  IF named = {} THEN 0
        ELSE U32(doc[i].props[IF "phandle" \in named THEN "phandle"
                                                     ELSE "linux,phandle"])

\* References between nodes: a phandle leads to the first node that has it, and
\* every phandle above fdt_get_max_phandle() is free for a new node.
PhandlesAgree ==
    LET at == NodeOffsets IN
    /\ \A p \in Phandles :
        LET nodes == {i \in DOMAIN doc : PhandleOf(i) = p}
        IN  fdt_node_offset_by_phandle(mem, p) =
                IF p \in {0, MinusOne} THEN -FDT_ERR_BADPHANDLE
                ELSE IF nodes = {} THEN -FDT_ERR_NOTFOUND
                ELSE at[Min(nodes)]
    /\ fdt_get_max_phandle(mem) =
            Max({0} \cup ({PhandleOf(i) : i \in DOMAIN doc} \ {MinusOne}))

\* Searching on from each node found goes through all nodes with a value, the
\* root included, and through no others.
NodesByValue ==
    LET at == NodeOffsets IN
    \A <<s, v>> \in PropNames \X Vals \cup UNION
            {{<<s, doc[i].props[s]>> : s \in DOMAIN doc[i].props} : i \in DOMAIN doc} :
        LET nodes == {i \in DOMAIN doc : s \in DOMAIN doc[i].props /\ doc[i].props[s] = v}
            After(o) == fdt_node_offset_by_prop_value(mem, o, s, v)
            found[o \in Int] == IF o < 0 THEN <<>> ELSE <<o>> \o found[After(o)]
        IN  found[After(-1)] = InOrderOf(at, nodes)

\* The number of cells that a value stands for, from least up to 4.
IsCount(v, least, n) ==
    /\ Len(v) = 4 /\ v[1] = 0 /\ v[2] = 0
    /\ n = ByteBase * v[3] + v[4]
    /\ least <= n /\ n <= 4

\* A node's cell counts are the ones it gives itself, none of its parents', and 2
\* where it gives none, after any edits.  A value of another length, beyond 4 or
\* with its sign bit set is an error, and so are no cells for an address.
CellsAgree ==
    LET at == NodeOffsets IN
    \A i \in DOMAIN doc :
        \A <<s, least, n>> \in {<<"#address-cells", 1, fdt_address_cells(mem, at[i])>>,
                                <<"#size-cells", 0, fdt_size_cells(mem, at[i])>>} :
            IF s \notin DOMAIN doc[i].props THEN n = 2
            ELSE \/ IsCount(doc[i].props[s], least, n)
                 \/ /\ n = -FDT_ERR_BADNCELLS
                    /\ \A c \in 0 .. 4 : ~IsCount(doc[i].props[s], least, c)

\* What the values of properties are read for: to find the nodes that have one,
\* and to count the cells of addresses and sizes (fdt_addresses.c).
ValuesAgree == NodesByValue /\ CellsAgree

\* Where the n-th zero byte of a value is.
Zero(v, n) == CHOOSE i \in DOMAIN v :
                v[i] = 0 /\ Cardinality({j \in 1 .. i : v[j] = 0}) = n
Zeros(v) == Cardinality({i \in DOMAIN v : v[i] = 0})
StringAt(v, n) == SubSeq(v, IF n = 1 THEN 1 ELSE Zero(v, n - 1) + 1, Zero(v, n) - 1)
Closed(v) == v = <<>> \/ v[Len(v)] = 0

\* The strings of a value.
StringsIn(v) == {StringAt(v, n) : n \in 1 .. Zeros(v)}

\* A value is taken apart at its zero bytes, and what follows the last of them
\* is an error and not a string.  A string that is found in a list is one of its
\* strings, neither a part of one nor what lies behind the value.
StringsAgree ==
    LET at == NodeOffsets IN
    /\ \A i \in DOMAIN doc : \A s \in DOMAIN doc[i].props :
        LET v == doc[i].props[s]
            o == at[i]
        IN  /\ fdt_stringlist_count(mem, o, s) =
                    IF Closed(v) THEN Zeros(v) ELSE -FDT_ERR_BADVALUE
            /\ \A n \in 0 .. Zeros(v) :
                    fdt_stringlist_get(mem, o, s, n) =
                        IF n < Zeros(v)
                        THEN [len |-> Len(StringAt(v, n + 1)), val |-> StringAt(v, n + 1)]
                        ELSE Null(IF Closed(v) THEN -FDT_ERR_NOTFOUND
                                               ELSE -FDT_ERR_BADVALUE)
    /\ \A i \in {j \in DOMAIN doc : "compatible" \in DOMAIN doc[j].props} :
        \A str \in Strings \ StringsIn(doc[i].props["compatible"]), t \in Byte :
            fdt_node_check_compatible(mem, at[i], str, t) = 1

=============================================================================
