-------------------------------- MODULE FdtRo --------------------------------
(***************************************************************************)
(* The read-only interface of libfdt: the searches of fdt_ro.c over nodes, *)
(* properties, paths, phandles and string lists, the iterators of fdt.c,   *)
(* and fdt_addresses.c.  Nothing here changes the blob.                    *)
(*                                                                         *)
(* A loop of the C code is a recursive function of the loop's variables.   *)
(* A call that returns a pointer and a length is a record [len, val]; the  *)
(* pointer is NULL where len is negative.                                  *)
(***************************************************************************)
EXTENDS FdtTree

CONSTANTS
    ByteBase,   \* the number of values of a byte
    ReadPath    \* the path that a property's value spells, read as a string

ASSUME ByteBaseAssumption == ByteBase \in Nat \ {0} /\ Byte \subseteq 0 .. ByteBase - 1

FDT_ERR_BADPATH    == 5
FDT_ERR_BADPHANDLE == 6
FDT_ERR_INTERNAL   == 13
FDT_ERR_BADNCELLS  == 14
FDT_ERR_BADVALUE   == 15

FDT_MAX_NCELLS == 4

\* Four bytes as a u32, and as an int; the phandle (uint32_t)-1.
U32(v)    == ((v[1] * ByteBase + v[2]) * ByteBase + v[3]) * ByteBase + v[4]
MinusOne  == U32([i \in 1..4 |-> ByteBase - 1])
Int32(v)  == IF U32(v) > MinusOne \div 2 THEN U32(v) - MinusOne - 1 ELSE U32(v)

\* A name or path measured with strlen(), and one given with its true length.
Counted(s) == [s |-> s, namelen |-> strlen(s)]
Exactly(s) == [s |-> s, namelen |-> NameLen[s]]

-----------------------------------------------------------------------------
(* fdt.c: nodes.                                                           *)

\* Where fdt_next_node(fdt, o, &depth) stops on its walk.
StopsAt(w, depth) ==
    First({y \in w : \/ y.tag \in {FDT_BEGIN_NODE, FDT_END}
                     \/ y.tag = FDT_END_NODE /\ depth + Depth(w, y) < 0})

Stopped(x, depth) ==
    [depth |-> depth,
     at    |-> CASE x.tag = FDT_BEGIN_NODE -> x.at
                 [] x.tag = FDT_END_NODE   -> x.next
                 [] x.tag = FDT_END        ->
                       IF x.next >= 0 THEN -FDT_ERR_NOTFOUND ELSE x.next]

NextFrom(m, from, depth) ==
    LET Counting(w, x) == Stopped(x, depth + Depth(w, x))
        Over(w) == Counting(w, StopsAt(w, depth))
    IN  IF from < 0 THEN [at |-> from, depth |-> depth] ELSE Over(Walk(m, from))

\* fdt_next_node(fdt, o, &depth)
fdt_next_node(m, o, depth) ==
    NextFrom(m, IF o >= 0 THEN fdt_check_node_offset_(m, o) ELSE 0, depth)

StoppedAnywhere(x) ==
    IF x.tag = FDT_BEGIN_NODE THEN x.at
    ELSE IF x.next >= 0 \/ x.next = -FDT_ERR_TRUNCATED THEN -FDT_ERR_NOTFOUND
    ELSE x.next

NodeFrom(m, from) ==
    IF from < 0 THEN from
    ELSE StoppedAnywhere(First(Tagged(Walk(m, from), {FDT_BEGIN_NODE, FDT_END})))

\* fdt_next_node(fdt, o, NULL)
NextNode(m, o) == NodeFrom(m, IF o >= 0 THEN fdt_check_node_offset_(m, o) ELSE 0)

fdt_first_subnode(m, o) ==
    LET Result(n) == IF n.at < 0 \/ n.depth # 1 THEN -FDT_ERR_NOTFOUND ELSE n.at
    IN  Result(fdt_next_node(m, o, 0))

\* Mutant: a node of any depth is taken for a sibling.
NextSubnodeOfAnyDepth(m, o) ==
    LET Result(n) == IF n.at < 0 \/ n.depth < 1 THEN -FDT_ERR_NOTFOUND ELSE n.at
    IN  Result(fdt_next_node(m, o, 1))

fdt_next_subnode(m, o) ==
    LET next[n \in [at : Int, depth : Int]] ==
            IF n.at < 0 \/ n.depth < 1 THEN -FDT_ERR_NOTFOUND
            ELSE IF n.depth > 1 THEN next[fdt_next_node(m, n.at, n.depth)]
            ELSE n.at
    IN  next[fdt_next_node(m, o, 1)]

\* The offsets that the loop fdt_for_each_subnode goes through.
fdt_for_each_subnode(m, o) ==
    LET from[x \in Int] ==
            IF x < 0 THEN <<>> ELSE <<x>> \o from[fdt_next_subnode(m, x)]
    IN  from[fdt_first_subnode(m, o)]

-----------------------------------------------------------------------------
(* Properties.                                                             *)

fdt_check_prop_offset_(m, o) ==
    IF fdt_next_tag(m, o).tag # FDT_PROP THEN -FDT_ERR_BADOFFSET
                                         ELSE fdt_next_tag(m, o).next

\* Mutant: what follows FDT_NOP is no longer looked at.
FirstOfWalk(w) == First(w)

SkipNops(w) == First({y \in w : y.tag # FDT_NOP})

IfProperty(x) ==
    CASE x.tag = FDT_PROP -> x.at
      [] x.tag = FDT_END  -> IF x.next >= 0 THEN -FDT_ERR_BADSTRUCTURE ELSE x.next
      [] OTHER            -> -FDT_ERR_NOTFOUND

\* The property at offset o or behind it, if the offset is not an error.
nextprop_(m, o) == IF o < 0 THEN o ELSE IfProperty(SkipNops(Walk(m, o)))

fdt_first_property_offset(m, o) == nextprop_(m, fdt_check_node_offset_(m, o))

fdt_next_property_offset(m, o) == nextprop_(m, fdt_check_prop_offset_(m, o))

fdt_for_each_property_offset(m, o) ==
    LET from[x \in Int] ==
            IF x < 0 THEN <<>> ELSE <<x>> \o from[fdt_next_property_offset(m, x)]
    IN  from[fdt_first_property_offset(m, o)]

\* string.c's strlen() of the string in the blob, against the caller's length.
fdt_string_eq_(m, i, name) ==
    fdt_string(m, i) = name.s /\ strlen(fdt_string(m, i)) = name.namelen

fdt_get_property_namelen(m, o, name) ==
    LET from[x \in Int] ==
            IF x < 0 \/ fdt_string_eq_(m, Value(At(m, x + 2)), name) THEN x
            ELSE from[fdt_next_property_offset(m, x)]
    IN  from[fdt_first_property_offset(m, o)]

Null(e) == [len |-> e, val |-> <<>>]

fdt_getprop_by_offset(m, o) ==
    IF fdt_check_prop_offset_(m, o) < 0
    THEN [len |-> -FDT_ERR_BADOFFSET, name |-> "", val |-> <<>>]
    ELSE [len |-> PropLen(m, o), name |-> PropName(m, o), val |-> ValueAt(m, o)]

\* The value of the property at offset prop, if that is not an error.
Found(m, prop) ==
    IF prop < 0 THEN Null(prop) ELSE [len |-> PropLen(m, prop), val |-> ValueAt(m, prop)]

fdt_getprop_namelen(m, o, name) == Found(m, fdt_get_property_namelen(m, o, name))

fdt_getprop(m, o, s) == fdt_getprop_namelen(m, o, Counted(s))

-----------------------------------------------------------------------------
(* Phandles and values.                                                    *)

\* Mutant: linux,phandle is not looked for.
NewPhandleOnly(php, old) == IF php.len = 4 THEN U32(php.val) ELSE 0

EitherPhandle(php, old) ==
    IF php.len = 4 THEN U32(php.val) ELSE IF old.len = 4 THEN U32(old.val) ELSE 0

fdt_get_phandle(m, o) ==
    EitherPhandle(fdt_getprop(m, o, "phandle"), fdt_getprop(m, o, "linux,phandle"))

fdt_get_max_phandle(m) ==
    LET Larger(p, max) == IF p # MinusOne /\ p > max THEN p ELSE max
        from[x \in Int, max \in Nat] ==
            IF x = -FDT_ERR_NOTFOUND THEN max
            ELSE IF x < 0 THEN MinusOne
            ELSE from[NextNode(m, x), Larger(fdt_get_phandle(m, x), max)]
    IN  from[NextNode(m, -1), 0]

fdt_node_offset_by_phandle(m, phandle) ==
    LET from[x \in Int] == IF x < 0 \/ fdt_get_phandle(m, x) = phandle THEN x
                           ELSE from[NextNode(m, x)]
    IN  IF phandle \in {0, MinusOne} THEN -FDT_ERR_BADPHANDLE
        ELSE IF fdt_check_header(m) # 0 THEN fdt_check_header(m)
        ELSE from[NextNode(m, -1)]

\* Mutant: only the lengths of the values are compared.
ByPropLength(m, start, s, val) ==
    LET from[x \in Int] ==
            IF x < 0 \/ fdt_getprop(m, x, s).len = Len(val) THEN x ELSE from[NextNode(m, x)]
    IN  IF fdt_check_header(m) # 0 THEN fdt_check_header(m)
        ELSE from[NextNode(m, start)]

fdt_node_offset_by_prop_value(m, start, s, val) ==
    LET from[x \in Int] ==
            IF x < 0 \/ fdt_getprop(m, x, s) = [len |-> Len(val), val |-> val] THEN x
            ELSE from[NextNode(m, x)]
    IN  IF fdt_check_header(m) # 0 THEN fdt_check_header(m)
        ELSE from[NextNode(m, start)]

-----------------------------------------------------------------------------
(* The way up.                                                             *)

\* What the error that ends a search for the node at a given offset becomes.
Unreached(e) == IF e = -FDT_ERR_NOTFOUND \/ e >= 0 THEN -FDT_ERR_BADOFFSET
                ELSE IF e = -FDT_ERR_BADOFFSET THEN -FDT_ERR_BADSTRUCTURE
                ELSE e

\* Mutant: the first node of that depth is kept.
FirstAtDepth(x, d, super, supernodedepth) ==
    IF d = supernodedepth /\ super < 0 THEN x ELSE super

AtDepth(x, d, super, supernodedepth) == IF d = supernodedepth THEN x ELSE super

\* Returns the offset and, in *nodedepth, the depth of the node itself.
fdt_supernode_atdepth_offset(m, o, supernodedepth) ==
    LET Arrived(d, super) ==
            [ret |-> IF supernodedepth > d THEN -FDT_ERR_NOTFOUND ELSE super, depth |-> d]
        visit[n \in [at : Int, depth : Int], super \in Int] ==
            IF n.at < 0 \/ n.at > o THEN [ret |-> Unreached(n.at), depth |-> 0]
            ELSE IF n.at = o
            THEN Arrived(n.depth, AtDepth(n.at, n.depth, super, supernodedepth))
            ELSE visit[fdt_next_node(m, n.at, n.depth),
                       AtDepth(n.at, n.depth, super, supernodedepth)]
    IN  IF fdt_check_header(m) # 0 THEN [ret |-> fdt_check_header(m), depth |-> 0]
        ELSE IF supernodedepth < 0 THEN [ret |-> -FDT_ERR_NOTFOUND, depth |-> 0]
        ELSE visit[[at |-> 0, depth |-> 0], -FDT_ERR_INTERNAL]

fdt_node_depth(m, o) ==
    LET Result(r) == IF r.ret < 0 THEN r.ret
                     ELSE IF r.ret > 0 THEN -FDT_ERR_INTERNAL
                     ELSE r.depth
    IN  Result(fdt_supernode_atdepth_offset(m, o, 0))

fdt_parent_offset(m, o) ==
    LET Above(depth) == IF depth < 0 THEN depth
                        ELSE fdt_supernode_atdepth_offset(m, o, depth - 1).ret
    IN  Above(fdt_node_depth(m, o))

\* fdt_get_path of the node at o: what it returns and the names in the buffer,
\* each with the length that fdt_get_name gives for it and a slash.
fdt_get_path(m, o, buflen) ==
    LET Size(path) == MapThenSumSet(LAMBDA i : strlen(path[i]) + 1, DOMAIN path)
        Popped(path, d) == SubSeq(path, 1, Min({Len(path), d}))
        Pushed(path, d, name) ==
            IF Len(path) = d /\ Size(path) + strlen(name) + 1 <= buflen
            THEN Append(path, name) ELSE path
        Arrived(path, d) ==
            [ret |-> IF Len(path) < d + 1 THEN -FDT_ERR_NOSPACE ELSE 0, path |-> path]
        visit[n \in [at : Int, depth : Int], path \in Seq(Names)] ==
            IF n.at < 0 \/ n.at > o THEN [ret |-> Unreached(n.at), path |-> path]
            ELSE IF n.at = o
            THEN Arrived(Pushed(Popped(path, n.depth), n.depth, NameAt(m, o)), n.depth)
            ELSE visit[fdt_next_node(m, n.at, n.depth),
                       Pushed(Popped(path, n.depth), n.depth, NameAt(m, n.at))]
    IN  IF fdt_check_header(m) # 0 THEN [ret |-> fdt_check_header(m), path |-> <<>>]
        ELSE IF buflen < 2 THEN [ret |-> -FDT_ERR_NOSPACE, path |-> <<>>]
        ELSE visit[[at |-> 0, depth |-> 0], <<>>]

-----------------------------------------------------------------------------
(* Paths.  A path is a record [alias, rest]: the alias it starts with, ""  *)
(* for none, and the components that follow slashes.  The path "/" has one *)
(* component, which is empty.  counted tells whether the length passed for *)
(* it is strlen() of it or one less.                                       *)

Absolute(comps) == [alias |-> "", rest |-> comps]

Component(path, i, counted) ==
    IF counted /\ i = Len(path.rest) THEN Counted(path.rest[i])
                                     ELSE Exactly(path.rest[i])

\* Mutant: every component is looked up where the path starts.
DescendFromStart(m, o, path, counted) ==
    LET at[i \in 0 .. Len(path.rest)] ==
            IF i = 0 THEN o
            ELSE IF at[i - 1] < 0 THEN at[i - 1]
            ELSE fdt_subnode_offset_namelen(m, o, Component(path, i, counted))
    IN  at[Len(path.rest)]

\* Down the components of the path from the node at o.
Descend(m, o, path, counted) ==
    LET at[i \in 0 .. Len(path.rest)] ==
            IF i = 0 THEN o
            ELSE IF at[i - 1] < 0 \/ Component(path, i, counted).namelen = 0
            THEN at[i - 1]
            ELSE fdt_subnode_offset_namelen(m, at[i - 1], Component(path, i, counted))
    IN  at[Len(path.rest)]

fdt_get_alias_namelen(m, name) ==
    LET In(aliases) == IF aliases < 0 THEN Null(aliases)
                       ELSE fdt_getprop_namelen(m, aliases, name)
    IN  In(Descend(m, 0, Absolute(<<"aliases">>), TRUE))

\* Where a path starts: at the root, or where its alias leads.
PathStart(m, path, counted) ==
    LET Target(alias) == IF alias.len < 0 THEN -FDT_ERR_BADPATH
                         ELSE Descend(m, 0, Absolute(ReadPath[alias.val]), TRUE)
    IN  IF path.alias = "" THEN 0
        ELSE Target(fdt_get_alias_namelen(m, IF counted /\ path.rest = <<>>
                                             THEN Counted(path.alias)
                                             ELSE Exactly(path.alias)))

fdt_path_offset_namelen(m, path, counted) ==
    IF fdt_check_header(m) # 0 THEN fdt_check_header(m)
    ELSE Descend(m, PathStart(m, path, counted), path, counted)

fdt_path_offset(m, path) == fdt_path_offset_namelen(m, path, TRUE)

-----------------------------------------------------------------------------
(* String lists.  A string is a sequence of bytes other than 0.            *)

\* strnlen() of the string at index i of the value, up to the value's end.
strnlen(val, i) ==
    Min({j - i : j \in {k \in i .. Len(val) : val[k] = 0} \cup {Len(val) + 1}})

\* Mutant: the terminator is not skipped.
StartsAtNul(val) ==
    LET from[i \in Nat] == IF i > Len(val) THEN <<>>
                           ELSE <<i>> \o from[i + Max({1, strnlen(val, i)})]
    IN  from[1]

\* Where the strings of a list begin, in order, and whether the last one ends.
Starts(val) ==
    LET from[i \in Nat] == IF i > Len(val) THEN <<>>
                           ELSE <<i>> \o from[i + strnlen(val, i) + 1]
    IN  from[1]

Unterminated(val, i) == i + strnlen(val, i) > Len(val)

Count(list, starts) ==
    IF list.len < 0 THEN list.len
    ELSE IF \E i \in DOMAIN starts : Unterminated(list.val, starts[i])
    THEN -FDT_ERR_BADVALUE
    ELSE Len(starts)

fdt_stringlist_count(m, o, s) ==
    LET In(list) == Count(list, Starts(list.val)) IN In(fdt_getprop(m, o, s))

Get(list, starts, idx) ==
    IF list.len < 0 THEN list
    ELSE IF \E k \in DOMAIN starts : k <= idx + 1 /\ Unterminated(list.val, starts[k])
    THEN Null(-FDT_ERR_BADVALUE)
    ELSE IF idx >= Len(starts) THEN Null(-FDT_ERR_NOTFOUND)
    ELSE LET len == strnlen(list.val, starts[idx + 1])
         IN  [len |-> len,
              val |-> SubSeq(list.val, starts[idx + 1], starts[idx + 1] + len - 1)]

fdt_stringlist_get(m, o, s, idx) ==
    LET In(list) == Get(list, Starts(list.val), idx) IN In(fdt_getprop(m, o, s))

\* Whether the n bytes at address a, index i of a value, are those of the string
\* str, its terminator and the byte t behind that.
memcmp(m, a, i, str, t, n) ==
    \A j \in 1 .. n :
        m[a + (i + j - 2) \div 4].d[((i + j - 2) % 4) + 1] = (str \o <<0, t>>)[j]

\* strlen() and 1 make the length one more than that of the string looked for.
Search(m, prop, val, starts, str, t) ==
    LET Bad(k) == Unterminated(val, starts[k])
        Hit(k) == /\ strnlen(val, starts[k]) + 1 = Len(str) + 2
                  /\ memcmp(m, PropData(m, prop), starts[k], str, t, Len(str) + 2)
        ends   == {k \in DOMAIN starts : Bad(k) \/ Hit(k)}
    IN  IF ends = {} THEN -FDT_ERR_NOTFOUND
        ELSE IF Bad(Min(ends)) THEN -FDT_ERR_BADVALUE
        ELSE Min(ends) - 1

fdt_stringlist_search(m, o, s, str, t) ==
    LET In(prop) == IF prop < 0 THEN prop
                    ELSE Search(m, prop, ValueAt(m, prop), Starts(ValueAt(m, prop)), str, t)
    IN  In(fdt_get_property_namelen(m, o, Counted(s)))

\* Every string is compared that begins at least strlen(str) bytes in front of
\* the end of the list, and with it the byte behind its terminator.
fdt_stringlist_contains(m, a, val, str, t) ==
    \E k \in DOMAIN Starts(val) :
        /\ Len(val) - Starts(val)[k] + 1 >= Len(str) + 1
        /\ memcmp(m, a, Starts(val)[k], str, t, Len(str) + 2)

fdt_node_check_compatible(m, o, str, t) ==
    LET In(prop) ==
            IF prop < 0 THEN prop
            ELSE IF fdt_stringlist_contains(m, PropData(m, prop), ValueAt(m, prop), str, t)
            THEN 0 ELSE 1
    IN  In(fdt_get_property_namelen(m, o, Counted("compatible")))

fdt_node_offset_by_compatible(m, start, str, t) ==
    LET err(x) == fdt_node_check_compatible(m, x, str, t)
        from[x \in Int] ==
            IF x < 0 THEN x
            ELSE IF err(x) < 0 /\ err(x) # -FDT_ERR_NOTFOUND THEN err(x)
            ELSE IF err(x) = 0 THEN x
            ELSE from[NextNode(m, x)]
    IN  IF fdt_check_header(m) # 0 THEN fdt_check_header(m)
        ELSE from[NextNode(m, start)]

-----------------------------------------------------------------------------
(* fdt_addresses.c.                                                        *)

\* Mutant: a number with its sign bit set passes for a small one.
CellsCheckedAbove(prop, allowed) ==
    IF prop.len < 0 THEN 2
    ELSE IF prop.len # 4 \/ Int32(prop.val) > FDT_MAX_NCELLS THEN -FDT_ERR_BADNCELLS
    ELSE Int32(prop.val)

Cells(prop, allowed) ==
    IF prop.len < 0 THEN 2
    ELSE IF prop.len # 4 \/ Int32(prop.val) \notin allowed THEN -FDT_ERR_BADNCELLS
    ELSE Int32(prop.val)

fdt_address_cells(m, o) ==
    Cells(fdt_getprop(m, o, "#address-cells"), 1 .. FDT_MAX_NCELLS)

fdt_size_cells(m, o) ==
    Cells(fdt_getprop(m, o, "#size-cells"), 0 .. FDT_MAX_NCELLS)

=============================================================================
