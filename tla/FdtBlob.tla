------------------------------- MODULE FdtBlob -------------------------------
(***************************************************************************)
(* The flattened device tree as libfdt sees it: a stretch of memory that   *)
(* holds a header, a memory reservation block, a structure block and a     *)
(* strings block, and the functions of fdt.c, fdt_ro.c, fdt_rw.c and       *)
(* fdt_wip.c that read and rewrite it in place.                            *)
(*                                                                         *)
(* Memory is a function from word addresses to cells; the blob starts at   *)
(* address 0.  All offsets and sizes count 32-bit words (every one of them *)
(* is a multiple of FDT_TAGSIZE in the code), except the length of a       *)
(* property and of a name, which are byte counts as in the code.           *)
(*                                                                         *)
(* The library is linked against the matcher's own string.c, whose         *)
(* strlen() counts the terminating NUL.  Every length that the library     *)
(* gets from strlen() is therefore one too large, and every copy or        *)
(* comparison of "strlen(s) + 1" bytes touches the byte behind the         *)
(* terminator.  That byte, the tail of the string, is whatever the         *)
(* compiler placed there: a parameter of the operations below.             *)
(***************************************************************************)
EXTENDS Integers, Sequences, FiniteSetsExt

CONSTANTS
    MemSize,    \* words of memory, the blob's buffer and what lies behind it
    Names,      \* names of nodes and properties, the root's "" included
    NameLen,    \* their length in bytes, without the terminator
    BaseName,   \* the name without its unit address, itself if it has none
    Byte        \* the values of a byte of property data

\* There is room for a header.
ASSUME MemAssumption == MemSize \in Nat /\ MemSize >= 10
ASSUME NameAssumption ==
    /\ "" \in Names
    /\ NameLen \in [Names -> Nat]
    /\ BaseName \in [Names -> Names]
ASSUME ByteAssumption == 0 \in Byte

-----------------------------------------------------------------------------
(* Cells.  A word is a number, a piece of a node name, four bytes of       *)
(* property data, or (in the strings block, where alignment plays no part) *)
(* one whole property name.                                                *)

NoBytes == [j \in 1..4 |-> 0]

Cell == [k : {"num", "name", "bytes", "str", "text"}, n : Nat, s : Names,
         d : [1..4 -> Byte]]

Num(x)      == [k |-> "num",  n |-> x, s |-> "", d |-> NoBytes]
Bytes(d)    == [k |-> "bytes", n |-> 0, s |-> "", d |-> d]
Str(s, t)   == [k |-> "str",  n |-> t, s |-> s, d |-> NoBytes]
\* Piece of a node name; e = 0: no terminator in this word, 1: terminator
\* followed by a zero byte or by nothing, 2: terminator followed by garbage.
Name(s, e)  == [k |-> "name", n |-> e, s |-> s, d |-> NoBytes]
\* A word whose first byte is garbage.
Text        == [k |-> "text", n |-> 0, s |-> "", d |-> NoBytes]

\* Text read as a number: too large to be a tag or a length that fits.
FDT_TEXT == 99
Value(c) == IF c.k = "num" THEN c.n ELSE FDT_TEXT

\* All numbers are small and big-endian, so their first byte is zero.
HasNul(c) == CASE c.k = "name" -> c.n > 0
               [] c.k = "text" -> FALSE
               [] OTHER        -> TRUE

\* FDT_TAGALIGN of a byte count, in words.
Words(bytes) == (bytes + 3) \div 4

\* string.c's strlen(), terminator included.
strlen(s) == NameLen[s] + 1

-----------------------------------------------------------------------------
(* Constants of fdt.h and libfdt.h.                                        *)

FDT_BEGIN_NODE == 1
FDT_END_NODE   == 2
FDT_PROP       == 3
FDT_NOP        == 4
FDT_END        == 9

FDT_MAGIC    == 77      \* 0xd00dfeed
FDT_SW_MAGIC == 78      \* ~FDT_MAGIC

FDT_ERR_NOTFOUND     == 1
FDT_ERR_EXISTS       == 2
FDT_ERR_NOSPACE      == 3
FDT_ERR_BADOFFSET    == 4
FDT_ERR_BADSTATE     == 7
FDT_ERR_TRUNCATED    == 8
FDT_ERR_BADMAGIC     == 9
FDT_ERR_BADVERSION   == 10
FDT_ERR_BADSTRUCTURE == 11
FDT_ERR_BADLAYOUT    == 12

HeaderSize == 10        \* FDT_ALIGN(sizeof(struct fdt_header), 8)
RsvSize    == 4         \* sizeof(struct fdt_reserve_entry)
PropSize   == 3         \* sizeof(struct fdt_property)

(* The header, struct fdt_header: the words at 0 .. HeaderSize-1.          *)
hMagic == 0
hTotalsize == 1
hOffDtStruct == 2
hOffDtStrings == 3
hOffMemRsvmap == 4
hVersion == 5
hLastCompVersion == 6
hBootCpuidPhys == 7
hSizeDtStrings == 8
hSizeDtStruct == 9

fdt_magic(m)            == Value(m[hMagic])
fdt_totalsize(m)        == Value(m[hTotalsize])
fdt_off_dt_struct(m)    == Value(m[hOffDtStruct])
fdt_off_dt_strings(m)   == Value(m[hOffDtStrings])
fdt_off_mem_rsvmap(m)   == Value(m[hOffMemRsvmap])
fdt_version(m)          == Value(m[hVersion])
fdt_last_comp_version(m) == Value(m[hLastCompVersion])
fdt_boot_cpuid_phys(m)  == Value(m[hBootCpuidPhys])
fdt_size_dt_strings(m)  == Value(m[hSizeDtStrings])
fdt_size_dt_struct(m)   == Value(m[hSizeDtStruct])

Set(m, a, x) == [m EXCEPT ![a] = Num(x)]

-----------------------------------------------------------------------------
(* Memory primitives.                                                      *)

\* memmove(dst, src, n)
Move(m, dst, src, n) ==
    [a \in DOMAIN m |-> IF a \in dst .. dst + n - 1 THEN m[src + a - dst]
                                                    ELSE m[a]]

\* memcpy of the bytes val to byte offset at of the property data that
\* starts at address a.
CopyBytes(m, a, at, val) ==
    [x \in DOMAIN m |->
        IF Len(val) > 0 /\ x \in a + at \div 4 .. a + (at + Len(val) - 1) \div 4
        THEN Bytes([j \in 1..4 |->
                LET i == 4 * (x - a) + j - at
                IN  IF i \in 1..Len(val) THEN val[i] ELSE m[x].d[j]])
        ELSE m[x]]

\* Words written one after the other from address a.
Store(m, a, cells) ==
    [x \in DOMAIN m |-> IF x \in a .. a + Len(cells) - 1 THEN cells[x - a + 1]
                                                         ELSE m[x]]

\* The words that copying strlen(s) + 1 bytes of a node name leaves at address
\* a: the name, its tail and, where the tail starts a word, the rest of the old
\* contents of that word.
NameCells(m, a, s, t) ==
    LET n == Words(NameLen[s] + 1)
    IN  [i \in 1 .. Words(strlen(s) + 1) |->
            IF i < n THEN Name(s, 0)
            ELSE IF i = n
            THEN Name(s, IF strlen(s) % 4 # 0 /\ t # 0 THEN 2 ELSE 1)
            ELSE IF t = 0 /\ m[a + i - 1].k = "num" THEN m[a + i - 1]
            ELSE Text]

\* Functions that change the blob return what the C function returns and the
\* new memory; p is the address of the property that fdt_resize_property_ and
\* fdt_add_property_ pass back.
Return(r, m) == [ret |-> r, m |-> m, p |-> 0]

-----------------------------------------------------------------------------
(* fdt.c: the header, tags.                                                *)

fdt_check_header(m) ==
    CASE fdt_magic(m) = FDT_MAGIC ->
            IF fdt_version(m) < 16 \/ fdt_last_comp_version(m) > 17
            THEN -FDT_ERR_BADVERSION ELSE 0
      [] fdt_magic(m) = FDT_SW_MAGIC ->
            IF fdt_size_dt_struct(m) = 0 THEN -FDT_ERR_BADSTATE ELSE 0
      [] OTHER -> -FDT_ERR_BADMAGIC

\* Whether fdt_offset_ptr(fdt, o, len) is not NULL.
fdt_offset_ptr(m, o, len) ==
    /\ fdt_off_dt_struct(m) + o + len <= fdt_totalsize(m)
    /\ fdt_version(m) >= 17 => o + len <= fdt_size_dt_struct(m)

\* The word at offset o of the structure block.
At(m, o) == m[fdt_off_dt_struct(m) + o]

\* Whether the string at offset o ends in front of offset e.
EndsString(m, o, e) == /\ fdt_offset_ptr(m, e - 1, 1)
                       /\ HasNul(At(m, e - 1))
                       /\ \A i \in o .. e - 2 : ~HasNul(At(m, i))

\* Where the string at offset o ends, 0 if it does not end within the blob.
StringEnd(m, o) ==
    IF \E e \in o + 1 .. MemSize : EndsString(m, o, e)
    THEN CHOOSE e \in o + 1 .. MemSize : EndsString(m, o, e)
    ELSE 0

\* Where the item with this tag at offset o ends, 0 if it does not.
TagEnd(m, o, tag) ==
    CASE tag = FDT_BEGIN_NODE -> StringEnd(m, o + 1)
      [] tag = FDT_PROP /\ fdt_offset_ptr(m, o + 1, 1) ->
            o + PropSize + Words(Value(At(m, o + 1)))
      [] tag \in {FDT_END, FDT_END_NODE, FDT_NOP} -> o + 1
      [] OTHER -> 0

TagTo(m, o, tag, end) ==
    IF end = 0 \/ ~fdt_offset_ptr(m, o, end - o)
    THEN [tag |-> FDT_END, next |-> -FDT_ERR_BADSTRUCTURE]
    ELSE [tag |-> tag, next |-> end]

\* The tag at offset o and the offset of the next one, or FDT_END and an error.
fdt_next_tag(m, o) ==
    IF ~fdt_offset_ptr(m, o, 1)
    THEN [tag |-> FDT_END, next |-> -FDT_ERR_TRUNCATED]
    ELSE TagTo(m, o, Value(At(m, o)), TagEnd(m, o, Value(At(m, o))))

fdt_check_node_offset_(m, o) ==
    IF fdt_next_tag(m, o).tag # FDT_BEGIN_NODE THEN -FDT_ERR_BADOFFSET
                                               ELSE fdt_next_tag(m, o).next

(* A walk over the structure block: the tags from offset o up to the first *)
(* FDT_END, genuine or premature.  The loops of fdt_next_node and of its   *)
(* callers stop at some item of a walk.                                    *)
TagOffsets(m, o) ==
    LET visited[x \in 0..MemSize] ==
            LET nt == fdt_next_tag(m, x)
            IN  IF nt.tag = FDT_END THEN {x} ELSE {x} \cup visited[nt.next]
    IN  {o} \cup (visited[o] \cap o..MemSize)

Item(m, o) == LET nt == fdt_next_tag(m, o)
              IN  [at |-> o, tag |-> nt.tag, next |-> nt.next]

Walk(m, o) == {Item(m, t) : t \in TagOffsets(m, o)}

First(items) == CHOOSE x \in items : \A y \in items : x.at <= y.at
Last(items)  == CHOOSE x \in items : \A y \in items : x.at >= y.at

Tagged(w, tags) == {x \in w : x.tag \in tags}

\* The depth fdt_next_node has counted when it has passed item x of walk w.
Depth(w, x) ==
    Cardinality({y \in Tagged(w, {FDT_BEGIN_NODE}) : y.at <= x.at})
    - Cardinality({y \in Tagged(w, {FDT_END_NODE}) : y.at <= x.at})

\* The items at which the depth falls below zero.
Closes(w) == {x \in Tagged(w, {FDT_END_NODE}) : Depth(w, x) < 0}

\* fdt_next_node at the end of the walk.
EndError(w) == IF Last(w).next >= 0 THEN -FDT_ERR_NOTFOUND ELSE Last(w).next

\* The first item behind the properties at the start of a walk, whose last
\* item is FDT_END.
AfterProps(w) == First({x \in w : x.tag \notin {FDT_PROP, FDT_NOP}} \cup {Last(w)})

\* Offset behind the node whose contents w walks over.
EndOfNode(w) ==
    IF Closes(w) # {} THEN First(Closes(w)).next ELSE EndError(w)

\* Offset behind the node at o (fdt_wip.c).
fdt_node_end_offset_(m, o) ==
    LET next == fdt_check_node_offset_(m, o)
    IN  IF next < 0 THEN next ELSE EndOfNode(Walk(m, next))

-----------------------------------------------------------------------------
(* fdt_ro.c.  A node name to look up is a record [s, namelen]: a string    *)
(* and the length the caller passes for it, NameLen[s] or strlen(s).       *)

NameAt(m, o) == IF At(m, o + 1).k = "name" THEN At(m, o + 1).s ELSE ""

\* Whether the byte behind the terminator of the name of the node at o is zero.
ZeroTail(m, o) ==
    LET end == Words(strlen(NameAt(m, o)))
    IN  IF strlen(NameAt(m, o)) % 4 = 0 THEN At(m, o + end + 1).k = "num"
                                        ELSE At(m, o + end).n = 1

fdt_nodename_eq_(m, o, name) ==
    /\ fdt_offset_ptr(m, o + 1, Words(name.namelen + 1))
    /\ At(m, o + 1).k = "name"
    /\ IF name.namelen = NameLen[name.s]
       THEN name.s \in {NameAt(m, o), BaseName[NameAt(m, o)]}
       ELSE name.s = NameAt(m, o) /\ ZeroTail(m, o)

SubnodeIn(m, w, name) ==
    LET hits == {x \in Tagged(w, {FDT_BEGIN_NODE}) :
                    /\ Depth(w, x) = 1
                    /\ \A y \in Closes(w) : x.at < y.at
                    /\ fdt_nodename_eq_(m, x.at, name)}
    IN  IF hits # {} THEN First(hits).at
        ELSE IF Closes(w) # {} THEN -FDT_ERR_NOTFOUND
        ELSE EndError(w)

fdt_subnode_offset_namelen(m, o, name) ==
    LET next == fdt_check_node_offset_(m, o)
    IN  IF fdt_check_header(m) # 0 THEN fdt_check_header(m)
        ELSE IF next < 0 THEN next
        ELSE SubnodeIn(m, Walk(m, next), name)

\* An offset into the strings block is stored as unsigned and read as signed (16
\* bits do here): fdt_sw.c counts it backwards from the end of the block.
Unsigned(i) == i % 65536
AsInt(i)    == IF i >= 32768 THEN i - 65536 ELSE i

\* The name at offset i of the strings block.
fdt_string(m, i) ==
    LET a == fdt_off_dt_strings(m) + AsInt(i)
    IN  IF a \in DOMAIN m /\ m[a].k = "str" THEN m[a].s ELSE ""

PropertyIn(m, w, name) ==
    LET stop == AfterProps(w)
        hits == {x \in Tagged(w, {FDT_PROP}) :
                    /\ x.at < stop.at
                    /\ fdt_string(m, Value(At(m, x.at + 2))) = name}
    IN  IF hits # {} THEN First(hits).at
        ELSE IF stop.tag # FDT_END THEN -FDT_ERR_NOTFOUND
        ELSE IF stop.next >= 0 THEN -FDT_ERR_BADSTRUCTURE
        ELSE stop.next

\* Offset of the property `name' of the node at o.  Both strings are measured
\* with strlen(), so fdt_string_eq_ compares them exactly.
fdt_get_property(m, o, name) ==
    LET next == fdt_check_node_offset_(m, o)
    IN  IF next < 0 THEN next ELSE PropertyIn(m, Walk(m, next), name)

\* Length in bytes of the property at o.
PropLen(m, o) == Value(At(m, o + 1))

\* Address of its value.
PropData(m, o) == fdt_off_dt_struct(m) + o + PropSize

\* Whether reservation entry i ends the list.
IsLastRsv(m, i) ==
    LET e == fdt_off_mem_rsvmap(m) + RsvSize * i
    IN  Value(m[e + 2]) = 0 /\ Value(m[e + 3]) = 0

IsNumMemRsv(m, n) == IsLastRsv(m, n) /\ \A i \in 0 .. n - 1 : ~IsLastRsv(m, i)

fdt_num_mem_rsv(m) == CHOOSE n \in 0..MemSize : IsNumMemRsv(m, n)

=============================================================================
