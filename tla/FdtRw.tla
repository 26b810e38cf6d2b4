-------------------------------- MODULE FdtRw --------------------------------
(***************************************************************************)
(* Editing a device tree blob in place: the read-write interface of libfdt *)
(* (fdt_rw.c) and its write-in-place interface (fdt_wip.c), as the         *)
(* matcher uses them between fdt_open_into() and fdt_pack().               *)
(*                                                                         *)
(* One action is one call into the library.  The library is sequential,    *)
(* but what a call finds depends on everything earlier calls, successful   *)
(* or not, have left behind in the buffer.                                 *)
(***************************************************************************)
EXTENDS FdtTree

CONSTANTS
    Images,     \* memory contents with a device tree at address 0
    BufSize,    \* the buffer that may be written, in words
    BufSizes,   \* values of fdt_open_into's argument bufsize
    NodeNames,  \* arguments of the calls: names of nodes,
    PropNames,  \*   names of properties,
    Vals,       \*   property values, sequences of bytes,
    Rsvs,       \*   memory reservations [address, size]
    NameTails,  \*   what follows the terminator of a node name
    StrTails,   \*   and of a property name
    MaxOps      \* bound on the number of calls

ASSUME BufAssumption ==
    /\ BufSize \in 0..MemSize
    /\ BufSizes \subseteq 0..BufSize
ASSUME ArgAssumption ==
    /\ NodeNames \subseteq Names /\ PropNames \subseteq Names
    /\ Vals \subseteq Seq(Byte)
    /\ Rsvs \subseteq [address : Nat, size : Nat]
    /\ NameTails \subseteq Nat /\ StrTails \subseteq Nat
    /\ MaxOps \in Nat

VARIABLES
    mem,        \* memory
    call,       \* the last call: operation, node and arguments
    ret,        \* what it returned
    ops         \* the number of calls so far

vars == <<mem, call, ret, ops>>

-----------------------------------------------------------------------------
(* fdt_rw.c: helpers.                                                      *)

fdt_blocks_misordered_(m, mem_rsv_size, struct_size) ==
    \/ fdt_off_mem_rsvmap(m) < HeaderSize
    \/ fdt_off_dt_struct(m) < fdt_off_mem_rsvmap(m) + mem_rsv_size
    \/ fdt_off_dt_strings(m) < fdt_off_dt_struct(m) + struct_size
    \/ fdt_totalsize(m) < fdt_off_dt_strings(m) + fdt_size_dt_strings(m)

fdt_rw_check_header_(m) ==
    IF fdt_check_header(m) # 0 THEN fdt_check_header(m)
    ELSE IF fdt_version(m) < 17 THEN -FDT_ERR_BADVERSION
    ELSE IF fdt_blocks_misordered_(m, RsvSize, fdt_size_dt_struct(m))
    THEN -FDT_ERR_BADLAYOUT
    ELSE 0

\* The version fdt_rw_check_header_ leaves in a blob it accepts.
Downgraded(m) == IF fdt_version(m) > 17 THEN Set(m, hVersion, 17) ELSE m

fdt_data_size_(m) == fdt_off_dt_strings(m) + fdt_size_dt_strings(m)

\* Mutant: no check against the blob's total size.
SpliceUnchecked(m, p, oldlen, newlen) ==
    Return(0, Move(m, p + newlen, p + oldlen, fdt_data_size_(m) - p - oldlen))

fdt_splice_(m, p, oldlen, newlen) ==
    LET end == fdt_data_size_(m)
    IN  IF p + oldlen > end THEN Return(-FDT_ERR_BADOFFSET, m)
        ELSE IF end - oldlen + newlen > fdt_totalsize(m)
        THEN Return(-FDT_ERR_NOSPACE, m)
        ELSE Return(0, Move(m, p + newlen, p + oldlen, end - p - oldlen))

\* Mutant: the structure block moves and the header does not say so.
SpliceRsvKeepsStruct(m, p, oldn, newn) ==
    LET r == fdt_splice_(m, p, RsvSize * oldn, RsvSize * newn)
    IN  IF r.ret # 0 THEN r
        ELSE Return(0, Set(r.m, hOffDtStrings,
                           fdt_off_dt_strings(r.m) + RsvSize * (newn - oldn)))

fdt_splice_mem_rsv_(m, p, oldn, newn) ==
    LET delta == RsvSize * (newn - oldn)
        r     == fdt_splice_(m, p, RsvSize * oldn, RsvSize * newn)
        m1    == Set(r.m, hOffDtStruct, fdt_off_dt_struct(r.m) + delta)
    IN  IF r.ret # 0 THEN r
        ELSE Return(0, Set(m1, hOffDtStrings, fdt_off_dt_strings(m1) + delta))

fdt_splice_struct_(m, p, oldlen, newlen) ==
    LET delta == newlen - oldlen
        r     == fdt_splice_(m, p, oldlen, newlen)
        m1    == Set(r.m, hSizeDtStruct, fdt_size_dt_struct(r.m) + delta)
    IN  IF r.ret # 0 THEN r
        ELSE Return(0, Set(m1, hOffDtStrings, fdt_off_dt_strings(m1) + delta))

fdt_splice_string_(m, newlen) ==
    LET r == fdt_splice_(m, fdt_data_size_(m), 0, newlen)
    IN  IF r.ret # 0 THEN r
        ELSE Return(0, Set(r.m, hSizeDtStrings, fdt_size_dt_strings(r.m) + newlen))

\* The strings that fdt_find_string_ takes for s with tail t: it compares the
\* byte behind the terminator too.
fdt_find_string_(m, s, t) ==
    {i \in 0 .. fdt_size_dt_strings(m) - 1 :
        m[fdt_off_dt_strings(m) + i] = Str(s, t)}

fdt_find_add_string_(m, s, t) ==
    LET found == fdt_find_string_(m, s, t)
        r     == fdt_splice_string_(m, 1)
    IN  IF found # {} THEN Return(Min(found), m)
        ELSE IF r.ret # 0 THEN r
        ELSE Return(fdt_size_dt_strings(m),
                    [r.m EXCEPT ![fdt_data_size_(m)] = Str(s, t)])

ResizeAt(m, prop, len) ==
    LET r    == fdt_splice_struct_(m, PropData(m, prop),
                                   Words(PropLen(m, prop)), Words(len))
        p    == fdt_off_dt_struct(m) + prop
    IN  IF prop < 0 THEN Return(prop, m)
        ELSE IF r.ret # 0 THEN r
        ELSE [ret |-> 0, m |-> Set(r.m, p + 1, len), p |-> p]

fdt_resize_property_(m, o, name, len) ==
    ResizeAt(m, fdt_get_property(m, o, name), len)

\* Mutant: the property is put in front of the node instead of into it.
AddPropertyAtNode(m, o, name, t, len) ==
    LET r  == fdt_find_add_string_(m, name, t)
        p  == fdt_off_dt_struct(r.m) + o
        r2 == fdt_splice_struct_(r.m, p, 0, PropSize + Words(len))
    IN  IF fdt_check_node_offset_(m, o) < 0
        THEN Return(fdt_check_node_offset_(m, o), m)
        ELSE IF r.ret < 0 THEN r
        ELSE IF r2.ret # 0 THEN r2
        ELSE [ret |-> 0, p |-> p,
              m |-> Set(Set(Set(r2.m, p, FDT_PROP), p + 2, r.ret), p + 1, len)]

fdt_add_property_(m, o, name, t, len) ==
    LET next  == fdt_check_node_offset_(m, o)
        r     == fdt_find_add_string_(m, name, t)
        p     == fdt_off_dt_struct(r.m) + next
        r2    == fdt_splice_struct_(r.m, p, 0, PropSize + Words(len))
    IN  IF next < 0 THEN Return(next, m)
        ELSE IF r.ret < 0 THEN r
        ELSE IF r2.ret # 0 THEN r2
        ELSE [ret |-> 0, p |-> p,
              m |-> Set(Set(Set(r2.m, p, FDT_PROP), p + 2, r.ret), p + 1, len)]

-----------------------------------------------------------------------------
(* The calls.  Each one is given memory m, in which the header has been    *)
(* accepted where the C function asks for that.                            *)

AddMemRsv(m, rsv) ==
    LET re == fdt_off_mem_rsvmap(m) + RsvSize * fdt_num_mem_rsv(m)
        r  == fdt_splice_mem_rsv_(m, re, 0, 1)
    IN  IF r.ret # 0 THEN r
        ELSE Return(0, Store(r.m, re, <<Num(0), Num(rsv.address),
                                        Num(0), Num(rsv.size)>>))

DelMemRsv(m, n) ==
    IF n >= fdt_num_mem_rsv(m) THEN Return(-FDT_ERR_NOTFOUND, m)
    ELSE fdt_splice_mem_rsv_(m, fdt_off_mem_rsvmap(m) + RsvSize * n, 1, 0)

SetName(m, o, s, t) ==
    LET a   == fdt_off_dt_struct(m) + o + 1
        old == strlen(NameAt(m, o))
        r   == fdt_splice_struct_(m, a, Words(old + 1), Words(strlen(s) + 1))
    IN  IF fdt_check_node_offset_(m, o) < 0
        THEN Return(fdt_check_node_offset_(m, o), m)
        ELSE IF r.ret # 0 THEN r
        ELSE Return(0, Store(r.m, a, NameCells(r.m, a, s, t)))

fdt_setprop_placeholder(m, o, name, t, len) ==
    LET r == fdt_resize_property_(m, o, name, len)
    IN  IF r.ret = -FDT_ERR_NOTFOUND THEN fdt_add_property_(m, o, name, t, len)
                                     ELSE r

\* The value is copied into the property that r passes back.
Filled(r, val) ==
    IF r.ret # 0 THEN r ELSE Return(0, CopyBytes(r.m, r.p + PropSize, 0, val))

SetProp(m, o, name, t, val) ==
    Filled(fdt_setprop_placeholder(m, o, name, t, Len(val)), val)

\* Mutant: the new bytes start at the next word, not behind the old bytes.
AppendAtAligned(m, prop, val) ==
    LET oldlen == PropLen(m, prop)
        newlen == Len(val) + oldlen
        r == fdt_splice_struct_(m, PropData(m, prop), Words(oldlen), Words(newlen))
    IN  IF r.ret # 0 THEN r
        ELSE Return(0, CopyBytes(Set(r.m, fdt_off_dt_struct(m) + prop + 1, newlen),
                                 PropData(m, prop), 4 * Words(oldlen), val))

\* Mutant: the new length is a difference instead of a sum.
AppendAtSubtracts(m, prop, val) ==
    LET oldlen == PropLen(m, prop)
        newlen == oldlen - Len(val)
        r == fdt_splice_struct_(m, PropData(m, prop), Words(oldlen), Words(newlen))
    IN  IF r.ret # 0 THEN r
        ELSE Return(0, Set(r.m, fdt_off_dt_struct(m) + prop + 1, newlen))

AppendAt(m, prop, val) ==
    LET oldlen == PropLen(m, prop)
        newlen == Len(val) + oldlen
        r == fdt_splice_struct_(m, PropData(m, prop), Words(oldlen), Words(newlen))
    IN  IF r.ret # 0 THEN r
        ELSE Return(0, CopyBytes(Set(r.m, fdt_off_dt_struct(m) + prop + 1, newlen),
                                 PropData(m, prop), oldlen, val))

AppendProp(m, o, name, t, val) ==
    LET prop == fdt_get_property(m, o, name)
    IN  IF prop >= 0 THEN AppendAt(m, prop, val)
        ELSE Filled(fdt_add_property_(m, o, name, t, Len(val)), val)

\* Mutant: the value of the property stays behind.
DelPropKeepsValue(m, o, name) ==
    LET prop == fdt_get_property(m, o, name)
    IN  IF prop < 0 THEN Return(prop, m)
        ELSE fdt_splice_struct_(m, fdt_off_dt_struct(m) + prop, PropSize, 0)

DelProp(m, o, name) ==
    LET prop == fdt_get_property(m, o, name)
    IN  IF prop < 0 THEN Return(prop, m)
        ELSE fdt_splice_struct_(m, fdt_off_dt_struct(m) + prop,
                                PropSize + Words(PropLen(m, prop)), 0)

AddSubnode(m, o, name) ==
    LET found == fdt_subnode_offset_namelen(m, o, name)
        at    == AfterProps(Walk(m, fdt_next_tag(m, o).next)).at
        nh    == fdt_off_dt_struct(m) + at
        len   == Words(name.namelen + 1)
        r     == fdt_splice_struct_(m, nh, 0, len + 2)
        n     == Words(NameLen[name.s] + 1)
        cells == [i \in 1 .. len + 2 |->
                    IF i = 1 THEN Num(FDT_BEGIN_NODE)
                    ELSE IF i <= n THEN Name(name.s, 0)
                    ELSE IF i = n + 1 THEN Name(name.s, 1)
                    ELSE IF i = len + 2 THEN Num(FDT_END_NODE)
                    ELSE Num(0)]
    IN  IF found >= 0 THEN Return(-FDT_ERR_EXISTS, m)
        ELSE IF found # -FDT_ERR_NOTFOUND THEN Return(found, m)
        ELSE IF r.ret # 0 THEN r
        ELSE Return(at, Store(r.m, nh, cells))

DelNode(m, o) ==
    LET end == fdt_node_end_offset_(m, o)
    IN  IF end < 0 THEN Return(end, m)
        ELSE fdt_splice_struct_(m, fdt_off_dt_struct(m) + o, end - o, 0)

\* Mutant: the strings block is moved before the structure block.
PackBlocksStringsFirst(m, new, mem_rsv_size, struct_size) ==
    LET struct_off  == HeaderSize + mem_rsv_size
        strings_off == struct_off + struct_size
        m1 == Move(Move(m, new + HeaderSize, fdt_off_mem_rsvmap(m), mem_rsv_size),
                   new + strings_off, fdt_off_dt_strings(m), fdt_size_dt_strings(m))
        m2 == Move(m1, new + struct_off, fdt_off_dt_struct(m1), struct_size)
    IN  Set(Set(Set(Set(Set(m2, new + hOffMemRsvmap, HeaderSize),
                        new + hOffDtStruct, struct_off),
                    new + hSizeDtStruct, struct_size),
                new + hOffDtStrings, strings_off),
            new + hSizeDtStrings, fdt_size_dt_strings(m2))

\* The blocks of the blob at 0, copied one by one to a blob at address new.
fdt_packblocks_(m, new, mem_rsv_size, struct_size) ==
    LET struct_off  == HeaderSize + mem_rsv_size
        strings_off == struct_off + struct_size
        m1 == Set(Move(m, new + HeaderSize, fdt_off_mem_rsvmap(m), mem_rsv_size),
                  new + hOffMemRsvmap, HeaderSize)
        m2 == Set(Set(Move(m1, new + struct_off, fdt_off_dt_struct(m1), struct_size),
                      new + hOffDtStruct, struct_off),
                  new + hSizeDtStruct, struct_size)
        m3 == Set(Move(m2, new + strings_off, fdt_off_dt_strings(m2),
                       fdt_size_dt_strings(m2)),
                  new + hOffDtStrings, strings_off)
    IN  Set(m3, new + hSizeDtStrings, fdt_size_dt_strings(m3))

MemRsvSize(m) == RsvSize * (fdt_num_mem_rsv(m) + 1)

\* Mutant: the blob grows by bufsize instead of to bufsize.
OpenIntoGrows(m, bufsize) ==
    IF fdt_totalsize(m) > bufsize THEN Return(-FDT_ERR_NOSPACE, m)
    ELSE Return(0, Set(Set(m, hVersion, 17), hTotalsize, fdt_totalsize(m) + bufsize))

\* Mutant: blocks in the wrong order are packed onto themselves.
OpenIntoNoTmp(m, bufsize) ==
    LET size   == IF fdt_version(m) >= 17 THEN fdt_size_dt_struct(m)
                                          ELSE Last(Walk(m, 0)).next
        packed == fdt_packblocks_(m, 0, MemRsvSize(m), size)
    IN  IF fdt_totalsize(m) > bufsize THEN Return(-FDT_ERR_NOSPACE, m)
        ELSE Return(0, Set(Set(packed, hVersion, 17), hTotalsize, bufsize))

\* Mutant: no check that the second copy fits behind the blob.
OpenIntoUnchecked(m, bufsize) ==
    LET newsize == HeaderSize + MemRsvSize(m) + fdt_size_dt_struct(m)
                   + fdt_size_dt_strings(m)
        tmp   == fdt_totalsize(m)
        moved == Move(fdt_packblocks_(m, tmp, MemRsvSize(m), fdt_size_dt_struct(m)),
                      0, tmp, newsize)
    IN  IF bufsize < newsize THEN Return(-FDT_ERR_NOSPACE, m)
        ELSE Return(0, Set(Set(Set(Set(moved, hMagic, FDT_MAGIC), hTotalsize, bufsize),
                               hVersion, 17), hLastCompVersion, 16))

\* fdt_open_into(fdt, fdt, bufsize): the matcher opens the blob in place.
OpenInto(m, bufsize) ==
    LET size == IF fdt_version(m) >= 17 THEN fdt_size_dt_struct(m)
                                        ELSE Last(Walk(m, 0)).next
        newsize == HeaderSize + MemRsvSize(m) + size + fdt_size_dt_strings(m)
        tmp   == fdt_totalsize(m)
        moved == Move(fdt_packblocks_(m, tmp, MemRsvSize(m), size), 0, tmp, newsize)
        Finish(b) == Set(Set(Set(Set(b, hMagic, FDT_MAGIC), hTotalsize, bufsize),
                             hVersion, 17), hLastCompVersion, 16)
    IN  IF fdt_check_header(m) # 0 THEN Return(fdt_check_header(m), m)
        ELSE IF size < 0 THEN Return(size, m)
        ELSE IF ~fdt_blocks_misordered_(m, MemRsvSize(m), size)
        THEN IF fdt_totalsize(m) > bufsize THEN Return(-FDT_ERR_NOSPACE, m)
             ELSE Return(0, Set(Set(Set(m, hVersion, 17), hSizeDtStruct, size),
                                hTotalsize, bufsize))
        ELSE IF bufsize < newsize \/ tmp + newsize > bufsize
        THEN Return(-FDT_ERR_NOSPACE, m)
        ELSE Return(0, Set(Finish(moved), hBootCpuidPhys, fdt_boot_cpuid_phys(moved)))

Pack(m) ==
    LET packed == fdt_packblocks_(m, 0, MemRsvSize(m), fdt_size_dt_struct(m))
    IN  Return(0, Set(packed, hTotalsize, fdt_data_size_(packed)))

(* fdt_wip.c *)

\* The caller passes strlen(name), as fdt_setprop_inplace does.  (With the true
\* length, one less, fdt_string_eq_ accepts no property at all.)
SetPropPartial(m, o, name, idx, val) ==
    LET prop == fdt_get_property(m, o, name)
    IN  IF prop < 0 THEN Return(prop, m)
        ELSE IF PropLen(m, prop) < Len(val) + idx
        THEN Return(-FDT_ERR_NOSPACE, m)
        ELSE Return(0, CopyBytes(m, PropData(m, prop), idx, val))

SetPropInplace(m, o, name, val) ==
    LET prop == fdt_get_property(m, o, name)
    IN  IF prop < 0 THEN Return(prop, m)
        ELSE IF PropLen(m, prop) # Len(val) THEN Return(-FDT_ERR_NOSPACE, m)
        ELSE SetPropPartial(m, o, name, 0, val)

fdt_nop_region_(m, a, n) ==
    [x \in DOMAIN m |-> IF x \in a .. a + n - 1 THEN Num(FDT_NOP) ELSE m[x]]

NopProperty(m, o, name) ==
    LET prop == fdt_get_property(m, o, name)
    IN  IF prop < 0 THEN Return(prop, m)
        ELSE Return(0, fdt_nop_region_(m, fdt_off_dt_struct(m) + prop,
                                       PropSize + Words(PropLen(m, prop))))

NopNode(m, o) ==
    LET end == fdt_node_end_offset_(m, o)
    IN  IF end < 0 THEN Return(end, m)
        ELSE Return(0, fdt_nop_region_(m, fdt_off_dt_struct(m) + o, end - o))

-----------------------------------------------------------------------------
(* The specification.  A caller passes the offset of a node, or one at     *)
(* which there is none.  call.node is the number of the node in document   *)
(* order, or 0.                                                            *)

NumberOf(o) == NodeNo(Walk(mem, 0), o)

Offsets == LET w == Walk(mem, 0) IN Nodes(w) \cup {Last(w).at}

Call(op, node, name, val, n) ==
    [op |-> op, node |-> node, name |-> name, val |-> val, n |-> n]

\* A call without an argument of some kind.
None == ""
NoVal == <<>>

Init ==
    /\ mem \in Images
    /\ call = Call("none", 0, None, NoVal, 0)
    /\ ret = 0
    /\ ops = 0

Returns(c, r) ==
    /\ ops < MaxOps
    /\ ops' = ops + 1
    /\ call' = c
    /\ ret' = r.ret
    /\ mem' = r.m

\* FDT_RW_CHECK_HEADER
RwReturns(c, Body(_)) ==
    Returns(c, IF fdt_rw_check_header_(mem) # 0
               THEN Return(fdt_rw_check_header_(mem), mem)
               ELSE Body(Downgraded(mem)))

fdt_open_into == \E size \in BufSizes :
    Returns(Call("open_into", 0, None, NoVal, size), OpenInto(mem, size))

fdt_pack == RwReturns(Call("pack", 0, None, NoVal, 0), Pack)

fdt_add_mem_rsv == \E rsv \in Rsvs :
    RwReturns(Call("add_mem_rsv", 0, None, <<rsv.address, rsv.size>>, 0),
              LAMBDA m : AddMemRsv(m, rsv))

fdt_del_mem_rsv == \E n \in 0 .. fdt_num_mem_rsv(mem) :
    RwReturns(Call("del_mem_rsv", 0, None, NoVal, n), LAMBDA m : DelMemRsv(m, n))

fdt_set_name == \E o \in Offsets, s \in NodeNames, t \in NameTails :
    RwReturns(Call("set_name", NumberOf(o), s, NoVal, 0),
              LAMBDA m : SetName(m, o, s, t))

fdt_setprop ==
    \E o \in Offsets, s \in PropNames, t \in StrTails, v \in Vals :
        RwReturns(Call("setprop", NumberOf(o), s, v, 0),
                  LAMBDA m : SetProp(m, o, s, t, v))

fdt_appendprop ==
    \E o \in Offsets, s \in PropNames, t \in StrTails, v \in Vals :
        RwReturns(Call("appendprop", NumberOf(o), s, v, 0),
                  LAMBDA m : AppendProp(m, o, s, t, v))

fdt_delprop == \E o \in Offsets, s \in PropNames :
    RwReturns(Call("delprop", NumberOf(o), s, NoVal, 0),
              LAMBDA m : DelProp(m, o, s))

fdt_add_subnode_namelen == \E o \in Offsets, s \in NodeNames :
    RwReturns(Call("add_subnode_namelen", NumberOf(o), s, NoVal, 0),
              LAMBDA m : AddSubnode(m, o, [s |-> s, namelen |-> NameLen[s]]))

fdt_add_subnode == \E o \in Offsets, s \in NodeNames :
    RwReturns(Call("add_subnode", NumberOf(o), s, NoVal, 0),
              LAMBDA m : AddSubnode(m, o, [s |-> s, namelen |-> strlen(s)]))

fdt_del_node == \E o \in Offsets :
    RwReturns(Call("del_node", NumberOf(o), None, NoVal, 0),
              LAMBDA m : DelNode(m, o))

fdt_setprop_inplace ==
    \E o \in Offsets, s \in PropNames, v \in Vals :
        Returns(Call("setprop_inplace", NumberOf(o), s, v, 0),
                SetPropInplace(mem, o, s, v))

fdt_setprop_inplace_namelen_partial ==
    \E o \in Offsets, s \in PropNames, v \in Vals, idx \in 0..1 :
        Returns(Call("setprop_inplace_partial", NumberOf(o), s, v, idx),
                SetPropPartial(mem, o, s, idx, v))

fdt_nop_property == \E o \in Offsets, s \in PropNames :
    Returns(Call("nop_property", NumberOf(o), s, NoVal, 0),
            NopProperty(mem, o, s))

fdt_nop_node == \E o \in Offsets :
    Returns(Call("nop_node", NumberOf(o), None, NoVal, 0), NopNode(mem, o))

Next ==
    \/ fdt_open_into \/ fdt_pack
    \/ fdt_add_mem_rsv \/ fdt_del_mem_rsv
    \/ fdt_set_name \/ fdt_setprop \/ fdt_appendprop \/ fdt_delprop
    \/ fdt_add_subnode_namelen \/ fdt_add_subnode \/ fdt_del_node
    \/ fdt_setprop_inplace \/ fdt_setprop_inplace_namelen_partial
    \/ fdt_nop_property \/ fdt_nop_node

Spec == Init /\ [][Next]_vars

-----------------------------------------------------------------------------
(* Properties.                                                             *)

\* The type of the state.
TypeOK ==
    /\ mem \in [0 .. MemSize - 1 -> Cell]
    /\ ret \in Int
    /\ ops \in 0 .. MaxOps

\* The header is intact, the blocks follow each other without overlap, the
\* whole reservation list and not just its first entry in front of the
\* structure block, and all of it fits the buffer.
InOrder(m) ==
    /\ \A h \in 0 .. HeaderSize - 1 : m[h].k = "num"
    /\ fdt_magic(m) = FDT_MAGIC
    /\ fdt_version(m) >= 17
    /\ fdt_last_comp_version(m) <= 17
    /\ fdt_totalsize(m) <= BufSize
    /\ \E n \in 0 .. MemSize :
        /\ ~fdt_blocks_misordered_(m, RsvSize * (n + 1), fdt_size_dt_struct(m))
        /\ IsNumMemRsv(m, n)

\* A blob that fdt_rw_check_header_ lets the read-write functions edit is in
\* order.  The check looks at one reservation entry only; that it suffices
\* depends on every edit having kept the blocks apart.
Layout == fdt_rw_check_header_(mem) = 0 => InOrder(mem)

\* The structure block is a well-formed tree after any sequence of calls: tags
\* nest, properties come first in their node, every property has a name in the
\* strings block, and the one FDT_END is the last word of the block.
WellFormed ==
    LET w    == Walk(mem, 0)
        last == Last(w)
    IN  /\ last.next >= 0
        /\ fdt_version(mem) >= 17 => last.next = fdt_size_dt_struct(mem)
        /\ Depth(w, last) = 0
        /\ Closes(w) = {}
        /\ \A x \in Tagged(w, {FDT_PROP}) :
                /\ \E o \in Nodes(w) : x \in PropsOf(w, o)
                /\ Value(At(mem, x.at + 2)) < fdt_size_dt_strings(mem)
                /\ PropName(mem, x.at) # ""

\* No call writes behind the end of the blob's buffer, and only fdt_open_into
\* moves that end outwards.
NoOverrun ==
    [][ /\ \A a \in DOMAIN mem : a >= fdt_totalsize(mem') /\ a >= fdt_totalsize(mem)
                => mem'[a] = mem[a]
        /\ call'.op # "open_into" => fdt_totalsize(mem') <= fdt_totalsize(mem)
      ]_vars

\* An edit of a node leaves alone the offsets of that node and of all nodes
\* before it: callers such as overlay_apply_node keep using them.
OffsetsStable ==
    [][ call'.node # 0 /\ call'.op \notin {"del_node", "nop_node"} =>
          LET w  == Walk(mem, 0)
              w2 == Walk(mem', 0)
          IN  \A t \in Nodes(w) : NodeNo(w, t) <= call'.node =>
                /\ NodeNo(w2, t) = NodeNo(w, t)
                /\ call'.op # "set_name" => NameAt(mem', t) = NameAt(mem, t)
      ]_vars

\* libfdt.h on fdt_add_subnode(): it "creates a new node as a subnode of the
\* node [...] with the given name", whatever the length of that name.
AddSubnodeWellFormed ==
    [][ call'.op = "add_subnode" /\ WellFormed => WellFormed' ]_vars

=============================================================================
