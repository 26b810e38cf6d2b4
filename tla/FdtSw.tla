-------------------------------- MODULE FdtSw --------------------------------
(***************************************************************************)
(* Writing a device tree from front to back: the sequential-write          *)
(* interface of libfdt (fdt_sw.c) and fdt_create_empty_tree().             *)
(*                                                                         *)
(* The unfinished blob has its own magic number.  Reservations and then    *)
(* the structure block grow upwards from the header, the strings block     *)
(* grows downwards from the end of the buffer, and the offsets of names    *)
(* count backwards from there until fdt_finish() moves the strings.        *)
(*                                                                         *)
(* The variables are those of FdtRw: what fdt_finish() leaves in mem is    *)
(* what fdt_open_into() and the read-write functions work on.              *)
(***************************************************************************)
EXTENDS FdtRw

CONSTANTS
    SwSizes,    \* sizes of the buffers given to fdt_create and fdt_resize
    Shifts,     \* where fdt_resize's new buffer starts, relative to the old one
    AnyResize,  \* whether buffers with nodes in them are moved and shrunk too
    AnyOrder,   \* whether nodes are begun while the reservations have no end
    MaxDepth,   \* bound on the depth of the tree
    MaxNodes    \* and on the number of its nodes

ASSUME SwAssumption ==
    /\ SwSizes \subseteq 0..BufSize
    /\ Shifts \subseteq -MemSize .. MemSize
    /\ AnyResize \in BOOLEAN /\ AnyOrder \in BOOLEAN
    /\ MaxDepth \in Nat /\ MaxNodes \in Nat

-----------------------------------------------------------------------------
(* fdt_sw.c.                                                               *)

\* Mutant: the strings block is forgotten.
GrabIgnoresStrings(m, len) ==
    IF fdt_size_dt_struct(m) + len > fdt_totalsize(m) - fdt_off_dt_struct(m)
    THEN Return(-FDT_ERR_NOSPACE, m)
    ELSE Return(fdt_off_dt_struct(m) + fdt_size_dt_struct(m),
                Set(m, hSizeDtStruct, fdt_size_dt_struct(m) + len))

\* Returns the address of the space.  offset + len is unsigned, and spaceleft is
\* converted: less than no space is more than anybody needs.
fdt_grab_space_(m, len) ==
    LET offset    == fdt_size_dt_struct(m)
        spaceleft == fdt_totalsize(m) - fdt_off_dt_struct(m) - fdt_size_dt_strings(m)
    IN  IF spaceleft >= 0 /\ offset + len > spaceleft
        THEN Return(-FDT_ERR_NOSPACE, m)
        ELSE Return(fdt_off_dt_struct(m) + offset,
                    Set(m, hSizeDtStruct, offset + len))

\* FDT_ALIGN(sizeof(struct fdt_header), sizeof(struct fdt_reserve_entry))
SwHeadSize == RsvSize * ((HeaderSize + RsvSize - 1) \div RsvSize)

\* The buffer need not hold the words that the alignment adds to the header.
Create(m, bufsize) ==
    LET zeros == [a \in DOMAIN m |-> IF a < bufsize THEN Num(0) ELSE m[a]]
        m1 == Set(Set(Set(Set(zeros, hMagic, FDT_SW_MAGIC), hVersion, 17),
                      hLastCompVersion, 16), hTotalsize, bufsize)
    IN  IF bufsize < HeaderSize THEN Return(-FDT_ERR_NOSPACE, m)
        ELSE Return(0, Set(Set(Set(m1, hOffMemRsvmap, SwHeadSize),
                               hOffDtStruct, SwHeadSize),
                           hOffDtStrings, bufsize))

\* Memory around the old buffer, of which the blob's own window is only a part.
Around(m) ==
    [a \in -MemSize .. 2 * MemSize |-> IF a \in DOMAIN m THEN m[a] ELSE Text]

\* fdt_resize(fdt, fdt + shift, bufsize): afterwards memory is seen from the
\* new buffer.
Resize(m, shift, bufsize) ==
    LET headsize == fdt_off_dt_struct(m)
        tailsize == fdt_size_dt_strings(m)
        oldtail  == fdt_totalsize(m) - tailsize
        newtail  == shift + bufsize - tailsize
        moved    == IF shift <= 0
                    THEN Move(Move(Around(m), shift, 0, headsize),
                              newtail, oldtail, tailsize)
                    ELSE Move(Move(Around(m), newtail, oldtail, tailsize),
                              shift, 0, headsize)
        buf      == [a \in DOMAIN m |-> moved[a + shift]]
    IN  IF headsize + tailsize > bufsize THEN Return(-FDT_ERR_NOSPACE, m)
        ELSE Return(0, Set(Set(buf, hOffDtStrings, bufsize), hTotalsize, bufsize))

\* Mutant: no check that the entry fits the buffer.
AddReservemapUnchecked(m, rsv) ==
    IF fdt_size_dt_struct(m) # 0 THEN Return(-FDT_ERR_BADSTATE, m)
    ELSE LET offset == fdt_off_dt_struct(m)
         IN  Return(0, Set(Store(m, offset, <<Num(0), Num(rsv.address),
                                              Num(0), Num(rsv.size)>>),
                           hOffDtStruct, offset + RsvSize))

AddReservemapEntry(m, rsv) ==
    LET offset == fdt_off_dt_struct(m)
    IN  IF fdt_size_dt_struct(m) # 0 THEN Return(-FDT_ERR_BADSTATE, m)
        ELSE IF offset + RsvSize > fdt_totalsize(m)
        THEN Return(-FDT_ERR_NOSPACE, m)
        ELSE Return(0, Set(Store(m, offset, <<Num(0), Num(rsv.address),
                                              Num(0), Num(rsv.size)>>),
                           hOffDtStruct, offset + RsvSize))

FinishReservemap(m) == AddReservemapEntry(m, [address |-> 0, size |-> 0])

\* Puts cells into the space that r has grabbed.
Written(r, cells) ==
    IF r.ret < 0 THEN r ELSE Return(0, Store(r.m, r.ret, cells))

BeginNode(m, s, t) ==
    LET r == fdt_grab_space_(m, 1 + Words(strlen(s) + 1))
    IN  IF r.ret < 0 THEN r
        ELSE Written(r, <<Num(FDT_BEGIN_NODE)>> \o NameCells(r.m, r.ret + 1, s, t))

EndNode(m) == Written(fdt_grab_space_(m, 1), <<Num(FDT_END_NODE)>>)

\* Where the string that fdt_find_string_ takes for s is, relative to the end
\* of the strings block: it finds the lowest one.
FoundStrings(m, s, t) ==
    {i \in -fdt_size_dt_strings(m) .. -1 : m[fdt_totalsize(m) + i] = Str(s, t)}

\* Mutant: the size of the strings block is not counted up.
AddStringUncounted(m, s, t) ==
    LET offset == -fdt_size_dt_strings(m) - 1
    IN  IF FoundStrings(m, s, t) # {} THEN Return(Min(FoundStrings(m, s, t)), m)
        ELSE IF fdt_totalsize(m) + offset
                    < fdt_off_dt_struct(m) + fdt_size_dt_struct(m)
        THEN Return(0, m)
        ELSE Return(offset, [m EXCEPT ![fdt_totalsize(m) + offset] = Str(s, t)])

\* Returns a negative offset, or 0 if there is no room.
SwFindAddString(m, s, t) ==
    LET offset     == -fdt_size_dt_strings(m) - 1
        struct_top == fdt_off_dt_struct(m) + fdt_size_dt_struct(m)
    IN  IF FoundStrings(m, s, t) # {} THEN Return(Min(FoundStrings(m, s, t)), m)
        ELSE IF fdt_totalsize(m) + offset < struct_top THEN Return(0, m)
        ELSE Return(offset, Set([m EXCEPT ![fdt_totalsize(m) + offset] = Str(s, t)],
                                hSizeDtStrings, fdt_size_dt_strings(m) + 1))

\* fdt_property_placeholder and the copy of the value.
Property(m, s, t, val) ==
    LET name == SwFindAddString(m, s, t)
        r    == fdt_grab_space_(name.m, PropSize + Words(Len(val)))
        prop == <<Num(FDT_PROP), Num(Len(val)), Num(Unsigned(name.ret))>>
    IN  IF name.ret = 0 THEN Return(-FDT_ERR_NOSPACE, name.m)
        ELSE IF r.ret < 0 THEN r
        ELSE Return(0, CopyBytes(Store(r.m, r.ret, prop), r.ret + PropSize, 0, val))

\* The names of the properties of walk w, by offsets that count from the start
\* of the strings block.
Relocated(m, w) ==
    [a \in DOMAIN m |->
        IF a - fdt_off_dt_struct(m) - 2 \in {x.at : x \in Tagged(w, {FDT_PROP})}
        THEN Num(Unsigned(AsInt(Value(m[a])) + fdt_size_dt_strings(m)))
        ELSE m[a]]

\* Mutant: the strings move and the names keep their old offsets.
FinishUnrelocated(m) ==
    LET r   == Written(fdt_grab_space_(m, 1), <<Num(FDT_END)>>)
        old == fdt_totalsize(r.m) - fdt_size_dt_strings(r.m)
        new == fdt_off_dt_struct(r.m) + fdt_size_dt_struct(r.m)
        m1  == Set(Move(r.m, new, old, fdt_size_dt_strings(r.m)), hOffDtStrings, new)
    IN  IF r.ret < 0 THEN r
        ELSE Return(0, Set(Set(m1, hTotalsize, new + fdt_size_dt_strings(m1)),
                           hMagic, FDT_MAGIC))

Finish(m) ==
    LET r   == Written(fdt_grab_space_(m, 1), <<Num(FDT_END)>>)
        old == fdt_totalsize(r.m) - fdt_size_dt_strings(r.m)
        new == fdt_off_dt_struct(r.m) + fdt_size_dt_struct(r.m)
        m1  == Set(Move(r.m, new, old, fdt_size_dt_strings(r.m)), hOffDtStrings, new)
        w   == Walk(m1, 0)
        m2  == Relocated(m1, w)
    IN  IF r.ret < 0 THEN r
        ELSE IF Last(w).next < 0 THEN Return(Last(w).next, m2)
        ELSE Return(0, Set(Set(m2, hTotalsize, new + fdt_size_dt_strings(m2)),
                           hMagic, FDT_MAGIC))

-----------------------------------------------------------------------------
(* fdt_empty_tree.c.  The steps of fdt_create_empty_tree before fdt_open_into, *)
(* each of which is taken if the one before it has returned 0.             *)

Then(r, next) == IF r.ret # 0 THEN r ELSE next

EmptyTree(m, bufsize) ==
    LET r1 == Create(m, bufsize)
        r2 == Then(r1, FinishReservemap(r1.m))
        r3 == Then(r2, BeginNode(r2.m, "", 0))
        r4 == Then(r3, EndNode(r3.m))
        r5 == Then(r4, Finish(r4.m))
    IN  Then(r5, OpenInto(r5.m, bufsize))

-----------------------------------------------------------------------------
(* The specification.  The caller keeps to the order of the interface:     *)
(* reservations, their end, one tree with the properties of a node ahead   *)
(* of its subnodes, and the end.  It repeats a call that failed, with a    *)
(* larger buffer or without, or does something else.                       *)

Unfinished == fdt_magic(mem) = FDT_SW_MAGIC

\* Whether the list of reservations has its end.
RsvDone(m) ==
    /\ fdt_off_dt_struct(m) > SwHeadSize
    /\ Value(m[fdt_off_dt_struct(m) - 2]) = 0 /\ Value(m[fdt_off_dt_struct(m) - 1]) = 0

OpenNodes(w) == Depth(w, Last(w))

LastNode(w) == Max(Nodes(w))

MayReserve == ~RsvDone(mem) \/ fdt_size_dt_struct(mem) > 0

MayBegin(s) ==
    LET w == Walk(mem, 0)
    IN  /\ RsvDone(mem) \/ AnyOrder
        /\ IF Nodes(w) = {} THEN s = ""
           ELSE OpenNodes(w) \in 1 .. MaxDepth - 1 /\ s # ""
        /\ Cardinality(Nodes(w)) < MaxNodes

MayAddProperty(s) ==
    LET w == Walk(mem, 0)
    IN  /\ OpenNodes(w) > 0
        /\ \A x \in Tagged(w, {FDT_END_NODE}) : x.at < LastNode(w)
        /\ \A x \in PropsOf(w, LastNode(w)) : PropName(mem, x.at) # s

MayEnd == OpenNodes(Walk(mem, 0)) > 0

MayFinish == fdt_size_dt_struct(mem) > 0 /\ ~MayEnd

\* Once there are nodes, the buffer stays where it is and keeps room for them.
MayResize(shift, size) ==
    \/ AnyResize
    \/ fdt_size_dt_struct(mem) = 0
    \/ /\ shift = 0
       /\ size >= fdt_off_dt_struct(mem) + fdt_size_dt_struct(mem)
                  + fdt_size_dt_strings(mem)

\* FDT_SW_CHECK_HEADER
SwReturns(c, Body(_)) ==
    Returns(c, IF ~Unfinished THEN Return(-FDT_ERR_BADMAGIC, mem) ELSE Body(mem))

SwInit ==
    /\ mem = [a \in 0 .. MemSize - 1 |-> Text]
    /\ call = Call("none", 0, None, NoVal, 0)
    /\ ret = 0
    /\ ops = 0

fdt_create == \E size \in SwSizes :
    /\ call.op = "none"
    /\ Returns(Call("create", 0, None, NoVal, size), Create(mem, size))

fdt_resize == \E shift \in Shifts, size \in SwSizes :
    /\ Unfinished => MayResize(shift, size)
    /\ SwReturns(Call("resize", 0, None, <<shift>>, size),
                 LAMBDA m : Resize(m, shift, size))

fdt_add_reservemap_entry == \E rsv \in Rsvs :
    /\ Unfinished => MayReserve
    /\ SwReturns(Call("add_reservemap_entry", 0, None, <<rsv.address, rsv.size>>, 0),
                 LAMBDA m : AddReservemapEntry(m, rsv))

fdt_finish_reservemap ==
    /\ Unfinished => MayReserve
    /\ SwReturns(Call("finish_reservemap", 0, None, NoVal, 0), FinishReservemap)

fdt_begin_node == \E s \in NodeNames \cup {""}, t \in NameTails :
    /\ Unfinished => MayBegin(s)
    /\ SwReturns(Call("begin_node", 0, s, NoVal, 0), LAMBDA m : BeginNode(m, s, t))

fdt_property == \E s \in PropNames, t \in StrTails, v \in Vals :
    /\ Unfinished => MayAddProperty(s)
    /\ SwReturns(Call("property", 0, s, v, 0), LAMBDA m : Property(m, s, t, v))

fdt_end_node ==
    /\ Unfinished => MayEnd
    /\ SwReturns(Call("end_node", 0, None, NoVal, 0), EndNode)

fdt_finish ==
    /\ Unfinished => MayFinish
    /\ SwReturns(Call("finish", 0, None, NoVal, 0), Finish)

fdt_create_empty_tree == \E size \in SwSizes :
    /\ call.op = "none"
    /\ Returns(Call("create_empty_tree", 0, None, NoVal, size), EmptyTree(mem, size))

\* The finished blob is opened for editing.
OpenFinished == fdt_magic(mem) = FDT_MAGIC /\ fdt_open_into

SwNext ==
    \/ fdt_create \/ fdt_resize \/ fdt_add_reservemap_entry \/ fdt_finish_reservemap
    \/ fdt_begin_node \/ fdt_property \/ fdt_end_node \/ fdt_finish
    \/ fdt_create_empty_tree \/ OpenFinished

SwSpec == SwInit /\ [][SwNext]_vars

-----------------------------------------------------------------------------
(* Properties.                                                             *)

\* Nothing has been written but the header.
Bare(m) == /\ fdt_off_dt_struct(m) = SwHeadSize
           /\ fdt_size_dt_struct(m) = 0 /\ fdt_size_dt_strings(m) = 0

\* A blob under construction is laid out in order, unless its buffer has room
\* for the header alone.
Apart(m) ==
    /\ \A h \in 0 .. HeaderSize - 1 : m[h].k = "num"
    /\ fdt_off_mem_rsvmap(m) = SwHeadSize
    /\ fdt_off_dt_struct(m) >= SwHeadSize
    /\ \/ Bare(m)
       \/ fdt_off_dt_struct(m) + fdt_size_dt_struct(m)
                <= fdt_totalsize(m) - fdt_size_dt_strings(m)
    /\ HeaderSize <= fdt_totalsize(m) /\ fdt_totalsize(m) <= BufSize

\* The structure block and the strings block grow towards each other inside the
\* buffer and never meet, whichever calls fail and however the buffer changes,
\* also if fdt_create was given a buffer with no room for either; and what
\* fdt_finish leaves is in the order that fdt_rw.c relies on, the whole
\* reservation list included.
SwLayout ==
    CASE fdt_magic(mem) = FDT_SW_MAGIC -> Apart(mem)
      [] fdt_magic(mem) = FDT_MAGIC    -> InOrder(mem)
      [] OTHER                         -> call.op = "none" \/ ret # 0

\* libfdt's own searches find every property by its name while the tree is still
\* being written, when the offsets of names are negative and count from the end
\* of the buffer, and afterwards.
Searchable ==
    LET w == Walk(mem, 0)
    IN  /\ Unfinished => fdt_off_dt_strings(mem) = fdt_totalsize(mem)
        /\ fdt_check_header(mem) = 0 =>
            \A o \in Nodes(w) : \A x \in PropsOf(w, o) :
                fdt_get_property(mem, o, PropName(mem, x.at)) = x.at

\* No call but fdt_resize writes outside the buffer that fdt_create was given.
SwNoOverrun ==
    [][ call'.op # "resize" =>
          \A a \in DOMAIN mem :
             a >= (IF call'.op \in {"create", "create_empty_tree"} THEN call'.n
                  ELSE Max({fdt_totalsize(mem), fdt_totalsize(mem')}))
             => mem'[a] = mem[a]
      ]_vars

=============================================================================
