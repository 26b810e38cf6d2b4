----------------------------- MODULE FdtRwProofs -----------------------------
(***************************************************************************)
(* Every call of libfdt's editing interfaces keeps a blob in order and     *)
(* stays inside its buffer: the inductive invariant of FdtRw, for every    *)
(* value of its constants and every number of calls.                       *)
(***************************************************************************)
EXTENDS FdtRwLemmas, TLAPS

\* The blobs that the program is given have their blocks inside them, in any
\* order and in any version of the format.
ImagesPlaced == \A m \in Images : Placed(m)

\* They are in order, as dtc writes them.
ImagesInOrder == \A m \in Images : m \in [0 .. MemSize - 1 -> Cell] /\ InOrder(m)

\* The name that a call replaces, with the two bytes that strlen() and the copy
\* of its result add, ends inside the structure block: fdt_set_name replaces
\* that much if it does not refuse the blob.
NameInBlock ==
    LET m == Downgraded(mem)
    IN  fdt_rw_check_header_(mem) = 0 =>
          \A o \in Offsets :
            NumberOf(o) = call'.node /\ fdt_check_node_offset_(m, o) >= 0 =>
                o + 1 + Words(strlen(NameAt(m, o)) + 1) <= fdt_size_dt_struct(m)

-----------------------------------------------------------------------------
(* The calls.                                                              *)

\* An edit is safe.
LEMMA EditedSafe ==
    ASSUME NEW m, Good(m), NEW r, Edited(m, r)
    PROVE  Safe(m, r)
  BY GoodFacts DEF Edited, Safe

\* What is safe behind FDT_RW_CHECK_HEADER is safe.
LEMMA DowngradedSafe ==
    ASSUME NEW m, Good(m), NEW r, Safe(Downgraded(m), r)
    PROVE  Safe(m, r)
<1> DEFINE d == Downgraded(m)
<1>1. Within(m, d) /\ fdt_totalsize(d) = fdt_totalsize(m)
  BY DowngradedGood
<1> HIDE DEF d
<1>2. Safe(d, r)
  BY DEF d
<1>3. Within(m, r.m)
  BY <1>1, <1>2 DEF Within, Safe
<1> QED BY <1>1, <1>2, <1>3 DEF Safe

\* The offsets that calls are made with are natural numbers.
LEMMA OffsetsNat ==
    ASSUME Good(mem)
    PROVE  Offsets \subseteq Nat
<1> DEFINE w == Walk(mem, 0)
<1>1. \A x \in w : x.at \in Nat
  BY WalkItems, MemAssumption
<1>2. Last(w) \in w
  BY WalkStop, GoodReadable
<1>3. Nodes(w) \subseteq Nat
  BY <1>1 DEF Nodes, Tagged
<1> QED BY <1>1, <1>2, <1>3 DEF Offsets

\* What a step promises.
CallSafe ==
    /\ ops < MaxOps /\ ops' = ops + 1
    /\ Good(mem') /\ ret' \in Int /\ Within(mem, mem')
    /\ call'.op # "open_into" => fdt_totalsize(mem') <= fdt_totalsize(mem)

\* A call whose outcome is safe makes a safe step.
LEMMA ReturnsSafe ==
    ASSUME NEW c, NEW r, Returns(c, r), Safe(mem, r)
    PROVE  CallSafe
  BY DEF Returns, Safe, CallSafe

\* Every call keeps the blob in order and inside its buffer.
LEMMA Step ==
    ASSUME Good(mem), fdt_set_name => NameInBlock, Next
    PROVE  CallSafe
<1>0. /\ Good(Downgraded(mem)) /\ fdt_rw_check_header_(mem) = 0
      /\ Offsets \subseteq Nat
  BY DowngradedGood, OffsetsNat
<1>1. CASE fdt_open_into
  <2>1. PICK size \in BufSizes :
          Returns(Call("open_into", 0, None, NoVal, size), OpenInto(mem, size))
    BY <1>1 DEF fdt_open_into
  <2> DEFINE r == OpenInto(mem, size)
  <2>2. r.ret \in Int /\ Good(r.m) /\ Within(mem, r.m)
    BY OpenIntoGood, BufAssumption
  <2>3. /\ mem' = r.m /\ ret' = r.ret /\ call'.op = "open_into"
        /\ ops < MaxOps /\ ops' = ops + 1
    BY <2>1, Zenon DEF Returns, Call
  <2> QED BY <2>2, <2>3 DEF CallSafe
<1>2. CASE fdt_pack
  <2>1. RwReturns(Call("pack", 0, None, NoVal, 0), Pack)
    BY <1>2 DEF fdt_pack
  <2> DEFINE c == Call("pack", 0, None, NoVal, 0)
             r == Pack(Downgraded(mem))
  <2>2. Returns(c, r)
    BY <1>0, <2>1 DEF RwReturns
  <2>3. Safe(mem, r)
    BY <1>0, PackSafe, DowngradedSafe
  <2> HIDE DEF c, r
  <2> QED BY <2>2, <2>3, ReturnsSafe
<1>3. CASE fdt_add_mem_rsv
  <2>1. PICK rsv \in Rsvs :
          RwReturns(Call("add_mem_rsv", 0, None, <<rsv.address, rsv.size>>, 0),
                    LAMBDA m : AddMemRsv(m, rsv))
    BY <1>3 DEF fdt_add_mem_rsv
  <2> DEFINE c == Call("add_mem_rsv", 0, None, <<rsv.address, rsv.size>>, 0)
             r == AddMemRsv(Downgraded(mem), rsv)
  <2>2. Returns(c, r)
    BY <1>0, <2>1 DEF RwReturns
  <2>3. rsv \in [address : Nat, size : Nat]
    BY <1>0, ArgAssumption
  <2>4. Safe(mem, r)
    BY <1>0, <2>3, AddMemRsvSafe, DowngradedSafe
  <2> HIDE DEF c, r
  <2> QED BY <2>2, <2>4, ReturnsSafe
<1>4. CASE fdt_del_mem_rsv
  <2>1. PICK n \in 0 .. fdt_num_mem_rsv(mem) :
          RwReturns(Call("del_mem_rsv", 0, None, NoVal, n),
                    LAMBDA m : DelMemRsv(m, n))
    BY <1>4 DEF fdt_del_mem_rsv
  <2> DEFINE c == Call("del_mem_rsv", 0, None, NoVal, n)
             r == DelMemRsv(Downgraded(mem), n)
  <2>2. Returns(c, r)
    BY <1>0, <2>1 DEF RwReturns
  <2>3. n \in Nat
    OBVIOUS
  <2>4. Safe(mem, r)
    BY <1>0, <2>3, DelMemRsvSafe, DowngradedSafe
  <2> HIDE DEF c, r
  <2> QED BY <2>2, <2>4, ReturnsSafe
<1>5. CASE fdt_set_name
  <2>1. PICK o \in Offsets, s \in NodeNames, t \in NameTails :
          RwReturns(Call("set_name", NumberOf(o), s, NoVal, 0),
                    LAMBDA m : SetName(m, o, s, t))
    BY <1>5 DEF fdt_set_name
  <2> DEFINE c == Call("set_name", NumberOf(o), s, NoVal, 0)
             r == SetName(Downgraded(mem), o, s, t)
  <2>2. Returns(c, r)
    BY <1>0, <2>1 DEF RwReturns
  <2>3. o \in Nat /\ s \in Names /\ t \in Nat
    BY <1>0, ArgAssumption
  <2>4. fdt_check_node_offset_(Downgraded(mem), o) >= 0 =>
          o + 1 + Words(strlen(NameAt(Downgraded(mem), o)) + 1)
              <= fdt_size_dt_struct(Downgraded(mem))
    <3>1. call'.node = NumberOf(o)
      BY <2>2, Zenon DEF Returns, Call
    <3> QED BY <1>0, <1>5, <3>1 DEF NameInBlock
  <2>5. Edited(Downgraded(mem), r)
    BY <1>0, <2>3, <2>4, SetNameEdited
  <2> HIDE DEF c, r
  <2>6. Safe(mem, r)
    BY <1>0, <2>5, EditedSafe, DowngradedSafe
  <2> QED BY <2>2, <2>6, ReturnsSafe
<1>6. CASE fdt_setprop
  <2>1. PICK o \in Offsets, s \in PropNames, t \in StrTails, v \in Vals :
          RwReturns(Call("setprop", NumberOf(o), s, v, 0),
                    LAMBDA m : SetProp(m, o, s, t, v))
    BY <1>6 DEF fdt_setprop
  <2> DEFINE c == Call("setprop", NumberOf(o), s, v, 0)
             r == SetProp(Downgraded(mem), o, s, t, v)
  <2>2. Returns(c, r)
    BY <1>0, <2>1 DEF RwReturns
  <2>3. o \in Nat /\ s \in Names /\ t \in Nat /\ v \in Seq(Byte)
    BY <1>0, ArgAssumption
  <2>4. Edited(Downgraded(mem), r)
    BY <1>0, <2>3, SetPropEdited
  <2> HIDE DEF c, r
  <2>5. Safe(mem, r)
    BY <1>0, <2>4, EditedSafe, DowngradedSafe
  <2> QED BY <2>2, <2>5, ReturnsSafe
<1>7. CASE fdt_appendprop
  <2>1. PICK o \in Offsets, s \in PropNames, t \in StrTails, v \in Vals :
          RwReturns(Call("appendprop", NumberOf(o), s, v, 0),
                    LAMBDA m : AppendProp(m, o, s, t, v))
    BY <1>7 DEF fdt_appendprop
  <2> DEFINE c == Call("appendprop", NumberOf(o), s, v, 0)
             r == AppendProp(Downgraded(mem), o, s, t, v)
  <2>2. Returns(c, r)
    BY <1>0, <2>1 DEF RwReturns
  <2>3. o \in Nat /\ s \in Names /\ t \in Nat /\ v \in Seq(Byte)
    BY <1>0, ArgAssumption
  <2>4. Edited(Downgraded(mem), r)
    BY <1>0, <2>3, AppendPropEdited
  <2> HIDE DEF c, r
  <2>5. Safe(mem, r)
    BY <1>0, <2>4, EditedSafe, DowngradedSafe
  <2> QED BY <2>2, <2>5, ReturnsSafe
<1>8. CASE fdt_delprop
  <2>1. PICK o \in Offsets, s \in PropNames :
          RwReturns(Call("delprop", NumberOf(o), s, NoVal, 0),
                    LAMBDA m : DelProp(m, o, s))
    BY <1>8 DEF fdt_delprop
  <2> DEFINE c == Call("delprop", NumberOf(o), s, NoVal, 0)
             r == DelProp(Downgraded(mem), o, s)
  <2>2. Returns(c, r)
    BY <1>0, <2>1 DEF RwReturns
  <2>3. o \in Nat
    BY <1>0, ArgAssumption
  <2>4. Edited(Downgraded(mem), r)
    BY <1>0, <2>3, DelPropEdited
  <2> HIDE DEF c, r
  <2>5. Safe(mem, r)
    BY <1>0, <2>4, EditedSafe, DowngradedSafe
  <2> QED BY <2>2, <2>5, ReturnsSafe
<1>9. CASE fdt_add_subnode_namelen
  <2>1. PICK o \in Offsets, s \in NodeNames :
          RwReturns(Call("add_subnode_namelen", NumberOf(o), s, NoVal, 0),
                    LAMBDA m : AddSubnode(m, o, [s |-> s, namelen |-> NameLen[s]]))
    BY <1>9 DEF fdt_add_subnode_namelen
  <2> DEFINE c == Call("add_subnode_namelen", NumberOf(o), s, NoVal, 0)
             r == AddSubnode(Downgraded(mem), o, [s |-> s, namelen |-> NameLen[s]])
  <2>2. Returns(c, r)
    BY <1>0, <2>1 DEF RwReturns
  <2>3. o \in Nat /\ [s |-> s, namelen |-> NameLen[s]] \in [s : Names, namelen : Nat]
    <3>1. s \in Names /\ NameLen[s] \in Nat
      BY ArgAssumption, NameAssumption, Zenon
    <3>2. NameLen[s] \in Nat
      BY <3>1
    <3> QED BY <1>0, <3>1, <3>2
  <2>4. Edited(Downgraded(mem), r)
    BY <1>0, <2>3, AddSubnodeEdited
  <2> HIDE DEF c, r
  <2>5. Safe(mem, r)
    BY <1>0, <2>4, EditedSafe, DowngradedSafe
  <2> QED BY <2>2, <2>5, ReturnsSafe
<1>10. CASE fdt_add_subnode
  <2>1. PICK o \in Offsets, s \in NodeNames :
          RwReturns(Call("add_subnode", NumberOf(o), s, NoVal, 0),
                    LAMBDA m : AddSubnode(m, o, [s |-> s, namelen |-> strlen(s)]))
    BY <1>10 DEF fdt_add_subnode
  <2> DEFINE c == Call("add_subnode", NumberOf(o), s, NoVal, 0)
             r == AddSubnode(Downgraded(mem), o, [s |-> s, namelen |-> strlen(s)])
  <2>2. Returns(c, r)
    BY <1>0, <2>1 DEF RwReturns
  <2>3. o \in Nat /\ [s |-> s, namelen |-> strlen(s)] \in [s : Names, namelen : Nat]
    <3>1. s \in Names /\ NameLen[s] \in Nat
      BY ArgAssumption, NameAssumption, Zenon
    <3>2. strlen(s) \in Nat
      BY <3>1, StrlenNat
    <3> QED BY <1>0, <3>1, <3>2
  <2>4. Edited(Downgraded(mem), r)
    BY <1>0, <2>3, AddSubnodeEdited
  <2> HIDE DEF c, r
  <2>5. Safe(mem, r)
    BY <1>0, <2>4, EditedSafe, DowngradedSafe
  <2> QED BY <2>2, <2>5, ReturnsSafe
<1>11. CASE fdt_del_node
  <2>1. PICK o \in Offsets :
          RwReturns(Call("del_node", NumberOf(o), None, NoVal, 0),
                    LAMBDA m : DelNode(m, o))
    BY <1>11 DEF fdt_del_node
  <2> DEFINE c == Call("del_node", NumberOf(o), None, NoVal, 0)
             r == DelNode(Downgraded(mem), o)
  <2>2. Returns(c, r)
    BY <1>0, <2>1 DEF RwReturns
  <2>3. o \in Nat
    BY <1>0, ArgAssumption
  <2>4. Edited(Downgraded(mem), r)
    BY <1>0, <2>3, DelNodeEdited
  <2> HIDE DEF c, r
  <2>5. Safe(mem, r)
    BY <1>0, <2>4, EditedSafe, DowngradedSafe
  <2> QED BY <2>2, <2>5, ReturnsSafe
<1>12. CASE fdt_setprop_inplace
  <2>1. PICK o \in Offsets, s \in PropNames, v \in Vals :
          Returns(Call("setprop_inplace", NumberOf(o), s, v, 0),
                  SetPropInplace(mem, o, s, v))
    BY <1>12 DEF fdt_setprop_inplace
  <2> DEFINE c == Call("setprop_inplace", NumberOf(o), s, v, 0)
             r == SetPropInplace(mem, o, s, v)
  <2>2. o \in Nat /\ v \in Seq(Byte)
    BY <1>0, ArgAssumption
  <2>3. Edited(mem, r)
    BY <2>2, SetPropInplaceEdited
  <2>4. Returns(c, r)
    BY <2>1
  <2> HIDE DEF c, r
  <2>5. Safe(mem, r)
    BY <2>3, EditedSafe
  <2> QED BY <2>4, <2>5, ReturnsSafe
<1>13. CASE fdt_setprop_inplace_namelen_partial
  <2>1. PICK o \in Offsets, s \in PropNames, v \in Vals, idx \in 0..1 :
          Returns(Call("setprop_inplace_partial", NumberOf(o), s, v, idx),
                  SetPropPartial(mem, o, s, idx, v))
    BY <1>13 DEF fdt_setprop_inplace_namelen_partial
  <2> DEFINE c == Call("setprop_inplace_partial", NumberOf(o), s, v, idx)
             r == SetPropPartial(mem, o, s, idx, v)
  <2>2. o \in Nat /\ v \in Seq(Byte) /\ idx \in Nat
    BY <1>0, ArgAssumption
  <2>3. Edited(mem, r)
    BY <2>2, SetPropPartialEdited
  <2>4. Returns(c, r)
    BY <2>1
  <2> HIDE DEF c, r
  <2>5. Safe(mem, r)
    BY <2>3, EditedSafe
  <2> QED BY <2>4, <2>5, ReturnsSafe
<1>14. CASE fdt_nop_property
  <2>1. PICK o \in Offsets, s \in PropNames :
          Returns(Call("nop_property", NumberOf(o), s, NoVal, 0),
                  NopProperty(mem, o, s))
    BY <1>14 DEF fdt_nop_property
  <2> DEFINE c == Call("nop_property", NumberOf(o), s, NoVal, 0)
             r == NopProperty(mem, o, s)
  <2>2. o \in Nat
    BY <1>0, ArgAssumption
  <2>3. Edited(mem, r)
    BY <2>2, NopPropertyEdited
  <2>4. Returns(c, r)
    BY <2>1
  <2> HIDE DEF c, r
  <2>5. Safe(mem, r)
    BY <2>3, EditedSafe
  <2> QED BY <2>4, <2>5, ReturnsSafe
<1>15. CASE fdt_nop_node
  <2>1. PICK o \in Offsets :
          Returns(Call("nop_node", NumberOf(o), None, NoVal, 0),
                  NopNode(mem, o))
    BY <1>15 DEF fdt_nop_node
  <2> DEFINE c == Call("nop_node", NumberOf(o), None, NoVal, 0)
             r == NopNode(mem, o)
  <2>2. o \in Nat
    BY <1>0, ArgAssumption
  <2>3. Edited(mem, r)
    BY <2>2, NopNodeEdited
  <2>4. Returns(c, r)
    BY <2>1
  <2> HIDE DEF c, r
  <2>5. Safe(mem, r)
    BY <2>3, EditedSafe
  <2> QED BY <2>4, <2>5, ReturnsSafe
<1> QED BY <1>1, <1>2, <1>3, <1>4, <1>5, <1>6, <1>7, <1>8, <1>9, <1>10, <1>11, <1>12, <1>13, <1>14, <1>15 DEF Next

-----------------------------------------------------------------------------
(* The places of the nodes.                                                *)

\* What a step promises about the nodes in front of the edit.
Stable ==
    call'.node # 0 /\ call'.op \notin {"del_node", "nop_node"} =>
        SamePlaces(mem, mem', call'.node, call'.op # "set_name")

\* A node with a number is in the walk.
LEMMA NumberedNode ==
    ASSUME Good(mem), NEW o, NumberOf(o) # 0
    PROVE  /\ o \in Nodes(Walk(mem, 0)) /\ o \in Nat
           /\ fdt_check_node_offset_(mem, o) \in Nat
           /\ fdt_check_node_offset_(mem, o) <= fdt_size_dt_struct(mem)
           /\ o + 2 <= fdt_check_node_offset_(mem, o)
<1>1. MemSize \in Nat /\ 0 \in 0 .. MemSize /\ Framed(mem)
  BY MemAssumption, GoodFramed
<1>2. o \in Nodes(Walk(mem, 0))
  BY Zenon DEF NumberOf, NodeNo
<1>3. o \in Nat /\ fdt_next_tag(mem, o).tag = FDT_BEGIN_NODE
  BY <1>1, <1>2, TagOffsetsUnfold, NodesOfWalk
<1>4. fdt_check_node_offset_(mem, o) = NextOf(mem, o)
  BY <1>3 DEF fdt_check_node_offset_, NextOf
<1> QED BY <1>1, <1>2, <1>3, <1>4, NodeNext

\* A call that keeps the blob up to the contents of its node.
LEMMA ReturnsStable ==
    ASSUME Good(mem), NEW o \in Nat, NEW c, NEW r, Returns(c, r), c.node = NumberOf(o),
           Good(r.m),
           fdt_check_node_offset_(mem, o) >= 0 =>
               Kept(mem, r.m, fdt_check_node_offset_(mem, o))
    PROVE  Stable
<1> SUFFICES ASSUME call'.node # 0
             PROVE  SamePlaces(mem, mem', call'.node, call'.op # "set_name")
  BY DEF Stable
<1>1. mem' = r.m /\ call'.node = NumberOf(o)
  BY DEF Returns
<1>2. o \in Nodes(Walk(mem, 0)) /\ fdt_check_node_offset_(mem, o) >= 0
  BY <1>1, NumberedNode
<1>3. Kept(mem, r.m, fdt_check_node_offset_(mem, o))
  BY <1>2
<1> DEFINE b == call'.op # "set_name"
           n == r.m
<1>4. Good(n) /\ Kept(mem, n, fdt_check_node_offset_(mem, o))
  BY <1>3
<1> HIDE DEF b, n
<1>5. SamePlaces(mem, n, NodeNo(Walk(mem, 0), o), b)
  BY <1>2, <1>4, ContentsEdited
<1> QED BY <1>1, <1>5 DEF b, n, NumberOf

\* FDT_RW_CHECK_HEADER keeps every node.
LEMMA DowngradedNode ==
    ASSUME Good(mem), NEW o, NumberOf(o) # 0
    PROVE  fdt_check_node_offset_(Downgraded(mem), o) = fdt_check_node_offset_(mem, o)
<1> DEFINE d == Downgraded(mem)
           e == fdt_check_node_offset_(mem, o)
<1>1. o \in Nat /\ e \in Nat /\ e <= fdt_size_dt_struct(mem)
  BY NumberedNode
<1>2. Kept(mem, d, e)
  <2> HIDE DEF e
  <2> QED BY <1>1, DowngradedKept
<1>3. Good(d)
  BY DowngradedGood
<1>4. e >= 0
  BY <1>1
<1> HIDE DEF d
<1>5. fdt_check_node_offset_(d, o) = e
  BY <1>1, <1>2, <1>3, <1>4, SameNode
<1> QED BY <1>5 DEF d

\* The same behind FDT_RW_CHECK_HEADER.
LEMMA RwReturnsStable ==
    ASSUME Good(mem), NEW o \in Nat, NEW c, NEW r, Returns(c, r), c.node = NumberOf(o),
           Good(r.m),
           fdt_check_node_offset_(Downgraded(mem), o) >= 0 =>
               Kept(Downgraded(mem), r.m, fdt_check_node_offset_(Downgraded(mem), o))
    PROVE  Stable
<1>1. CASE NumberOf(o) = 0
  BY <1>1 DEF Returns, Stable
<1>2. CASE NumberOf(o) # 0
  <2> DEFINE d == Downgraded(mem)
             e == fdt_check_node_offset_(mem, o)
             n == r.m
  <2>1. e \in Nat /\ e <= fdt_size_dt_struct(mem)
    BY <1>2, NumberedNode
  <2>2. fdt_check_node_offset_(d, o) = e
    BY <1>2, DowngradedNode
  <2>3. Kept(d, n, e)
    BY <2>1, <2>2
  <2> HIDE DEF e, n
  <2>4. Kept(mem, d, e)
    BY <2>1, DowngradedKept
  <2> HIDE DEF d
  <2>5. Kept(mem, n, e)
    BY <2>3, <2>4, KeptTwice
  <2> QED BY <2>5, ReturnsStable DEF e, n
<1> QED BY <1>1, <1>2

\* fdt_set_name keeps the nodes in front of the name.
LEMMA SetNameStable ==
    ASSUME Good(mem), fdt_set_name, NameInBlock
    PROVE  Stable
<1>0. Good(Downgraded(mem)) /\ fdt_rw_check_header_(mem) = 0 /\ Offsets \subseteq Nat
  BY DowngradedGood, OffsetsNat
<1>1. PICK o \in Offsets, s \in NodeNames, t \in NameTails :
        RwReturns(Call("set_name", NumberOf(o), s, NoVal, 0),
                  LAMBDA m : SetName(m, o, s, t))
  BY DEF fdt_set_name
<1> DEFINE d == Downgraded(mem)
           r == SetName(d, o, s, t)
           n == r.m
<1>2. mem' = n /\ call'.op = "set_name" /\ call'.node = NumberOf(o)
  BY <1>0, <1>1 DEF RwReturns, Returns, Call
<1>3. o \in Nat /\ s \in Names /\ t \in Nat
  BY <1>0, ArgAssumption
<1>4. CASE NumberOf(o) = 0
  BY <1>2, <1>4 DEF Stable
<1>5. CASE NumberOf(o) # 0
  <2>1. /\ o \in Nodes(Walk(mem, 0)) /\ fdt_check_node_offset_(mem, o) \in Nat
        /\ fdt_check_node_offset_(mem, o) <= fdt_size_dt_struct(mem)
        /\ o + 2 <= fdt_check_node_offset_(mem, o)
    BY <1>5, NumberedNode
  <2>2. fdt_check_node_offset_(d, o) >= 0
    BY <1>5, <2>1, DowngradedNode
  <2>3. o + 1 + Words(strlen(NameAt(d, o)) + 1) <= fdt_size_dt_struct(d)
    BY <1>0, <1>2, <2>2 DEF NameInBlock
  <2>4. Good(d)
    BY <1>0
  <2>5. o + 1 \in Nat /\ o + 1 <= fdt_size_dt_struct(mem)
    <3>1. fdt_size_dt_struct(mem) \in Nat
      BY GoodFacts
    <3> QED BY <1>3, <2>1, <3>1
  <2>6. Kept(mem, d, o + 1)
    BY <2>5, DowngradedKept
  <2> HIDE DEF d
  <2>7. Good(n)
    BY <1>3, <2>3, <2>4, SetNameEdited DEF Edited
  <2>8. Kept(d, n, o + 1) /\ fdt_next_tag(n, o).tag = FDT_BEGIN_NODE
    BY <1>3, <2>2, <2>3, <2>4, SetNameKept
  <2> HIDE DEF n
  <2>9. Kept(mem, n, o + 1)
    BY <2>6, <2>8, KeptTwice
  <2>10. SamePlaces(mem, n, NodeNo(Walk(mem, 0), o), FALSE)
    BY <2>1, <2>7, <2>8, <2>9, NameEdited
  <2>11. (call'.op # "set_name") = FALSE
    BY <1>2
  <2> QED BY <1>2, <2>10, <2>11 DEF Stable, NumberOf
<1> QED BY <1>4, <1>5

\* Every call keeps the nodes up to the one that it edits.
LEMMA StepStable ==
    ASSUME Good(mem), fdt_set_name => NameInBlock, Next
    PROVE  Stable
<1>0. /\ Good(mem) /\ Good(Downgraded(mem)) /\ fdt_rw_check_header_(mem) = 0
      /\ Offsets \subseteq Nat
  BY DowngradedGood, OffsetsNat
<1>1. CASE fdt_open_into \/ fdt_pack \/ fdt_add_mem_rsv \/ fdt_del_mem_rsv
  <2>1. PICK c, r : Returns(c, r) /\ c.node = 0
    <3>1. CASE fdt_open_into
      BY <3>1 DEF fdt_open_into, Call
    <3>2. CASE fdt_pack
      BY <3>2 DEF fdt_pack, RwReturns, Call
    <3>3. CASE fdt_add_mem_rsv
      BY <3>3 DEF fdt_add_mem_rsv, RwReturns, Call
    <3>4. CASE fdt_del_mem_rsv
      BY <3>4 DEF fdt_del_mem_rsv, RwReturns, Call
    <3> QED BY <1>1, <3>1, <3>2, <3>3, <3>4
  <2>2. call'.node = 0
    BY <2>1 DEF Returns
  <2> QED BY <2>2 DEF Stable
<1>2. CASE fdt_del_node \/ fdt_nop_node
  <2>1. PICK c, r : Returns(c, r) /\ c.op \in {"del_node", "nop_node"}
    <3>1. CASE fdt_del_node
      BY <3>1 DEF fdt_del_node, RwReturns, Call
    <3>2. CASE fdt_nop_node
      BY <3>2 DEF fdt_nop_node, Call
    <3> QED BY <1>2, <3>1, <3>2
  <2>2. call'.op \in {"del_node", "nop_node"}
    BY <2>1 DEF Returns
  <2> QED BY <2>2 DEF Stable
<1>3. CASE fdt_set_name
  BY <1>3, SetNameStable
<1>4. CASE fdt_setprop
  <2>1. PICK o \in Offsets, s \in PropNames, t \in StrTails, v \in Vals :
          RwReturns(Call("setprop", NumberOf(o), s, v, 0),
                    LAMBDA m : SetProp(m, o, s, t, v))
    BY <1>4 DEF fdt_setprop
  <2> DEFINE c == Call("setprop", NumberOf(o), s, v, 0)
             r == SetProp(Downgraded(mem), o, s, t, v)
  <2>2. Returns(c, r) /\ c.node = NumberOf(o)
    BY <1>0, <2>1 DEF RwReturns, Call
  <2>3. o \in Nat /\ s \in Names /\ t \in Nat /\ v \in Seq(Byte)
    BY <1>0, ArgAssumption
  <2>4. Good(r.m)
    BY <1>0, <2>3, SetPropEdited DEF Edited
  <2>5. fdt_check_node_offset_(Downgraded(mem), o) >= 0 =>
          Kept(Downgraded(mem), r.m, fdt_check_node_offset_(Downgraded(mem), o))
    BY <1>0, <2>3, SetPropKept
  <2> HIDE DEF c, r
  <2> QED BY <2>2, <2>3, <2>4, <2>5, RwReturnsStable
<1>5. CASE fdt_appendprop
  <2>1. PICK o \in Offsets, s \in PropNames, t \in StrTails, v \in Vals :
          RwReturns(Call("appendprop", NumberOf(o), s, v, 0),
                    LAMBDA m : AppendProp(m, o, s, t, v))
    BY <1>5 DEF fdt_appendprop
  <2> DEFINE c == Call("appendprop", NumberOf(o), s, v, 0)
             r == AppendProp(Downgraded(mem), o, s, t, v)
  <2>2. Returns(c, r) /\ c.node = NumberOf(o)
    BY <1>0, <2>1 DEF RwReturns, Call
  <2>3. o \in Nat /\ s \in Names /\ t \in Nat /\ v \in Seq(Byte)
    BY <1>0, ArgAssumption
  <2>4. Good(r.m)
    BY <1>0, <2>3, AppendPropEdited DEF Edited
  <2>5. fdt_check_node_offset_(Downgraded(mem), o) >= 0 =>
          Kept(Downgraded(mem), r.m, fdt_check_node_offset_(Downgraded(mem), o))
    BY <1>0, <2>3, AppendPropKept
  <2> HIDE DEF c, r
  <2> QED BY <2>2, <2>3, <2>4, <2>5, RwReturnsStable
<1>6. CASE fdt_delprop
  <2>1. PICK o \in Offsets, s \in PropNames :
          RwReturns(Call("delprop", NumberOf(o), s, NoVal, 0),
                    LAMBDA m : DelProp(m, o, s))
    BY <1>6 DEF fdt_delprop
  <2> DEFINE c == Call("delprop", NumberOf(o), s, NoVal, 0)
             r == DelProp(Downgraded(mem), o, s)
  <2>2. Returns(c, r) /\ c.node = NumberOf(o)
    BY <1>0, <2>1 DEF RwReturns, Call
  <2>3. o \in Nat
    BY <1>0, ArgAssumption
  <2>4. Good(r.m)
    BY <1>0, <2>3, DelPropEdited DEF Edited
  <2>5. fdt_check_node_offset_(Downgraded(mem), o) >= 0 =>
          Kept(Downgraded(mem), r.m, fdt_check_node_offset_(Downgraded(mem), o))
    BY <1>0, <2>3, DelPropKept
  <2> HIDE DEF c, r
  <2> QED BY <2>2, <2>3, <2>4, <2>5, RwReturnsStable
<1>7. CASE fdt_add_subnode_namelen
  <2>1. PICK o \in Offsets, s \in NodeNames :
          RwReturns(Call("add_subnode_namelen", NumberOf(o), s, NoVal, 0),
                    LAMBDA m : AddSubnode(m, o, [s |-> s, namelen |-> NameLen[s]]))
    BY <1>7 DEF fdt_add_subnode_namelen
  <2> DEFINE c == Call("add_subnode_namelen", NumberOf(o), s, NoVal, 0)
             r == AddSubnode(Downgraded(mem), o, [s |-> s, namelen |-> NameLen[s]])
  <2>2. Returns(c, r) /\ c.node = NumberOf(o)
    BY <1>0, <2>1 DEF RwReturns, Call
  <2>3. o \in Nat /\ [s |-> s, namelen |-> NameLen[s]] \in [s : Names, namelen : Nat]
    <3>1. s \in Names /\ NameLen[s] \in Nat
      BY ArgAssumption, NameAssumption, Zenon
    <3>2. NameLen[s] \in Nat
      BY <3>1
    <3> QED BY <1>0, <3>1, <3>2
  <2>4. Good(r.m)
    BY <1>0, <2>3, AddSubnodeEdited DEF Edited
  <2>5. fdt_check_node_offset_(Downgraded(mem), o) >= 0 =>
          Kept(Downgraded(mem), r.m, fdt_check_node_offset_(Downgraded(mem), o))
    BY <1>0, <2>3, AddSubnodeKept
  <2> HIDE DEF c, r
  <2> QED BY <2>2, <2>3, <2>4, <2>5, RwReturnsStable
<1>8. CASE fdt_add_subnode
  <2>1. PICK o \in Offsets, s \in NodeNames :
          RwReturns(Call("add_subnode", NumberOf(o), s, NoVal, 0),
                    LAMBDA m : AddSubnode(m, o, [s |-> s, namelen |-> strlen(s)]))
    BY <1>8 DEF fdt_add_subnode
  <2> DEFINE c == Call("add_subnode", NumberOf(o), s, NoVal, 0)
             r == AddSubnode(Downgraded(mem), o, [s |-> s, namelen |-> strlen(s)])
  <2>2. Returns(c, r) /\ c.node = NumberOf(o)
    BY <1>0, <2>1 DEF RwReturns, Call
  <2>3. o \in Nat /\ [s |-> s, namelen |-> strlen(s)] \in [s : Names, namelen : Nat]
    <3>1. s \in Names /\ NameLen[s] \in Nat
      BY ArgAssumption, NameAssumption, Zenon
    <3>2. strlen(s) \in Nat
      BY <3>1, StrlenNat
    <3> QED BY <1>0, <3>1, <3>2
  <2>4. Good(r.m)
    BY <1>0, <2>3, AddSubnodeEdited DEF Edited
  <2>5. fdt_check_node_offset_(Downgraded(mem), o) >= 0 =>
          Kept(Downgraded(mem), r.m, fdt_check_node_offset_(Downgraded(mem), o))
    BY <1>0, <2>3, AddSubnodeKept
  <2> HIDE DEF c, r
  <2> QED BY <2>2, <2>3, <2>4, <2>5, RwReturnsStable
<1>9. CASE fdt_setprop_inplace
  <2>1. PICK o \in Offsets, s \in PropNames, v \in Vals :
          Returns(Call("setprop_inplace", NumberOf(o), s, v, 0),
                  SetPropInplace(mem, o, s, v))
    BY <1>9 DEF fdt_setprop_inplace
  <2> DEFINE c == Call("setprop_inplace", NumberOf(o), s, v, 0)
             r == SetPropInplace(mem, o, s, v)
  <2>2. Returns(c, r) /\ c.node = NumberOf(o)
    BY <2>1 DEF Call
  <2>3. o \in Nat /\ v \in Seq(Byte)
    BY <1>0, ArgAssumption
  <2>4. Good(r.m)
    BY <1>0, <2>3, SetPropInplaceEdited DEF Edited
  <2>5. fdt_check_node_offset_(mem, o) >= 0 =>
          Kept(mem, r.m, fdt_check_node_offset_(mem, o))
    BY <1>0, <2>3, SetPropInplaceKept
  <2> HIDE DEF c, r
  <2> QED BY <2>2, <2>3, <2>4, <2>5, ReturnsStable
<1>10. CASE fdt_setprop_inplace_namelen_partial
  <2>1. PICK o \in Offsets, s \in PropNames, v \in Vals, idx \in 0..1 :
          Returns(Call("setprop_inplace_partial", NumberOf(o), s, v, idx),
                  SetPropPartial(mem, o, s, idx, v))
    BY <1>10 DEF fdt_setprop_inplace_namelen_partial
  <2> DEFINE c == Call("setprop_inplace_partial", NumberOf(o), s, v, idx)
             r == SetPropPartial(mem, o, s, idx, v)
  <2>2. Returns(c, r) /\ c.node = NumberOf(o)
    BY <2>1 DEF Call
  <2>3. o \in Nat /\ v \in Seq(Byte) /\ idx \in Nat
    BY <1>0, ArgAssumption
  <2>4. Good(r.m)
    BY <1>0, <2>3, SetPropPartialEdited DEF Edited
  <2>5. fdt_check_node_offset_(mem, o) >= 0 =>
          Kept(mem, r.m, fdt_check_node_offset_(mem, o))
    BY <1>0, <2>3, SetPropPartialKept
  <2> HIDE DEF c, r
  <2> QED BY <2>2, <2>3, <2>4, <2>5, ReturnsStable
<1>11. CASE fdt_nop_property
  <2>1. PICK o \in Offsets, s \in PropNames :
          Returns(Call("nop_property", NumberOf(o), s, NoVal, 0),
                  NopProperty(mem, o, s))
    BY <1>11 DEF fdt_nop_property
  <2> DEFINE c == Call("nop_property", NumberOf(o), s, NoVal, 0)
             r == NopProperty(mem, o, s)
  <2>2. Returns(c, r) /\ c.node = NumberOf(o)
    BY <2>1 DEF Call
  <2>3. o \in Nat
    BY <1>0, ArgAssumption
  <2>4. Good(r.m)
    BY <1>0, <2>3, NopPropertyEdited DEF Edited
  <2>5. fdt_check_node_offset_(mem, o) >= 0 =>
          Kept(mem, r.m, fdt_check_node_offset_(mem, o))
    BY <1>0, <2>3, NopPropertyKept
  <2> HIDE DEF c, r
  <2> QED BY <2>2, <2>3, <2>4, <2>5, ReturnsStable
<1> QED BY <1>1, <1>2, <1>3, <1>4, <1>5, <1>6, <1>7, <1>8, <1>9, <1>10, <1>11 DEF Next

USE DEF FDT_BEGIN_NODE, FDT_END_NODE, FDT_PROP, FDT_NOP, FDT_END,
        FDT_ERR_NOTFOUND, FDT_ERR_EXISTS, FDT_ERR_NOSPACE, FDT_ERR_BADOFFSET,
        FDT_ERR_BADSTATE, FDT_ERR_TRUNCATED, FDT_ERR_BADMAGIC, FDT_ERR_BADVERSION,
        FDT_ERR_BADSTRUCTURE, FDT_ERR_BADLAYOUT, FDT_MAGIC, FDT_SW_MAGIC,
        HeaderSize, RsvSize, PropSize, hMagic, hTotalsize, hOffDtStruct,
        hOffDtStrings, hOffMemRsvmap, hVersion, hLastCompVersion, hBootCpuidPhys,
        hSizeDtStrings, hSizeDtStruct

-----------------------------------------------------------------------------
(* Copying bytes into a value.                                             *)

\* Bytes copied into the value of a property leave the blob sound.
LEMMA ValueCopied ==
    ASSUME NEW m, Good(m), Sound(m), NEW p, NEW len, len \in Nat, PropertyAt(m, p, len),
           NEW at, at \in Nat, NEW val, val \in Seq(Byte), Words(at + Len(val)) <= Words(len),
           NEW a, a = fdt_off_dt_struct(m) + p + 3
    PROVE  Good(CopyBytes(m, a, at, val)) /\ Sound(CopyBytes(m, a, at, val))
<1> DEFINE m2 == CopyBytes(m, a, at, val)
           q  == NextOf(m, p)
           S0 == fdt_off_dt_struct(m)
           q2 == PropEnd(p, len)
<1>0. 0 \in 0 .. MemSize /\ MemSize \in Nat /\ Framed(m)
  BY MemAssumption, GoodFramed
<1>1. p \in TagOffsets(m, 0) /\ Tag(m, p) = FDT_PROP /\ PropLen(m, p) = len
  BY DEF PropertyAt
<1>2. p \in Nat /\ S0 \in Nat /\ m \in Memory
  <2>1. TagOffsets(m, 0) \subseteq 0 .. MemSize
    BY <1>0, TagOffsetsUnfold
  <2> QED BY <1>1, <2>1, GoodFacts
<1>3. /\ q = p + 3 + Words(len) /\ Words(len) \in Nat /\ q <= fdt_size_dt_struct(m)
      /\ q2 = p + 3 + Words(len)
  BY <1>0, <1>1, <1>2, PropNameNat DEF PropEnd
<1>4. q = q2 /\ q \in Nat /\ p + 3 <= q
  BY <1>2, <1>3
<1>5. Spliced(m, m, q, q, q2)
  <2> HIDE DEF q, q2
  <2> QED BY <1>4, SplicedSelf
<1>6. S0 + p + 1 \in 0 .. MemSize - 1
  <2> DEFINE Z == fdt_size_dt_struct(m)
  <2>1. S0 + Z <= MemSize /\ Z \in Nat
    BY <1>0, FramedFacts
  <2>2. q <= Z /\ p + 3 <= q /\ q \in Nat /\ p \in Nat /\ S0 \in Nat /\ MemSize \in Nat
    BY <1>0, <1>2, <1>3, <1>4
  <2> HIDE DEF q, q2, S0, Z
  <2> QED BY <2>1, <2>2
<1>7. a \in Nat /\ a = S0 + p + 3
  BY <1>2
<1>8. /\ m2 \in Memory
      /\ \A x \in 0 .. MemSize - 1 :
            x < a \/ x >= a + Words(at + Len(val)) => m2[x] = m[x]
  BY ZenonT(30), <1>2, <1>7, CopyMemory
<1>9. at + Len(val) \in Nat /\ Words(at + Len(val)) \in Nat
  BY WordsNat
<1>10. Revalued(m, m, m2, p, len)
  <2>1. ASSUME NEW x \in 0 .. MemSize - 1,
               x < S0 + p + 1 \/ x = S0 + p + 2 \/ x >= S0 + q2
        PROVE  m2[x] = m[x]
    <3>1. x < a \/ x >= a + Words(at + Len(val))
      <4> DEFINE k == Words(at + Len(val))
                 l == Words(len)
      <4>1. k \in Nat /\ l \in Nat /\ k <= l /\ q2 = p + 3 + l
        BY <1>3, <1>9
      <4> HIDE DEF k, l, q2, S0
      <4>2. x < S0 + p + 3 \/ x >= S0 + p + 3 + k
        BY <1>0, <1>2, <2>1, <4>1
      <4> QED BY <1>7, <4>2 DEF k
    <3> QED BY <1>8, <3>1
  <2>2. Value(m2[S0 + p + 1]) = len
    <3>1. S0 + p + 1 < a
      BY <1>2, <1>7
    <3>2. m2[S0 + p + 1] = m[S0 + p + 1]
      BY <1>6, <1>8, <3>1
    <3>3. S0 + (p + 1) = S0 + p + 1
      BY <1>2
    <3>4. PropLen(m, p) = Value(m[S0 + p + 1])
      BY <3>3 DEF PropLen, At
    <3> QED BY <1>1, <3>2, <3>4
  <2> HIDE DEF m2
  <2> QED BY <1>8, <2>1, <2>2 DEF Revalued
<1>11. q <= q2
  BY <1>4
<1> HIDE DEF m2, q, q2
<1>12. Good(m2) /\ Sound(m2)
  BY <1>1, <1>4, <1>5, <1>10, <1>11, ValueWritten DEF q, q2
<1> QED BY <1>12 DEF m2

\* The blob is sound, and the property is where the call has passed it back.
PropertyStands(r, len) ==
    /\ Good(r.m) /\ Sound(r.m)
    /\ r.ret = 0 => \E p : /\ r.p = fdt_off_dt_struct(r.m) + p
                           /\ PropertyAt(r.m, p, len)

\* So does it when its value is filled in.
LEMMA FilledSound ==
    ASSUME NEW r, NEW val \in Seq(Byte), PropertyStands(r, Len(val))
    PROVE  Sound(Filled(r, val).m)
<1> DEFINE len == Len(val)
           z == 0
<1>1. CASE r.ret # 0
  BY <1>1 DEF Filled, PropertyStands
<1>2. CASE r.ret = 0
  <2>1. Good(r.m) /\ Sound(r.m)
    BY DEF PropertyStands
  <2>2. PICK p : r.p = fdt_off_dt_struct(r.m) + p /\ PropertyAt(r.m, p, len)
    BY <1>2 DEF PropertyStands
  <2> DEFINE a == r.p + PropSize
             m == r.m
  <2>3. a = fdt_off_dt_struct(m) + p + 3
    BY <2>2
  <2>4. z \in Nat /\ len \in Nat /\ z + Len(val) = len
    OBVIOUS
  <2>5. Words(z + Len(val)) <= Words(len)
    <3>1. Words(len) \in Nat /\ Words(z + Len(val)) = Words(len)
      BY <2>4, WordsNat
    <3> HIDE DEF z, len
    <3> QED BY <3>1
  <2> HIDE DEF z, len, a, m
  <2>6. Good(m) /\ Sound(m) /\ PropertyAt(m, p, len)
    BY <2>1, <2>2 DEF m
  <2>7. Sound(CopyBytes(m, a, z, val))
    BY <2>3, <2>4, <2>5, <2>6, ValueCopied
  <2>8. Filled(r, val).m = CopyBytes(m, a, z, val)
    BY <1>2 DEF Filled, Return, m, a, z
  <2> QED BY <2>7, <2>8
<1> QED BY <1>1, <1>2

\* The room of a property is changed, and then its length.
LEMMA LengthSet ==
    ASSUME NEW m, Good(m), Sound(m), NEW p, p \in TagOffsets(m, 0), Tag(m, p) = FDT_PROP,
           NEW len, len \in Nat, NEW f,
           f = fdt_splice_struct_(m, PropData(m, p), Words(PropLen(m, p)), Words(len))
    PROVE  /\ f.ret # 0 => f.m = m
           /\ f.ret = 0 => LET m2 == Set(f.m, fdt_off_dt_struct(m) + p + 1, len)
                           IN  /\ Good(m2) /\ Sound(m2) /\ PropertyAt(m2, p, len)
                               /\ fdt_off_dt_struct(m2) = fdt_off_dt_struct(m)
<1> DEFINE S0 == fdt_off_dt_struct(m)
           x  == p + 3
           k  == Words(PropLen(m, p))
           l  == Words(len)
           q  == NextOf(m, p)
           q2 == PropEnd(p, len)
           b  == f.m
           m2 == Set(f.m, S0 + p + 1, len)
<1>0. 0 \in 0 .. MemSize /\ MemSize \in Nat /\ Framed(m)
  BY MemAssumption, GoodFramed
<1>1. TagOffsets(m, 0) \subseteq 0 .. MemSize
  BY <1>0, TagOffsetsUnfold
<1>2. p \in Nat /\ S0 \in Nat /\ l \in Nat /\ x \in Nat /\ fdt_size_dt_struct(m) \in Nat
      /\ S0 + fdt_size_dt_struct(m) <= MemSize /\ S0 >= 10
  <2>1. p \in Nat
    BY <1>1
  <2>2. HeaderSize <= fdt_off_mem_rsvmap(m) /\ fdt_off_mem_rsvmap(m) + RsvSize <= S0
        /\ fdt_off_mem_rsvmap(m) \in Nat /\ S0 \in Nat
    BY GoodFacts
  <2>3. S0 >= 10
    <3> HIDE DEF S0
    <3> QED BY <2>2
  <2> QED BY <1>0, <2>1, <2>2, <2>3, WordsNat, FramedFacts
<1>3. k \in Nat /\ q = p + 3 + k /\ q <= fdt_size_dt_struct(m)
  BY <1>0, <1>2, PropNameNat
<1>4. q = x + k /\ q2 = x + l /\ p + 3 <= x /\ x <= q2 /\ x + k <= fdt_size_dt_struct(m)
  <2>1. q2 = p + 3 + l
    BY DEF PropEnd
  <2> HIDE DEF q, q2, k, l
  <2> QED BY <1>2, <1>3, <2>1
<1>5. PropData(m, p) = S0 + x
  BY <1>2 DEF PropData
<1>6. SplicedAt(m, f, x, k, l)
  <2>1. f = fdt_splice_struct_(m, S0 + x, k, l)
    BY <1>5
  <2> HIDE DEF x, k, l
  <2>2. SplicedAt(m, fdt_splice_struct_(m, fdt_off_dt_struct(m) + x, k, l), x, k, l)
    BY <1>2, <1>3, <1>4, SpliceAt
  <2> QED BY <2>1, <2>2
<1>7. CASE f.ret # 0
  BY <1>6, <1>7 DEF SplicedAt
<1>8. CASE f.ret = 0
  <2>1. Good(b) /\ fdt_off_dt_struct(b) = S0 /\ Spliced(m, b, x, q, q2)
    <3>1. Spliced(m, b, x, x + k, x + l)
      BY <1>6, <1>8 DEF SplicedAt
    <3>2. Good(b) /\ fdt_off_dt_struct(b) = S0
      BY <1>6 DEF SplicedAt
    <3> HIDE DEF q, q2, b, x, k, l
    <3> QED BY <1>4, <3>1, <3>2
  <2>2. b \in Memory
    BY <2>1, GoodFacts
  <2>3. S0 + p + 1 \in 0 .. MemSize - 1
    <3> HIDE DEF q, x, k
    <3> QED BY <1>0, <1>2, <1>3
  <2>4. /\ m2 \in Memory
        /\ \A c \in 0 .. MemSize - 1 : c # S0 + p + 1 => m2[c] = b[c]
        /\ m2[S0 + p + 1] = Num(len)
    BY <2>2, <2>3, SetMemory
  <2>5. Revalued(m, b, m2, p, len)
    <3>1. ASSUME NEW c \in 0 .. MemSize - 1,
                 c < S0 + p + 1 \/ c = S0 + p + 2 \/ c >= S0 + q2
          PROVE  m2[c] = b[c]
      <4>1. c # S0 + p + 1
        <5>1. q2 \in Nat /\ q2 >= p + 3
          BY <1>2, <1>4
        <5> HIDE DEF q2, S0
        <5> QED BY <1>0, <1>2, <3>1, <5>1
      <4> QED BY <2>4, <4>1
    <3>2. Value(m2[S0 + p + 1]) = len
      BY <2>4, CellFacts
    <3> HIDE DEF m2, b
    <3> QED BY <2>4, <3>1, <3>2 DEF Revalued
  <2> HIDE DEF m2, b, x
  <2>6. /\ Good(m2) /\ Sound(m2) /\ PropertyAt(m2, p, len)
        /\ fdt_off_dt_struct(m2) = fdt_off_dt_struct(m)
    BY <1>2, <1>4, <2>1, <2>5, ValueWritten
  <2> QED BY <1>8, <2>6 DEF m2
<1> QED BY <1>7, <1>8

\* fdt_resize_property_.
LEMMA ResizeStands ==
    ASSUME NEW m, Good(m), Sound(m), NEW o, o \in TagOffsets(m, 0), NEW name,
           NEW len, len \in Nat
    PROVE  LET r == fdt_resize_property_(m, o, name, len)
           IN  PropertyStands(r, len) /\ (r.ret # 0 => r.m = m)
<1> DEFINE p == fdt_get_property(m, o, name)
           r == fdt_resize_property_(m, o, name, len)
           f == fdt_splice_struct_(m, PropData(m, p), Words(PropLen(m, p)), Words(len))
           m2 == Set(f.m, fdt_off_dt_struct(m) + p + 1, len)
<1> SUFFICES PropertyStands(r, len) /\ (r.ret # 0 => r.m = m)
  OBVIOUS
<1>0. 0 \in 0 .. MemSize /\ MemSize \in Nat /\ Framed(m)
  BY MemAssumption, GoodFramed
<1>1. o \in Nat /\ p \in Int
  <2>1. TagOffsets(m, 0) \subseteq 0 .. MemSize
    BY <1>0, TagOffsetsUnfold
  <2>2. o \in Nat
    BY <2>1
  <2> QED BY <2>2, GetProperty
<1>2. r = IF p < 0 THEN Return(p, m)
          ELSE IF f.ret # 0 THEN f
          ELSE [ret |-> 0, m |-> m2, p |-> fdt_off_dt_struct(m) + p]
  BY DEF fdt_resize_property_, ResizeAt
<1>3. CASE p < 0
  <2>1. r.ret = p /\ r.m = m
    BY <1>2, <1>3 DEF Return
  <2> HIDE DEF p, r
  <2> QED BY <1>1, <1>3, <2>1 DEF PropertyStands
<1>4. CASE p >= 0
  <2>1. p \in TagOffsets(m, 0) /\ Tag(m, p) = FDT_PROP
    <3> HIDE DEF p
    <3> QED BY <1>4, PropertyItem DEF p
  <2>2. /\ f.ret # 0 => f.m = m
        /\ f.ret = 0 => /\ Good(m2) /\ Sound(m2) /\ PropertyAt(m2, p, len)
                        /\ fdt_off_dt_struct(m2) = fdt_off_dt_struct(m)
    <3> HIDE DEF p
    <3> QED BY <2>1, LengthSet
  <2>3. CASE f.ret # 0
    <3>1. r = f
      BY <1>1, <1>2, <1>4, <2>3
    <3>2. r.m = m /\ r.ret # 0
      BY <2>2, <2>3, <3>1
    <3> HIDE DEF r
    <3> QED BY <3>2 DEF PropertyStands
  <2>4. CASE f.ret = 0
    <3>1. r = [ret |-> 0, m |-> m2, p |-> fdt_off_dt_struct(m) + p]
      BY <1>1, <1>2, <1>4, <2>4
    <3>2. r.m = m2 /\ r.ret = 0 /\ r.p = fdt_off_dt_struct(m) + p
      BY <3>1
    <3>3. /\ Good(r.m) /\ Sound(r.m) /\ PropertyAt(r.m, p, len)
          /\ r.p = fdt_off_dt_struct(r.m) + p
      <4> HIDE DEF r, m2, p
      <4> QED BY <2>2, <2>4, <3>2
    <3> HIDE DEF r, p
    <3> QED BY <3>2, <3>3 DEF PropertyStands
  <2> QED BY <2>3, <2>4
<1> QED BY <1>1, <1>3, <1>4

-----------------------------------------------------------------------------
(* Writing values in place.                                                *)

\* A longer value takes no fewer words.
LEMMA WordsMono ==
    ASSUME NEW a, a \in Nat, NEW b, b \in Nat, a <= b
    PROVE  Words(a) <= Words(b)
  BY DEF Words

\* fdt_setprop_inplace_namelen_partial.
LEMMA SetPropPartialSound ==
    ASSUME NEW m, Good(m), Sound(m), NEW o, o \in TagOffsets(m, 0), NEW name,
           NEW idx, idx \in Nat, NEW val, val \in Seq(Byte)
    PROVE  Sound(SetPropPartial(m, o, name, idx, val).m)
<1> DEFINE p   == fdt_get_property(m, o, name)
           len == PropLen(m, p)
           a   == PropData(m, p)
           r   == SetPropPartial(m, o, name, idx, val)
<1>0. 0 \in 0 .. MemSize /\ Framed(m)
  BY MemAssumption, GoodFramed
<1>1. p \in Int
  <2>1. o \in Nat
    BY <1>0, TagOffsetsUnfold
  <2> QED BY <2>1, GetProperty
<1>2. r = IF p < 0 THEN Return(p, m)
          ELSE IF len < Len(val) + idx THEN Return(-FDT_ERR_NOSPACE, m)
          ELSE Return(0, CopyBytes(m, a, idx, val))
  BY DEF SetPropPartial
<1>3. CASE p < 0 \/ (p >= 0 /\ len < Len(val) + idx)
  <2>1. r.m = m
    BY <1>1, <1>2, <1>3 DEF Return
  <2> QED BY <2>1
<1>4. CASE p >= 0 /\ ~(len < Len(val) + idx)
  <2>1. r.m = CopyBytes(m, a, idx, val)
    BY <1>1, <1>2, <1>4 DEF Return
  <2>2. p \in TagOffsets(m, 0) /\ p \in Nat /\ Tag(m, p) = FDT_PROP /\ len \in Nat
    <3> HIDE DEF p
    <3> QED BY <1>4, PropertyItem DEF p
  <2>3. a = fdt_off_dt_struct(m) + p + 3
    BY <2>2 DEF PropData
  <2>4. PropertyAt(m, p, len)
    BY <2>2 DEF PropertyAt
  <2>5. Words(idx + Len(val)) <= Words(len)
    <3>1. Len(val) \in Nat
      OBVIOUS
    <3> DEFINE i == idx + Len(val)
    <3>2. i \in Nat /\ i <= len
      <4> HIDE DEF len
      <4> QED BY <1>4, <2>2, <3>1
    <3> HIDE DEF i, len
    <3>3. Words(i) <= Words(len)
      BY <2>2, <3>2, WordsMono
    <3> QED BY <3>3 DEF i
  <2> HIDE DEF a, len, p
  <2>6. Sound(CopyBytes(m, a, idx, val))
    BY <2>2, <2>3, <2>4, <2>5, ValueCopied
  <2> QED BY <2>1, <2>6
<1> QED BY <1>1, <1>3, <1>4

\* fdt_setprop_inplace.
LEMMA SetPropInplaceSound ==
    ASSUME NEW m, Good(m), Sound(m), NEW o, o \in TagOffsets(m, 0), NEW name,
           NEW val, val \in Seq(Byte)
    PROVE  Sound(SetPropInplace(m, o, name, val).m)
<1> DEFINE z == 0
<1>1. SetPropInplace(m, o, name, val).m \in {m, SetPropPartial(m, o, name, z, val).m}
  BY DEF SetPropInplace, Return
<1>2. z \in Nat
  OBVIOUS
<1> HIDE DEF z
<1>3. Sound(SetPropPartial(m, o, name, z, val).m)
  BY <1>2, SetPropPartialSound
<1> QED BY <1>1, <1>3

\* The part of fdt_appendprop that finds the property.
LEMMA AppendAtSound ==
    ASSUME NEW m, Good(m), Sound(m), NEW p, p \in TagOffsets(m, 0), Tag(m, p) = FDT_PROP,
           NEW val, val \in Seq(Byte)
    PROVE  Sound(AppendAt(m, p, val).m)
<1> DEFINE old == PropLen(m, p)
           len == Len(val) + old
           f   == fdt_splice_struct_(m, PropData(m, p), Words(old), Words(len))
           m2  == Set(f.m, fdt_off_dt_struct(m) + p + 1, len)
           a   == PropData(m, p)
           r   == AppendAt(m, p, val)
<1>0. 0 \in 0 .. MemSize /\ Framed(m)
  BY MemAssumption, GoodFramed
<1>1. p \in Nat /\ old \in Nat
  <2>1. p \in Nat
    BY <1>0, TagOffsetsUnfold
  <2> QED BY <1>0, <2>1, PropNameNat
<1>2. len \in Nat /\ old + Len(val) = len
  <2> HIDE DEF old
  <2> QED BY <1>1
<1>3. r = IF f.ret # 0 THEN f ELSE Return(0, CopyBytes(m2, a, old, val))
  BY DEF AppendAt
<1>4. /\ f.ret # 0 => f.m = m
      /\ f.ret = 0 => /\ Good(m2) /\ Sound(m2) /\ PropertyAt(m2, p, len)
                      /\ fdt_off_dt_struct(m2) = fdt_off_dt_struct(m)
  <2> HIDE DEF len
  <2> QED BY <1>2, LengthSet
<1>5. CASE f.ret # 0
  BY <1>3, <1>4, <1>5
<1>6. CASE f.ret = 0
  <2>1. r.m = CopyBytes(m2, a, old, val)
    BY <1>3, <1>6 DEF Return
  <2>2. a = fdt_off_dt_struct(m2) + p + 3
    <3>1. a = fdt_off_dt_struct(m) + p + 3
      BY <1>1 DEF PropData
    <3> HIDE DEF a, m2
    <3> QED BY <1>4, <1>6, <3>1
  <2>3. Words(old + Len(val)) <= Words(len)
    <3>1. Words(len) \in Nat
      <4> HIDE DEF len
      <4> QED BY <1>2, WordsNat
    <3>2. Words(old + Len(val)) = Words(len)
      <4> HIDE DEF old, len
      <4> QED BY <1>2
    <3> HIDE DEF old, len
    <3> QED BY <3>1, <3>2
  <2>4. Good(m2) /\ Sound(m2) /\ PropertyAt(m2, p, len)
    BY <1>4, <1>6
  <2> HIDE DEF a, m2, len, old
  <2>5. Sound(CopyBytes(m2, a, old, val))
    BY <1>1, <1>2, <2>2, <2>3, <2>4, ValueCopied
  <2> QED BY <2>1, <2>5
<1> QED BY <1>5, <1>6

-----------------------------------------------------------------------------
(* Adding strings and properties.                                          *)

\* fdt_splice_string_ moves nothing: it makes the strings block longer.
LEMMA SpliceStringSet ==
    ASSUME NEW m, Good(m), NEW r, r = fdt_splice_string_(m, 1)
    PROVE  /\ r.ret # 0 => r.m = m /\ r.ret < 0
           /\ r.ret = 0 => r.m = Set(m, hSizeDtStrings, fdt_size_dt_strings(m) + 1)
<1> DEFINE end == fdt_data_size_(m)
           s   == fdt_splice_(m, end, 0, 1)
           m0  == Move(m, end + 1, end + 0, end - end - 0)
           m1  == Set(m0, hSizeDtStrings, fdt_size_dt_strings(m0) + 1)
<1>0. m \in Memory /\ MemSize \in Nat /\ end \in Nat
  BY GoodFacts DEF fdt_data_size_
<1>1. CASE s.ret # 0
  <2>1. s.ret \in {-FDT_ERR_BADOFFSET, -FDT_ERR_NOSPACE} /\ s.m = m
    BY <1>1 DEF fdt_splice_, Return
  <2>2. r = s
    BY <1>1 DEF fdt_splice_string_
  <2> QED BY <1>1, <2>1, <2>2
<1>2. CASE s.ret = 0
  <2>1. s = [ret |-> 0, m |-> m0, p |-> 0]
    BY <1>0, <1>2 DEF fdt_splice_, Return
  <2>2. r = [ret |-> 0, m |-> m1, p |-> 0]
    BY <1>2, <2>1 DEF fdt_splice_string_, Return
  <2>3. m0 = m
    <3>1. end + 1 .. end + 1 + (end - end - 0) - 1 = {}
      BY <1>0
    <3>2. m0 = [a \in DOMAIN m |-> m[a]]
      BY <3>1, Zenon DEF Move
    <3>3. m = [a \in DOMAIN m |-> m[a]]
      BY <1>0, Zenon DEF Memory
    <3> QED BY <3>2, <3>3, Zenon
  <2>4. r.ret = 0 /\ r.m = Set(m, hSizeDtStrings, fdt_size_dt_strings(m) + 1)
    BY <2>2, <2>3
  <2> QED BY <2>4
<1> QED BY <1>1, <1>2

\* The blob with one more string is the same tree, and knows the string.
StringStands(m, r) ==
    /\ Good(r.m) /\ Sound(r.m) /\ r.ret \in Int
    /\ fdt_off_dt_struct(r.m) = fdt_off_dt_struct(m)
    /\ fdt_size_dt_struct(r.m) = fdt_size_dt_struct(m)
    /\ Kept(m, r.m, fdt_size_dt_struct(m))
    /\ r.ret >= 0 => r.ret \in Nat /\ r.ret < fdt_size_dt_strings(r.m)

\* A cell of the strings block.
IsString(c) == c.k = "str" /\ c.s # ""

\* One more string stands behind the others.
OneMoreString(m, m2) ==
    /\ fdt_off_dt_strings(m2) = fdt_off_dt_strings(m)
    /\ fdt_size_dt_strings(m2) = fdt_size_dt_strings(m) + 1
    /\ \A i \in 0 .. fdt_size_dt_strings(m) - 1 :
         m2[fdt_off_dt_strings(m) + i] = m[fdt_off_dt_strings(m) + i]
    /\ IsString(m2[fdt_off_dt_strings(m) + fdt_size_dt_strings(m)])

\* The blob is then as sound as before.
LEMMA StringBehind ==
    ASSUME NEW m, Good(m), Sound(m), NEW m2, Good(m2),
           fdt_off_dt_struct(m2) = fdt_off_dt_struct(m),
           fdt_size_dt_struct(m2) = fdt_size_dt_struct(m),
           Kept(m, m2, fdt_size_dt_struct(m)), OneMoreString(m, m2)
    PROVE  Sound(m2)
<1> DEFINE N == fdt_size_dt_struct(m)
           A == fdt_off_dt_strings(m)
           n == fdt_size_dt_strings(m)
           z == 0
<1>0. n \in Nat /\ A \in Nat /\ N \in Nat /\ z \in Nat
  BY GoodFacts
<1>1. StringsNamed(m2)
  <2>1. StringsNamed(m)
    BY DEF Sound
  <2>0. /\ \A i \in 0 .. n - 1 : m2[A + i] = m[A + i]
        /\ IsString(m2[A + n])
        /\ fdt_off_dt_strings(m2) = A /\ fdt_size_dt_strings(m2) = n + 1
    BY DEF OneMoreString
  <2>4. \A i \in 0 .. n - 1 : IsString(m[A + i])
    BY <2>1 DEF StringsNamed, IsString
  <2>2. ASSUME NEW i \in 0 .. n
        PROVE  IsString(m2[A + i])
    <3> HIDE DEF A, n
    <3>1. CASE i = n
      BY <2>0, <3>1
    <3>2. CASE i # n
      <4>1. i \in 0 .. n - 1
        BY <1>0, <3>2
      <4> QED BY <2>0, <2>4, <4>1
    <3> QED BY <3>1, <3>2
  <2>3. 0 .. fdt_size_dt_strings(m2) - 1 = 0 .. n
    <3> HIDE DEF n
    <3> QED BY <1>0, <2>0
  <2> QED BY <2>0, <2>2, <2>3 DEF StringsNamed, IsString
<1>2. \A i \in 0 .. N - 1 : At(m2, i) = At(m, i)
  <2> HIDE DEF N
  <2> QED BY <1>0, KeptWords DEF N
<1>3. SameWords(m, z, m2, z, N)
  <2>1. \A i \in 0 .. N - 1 : z + i = i
    OBVIOUS
  <2> HIDE DEF z, N
  <2> QED BY <1>2, <2>1 DEF SameWords
<1>4. SameWords(m, z, m2, z, z)
  BY DEF SameWords
<1>5. Spliced(m, m2, z, z, z)
  <2>1. N - z = N /\ n <= n + 1
    <3> HIDE DEF N, n
    <3> QED BY <1>0
  <2>2. fdt_size_dt_strings(m) <= fdt_size_dt_strings(m2)
    BY <2>1 DEF OneMoreString
  <2>3. fdt_size_dt_struct(m) - z = N /\ fdt_size_dt_struct(m2) - z = fdt_size_dt_struct(m) - z
    BY <2>1
  <2>4. SameWords(m, 0, m2, 0, z) /\ SameWords(m, z, m2, z, N)
    BY <1>3, <1>4
  <2> HIDE DEF z, N
  <2> QED BY <1>1, <2>2, <2>3, <2>4 DEF Spliced
<1>6. Spliced(m, m2, 0, 0, 0)
  BY <1>5
<1> QED BY <1>6, SoundSame

\* Properties have names.
IsName(s) == s \in Names /\ s # ""

\* fdt_find_add_string_.
LEMMA StringAdded ==
    ASSUME NEW m, Good(m), Sound(m), NEW s, IsName(s), NEW t, t \in Nat
    PROVE  StringStands(m, fdt_find_add_string_(m, s, t))
<1> DEFINE found == fdt_find_string_(m, s, t)
           r     == fdt_splice_string_(m, 1)
           a     == fdt_data_size_(m)
           A     == fdt_off_dt_strings(m)
           n     == fdt_size_dt_strings(m)
           b     == r.m
           m2    == [r.m EXCEPT ![a] = Str(s, t)]
           f     == fdt_find_add_string_(m, s, t)
<1> SUFFICES StringStands(m, f)
  OBVIOUS
<1>s. s \in Names
  BY DEF IsName
<1>0. /\ m \in Memory /\ MemSize \in Nat /\ MemSize >= 10
      /\ fdt_totalsize(m) \in Nat /\ fdt_totalsize(m) <= MemSize
      /\ A \in Nat /\ n \in Nat /\ A >= 10
      /\ fdt_off_dt_struct(m) \in Nat /\ fdt_size_dt_struct(m) \in Nat
      /\ a = A + n
  <2>1. /\ HeaderSize <= fdt_off_mem_rsvmap(m) /\ fdt_off_mem_rsvmap(m) \in Nat
        /\ fdt_off_mem_rsvmap(m) + RsvSize <= fdt_off_dt_struct(m)
        /\ fdt_off_dt_struct(m) + fdt_size_dt_struct(m) <= A
        /\ fdt_off_dt_struct(m) \in Nat /\ fdt_size_dt_struct(m) \in Nat /\ A \in Nat
    BY GoodFacts
  <2>2. A >= 10
    <3> HIDE DEF A
    <3> QED BY <2>1
  <2> QED BY <2>2, GoodFacts, MemAssumption DEF fdt_data_size_
<1>1. /\ Good(f.m) /\ f.ret \in Int
      /\ fdt_off_dt_struct(f.m) = fdt_off_dt_struct(m)
      /\ fdt_size_dt_struct(f.m) = fdt_size_dt_struct(m)
      /\ Kept(m, f.m, fdt_size_dt_struct(m))
  <2> HIDE DEF f
  <2> QED BY <1>s, FindAddString DEF Edited, f
<1>2. CASE found # {}
  <2>1. found \subseteq Nat
    BY <1>0 DEF fdt_find_string_
  <2>2. PICK x \in found : \A y \in found : x <= y
    BY <1>2, <2>1, LeastNatural
  <2>3. Min(found) \in found
    BY <2>2 DEF Min
  <2>4. f = [ret |-> Min(found), m |-> m, p |-> 0]
    BY <1>2 DEF fdt_find_add_string_, Return
  <2>5. PICK i \in found : i = Min(found)
    BY <2>3, Zenon
  <2>6. i \in Nat /\ i < n
    BY <1>0 DEF fdt_find_string_
  <2>7. f = [ret |-> i, m |-> m, p |-> 0]
    BY <2>4, <2>5, Zenon
  <2>8. f.m = m /\ f.ret = i
    <3> HIDE DEF f, found
    <3> QED BY <2>7
  <2> HIDE DEF f
  <2> QED BY <1>1, <2>6, <2>8 DEF StringStands
<1>3. CASE found = {} /\ r.ret # 0
  <2>1. f = r
    BY <1>3 DEF fdt_find_add_string_
  <2>2. r.m = m /\ r.ret < 0
    <3> HIDE DEF r
    <3> QED BY <1>3, SpliceStringSet DEF r
  <2>3. f.m = m /\ ~(f.ret >= 0)
    <3>1. f.m = m /\ f.ret < 0
      BY <2>1, <2>2
    <3> HIDE DEF f
    <3> QED BY <1>1, <3>1
  <2> HIDE DEF f
  <2> QED BY <1>1, <2>3 DEF StringStands
<1>4. CASE found = {} /\ r.ret = 0
  <2>1. f = [ret |-> n, m |-> m2, p |-> 0]
    BY <1>4 DEF fdt_find_add_string_, Return
  <2>2. f.ret = n /\ f.m = m2
    BY <2>1
  <2>3. b = Set(m, hSizeDtStrings, n + 1)
    <3> HIDE DEF r
    <3> QED BY <1>4, SpliceStringSet DEF r
  <2> DEFINE l == n + 1
  <2>4. l \in Nat /\ hSizeDtStrings \in 0 .. MemSize - 1
    BY <1>0
  <2>5. b = Set(m, hSizeDtStrings, l)
    BY <2>3
  <2> HIDE DEF l, b
  <2>6. /\ b \in Memory /\ b[hSizeDtStrings] = Num(l)
        /\ \A x \in 0 .. MemSize - 1 : x # hSizeDtStrings => b[x] = m[x]
    BY <1>0, <2>4, <2>5, SetMemory
  <2>7. a < fdt_totalsize(m)
    <3> HIDE DEF a
    <3> QED BY <1>4, SpliceString DEF a
  <2>8. a \in 0 .. MemSize - 1 /\ a >= 10
    BY <1>0, <2>7
  <2>9. m2 = [b EXCEPT ![a] = Str(s, t)]
    BY DEF b
  <2> HIDE DEF m2
  <2>10. /\ m2 \in Memory /\ m2[a] = Str(s, t)
         /\ \A x \in 0 .. MemSize - 1 : x # a => m2[x] = b[x]
    <3> HIDE DEF a
    <3> QED BY <1>s, <2>6, <2>8, <2>9, CellFacts DEF Memory
  <2>11. m2[8] = Num(l) /\ m2[3] = m[3]
    <3> HIDE DEF a
    <3> QED BY <1>0, <2>6, <2>8, <2>10
  <2>12. fdt_size_dt_strings(m2) = n + 1 /\ fdt_off_dt_strings(m2) = A
    BY <1>0, <2>4, <2>11, CellFacts DEF fdt_size_dt_strings, fdt_off_dt_strings, l
  <2>13. \A i \in 0 .. n - 1 : m2[A + i] = m[A + i]
    <3> TAKE i \in 0 .. n - 1
    <3> DEFINE y == A + i
    <3>1. y \in 0 .. MemSize - 1 /\ y # a /\ y # 8
      <4> HIDE DEF A, n, a
      <4> QED BY <1>0, <2>8
    <3> HIDE DEF y, a
    <3>2. m2[y] = m[y]
      BY <2>6, <2>10, <3>1
    <3> QED BY <3>2 DEF y
  <2>14. IsString(m2[A + n])
    <3>1. m2[A + n] = Str(s, t)
      BY <1>0, <2>10
    <3>2. IsString(Str(s, t))
      BY Zenon DEF Str, IsString, IsName
    <3> QED BY <3>1, <3>2, Zenon
  <2>15. /\ Good(m2) /\ fdt_off_dt_struct(m2) = fdt_off_dt_struct(m)
         /\ fdt_size_dt_struct(m2) = fdt_size_dt_struct(m)
         /\ Kept(m, m2, fdt_size_dt_struct(m))
    BY <1>1, <2>2
  <2>18. OneMoreString(m, m2)
    BY <2>12, <2>13, <2>14 DEF OneMoreString
  <2> HIDE DEF f, A, n
  <2>16. Sound(m2)
    BY <2>15, <2>18, StringBehind
  <2>17. f.ret \in Nat /\ f.ret < fdt_size_dt_strings(f.m)
    BY <1>0, <2>2, <2>12
  <2> QED BY <1>1, <2>2, <2>16, <2>17 DEF StringStands
<1> QED BY <1>2, <1>3, <1>4

\* The header of a property.
Header(m, p, len, v) == Set(Set(Set(m, p, FDT_PROP), p + 2, v), p + 1, len)

\* Three words are written.
HeaderIn(m, m2, p, len, v) ==
    /\ m2 \in Memory
    /\ \A a \in 0 .. MemSize - 1 : a < p \/ a >= p + 3 => m2[a] = m[a]
    /\ Value(m2[p]) = FDT_PROP /\ Value(m2[p + 1]) = len /\ Value(m2[p + 2]) = v

\* No more than that.
LEMMA HeaderMemory ==
    ASSUME NEW m, m \in Memory, NEW p, p \in Nat, p + 2 < MemSize,
           NEW len, len \in Nat, NEW v, v \in Nat
    PROVE  HeaderIn(m, Header(m, p, len, v), p, len, v)
<1> DEFINE c1 == Set(m, p, FDT_PROP)
           c2 == Set(c1, p + 2, v)
           c3 == Set(c2, p + 1, len)
           t  == FDT_PROP
<1>0. MemSize \in Nat /\ t \in Nat
  BY MemAssumption
<1>1. p \in 0 .. MemSize - 1 /\ p + 1 \in 0 .. MemSize - 1 /\ p + 2 \in 0 .. MemSize - 1
  BY <1>0
<1> HIDE DEF t
<1>2. /\ c1 \in Memory /\ c1[p] = Num(t)
      /\ \A a \in 0 .. MemSize - 1 : a # p => c1[a] = m[a]
  <2>1. c1 = Set(m, p, t)
    BY DEF t
  <2> HIDE DEF c1
  <2> QED BY <1>0, <1>1, <2>1, SetMemory
<1> HIDE DEF c1
<1>3. /\ c2 \in Memory /\ c2[p + 2] = Num(v)
      /\ \A a \in 0 .. MemSize - 1 : a # p + 2 => c2[a] = c1[a]
  BY <1>1, <1>2, SetMemory
<1> HIDE DEF c2
<1>4. /\ c3 \in Memory /\ c3[p + 1] = Num(len)
      /\ \A a \in 0 .. MemSize - 1 : a # p + 1 => c3[a] = c2[a]
  BY <1>1, <1>3, SetMemory
<1>5. Header(m, p, len, v) = c3
  BY DEF Header, c1, c2
<1> HIDE DEF c3
<1>6. c3[p] = Num(t) /\ c3[p + 2] = Num(v)
  BY <1>1, <1>2, <1>3, <1>4
<1>7. \A a \in 0 .. MemSize - 1 : a < p \/ a >= p + 3 => c3[a] = m[a]
  BY <1>1, <1>2, <1>3, <1>4
<1>8. Value(c3[p]) = FDT_PROP /\ Value(c3[p + 1]) = len /\ Value(c3[p + 2]) = v
  BY <1>0, <1>4, <1>6, CellFacts DEF t
<1>9. HeaderIn(m, c3, p, len, v)
  BY <1>4, <1>7, <1>8 DEF HeaderIn
<1> QED BY <1>5, <1>9

\* A property put at the start of a node.
LEMMA PropertyInserted ==
    ASSUME NEW m, Good(m), Sound(m), NEW o, o \in TagOffsets(m, 0), Tag(m, o) = FDT_BEGIN_NODE,
           NEW v, v \in Nat, v < fdt_size_dt_strings(m), NEW len, len \in Nat,
           NEW f, f = fdt_splice_struct_(m, fdt_off_dt_struct(m) + NextOf(m, o), 0,
                                         PropSize + Words(len))
    PROVE  /\ f.ret # 0 => f.m = m
           /\ f.ret = 0 =>
                LET m2 == Header(f.m, fdt_off_dt_struct(m) + NextOf(m, o), len, v)
                IN  /\ Good(m2) /\ Sound(m2) /\ PropertyAt(m2, NextOf(m, o), len)
                    /\ fdt_off_dt_struct(m2) = fdt_off_dt_struct(m)
<1> DEFINE S0 == fdt_off_dt_struct(m)
           q  == NextOf(m, o)
           q2 == PropEnd(q, len)
           z  == 0
           l  == PropSize + Words(len)
           b  == f.m
           p  == S0 + q
           m2 == Header(b, p, len, v)
<1>0. 0 \in 0 .. MemSize /\ MemSize \in Nat /\ Framed(m)
  BY MemAssumption, GoodFramed
<1>1. /\ S0 \in Nat /\ fdt_size_dt_struct(m) \in Nat /\ S0 + fdt_size_dt_struct(m) <= MemSize
      /\ Words(len) \in Nat /\ l \in Nat /\ z \in Nat
  BY <1>0, WordsNat, FramedFacts
<1>2. q \in Nat /\ q <= fdt_size_dt_struct(m)
  <2>1. o \in Nat
    BY <1>0, TagOffsetsUnfold
  <2> QED BY <1>0, <2>1, NodeNext DEF Tag
<1>3. q + z = q /\ q + l = q2 /\ q2 \in Nat /\ q <= q2 /\ q + 3 <= q2
  <2>1. q2 = q + 3 + Words(len)
    BY DEF PropEnd
  <2> HIDE DEF q, q2
  <2> QED BY <1>1, <1>2, <2>1
<1>4. q + z <= fdt_size_dt_struct(m)
  BY <1>2, <1>3
<1>5. SplicedAt(m, f, q, z, l)
  <2>1. f = fdt_splice_struct_(m, S0 + q, z, l)
    OBVIOUS
  <2> HIDE DEF q, z, l
  <2>2. SplicedAt(m, fdt_splice_struct_(m, fdt_off_dt_struct(m) + q, z, l), q, z, l)
    BY <1>1, <1>2, <1>4, SpliceAt
  <2> QED BY <2>1, <2>2
<1>6. CASE f.ret # 0
  BY <1>5, <1>6 DEF SplicedAt
<1>7. CASE f.ret = 0
  <2>1. Good(b) /\ fdt_off_dt_struct(b) = S0 /\ Spliced(m, b, q, q, q2)
    <3>1. Spliced(m, b, q, q + z, q + l) /\ Good(b) /\ fdt_off_dt_struct(b) = S0
      BY <1>5, <1>7 DEF SplicedAt
    <3> HIDE DEF q, q2, b, l, z
    <3> QED BY <1>3, <3>1
  <2>2. b \in Memory /\ S0 + fdt_size_dt_struct(b) <= MemSize /\ fdt_size_dt_struct(b) \in Nat
    <3>1. Framed(b)
      BY <2>1, GoodFramed
    <3> HIDE DEF b
    <3> QED BY <2>1, <3>1, GoodFacts, FramedFacts
  <2>3. q2 <= fdt_size_dt_struct(b)
    <3>1. fdt_size_dt_struct(b) - q2 = fdt_size_dt_struct(m) - q
      BY <2>1 DEF Spliced
    <3> HIDE DEF q, q2, b
    <3> QED BY <1>1, <1>2, <1>3, <2>2, <3>1
  <2>4. p \in Nat /\ p + 2 < MemSize
    <3> HIDE DEF q, q2, b
    <3> QED BY <1>0, <1>1, <1>2, <1>3, <2>2, <2>3
  <2>5. /\ m2 \in Memory
        /\ \A a \in 0 .. MemSize - 1 : a < p \/ a >= p + 3 => m2[a] = b[a]
        /\ Value(m2[p]) = FDT_PROP /\ Value(m2[p + 1]) = len /\ Value(m2[p + 2]) = v
    <3>1. m2 = Header(b, p, len, v)
      OBVIOUS
    <3> HIDE DEF p, b, m2
    <3>2. b \in Memory /\ p \in Nat /\ p + 2 < MemSize /\ len \in Nat /\ v \in Nat
      BY <2>2, <2>4
    <3>3. HeaderIn(b, m2, p, len, v)
      BY <3>1, <3>2, HeaderMemory
    <3> QED BY <3>3 DEF HeaderIn
  <2>6. WrittenIn(m, b, m2, q, q2)
    <3>1. ASSUME NEW a \in 0 .. MemSize - 1, a < S0 + q \/ a >= S0 + q2
          PROVE  m2[a] = b[a]
      <4>1. a < p \/ a >= p + 3
        <5> HIDE DEF q, q2, S0
        <5> QED BY <1>0, <1>1, <1>2, <1>3, <3>1
      <4> HIDE DEF m2, b, p
      <4> QED BY <2>5, <4>1
    <3> HIDE DEF m2, b
    <3> QED BY <2>5, <3>1 DEF WrittenIn
  <2>7. /\ Value(m2[S0 + q]) = FDT_PROP /\ Value(m2[S0 + q + 1]) = len
        /\ Value(m2[S0 + q + 2]) < fdt_size_dt_strings(m)
    <3> HIDE DEF m2
    <3> QED BY <2>5
  <2>8. q = NextOf(m, o) /\ S0 = fdt_off_dt_struct(m)
    OBVIOUS
  <2>9. Spliced(m, b, q, q, PropEnd(q, len)) /\ WrittenIn(m, b, m2, q, PropEnd(q, len))
    BY <2>1, <2>6
  <2> HIDE DEF m2, b, q, S0, q2
  <2>10. /\ Good(m2) /\ Sound(m2) /\ PropertyAt(m2, q, len)
         /\ fdt_off_dt_struct(m2) = fdt_off_dt_struct(m)
    BY <2>1, <2>7, <2>8, <2>9, PropertyAdded
  <2> QED BY <1>7, <2>10 DEF m2, b, q, S0
<1> QED BY <1>6, <1>7

\* fdt_add_property_.
LEMMA AddPropertyStands ==
    ASSUME NEW m, Good(m), Sound(m), NEW o, o \in TagOffsets(m, 0), NEW name, IsName(name),
           NEW t, t \in Nat, NEW len, len \in Nat
    PROVE  PropertyStands(fdt_add_property_(m, o, name, t, len), len)
<1> DEFINE next == fdt_check_node_offset_(m, o)
           r    == fdt_find_add_string_(m, name, t)
           b    == r.m
           p    == fdt_off_dt_struct(b) + next
           r2   == fdt_splice_struct_(b, p, 0, PropSize + Words(len))
           m2   == Header(r2.m, p, len, r.ret)
           f    == fdt_add_property_(m, o, name, t, len)
<1> SUFFICES PropertyStands(f, len)
  OBVIOUS
<1>0. 0 \in 0 .. MemSize /\ MemSize \in Nat /\ Framed(m) /\ o \in Nat
  <2>1. 0 \in 0 .. MemSize /\ MemSize \in Nat /\ Framed(m)
    BY MemAssumption, GoodFramed
  <2> QED BY <2>1, TagOffsetsUnfold
<1>1. f = IF next < 0 THEN Return(next, m)
          ELSE IF r.ret < 0 THEN r
          ELSE IF r2.ret # 0 THEN r2
          ELSE [ret |-> 0, p |-> p, m |-> m2]
  BY DEF fdt_add_property_, Header
<1>2. next \in Int
  BY <1>0, CheckNode
<1>3. StringStands(m, r)
  BY StringAdded
<1>4. r.ret \in Int
  BY <1>3 DEF StringStands
<1>5. CASE next < 0
  <2>1. f.ret = next /\ f.m = m
    BY <1>1, <1>5 DEF Return
  <2> HIDE DEF f, next
  <2> QED BY <1>2, <1>5, <2>1 DEF PropertyStands
<1>6. CASE next >= 0 /\ r.ret < 0
  <2>1. f = r
    BY <1>1, <1>2, <1>6
  <2>2. Good(f.m) /\ Sound(f.m) /\ f.ret # 0
    BY <1>3, <1>4, <1>6, <2>1 DEF StringStands
  <2> HIDE DEF f
  <2> QED BY <2>2 DEF PropertyStands
<1>7. CASE next >= 0 /\ r.ret >= 0
  <2>1. f = IF r2.ret # 0 THEN r2 ELSE [ret |-> 0, p |-> p, m |-> m2]
    <3> HIDE DEF f, next, r, r2, p, m2
    <3> QED BY <1>1, <1>2, <1>4, <1>7
  <2>2. /\ Good(b) /\ Sound(b) /\ r.ret \in Nat /\ r.ret < fdt_size_dt_strings(b)
        /\ fdt_off_dt_struct(b) = fdt_off_dt_struct(m)
        /\ fdt_size_dt_struct(b) = fdt_size_dt_struct(m)
        /\ Kept(m, b, fdt_size_dt_struct(m))
    BY <1>3, <1>7 DEF StringStands
  <2>3. /\ Tag(m, o) = FDT_BEGIN_NODE /\ next = NextOf(m, o) /\ next \in Nat /\ o < next
        /\ next <= fdt_size_dt_struct(m)
    <3>1. o \in TagOffsets(m, 0) /\ fdt_check_node_offset_(m, o) >= 0
      BY <1>7
    <3>2. Tag(m, o) = FDT_BEGIN_NODE /\ next = NextOf(m, o) /\ next \in Nat /\ o < next
      BY <3>1, GoodFramed, NodeItem
    <3>3. next <= fdt_size_dt_struct(m)
      BY <1>0, <1>7, CheckNode
    <3> QED BY <3>2, <3>3
  <2>4. Kept(m, b, next)
    <3>1. fdt_size_dt_struct(m) \in Int
      BY <1>0, FramedFacts
    <3> HIDE DEF next, b
    <3> QED BY <2>2, <2>3, <3>1, KeptLess
  <2>5. Tag(b, o) = FDT_BEGIN_NODE /\ fdt_check_node_offset_(b, o) = next
    <3>1. fdt_check_node_offset_(m, o) >= 0 /\ Kept(m, b, fdt_check_node_offset_(m, o))
      BY <1>7, <2>4
    <3> HIDE DEF b
    <3> QED BY <1>0, <2>2, <3>1, SameNode DEF Tag
  <2>6. next = NextOf(b, o)
    <3> HIDE DEF next, b
    <3> QED BY <2>5 DEF fdt_check_node_offset_, NextOf, Tag
  <2>7. o \in TagOffsets(b, 0)
    <3>1. o \in Nat /\ o <= next /\ o <= fdt_size_dt_struct(b)
      <4> HIDE DEF next, b
      <4> QED BY <1>0, <2>2, <2>3, FramedFacts
    <3>2. SameWords(m, 0, b, 0, o)
      <4> HIDE DEF b, next
      <4> QED BY <1>0, <2>3, <2>4, <3>1, KeptWords
    <3>3. Framed(b)
      BY <2>2, GoodFramed
    <3> HIDE DEF b
    <3> QED BY <1>0, <3>1, <3>2, <3>3, SamePrefix
  <2> DEFINE v == r.ret
             x == NextOf(b, o)
             c == Header(r2.m, fdt_off_dt_struct(b) + x, len, v)
  <2>8. r2 = fdt_splice_struct_(b, fdt_off_dt_struct(b) + x, 0, PropSize + Words(len))
    <3> HIDE DEF next, b
    <3> QED BY <2>6
  <2>9. m2 = c /\ p = fdt_off_dt_struct(b) + x
    <3> HIDE DEF next, b, r2
    <3> QED BY <2>6
  <2>10. v \in Nat /\ v < fdt_size_dt_strings(b) /\ Good(b) /\ Sound(b)
    BY <2>2
  <2> HIDE DEF r2, b, m2, p, v, r, next
  <2>11. /\ r2.ret # 0 => r2.m = b
         /\ r2.ret = 0 => /\ Good(c) /\ Sound(c) /\ PropertyAt(c, x, len)
                          /\ fdt_off_dt_struct(c) = fdt_off_dt_struct(b)
    BY <2>5, <2>7, <2>8, <2>10, PropertyInserted
  <2> HIDE DEF c, x, f
  <2>12. CASE r2.ret # 0
    <3>1. f.m = b /\ f.ret # 0
      BY <2>1, <2>11, <2>12
    <3> QED BY <2>10, <3>1 DEF PropertyStands
  <2>13. CASE r2.ret = 0
    <3>1. f.ret = 0 /\ f.p = p /\ f.m = m2
      BY <2>1, <2>13
    <3>2. Good(f.m) /\ Sound(f.m) /\ PropertyAt(f.m, x, len) /\ f.p = fdt_off_dt_struct(f.m) + x
      BY <2>9, <2>11, <2>13, <3>1
    <3> QED BY <3>2 DEF PropertyStands
  <2> QED BY <2>12, <2>13
<1> QED BY <1>2, <1>4, <1>5, <1>6, <1>7

\* fdt_setprop.
LEMMA SetPropSound ==
    ASSUME NEW m, Good(m), Sound(m), NEW o, o \in TagOffsets(m, 0), NEW name, IsName(name),
           NEW t, t \in Nat, NEW val, val \in Seq(Byte)
    PROVE  Sound(SetProp(m, o, name, t, val).m)
<1> DEFINE len == Len(val)
           r1  == fdt_resize_property_(m, o, name, len)
           r2  == fdt_add_property_(m, o, name, t, len)
           r   == fdt_setprop_placeholder(m, o, name, t, len)
<1>1. len \in Nat
  OBVIOUS
<1>2. r = r1 \/ r = r2
  BY DEF fdt_setprop_placeholder
<1>3. PropertyStands(r1, len) /\ PropertyStands(r2, len)
  <2> HIDE DEF len
  <2> QED BY <1>1, ResizeStands, AddPropertyStands
<1>4. PropertyStands(r, len)
  <2> HIDE DEF r, r1, r2
  <2> QED BY <1>2, <1>3
<1>5. SetProp(m, o, name, t, val) = Filled(r, val)
  BY DEF SetProp
<1> HIDE DEF r
<1>6. Sound(Filled(r, val).m)
  BY <1>4, FilledSound
<1> QED BY <1>5, <1>6

\* fdt_appendprop.
LEMMA AppendPropSound ==
    ASSUME NEW m, Good(m), Sound(m), NEW o, o \in TagOffsets(m, 0), NEW name, IsName(name),
           NEW t, t \in Nat, NEW val, val \in Seq(Byte)
    PROVE  Sound(AppendProp(m, o, name, t, val).m)
<1> DEFINE p   == fdt_get_property(m, o, name)
           len == Len(val)
           r   == fdt_add_property_(m, o, name, t, len)
<1>1. CASE p >= 0
  <2>1. p \in TagOffsets(m, 0) /\ Tag(m, p) = FDT_PROP
    <3> HIDE DEF p
    <3> QED BY <1>1, PropertyItem DEF p
  <2>2. AppendProp(m, o, name, t, val) = AppendAt(m, p, val)
    BY <1>1 DEF AppendProp
  <2> HIDE DEF p
  <2>3. Sound(AppendAt(m, p, val).m)
    BY <2>1, AppendAtSound
  <2> QED BY <2>2, <2>3
<1>2. CASE ~(p >= 0)
  <2>1. len \in Nat
    OBVIOUS
  <2>2. PropertyStands(r, len)
    <3> HIDE DEF len
    <3> QED BY <2>1, AddPropertyStands
  <2>3. AppendProp(m, o, name, t, val) = Filled(r, val)
    BY <1>2 DEF AppendProp
  <2> HIDE DEF r
  <2>4. Sound(Filled(r, val).m)
    BY <2>2, FilledSound
  <2> QED BY <2>3, <2>4
<1> QED BY <1>1, <1>2

-----------------------------------------------------------------------------
(* Overwriting with FDT_NOP, and removing nodes.                           *)

\* What fdt_nop_region_ writes.
Nops(m, m2, p, q) ==
    /\ m2 \in Memory
    /\ \A a \in 0 .. MemSize - 1 :
         IF fdt_off_dt_struct(m) + p <= a /\ a < fdt_off_dt_struct(m) + q
         THEN Value(m2[a]) = FDT_NOP
         ELSE m2[a] = m[a]

\* It writes just that.
LEMMA NopWords ==
    ASSUME NEW m, Good(m), NEW p, p \in Nat, NEW q, q \in Nat, p <= q,
           NEW a, a = fdt_off_dt_struct(m) + p, NEW n, n = q - p
    PROVE  Nops(m, fdt_nop_region_(m, a, n), p, q)
<1> DEFINE m2 == fdt_nop_region_(m, a, n)
           S0 == fdt_off_dt_struct(m)
           t  == FDT_NOP
<1>0. m \in Memory /\ S0 \in Nat /\ MemSize \in Nat /\ DOMAIN m = 0 .. MemSize - 1 /\ t \in Nat
  BY GoodFacts DEF Memory
<1>1. m2 = [x \in 0 .. MemSize - 1 |-> IF x \in a .. a + n - 1 THEN Num(t) ELSE m[x]]
  BY <1>0 DEF fdt_nop_region_
<1> HIDE DEF t, m2
<1>2. m2 \in Memory
  BY <1>0, <1>1, CellFacts DEF Memory
<1>3. Value(Num(t)) = t
  BY <1>0, CellFacts
<1>4. ASSUME NEW x \in 0 .. MemSize - 1
      PROVE  IF S0 + p <= x /\ x < S0 + q THEN Value(m2[x]) = t ELSE m2[x] = m[x]
  <2>1. x \in a .. a + n - 1 <=> S0 + p <= x /\ x < S0 + q
    <3> HIDE DEF S0
    <3>1. a = S0 + p /\ a + n - 1 = S0 + q - 1
      BY <1>0 DEF S0
    <3> QED BY <1>0, <3>1
  <2> HIDE DEF S0
  <2>2. m2[x] = IF x \in a .. a + n - 1 THEN Num(t) ELSE m[x]
    BY <1>1
  <2> QED BY <1>3, <2>1, <2>2
<1>5. Nops(m, m2, p, q)
  BY <1>2, <1>4 DEF Nops, t
<1> QED BY <1>5 DEF m2

\* Items overwritten with FDT_NOPs leave the blob sound, if the depth behind
\* them is the depth in front of them and no property loses its place.
LEMMA NopsSound ==
    ASSUME NEW m, Good(m), StringsNamed(m),
           NEW H, NEW A, Tree(m, TagOffsets(m, 0), H, A),
           NEW p, p \in TagOffsets(m, 0), NEW q, q \in TagOffsets(m, 0), p <= q,
           q <= fdt_size_dt_struct(m), H[q] = H[p], p \in A \/ q \notin A,
           NEW m2, Nops(m, m2, p, q)
    PROVE  Sound(m2)
<1> DEFINE S0 == fdt_off_dt_struct(m)
           M  == p .. q - 1
           G  == [x \in Nat |-> H[p]]
           B  == IF p \in A THEN p .. q ELSE {}
           N  == fdt_size_dt_struct(m)
<1>0. 0 \in 0 .. MemSize /\ MemSize \in Nat /\ Framed(m)
  BY MemAssumption, GoodFramed
<1>1. p \in Nat /\ q \in Nat
  BY <1>0, TagOffsetsUnfold
<1>2. S0 \in Nat /\ N \in Nat /\ S0 + N <= MemSize
  BY <1>0, FramedFacts
<1>3. Spliced(m, m, q, q, q)
  BY <1>1, SplicedSelf
<1>4. WrittenIn(m, m, m2, p, q)
  <2>1. ASSUME NEW a \in 0 .. MemSize - 1, a < S0 + p \/ a >= S0 + q
        PROVE  m2[a] = m[a]
    <3>1. ~(S0 + p <= a /\ a < S0 + q)
      <4> HIDE DEF S0
      <4> QED BY <1>0, <1>1, <1>2, <2>1
    <3> QED BY <3>1 DEF Nops
  <2>2. m2 \in Memory
    BY DEF Nops
  <2> QED BY <2>1, <2>2 DEF WrittenIn
<1>5. Good(m2) /\ fdt_off_dt_struct(m2) = S0 /\ Spliced(m, m2, p, q, q)
  <2>1. q <= q
    BY <1>1
  <2> QED BY <1>1, <1>3, <1>4, <2>1, WrittenSpliced
<1>6. fdt_size_dt_struct(m2) = N
  <2>1. fdt_size_dt_struct(m2) - q = N - q
    BY <1>5 DEF Spliced
  <2>2. fdt_size_dt_struct(m2) \in Nat
    BY <1>5, GoodFacts
  <2> HIDE DEF N
  <2> QED BY <1>1, <1>2, <2>1, <2>2
<1>7. ASSUME NEW x \in M
      PROVE  Tag(m2, x) = FDT_NOP /\ NextOf(m2, x) = x + 1
  <2>1. x \in Nat /\ x + 1 <= N
    <3> HIDE DEF N
    <3> QED BY <1>1, <1>2 DEF N
  <2> DEFINE a == S0 + x
  <2>2. a \in 0 .. MemSize - 1 /\ S0 + p <= a /\ a < S0 + q
    <3> HIDE DEF S0, N
    <3> QED BY <1>0, <1>1, <1>2, <2>1
  <2>3. Value(m2[a]) = FDT_NOP
    <3> HIDE DEF a
    <3> QED BY <2>2 DEF Nops
  <2>4. Value(At(m2, x)) = FDT_NOP
    <3> HIDE DEF S0
    <3> QED BY <1>5, <2>3 DEF At
  <2>5. x + 1 <= fdt_size_dt_struct(m2)
    BY <1>6, <2>1
  <2> HIDE DEF M, N
  <2> QED BY <1>5, <2>1, <2>4, <2>5, GoodFramed, WordItem
<1>8. H[p] \in Nat /\ G \in [Nat -> Nat] /\ G[p] = H[p] /\ G[q] = H[q]
      /\ \A x \in Nat : G[x] = H[p]
  <2>1. H \in [Nat -> Nat]
    BY DEF Tree
  <2>2. H[p] \in Nat
    BY <1>1, <2>1
  <2> QED BY <1>1, <2>2
<1> HIDE DEF G
<1>9. ASSUME NEW x \in M
      PROVE  Nested(m2, M \cup {q}, G, B, x)
  <2>1. x \in Nat /\ x + 1 \in Nat /\ x + 1 \in M \cup {q}
    BY <1>1
  <2>2. G[x + 1] = G[x]
    BY <1>8, <2>1
  <2>3. x + 1 \in B => x \in B
    BY <1>1
  <2> HIDE DEF M, B
  <2> QED BY <1>7, <2>1, <2>2, <2>3 DEF Nested
<1>10. /\ M \subseteq p .. q - 1 /\ p \in M \cup {q}
       /\ (p \in B => p \in A) /\ (q \in A => q \in B)
  BY <1>1
<1> HIDE DEF M, B, N
<1>11. \A x \in M : Tag(m2, x) # FDT_END /\ Nested(m2, M \cup {q}, G, B, x)
  BY <1>7, <1>9
<1>12. Replaced(m, m2, H, A, p, q, q, M, G, B)
  BY <1>1, <1>8, <1>10, <1>11 DEF Replaced
<1> QED BY <1>5, <1>12, SoundSpliced

\* fdt_nop_property.
LEMMA NopPropertySound ==
    ASSUME NEW m, Good(m), Sound(m), NEW o, o \in TagOffsets(m, 0), NEW name
    PROVE  Sound(NopProperty(m, o, name).m)
<1> DEFINE p == fdt_get_property(m, o, name)
           q == NextOf(m, p)
           n == PropSize + Words(PropLen(m, p))
           a == fdt_off_dt_struct(m) + p
           m2 == fdt_nop_region_(m, a, n)
           r == NopProperty(m, o, name)
<1>0. 0 \in 0 .. MemSize /\ Framed(m)
  BY MemAssumption, GoodFramed
<1>1. p \in Int
  <2>1. o \in Nat
    BY <1>0, TagOffsetsUnfold
  <2> QED BY <2>1, GetProperty
<1>2. CASE p < 0
  BY <1>1, <1>2 DEF NopProperty, Return
<1>3. CASE p >= 0
  <2>1. r.m = m2
    BY <1>1, <1>3 DEF NopProperty, Return
  <2>2. /\ p \in TagOffsets(m, 0) /\ p \in Nat /\ Tag(m, p) = FDT_PROP
        /\ q \in TagOffsets(m, 0) /\ Words(PropLen(m, p)) \in Nat
        /\ q = p + 3 + Words(PropLen(m, p))
        /\ q <= fdt_size_dt_struct(m)
    <3> HIDE DEF p
    <3> QED BY <1>3, PropertyItem DEF p
  <2>3. q \in Nat /\ p <= q /\ n = q - p
    <3> HIDE DEF q, p
    <3> QED BY <2>2
  <2>4. Nops(m, m2, p, q)
    <3>1. a = fdt_off_dt_struct(m) + p
      OBVIOUS
    <3> HIDE DEF a, n, p, q
    <3> QED BY <2>2, <2>3, <3>1, NopWords
  <2>5. PICK H, A : Tree(m, TagOffsets(m, 0), H, A)
    BY DEF Sound
  <2>6. p \in A /\ H[q] = H[p]
    <3>1. Nested(m, TagOffsets(m, 0), H, A, p)
      BY <2>2, <2>5 DEF Tree
    <3> QED BY <2>2, <3>1 DEF Nested
  <2>7. StringsNamed(m)
    BY DEF Sound
  <2> HIDE DEF p, q, m2
  <2>8. Sound(m2)
    BY <2>2, <2>3, <2>4, <2>5, <2>6, <2>7, NopsSound
  <2> QED BY <2>1, <2>8
<1> QED BY <1>1, <1>2, <1>3

\* fdt_nop_node.
LEMMA NopNodeSound ==
    ASSUME NEW m, Good(m), Sound(m), NEW o, o \in TagOffsets(m, 0)
    PROVE  Sound(NopNode(m, o).m)
<1> DEFINE q == fdt_node_end_offset_(m, o)
           n == q - o
           a == fdt_off_dt_struct(m) + o
           m2 == fdt_nop_region_(m, a, n)
           r == NopNode(m, o)
<1>0. 0 \in 0 .. MemSize /\ Framed(m)
  BY MemAssumption, GoodFramed
<1>1. q \in Int /\ o \in Nat
  <2>1. o \in Nat
    BY <1>0, TagOffsetsUnfold
  <2> QED BY <2>1, NodeEnd
<1>2. CASE q < 0
  BY <1>1, <1>2 DEF NopNode, Return
<1>3. CASE q >= 0
  <2>1. r.m = m2
    BY <1>1, <1>3 DEF NopNode, Return
  <2>2. PICK H, A : Tree(m, TagOffsets(m, 0), H, A)
    BY DEF Sound
  <2>3. /\ q \in TagOffsets(m, 0) /\ q \in Nat /\ o < q
        /\ H[q] = H[o] /\ q \notin A /\ q <= fdt_size_dt_struct(m)
    <3>1. q = fdt_node_end_offset_(m, o)
      OBVIOUS
    <3> HIDE DEF q
    <3> QED BY <1>3, <2>2, <3>1, EndItem
  <2>4. o <= q
    <3> HIDE DEF q
    <3> QED BY <1>1, <2>3
  <2>5. Nops(m, m2, o, q)
    <3>1. a = fdt_off_dt_struct(m) + o /\ n = q - o
      OBVIOUS
    <3> HIDE DEF a, n, q
    <3> QED BY <1>1, <2>3, <2>4, <3>1, NopWords
  <2>6. StringsNamed(m)
    BY DEF Sound
  <2> HIDE DEF q, m2
  <2>7. Sound(m2)
    BY <2>2, <2>3, <2>4, <2>5, <2>6, NopsSound
  <2> QED BY <2>1, <2>7
<1> QED BY <1>1, <1>2, <1>3

\* fdt_del_node.
LEMMA DelNodeSound ==
    ASSUME NEW m, Good(m), Sound(m), NEW o, o \in TagOffsets(m, 0)
    PROVE  Sound(DelNode(m, o).m)
<1> DEFINE q == fdt_node_end_offset_(m, o)
           n == q - o
           z == 0
           f == fdt_splice_struct_(m, fdt_off_dt_struct(m) + o, n, z)
           m2 == f.m
<1>0. 0 \in 0 .. MemSize /\ Framed(m)
  BY MemAssumption, GoodFramed
<1>1. q \in Int /\ o \in Nat
  <2>1. o \in Nat
    BY <1>0, TagOffsetsUnfold
  <2> QED BY <2>1, NodeEnd
<1>2. CASE q < 0
  BY <1>1, <1>2 DEF DelNode, Return
<1>3. CASE q >= 0
  <2>1. DelNode(m, o) = f
    BY <1>1, <1>3 DEF DelNode
  <2>2. PICK H, A : Tree(m, TagOffsets(m, 0), H, A)
    BY DEF Sound
  <2>3. /\ q \in TagOffsets(m, 0) /\ q \in Nat /\ o < q
        /\ H[q] = H[o] /\ q \notin A /\ q <= fdt_size_dt_struct(m)
    <3>1. q = fdt_node_end_offset_(m, o)
      OBVIOUS
    <3> HIDE DEF q
    <3> QED BY <1>3, <2>2, <3>1, EndItem
  <2>4. n \in Nat /\ z \in Nat /\ o + n = q /\ o + z = o /\ o <= q /\ o <= o
        /\ o + n <= fdt_size_dt_struct(m)
    <3> HIDE DEF q
    <3> QED BY <1>1, <2>3
  <2>5. SplicedAt(m, f, o, n, z)
    <3>1. f = fdt_splice_struct_(m, fdt_off_dt_struct(m) + o, n, z)
      OBVIOUS
    <3> HIDE DEF n, z, f
    <3> QED BY <1>1, <2>4, <3>1, SpliceAt
  <2>6. StringsNamed(m)
    BY DEF Sound
  <2>7. CASE f.ret # 0
    BY <2>1, <2>5, <2>7 DEF SplicedAt
  <2>8. CASE f.ret = 0
    <3>1. Spliced(m, m2, o, o + n, o + z) /\ Good(m2)
      BY <2>5, <2>8 DEF SplicedAt
    <3> HIDE DEF n, z, q, m2
    <3>2. Spliced(m, m2, o, q, o)
      BY <2>4, <3>1
    <3>3. H \in [Nat -> Nat]
      BY <2>2 DEF Tree
    <3>4. Replaced(m, m2, H, A, o, q, o, {}, H, {})
      BY <1>1, <2>3, <2>4, <3>3 DEF Replaced
    <3>5. Sound(m2)
      BY <2>2, <2>6, <3>1, <3>2, <3>4, SoundSpliced
    <3> QED BY <2>1, <3>5 DEF m2
  <2> QED BY <2>7, <2>8
<1> QED BY <1>1, <1>2, <1>3

-----------------------------------------------------------------------------
(* Adding nodes.                                                           *)

NameThere(m, x, s) ==
    /\ NamePiece(At(m, x + 1), s)
    /\ HasNul(At(m, x + NameSize(s)))
    /\ \A i \in 1 .. NameSize(s) - 1 : ~HasNul(At(m, x + i))

\* A node with its name is an item.
LEMMA NamedItem ==
    ASSUME NEW m, Good(m), NEW x, x \in Nat, NEW s, s \in Names,
           Value(At(m, x)) = FDT_BEGIN_NODE, NameThere(m, x, s),
           x + 1 + NameSize(s) <= fdt_size_dt_struct(m)
    PROVE  /\ Tag(m, x) = FDT_BEGIN_NODE /\ NextOf(m, x) = x + 1 + NameSize(s)
           /\ Named(m, x)
<1> DEFINE n == NameSize(s)
<1>1. n \in Nat /\ n >= 1
  BY NameSizeNat
<1>2. HasNul(At(m, x + n)) /\ \A i \in 1 .. n - 1 : ~HasNul(At(m, x + i))
  BY DEF NameThere
<1>3. Tag(m, x) = FDT_BEGIN_NODE /\ NextOf(m, x) = x + 1 + n
  <2>1. x + 1 + n <= fdt_size_dt_struct(m)
    OBVIOUS
  <2> HIDE DEF n
  <2> QED BY ZenonT(30), <1>1, <1>2, <2>1, GoodFramed, NameItem
<1>4. Named(m, x)
  BY <1>3 DEF NameThere, NamePiece, Named, NameSize
<1> QED BY <1>3, <1>4

\* Cells are stored one after the other.
Stored(b, m2, a, n, cells) ==
    /\ m2 \in Memory
    /\ \A x \in 0 .. MemSize - 1 : x < a \/ x >= a + n => m2[x] = b[x]
    /\ \A i \in 0 .. n - 1 : m2[a + i] = cells[i + 1]

\* Store does that.
LEMMA StoreMemory ==
    ASSUME NEW b, b \in Memory, NEW a, a \in Nat, NEW n, n \in Nat, a + n <= MemSize,
           NEW cells, cells \in [1 .. n -> Cell], Len(cells) = n
    PROVE  Stored(b, Store(b, a, cells), a, n, cells)
<1> DEFINE m2 == Store(b, a, cells)
<1>0. MemSize \in Nat /\ DOMAIN b = 0 .. MemSize - 1
  BY MemAssumption DEF Memory
<1>1. m2 = [x \in 0 .. MemSize - 1 |-> IF x \in a .. a + n - 1 THEN cells[x - a + 1] ELSE b[x]]
  BY <1>0 DEF Store
<1> HIDE DEF m2
<1>2. \A x \in 0 .. MemSize - 1 :
        m2[x] = IF x \in a .. a + n - 1 THEN cells[x - a + 1] ELSE b[x]
  BY <1>1
<1>3. \A x \in 0 .. MemSize - 1 : m2[x] \in Cell
  <2> TAKE x \in 0 .. MemSize - 1
  <2>1. x \in a .. a + n - 1 => x - a + 1 \in 1 .. n
    OBVIOUS
  <2>2. b[x] \in Cell
    BY <1>0 DEF Memory
  <2> QED BY <1>2, <2>1, <2>2
<1>4. m2 \in Memory
  BY <1>1, <1>3 DEF Memory
<1>5. \A x \in 0 .. MemSize - 1 : x < a \/ x >= a + n => m2[x] = b[x]
  <2> TAKE x \in 0 .. MemSize - 1
  <2> HAVE x < a \/ x >= a + n
  <2>1. x \notin a .. a + n - 1
    BY <1>0
  <2> QED BY <1>2, <2>1
<1>6. \A i \in 0 .. n - 1 : m2[a + i] = cells[i + 1]
  <2> TAKE i \in 0 .. n - 1
  <2> DEFINE x == a + i
  <2>1. x \in 0 .. MemSize - 1 /\ x \in a .. a + n - 1 /\ x - a + 1 = i + 1
    BY <1>0
  <2> HIDE DEF x
  <2>2. m2[x] = cells[x - a + 1]
    BY <1>2, <2>1
  <2>3. m2[x] = cells[i + 1]
    BY <2>1, <2>2
  <2> QED BY <2>3 DEF x
<1>7. Stored(b, m2, a, n, cells)
  BY <1>4, <1>5, <1>6 DEF Stored
<1> QED BY <1>7 DEF m2

\* Behind an empty node at x.
NodeEndAt(x, s) == x + (NameSize(s) + 2)

\* An empty node.
EmptyNode(m, x, s) ==
    /\ Value(At(m, x)) = FDT_BEGIN_NODE
    /\ NameThere(m, x, s)
    /\ Value(At(m, x + 1 + NameSize(s))) = FDT_END_NODE

\* An empty node put between two items leaves the blob sound, if no property
\* follows.
LEMMA NodeInserted ==
    ASSUME NEW m, Good(m), StringsNamed(m),
           NEW H, NEW A, Tree(m, TagOffsets(m, 0), H, A),
           NEW x, x \in TagOffsets(m, 0), x <= fdt_size_dt_struct(m),
           Tag(m, x) \notin {FDT_PROP, FDT_NOP}, NEW s, s \in Names,
           NEW b, Good(b), fdt_off_dt_struct(b) = fdt_off_dt_struct(m),
           Spliced(m, b, x, x, NodeEndAt(x, s)),
           NEW m2, WrittenIn(m, b, m2, x, NodeEndAt(x, s)), EmptyNode(m2, x, s)
    PROVE  Sound(m2)
<1> DEFINE k  == NameSize(s)
           e  == x + 1 + k
           q2 == NodeEndAt(x, s)
           M  == {x, e}
           G  == [y \in Nat |-> IF y = e THEN H[x] + 1 ELSE H[x]]
<1>0. 0 \in 0 .. MemSize /\ MemSize \in Nat /\ Framed(m)
  BY MemAssumption, GoodFramed
<1>1. /\ x \in Nat /\ k \in Nat /\ k >= 1 /\ q2 \in Nat /\ e \in Nat
      /\ q2 = e + 1 /\ x <= q2 /\ x < e /\ x <= x
  <2>1. x \in Nat
    BY <1>0, TagOffsetsUnfold
  <2>2. k \in Nat /\ k >= 1
    BY NameSizeNat
  <2>3. q2 = x + (k + 2)
    BY DEF NodeEndAt
  <2> HIDE DEF k, q2
  <2> QED BY <2>1, <2>2, <2>3
<1>2. Good(m2) /\ fdt_off_dt_struct(m2) = fdt_off_dt_struct(m) /\ Spliced(m, m2, x, x, q2)
  <2> HIDE DEF q2
  <2> QED BY <1>1, WrittenSpliced DEF q2
<1>3. q2 <= fdt_size_dt_struct(m2)
  <2>1. fdt_size_dt_struct(m2) - q2 = fdt_size_dt_struct(m) - x
    BY <1>2 DEF Spliced
  <2>2. fdt_size_dt_struct(m2) \in Nat /\ fdt_size_dt_struct(m) \in Nat
    BY <1>2, GoodFacts
  <2> HIDE DEF q2, e
  <2> QED BY <1>1, <2>1, <2>2
<1>4. Tag(m2, x) = FDT_BEGIN_NODE /\ NextOf(m2, x) = e /\ Named(m2, x)
  <2>1. x + 1 + k <= fdt_size_dt_struct(m2)
    <3>1. fdt_size_dt_struct(m2) \in Nat
      BY <1>2, GoodFacts
    <3>2. e <= fdt_size_dt_struct(m2)
      <4> HIDE DEF e, q2
      <4> QED BY <1>1, <1>3, <3>1
    <3> QED BY <3>2
  <2> QED BY <1>1, <1>2, <2>1, NamedItem DEF EmptyNode
<1>5. Tag(m2, e) = FDT_END_NODE /\ NextOf(m2, e) = q2
  <2>1. Value(At(m2, e)) = FDT_END_NODE
    BY DEF EmptyNode
  <2>2. e + 1 <= fdt_size_dt_struct(m2)
    <3> HIDE DEF q2, e
    <3> QED BY <1>1, <1>3
  <2> HIDE DEF q2, e
  <2> QED BY <1>1, <1>2, <2>1, <2>2, GoodFramed, WordItem
<1>6. H[x] \in Nat /\ G \in [Nat -> Nat] /\ G[x] = H[x] /\ G[e] = H[x] + 1 /\ G[q2] = H[x]
  <2>1. H \in [Nat -> Nat]
    BY DEF Tree
  <2>2. H[x] \in Nat
    BY <1>1, <2>1
  <2> HIDE DEF e, q2
  <2> QED BY <1>1, <2>2
<1> HIDE DEF G
<1>7. Nested(m2, M \cup {q2}, G, {}, x)
  BY <1>4, <1>6 DEF Nested
<1>8. Nested(m2, M \cup {q2}, G, {}, e)
  <2> HIDE DEF e
  <2> QED BY <1>5, <1>6 DEF Nested
<1>9. \A y \in M : Tag(m2, y) # FDT_END /\ Nested(m2, M \cup {q2}, G, {}, y)
  BY <1>4, <1>5, <1>7, <1>8
<1>10. M \subseteq x .. q2 - 1 /\ x \in M \cup {q2}
  <2> HIDE DEF q2, e
  <2> QED BY <1>1
<1> HIDE DEF M, q2
<1>11. Replaced(m, m2, H, A, x, x, q2, M, G, {})
  BY <1>1, <1>6, <1>9, <1>10 DEF Replaced
<1> QED BY <1>2, <1>11, SoundSpliced

\* The cells of an empty node.
NodeCells(s, len) ==
    [i \in 1 .. len + 2 |->
        IF i = 1 THEN Num(FDT_BEGIN_NODE)
        ELSE IF i <= NameSize(s) THEN Name(s, 0)
        ELSE IF i = NameSize(s) + 1 THEN Name(s, 1)
        ELSE IF i = len + 2 THEN Num(FDT_END_NODE)
        ELSE Num(0)]

\* Stored in the structure block they are one, if the length is that of the name.
LEMMA NodeStored ==
    ASSUME NEW m, Good(m), NEW x, x \in Nat, NEW s, s \in Names,
           NEW b, Good(b), fdt_off_dt_struct(b) = fdt_off_dt_struct(m),
           NodeEndAt(x, s) <= fdt_size_dt_struct(b),
           NEW a, a = fdt_off_dt_struct(m) + x
    PROVE  LET m2 == Store(b, a, NodeCells(s, NameSize(s)))
           IN  /\ WrittenIn(m, b, m2, x, NodeEndAt(x, s))
               /\ fdt_off_dt_struct(m2) = fdt_off_dt_struct(m) => EmptyNode(m2, x, s)
<1> DEFINE k     == NameSize(s)
           n     == k + 2
           cells == NodeCells(s, k)
           m2    == Store(b, a, cells)
           S0    == fdt_off_dt_struct(m)
           q2    == NodeEndAt(x, s)
           t1    == FDT_BEGIN_NODE
           t2    == FDT_END_NODE
<1>0. /\ MemSize \in Nat /\ S0 \in Nat /\ b \in Memory
      /\ fdt_size_dt_struct(b) \in Nat /\ S0 + fdt_size_dt_struct(b) <= MemSize
      /\ k \in Nat /\ k >= 1 /\ n \in Nat /\ a \in Nat /\ a = S0 + x
  <2>1. Framed(b)
    BY GoodFramed
  <2>2. k \in Nat /\ k >= 1
    BY NameSizeNat
  <2>3. S0 \in Nat
    BY GoodFacts
  <2> HIDE DEF k
  <2> QED BY <2>1, <2>2, <2>3, FramedFacts
<1>1. q2 = x + n /\ q2 \in Nat
  BY <1>0 DEF NodeEndAt
<1>2. a + n <= MemSize
  <2> HIDE DEF S0, k, n
  <2>1. x + n <= fdt_size_dt_struct(b)
    BY <1>1
  <2> QED BY <1>0, <2>1
<1>3. /\ Num(t1) \in Cell /\ Num(t2) \in Cell /\ Num(0) \in Cell
      /\ Name(s, 0) \in Cell /\ Name(s, 1) \in Cell
      /\ Value(Num(t1)) = t1 /\ Value(Num(t2)) = t2
  BY CellFacts
<1> HIDE DEF t1, t2
<1>4. cells = [i \in 1 .. n |->
                 IF i = 1 THEN Num(t1)
                 ELSE IF i <= k THEN Name(s, 0)
                 ELSE IF i = k + 1 THEN Name(s, 1)
                 ELSE IF i = n THEN Num(t2)
                 ELSE Num(0)]
  BY Zenon DEF NodeCells, t1, t2
<1> HIDE DEF cells, n
<1>5. cells \in [1 .. n -> Cell]
  <2> DEFINE c(i) == IF i = 1 THEN Num(t1)
                     ELSE IF i <= k THEN Name(s, 0)
                     ELSE IF i = k + 1 THEN Name(s, 1)
                     ELSE IF i = n THEN Num(t2)
                     ELSE Num(0)
  <2>1. \A i \in 1 .. n : c(i) \in Cell
    <3> HIDE DEF k
    <3> QED BY <1>3
  <2>2. cells = [i \in 1 .. n |-> c(i)]
    BY <1>4
  <2> HIDE DEF c
  <2> QED BY <2>1, <2>2
<1>6. Len(cells) = n
  <2>1. cells \in Seq(Cell)
    BY <1>0, <1>5
  <2>2. DOMAIN cells = 1 .. n
    BY <1>5
  <2> QED BY <1>0, <2>1, <2>2
<1>7. Stored(b, m2, a, n, cells)
  <2> HIDE DEF m2
  <2> QED BY <1>0, <1>2, <1>5, <1>6, StoreMemory DEF m2
<1> HIDE DEF m2
<1>8. WrittenIn(m, b, m2, x, q2)
  <2>1. ASSUME NEW y \in 0 .. MemSize - 1, y < S0 + x \/ y >= S0 + q2
        PROVE  m2[y] = b[y]
    <3>1. y < a \/ y >= a + n
      <4> HIDE DEF S0, q2
      <4> QED BY <1>0, <1>1, <2>1
    <3> QED BY <1>7, <3>1 DEF Stored
  <2>2. m2 \in Memory
    BY <1>7 DEF Stored
  <2> QED BY <2>1, <2>2 DEF WrittenIn
<1>9. ASSUME fdt_off_dt_struct(m2) = S0
      PROVE  EmptyNode(m2, x, s)
  <2>1. \A i \in 0 .. n - 1 : At(m2, x + i) = cells[i + 1]
    <3> TAKE i \in 0 .. n - 1
    <3>1. m2[a + i] = cells[i + 1]
      BY <1>7 DEF Stored
    <3>2. a + i = S0 + (x + i)
      <4> HIDE DEF S0
      <4> QED BY <1>0
    <3>3. At(m2, x + i) = m2[S0 + (x + i)]
      BY <1>9 DEF At
    <3> QED BY <3>1, <3>2, <3>3
  <2>2. At(m2, x) = Num(t1)
    <3>1. 0 \in 0 .. n - 1 /\ x + 0 = x /\ 0 + 1 = 1 /\ 1 \in 1 .. n
      BY <1>0 DEF n
    <3>2. At(m2, x) = cells[1]
      BY <2>1, <3>1
    <3> QED BY <1>4, <3>1, <3>2
  <2>3. \A i \in 1 .. k - 1 : At(m2, x + i) = Name(s, 0)
    <3> TAKE i \in 1 .. k - 1
    <3>1. /\ i \in 0 .. n - 1 /\ i + 1 \in 1 .. n /\ i + 1 # 1 /\ i + 1 <= k
      <4> HIDE DEF k
      <4> QED BY <1>0 DEF n
    <3>2. cells[i + 1] = Name(s, 0)
      <4> HIDE DEF k
      <4> QED BY <1>4, <3>1
    <3> QED BY <2>1, <3>1, <3>2
  <2>4. At(m2, x + k) = Name(s, 1)
    <3>1. /\ k \in 0 .. n - 1 /\ k + 1 \in 1 .. n /\ k + 1 # 1 /\ ~(k + 1 <= k)
      <4> HIDE DEF k
      <4> QED BY <1>0 DEF n
    <3> HIDE DEF k
    <3>2. cells[k + 1] = Name(s, 1)
      BY <1>4, <3>1
    <3> QED BY <2>1, <3>1, <3>2
  <2>5. At(m2, x + 1 + k) = Num(t2)
    <3> DEFINE j == k + 1
    <3>1. /\ j \in 0 .. n - 1 /\ j + 1 \in 1 .. n /\ j + 1 # 1 /\ ~(j + 1 <= k)
          /\ j + 1 # k + 1 /\ j + 1 = n /\ x + j = x + 1 + k
      <4> HIDE DEF k
      <4> QED BY <1>0 DEF n
    <3> HIDE DEF j, k
    <3>2. cells[j + 1] = Num(t2)
      BY <1>4, <3>1
    <3>3. At(m2, x + j) = cells[j + 1]
      BY <2>1, <3>1
    <3> QED BY <3>1, <3>2, <3>3
  <2>6. NamePiece(At(m2, x + 1), s)
    <3>1. CASE k = 1
      BY <2>4, <3>1, NameCellFacts
    <3>2. CASE k # 1
      <4>1. 1 \in 1 .. k - 1
        <5> HIDE DEF k
        <5> QED BY <1>0, <3>2
      <4>2. At(m2, x + 1) = Name(s, 0)
        BY <2>3, <4>1
      <4> QED BY <4>2, NameCellFacts
    <3> QED BY <3>1, <3>2
  <2>7. NameThere(m2, x, s)
    BY <2>3, <2>4, <2>6, NameCellFacts DEF NameThere
  <2> QED BY <1>3, <2>2, <2>5, <2>7 DEF EmptyNode, t1, t2
<1> QED BY <1>8, <1>9 DEF m2, cells

\* Room has been made at x for an empty node.
SplicedNode(m, b, x, s) ==
    /\ Good(b) /\ fdt_off_dt_struct(b) = fdt_off_dt_struct(m)
    /\ Spliced(m, b, x, x, NodeEndAt(x, s))

\* An empty node stored where room has been made for it leaves the blob sound.
LEMMA NodeAdded ==
    ASSUME NEW m, Good(m), Sound(m), NEW x, x \in TagOffsets(m, 0),
           x <= fdt_size_dt_struct(m), Tag(m, x) \notin {FDT_PROP, FDT_NOP},
           NEW s, s \in Names, NEW b, SplicedNode(m, b, x, s),
           NEW a, a = fdt_off_dt_struct(m) + x
    PROVE  Sound(Store(b, a, NodeCells(s, NameSize(s))))
<1> DEFINE m2 == Store(b, a, NodeCells(s, NameSize(s)))
           q2 == NodeEndAt(x, s)
<1>0. 0 \in 0 .. MemSize /\ MemSize \in Nat /\ Framed(m)
  BY MemAssumption, GoodFramed
<1>1. x \in Nat /\ x <= x /\ q2 \in Nat /\ x <= q2
  <2>1. x \in Nat
    BY <1>0, TagOffsetsUnfold
  <2>2. NameSize(s) \in Nat
    BY NameSizeNat
  <2> QED BY <2>1, <2>2 DEF NodeEndAt
<1>2. /\ Good(b) /\ fdt_off_dt_struct(b) = fdt_off_dt_struct(m)
      /\ Spliced(m, b, x, x, q2)
  BY DEF SplicedNode
<1>3. q2 <= fdt_size_dt_struct(b)
  <2>1. fdt_size_dt_struct(b) - q2 = fdt_size_dt_struct(m) - x
    BY <1>2 DEF Spliced
  <2>2. fdt_size_dt_struct(b) \in Nat /\ fdt_size_dt_struct(m) \in Nat
    BY <1>2, GoodFacts
  <2> HIDE DEF q2
  <2> QED BY <1>1, <2>1, <2>2
<1>4. /\ WrittenIn(m, b, m2, x, q2)
      /\ fdt_off_dt_struct(m2) = fdt_off_dt_struct(m) => EmptyNode(m2, x, s)
  BY <1>1, <1>2, <1>3, NodeStored
<1> HIDE DEF m2
<1>5. fdt_off_dt_struct(m2) = fdt_off_dt_struct(m)
  <2> HIDE DEF q2
  <2> QED BY <1>1, <1>2, <1>4, WrittenSpliced
<1>6. StringsNamed(m) /\ \E H, A : Tree(m, TagOffsets(m, 0), H, A)
  BY DEF Sound
<1>7. PICK H, A : Tree(m, TagOffsets(m, 0), H, A)
  BY <1>6
<1>8. Sound(m2)
  BY <1>2, <1>4, <1>5, <1>6, <1>7, NodeInserted
<1> QED BY <1>8 DEF m2

\* fdt_add_subnode_namelen keeps a blob sound if the words it makes room for are
\* those of the name: the caller has passed the true length, or one that needs
\* as many words.
LEMMA AddSubnodeSound ==
    ASSUME NEW m, Good(m), Sound(m), NEW o, o \in TagOffsets(m, 0),
           NEW name, name.s \in Names, Words(name.namelen + 1) = NameSize(name.s)
    PROVE  Sound(AddSubnode(m, o, name).m)
<1> DEFINE found == fdt_subnode_offset_namelen(m, o, name)
           at    == AfterProps(Walk(m, fdt_next_tag(m, o).next)).at
           nh    == fdt_off_dt_struct(m) + at
           len   == Words(name.namelen + 1)
           r     == fdt_splice_struct_(m, nh, 0, len + 2)
           n     == Words(NameLen[name.s] + 1)
           cells == [i \in 1 .. len + 2 |->
                        IF i = 1 THEN Num(FDT_BEGIN_NODE)
                        ELSE IF i <= n THEN Name(name.s, 0)
                        ELSE IF i = n + 1 THEN Name(name.s, 1)
                        ELSE IF i = len + 2 THEN Num(FDT_END_NODE)
                        ELSE Num(0)]
           f     == AddSubnode(m, o, name)
           s     == name.s
           b     == r.m
           m2    == Store(b, nh, NodeCells(s, NameSize(s)))
           z     == 0
           k     == NameSize(s) + 2
           q2    == NodeEndAt(at, s)
<1>1. f = IF found >= 0 THEN Return(-FDT_ERR_EXISTS, m)
          ELSE IF found # -FDT_ERR_NOTFOUND THEN Return(found, m)
          ELSE IF r.ret # 0 THEN r
          ELSE Return(at, Store(r.m, nh, cells))
  BY Zenon DEF AddSubnode
<1>2. CASE found # -FDT_ERR_NOTFOUND
  <2>1. f.m = m
    <3> HIDE DEF f, found, cells, r
    <3> QED BY <1>1, <1>2, Zenon DEF Return
  <2> QED BY <2>1
<1>3. CASE found = -FDT_ERR_NOTFOUND
  <2>1. /\ at \in TagOffsets(m, 0) /\ at \in Nat /\ at <= fdt_size_dt_struct(m)
        /\ Tag(m, at) \notin {FDT_PROP, FDT_NOP}
    BY <1>3, SubnodeItem
  <2>2. NameSize(s) \in Nat /\ at <= at
    <3> HIDE DEF at
    <3> QED BY <2>1, NameSizeNat
  <2>3. /\ k \in Nat /\ z \in Nat /\ at + z = at /\ at + k = q2 /\ q2 \in Nat /\ at <= q2
        /\ at + z <= fdt_size_dt_struct(m)
    <3>1. q2 = at + k
      BY DEF NodeEndAt
    <3>2. k \in Nat
      BY <2>2
    <3> HIDE DEF at, k, q2
    <3> QED BY <2>1, <3>1, <3>2
  <2>4. SplicedAt(m, r, at, z, k)
    <3>1. r = fdt_splice_struct_(m, fdt_off_dt_struct(m) + at, z, k)
      OBVIOUS
    <3> HIDE DEF r, k, z, at
    <3> QED BY <2>1, <2>3, <3>1, SpliceAt
  <2>5. f = IF r.ret # 0 THEN r ELSE Return(at, Store(r.m, nh, cells))
    <3>1. ~(found >= 0)
      BY <1>3
    <3> HIDE DEF f, found, cells, r
    <3> QED BY <1>1, <1>3, <3>1
  <2>6. CASE r.ret # 0
    <3>1. f.m = r.m
      <4> HIDE DEF f, r, cells
      <4> QED BY <2>5, <2>6
    <3>2. r.m = m
      <4> HIDE DEF r
      <4> QED BY <2>4, <2>6 DEF SplicedAt
    <3> HIDE DEF f, r
    <3>3. Sound(f.m)
      BY <3>1, <3>2
    <3> QED BY <3>3 DEF f
  <2>7. CASE r.ret = 0
    <3>1. f.m = Store(r.m, nh, cells)
      <4> HIDE DEF f, r, cells, nh
      <4> QED BY <2>5, <2>7 DEF Return
    <3>2. cells = NodeCells(s, NameSize(s))
      BY Zenon DEF NodeCells, NameSize
    <3>3. f.m = m2
      <4> HIDE DEF f, r, cells, nh
      <4> QED BY <3>1, <3>2
    <3>4. SplicedNode(m, b, at, s)
      <4>1. Spliced(m, b, at, at + z, at + k)
        BY <2>4, <2>7 DEF SplicedAt
      <4>2. Good(b) /\ fdt_off_dt_struct(b) = fdt_off_dt_struct(m)
        BY <2>4 DEF SplicedAt
      <4>3. Spliced(m, b, at, at, q2)
        <5> HIDE DEF z, k, at, q2, b
        <5> QED BY <2>3, <4>1
      <4> HIDE DEF at, b
      <4> QED BY <4>2, <4>3 DEF SplicedNode
    <3>6. s \in Names /\ nh = fdt_off_dt_struct(m) + at
      OBVIOUS
    <3> HIDE DEF f, r, cells, at, nh, b, s, z, k, found, len, n, q2
    <3>11. Sound(m2)
      BY <2>1, <3>4, <3>6, NodeAdded
    <3>12. Sound(f.m)
      BY <3>3, <3>11
    <3> QED BY <3>12 DEF f
  <2> QED BY <2>6, <2>7
<1> QED BY <1>2, <1>3

-----------------------------------------------------------------------------
(* Replacing names.                                                        *)

\* Behind the name of the node at x.
NameEndAt(x, s) == x + (1 + NameSize(s))

\* A node that has got another name leaves the blob sound.
LEMMA NodeRenamed ==
    ASSUME NEW m, Good(m), Sound(m), NEW x, x \in TagOffsets(m, 0),
           Tag(m, x) = FDT_BEGIN_NODE, NEW s, s \in Names,
           NEW m2, Good(m2), NEW p1, p1 = x + 1,
           Spliced(m, m2, p1, NextOf(m, x), NameEndAt(x, s)), NameThere(m2, x, s)
    PROVE  Sound(m2)
<1> DEFINE q  == NextOf(m, x)
           q2 == NameEndAt(x, s)
           k  == NameSize(s)
<1>0. 0 \in 0 .. MemSize /\ MemSize \in Nat /\ Framed(m)
  BY MemAssumption, GoodFramed
<1>1. StringsNamed(m) /\ \E H, A : Tree(m, TagOffsets(m, 0), H, A)
  BY DEF Sound
<1>2. PICK H, A : Tree(m, TagOffsets(m, 0), H, A)
  BY <1>1
<1>3. /\ x \in Nat /\ q \in TagOffsets(m, 0) /\ q \in Nat /\ x < q /\ H[q] = H[x] + 1
      /\ q <= fdt_size_dt_struct(m)
  <2>1. x \in Nat
    BY <1>0, TagOffsetsUnfold
  <2>2. q \in TagOffsets(m, 0) /\ H[q] = H[x] + 1
    BY <1>2 DEF Tree, Nested
  <2>3. q \in Nat
    BY <1>0, <2>2, TagOffsetsUnfold
  <2>4. x + 2 <= q /\ q <= fdt_size_dt_struct(m)
    BY <1>0, <2>1, NodeNext DEF Tag
  <2> HIDE DEF q
  <2> QED BY <2>1, <2>2, <2>3, <2>4
<1>4. q2 = x + 1 + k /\ k \in Nat /\ k >= 1 /\ q2 \in Nat /\ x < q2 /\ x <= q2 /\ x <= q /\ p1 \in Nat
  <2>1. k \in Nat /\ k >= 1
    BY NameSizeNat
  <2>2. q2 = x + (1 + k)
    BY DEF NameEndAt
  <2> HIDE DEF k, q2, q
  <2> QED BY <1>3, <2>1, <2>2
<1>5. Spliced(m, m2, x, q, q2) /\ At(m2, x) = At(m, x) /\ q2 <= fdt_size_dt_struct(m2)
  <2>1. SameWords(m, 0, m2, 0, p1) /\ fdt_size_dt_struct(m2) - q2 = fdt_size_dt_struct(m) - q
    BY DEF Spliced
  <2>2. x \in 0 .. p1 - 1
    BY <1>3
  <2>3. At(m2, x) = At(m, x)
    BY <1>4, <2>1, <2>2, WordKept
  <2>4. SameWords(m, 0, m2, 0, x)
    <3>1. \A i \in 0 .. x - 1 : i \in 0 .. p1 - 1
      BY <1>3
    <3> QED BY <2>1, <3>1 DEF SameWords
  <2>5. Spliced(m, m2, x, q, q2)
    BY <2>4 DEF Spliced
  <2>6. q2 <= fdt_size_dt_struct(m2)
    <3>1. fdt_size_dt_struct(m2) \in Nat /\ fdt_size_dt_struct(m) \in Nat
      BY GoodFacts
    <3> HIDE DEF q, q2
    <3> QED BY <1>3, <1>4, <2>1, <3>1
  <2> QED BY <2>3, <2>5, <2>6
<1>6. Tag(m2, x) = FDT_BEGIN_NODE /\ NextOf(m2, x) = q2 /\ Named(m2, x)
  <2>1. Value(At(m2, x)) = FDT_BEGIN_NODE
    BY <1>5, TagWord
  <2>2. x + 1 + NameSize(s) <= fdt_size_dt_struct(m2)
    BY <1>4, <1>5
  <2>3. /\ Tag(m2, x) = FDT_BEGIN_NODE /\ NextOf(m2, x) = x + 1 + NameSize(s)
        /\ Named(m2, x)
    BY <1>3, <2>1, <2>2, NamedItem
  <2> QED BY <1>4, <2>3
<1> DEFINE M == {x}
           G == [y \in Nat |-> IF y = x THEN H[x] ELSE H[q]]
           B == {q2}
<1>7. G \in [Nat -> Nat] /\ G[x] = H[x] /\ G[q2] = H[q]
  <2>1. H \in [Nat -> Nat]
    BY <1>2 DEF Tree
  <2>2. H[x] \in Nat /\ H[q] \in Nat
    BY <1>3, <2>1
  <2> HIDE DEF q, q2
  <2> QED BY <1>3, <1>4, <2>2
<1> HIDE DEF G, q, q2
<1>8. Nested(m2, M \cup {q2}, G, B, x)
  BY <1>3, <1>6, <1>7 DEF Nested
<1>9. M \subseteq x .. q2 - 1 /\ x \in M \cup {q2} /\ x \notin B /\ q2 \in B
  BY <1>3, <1>4
<1>10. \A y \in M : Tag(m2, y) # FDT_END /\ Nested(m2, M \cup {q2}, G, B, y)
  BY <1>6, <1>8
<1> HIDE DEF M, B
<1>11. Replaced(m, m2, H, A, x, q, q2, M, G, B)
  BY <1>3, <1>4, <1>7, <1>9, <1>10 DEF Replaced
<1> QED BY <1>1, <1>2, <1>5, <1>11, SoundSpliced

\* Stored behind the tag of a node they are its name.
LEMMA NameStored ==
    ASSUME NEW m, Good(m), NEW x, x \in Nat, NEW s, s \in Names, NEW e, e \in {1, 2},
           NEW b, Good(b), fdt_off_dt_struct(b) = fdt_off_dt_struct(m),
           NameEndAt(x, s) <= fdt_size_dt_struct(b),
           NEW p1, p1 = x + 1, NEW a, a = fdt_off_dt_struct(m) + x + 1
    PROVE  LET m2 == Store(b, a, CellsOfName(s, e))
           IN  /\ WrittenIn(m, b, m2, p1, NameEndAt(x, s))
               /\ fdt_off_dt_struct(m2) = fdt_off_dt_struct(m) => NameThere(m2, x, s)
<1> DEFINE n     == NameSize(s)
           cells == CellsOfName(s, e)
           m2    == Store(b, a, cells)
           S0    == fdt_off_dt_struct(m)
           q2    == NameEndAt(x, s)
<1>0. /\ MemSize \in Nat /\ S0 \in Nat /\ b \in Memory
      /\ fdt_size_dt_struct(b) \in Nat /\ S0 + fdt_size_dt_struct(b) <= MemSize
      /\ n \in Nat /\ n >= 1 /\ a \in Nat /\ a = S0 + x + 1
  <2>1. Framed(b)
    BY GoodFramed
  <2>2. n \in Nat /\ n >= 1
    BY NameSizeNat
  <2>3. S0 \in Nat
    BY GoodFacts
  <2> HIDE DEF n
  <2> QED BY <2>1, <2>2, <2>3, FramedFacts
<1>1. q2 = x + (1 + n) /\ q2 \in Nat
  BY <1>0 DEF NameEndAt
<1>2. a + n <= MemSize
  <2> HIDE DEF S0, n
  <2>1. x + (1 + n) <= fdt_size_dt_struct(b)
    BY <1>1
  <2> QED BY <1>0, <2>1
<1>3. Name(s, 0) \in Cell /\ Name(s, e) \in Cell /\ HasNul(Name(s, e))
  BY CellFacts, NameCellFacts
<1>4. cells = [i \in 1 .. n |-> IF i < n THEN Name(s, 0) ELSE Name(s, e)]
  BY Zenon DEF CellsOfName
<1> HIDE DEF cells, n
<1>5. cells \in [1 .. n -> Cell]
  <2> DEFINE c(i) == IF i < n THEN Name(s, 0) ELSE Name(s, e)
  <2>1. \A i \in 1 .. n : c(i) \in Cell
    BY <1>3
  <2>2. cells = [i \in 1 .. n |-> c(i)]
    BY <1>4
  <2> HIDE DEF c
  <2> QED BY <2>1, <2>2
<1>6. Len(cells) = n
  <2>1. cells \in Seq(Cell)
    BY <1>0, <1>5
  <2>2. DOMAIN cells = 1 .. n
    BY <1>5
  <2> QED BY <1>0, <2>1, <2>2
<1>7. Stored(b, m2, a, n, cells)
  <2> HIDE DEF m2
  <2> QED BY <1>0, <1>2, <1>5, <1>6, StoreMemory DEF m2
<1> HIDE DEF m2
<1>8. WrittenIn(m, b, m2, p1, q2)
  <2>1. ASSUME NEW y \in 0 .. MemSize - 1, y < S0 + p1 \/ y >= S0 + q2
        PROVE  m2[y] = b[y]
    <3>1. y < a \/ y >= a + n
      <4> HIDE DEF S0, q2
      <4> QED BY <1>0, <1>1, <2>1
    <3> QED BY <1>7, <3>1 DEF Stored
  <2>2. m2 \in Memory
    BY <1>7 DEF Stored
  <2> QED BY <2>1, <2>2 DEF WrittenIn
<1>9. ASSUME fdt_off_dt_struct(m2) = S0
      PROVE  NameThere(m2, x, s)
  <2>1. \A i \in 1 .. n : At(m2, x + i) = cells[i]
    <3> TAKE i \in 1 .. n
    <3> DEFINE j == i - 1
    <3>1. j \in 0 .. n - 1 /\ j + 1 = i
      BY <1>0
    <3>2. m2[a + j] = cells[i]
      <4> HIDE DEF j
      <4>1. m2[a + j] = cells[j + 1]
        BY <1>7, <3>1 DEF Stored
      <4> QED BY <3>1, <4>1
    <3>3. a + j = S0 + (x + i)
      <4> HIDE DEF S0
      <4> QED BY <1>0
    <3>4. At(m2, x + i) = m2[S0 + (x + i)]
      BY <1>9 DEF At
    <3> QED BY <3>2, <3>3, <3>4
  <2>2. \A i \in 1 .. n - 1 : At(m2, x + i) = Name(s, 0)
    <3> TAKE i \in 1 .. n - 1
    <3>1. i \in 1 .. n /\ i < n
      BY <1>0
    <3>2. cells[i] = Name(s, 0)
      BY <1>4, <3>1
    <3> QED BY <2>1, <3>1, <3>2
  <2>3. At(m2, x + n) = Name(s, e)
    <3>1. n \in 1 .. n /\ ~(n < n)
      BY <1>0
    <3>2. cells[n] = Name(s, e)
      BY <1>4, <3>1
    <3> QED BY <2>1, <3>1, <3>2
  <2>4. NamePiece(At(m2, x + 1), s)
    <3>1. CASE n = 1
      BY <2>3, <3>1, NameCellFacts
    <3>2. CASE n # 1
      <4>1. 1 \in 1 .. n - 1
        BY <1>0, <3>2
      <4>2. At(m2, x + 1) = Name(s, 0)
        BY <2>2, <4>1
      <4> QED BY <4>2, NameCellFacts
    <3> QED BY <3>1, <3>2
  <2> QED BY <1>3, <2>2, <2>3, <2>4, NameCellFacts DEF NameThere, n
<1> QED BY <1>8, <1>9 DEF m2, cells

\* Room has been made for another name of the node at x.
SplicedName(m, b, x, s) ==
    /\ Good(b) /\ fdt_off_dt_struct(b) = fdt_off_dt_struct(m)
    /\ Spliced(m, b, x + 1, NextOf(m, x), NameEndAt(x, s))

\* A name that is stored there leaves the blob sound.
LEMMA NameChanged ==
    ASSUME NEW m, Good(m), Sound(m), NEW x, x \in TagOffsets(m, 0),
           Tag(m, x) = FDT_BEGIN_NODE, NEW s, s \in Names, NEW e, e \in {1, 2},
           NEW b, SplicedName(m, b, x, s),
           NEW a, a = fdt_off_dt_struct(m) + x + 1
    PROVE  Sound(Store(b, a, CellsOfName(s, e)))
<1> DEFINE m2 == Store(b, a, CellsOfName(s, e))
           q  == NextOf(m, x)
           q2 == NameEndAt(x, s)
           p1 == x + 1
<1>0. 0 \in 0 .. MemSize /\ MemSize \in Nat /\ Framed(m)
  BY MemAssumption, GoodFramed
<1>1. /\ x \in Nat /\ q \in Nat /\ q <= fdt_size_dt_struct(m)
      /\ p1 \in Nat /\ p1 <= p1 /\ q2 \in Nat /\ p1 <= q2
  <2>1. x \in Nat
    BY <1>0, TagOffsetsUnfold
  <2>2. NameSize(s) \in Nat
    BY NameSizeNat
  <2>3. q2 = x + (1 + NameSize(s))
    BY DEF NameEndAt
  <2>4. x + 2 <= q /\ q <= fdt_size_dt_struct(m) /\ q \in Nat
    BY <1>0, <2>1, NodeNext DEF Tag
  <2> HIDE DEF q, q2
  <2> QED BY <2>1, <2>2, <2>3, <2>4
<1>2. /\ Good(b) /\ fdt_off_dt_struct(b) = fdt_off_dt_struct(m)
      /\ Spliced(m, b, p1, q, q2)
  BY DEF SplicedName
<1>3. q2 <= fdt_size_dt_struct(b)
  <2>1. fdt_size_dt_struct(b) - q2 = fdt_size_dt_struct(m) - q
    BY <1>2 DEF Spliced
  <2>2. fdt_size_dt_struct(b) \in Nat /\ fdt_size_dt_struct(m) \in Nat
    BY <1>2, GoodFacts
  <2> HIDE DEF q, q2
  <2> QED BY <1>1, <2>1, <2>2
<1>p. p1 = x + 1
  OBVIOUS
<1> HIDE DEF p1
<1>4. /\ WrittenIn(m, b, m2, p1, q2)
      /\ fdt_off_dt_struct(m2) = fdt_off_dt_struct(m) => NameThere(m2, x, s)
  BY <1>1, <1>p, <1>2, <1>3, NameStored
<1> HIDE DEF m2
<1>5. Good(m2) /\ fdt_off_dt_struct(m2) = fdt_off_dt_struct(m) /\ Spliced(m, m2, p1, q, q2)
  <2> HIDE DEF q, q2
  <2> QED BY <1>1, <1>2, <1>4, WrittenSpliced
<1>6. Sound(m2)
  BY <1>1, <1>p, <1>4, <1>5, NodeRenamed
<1> QED BY <1>6 DEF m2

\* fdt_set_name keeps a blob sound if that is so of the old and the new name.
LEMMA SetNameSound ==
    ASSUME NEW m, Good(m), Sound(m), NEW o, o \in TagOffsets(m, 0), NEW s, s \in Names, NEW t,
           NameFits(s), fdt_check_node_offset_(m, o) >= 0 => NameFits(NameAt(m, o))
    PROVE  Sound(SetName(m, o, s, t).m)
<1> DEFINE next  == fdt_check_node_offset_(m, o)
           a     == fdt_off_dt_struct(m) + o + 1
           old   == NameAt(m, o)
           W1    == Words(strlen(NameAt(m, o)) + 1)
           W2    == Words(strlen(s) + 1)
           r     == fdt_splice_struct_(m, a, W1, W2)
           cells == NameCells(r.m, a, s, t)
           f     == SetName(m, o, s, t)
           b     == r.m
           x     == o + 1
           q     == NextOf(m, o)
           q2    == NameEndAt(o, s)
<1>0. 0 \in 0 .. MemSize /\ MemSize \in Nat /\ Framed(m)
  BY MemAssumption, GoodFramed
<1>1. o \in Nat /\ next \in Int
  <2>1. o \in Nat
    BY <1>0, TagOffsetsUnfold
  <2> QED BY <2>1, CheckNode
<1>2. f = IF next < 0 THEN Return(next, m)
          ELSE IF r.ret # 0 THEN r
          ELSE Return(0, Store(r.m, a, cells))
  BY Zenon DEF SetName
<1>3. CASE next < 0
  <2>1. f.m = m
    <3> HIDE DEF f, next, cells, r
    <3> QED BY <1>2, <1>3 DEF Return
  <2> QED BY <2>1
<1>4. CASE next >= 0
  <2>1. Tag(m, o) = FDT_BEGIN_NODE /\ Named(m, o)
    <3>1. Tag(m, o) = FDT_BEGIN_NODE
      BY <1>4, GoodFramed, NodeItem
    <3>2. \E H, A : Tree(m, TagOffsets(m, 0), H, A)
      BY DEF Sound
    <3> QED BY <3>1, <3>2 DEF Tree, Nested
  <2>2. q = o + 1 + NameSize(old) /\ q <= fdt_size_dt_struct(m) /\ old \in Names
    <3>1. old \in Names
      BY <1>1, <1>4, NameIsName
    <3>2. q <= fdt_size_dt_struct(m)
      BY <1>0, <1>1, <2>1, NodeNext DEF Tag
    <3>3. q = o + 1 + NameSize(old)
      BY <2>1 DEF Named, NameAt, NameSize
    <3> QED BY <3>1, <3>2, <3>3
  <2>3. W1 = NameSize(old) /\ W1 \in Nat /\ W2 = NameSize(s) /\ W2 \in Nat
    <3>1. W1 = NameSize(old) /\ W2 = NameSize(s)
      BY <1>4 DEF NameFits
    <3> QED BY <2>2, <3>1, NameSizeNat
  <2>4. x \in Nat /\ x + W1 = q /\ x + W2 = q2 /\ x + W1 <= fdt_size_dt_struct(m)
    <3>1. q2 = o + (1 + W2)
      BY <2>3 DEF NameEndAt
    <3>2. q = o + 1 + W1
      BY <2>2, <2>3
    <3> HIDE DEF W1, W2, q, q2
    <3> QED BY <1>1, <2>2, <2>3, <3>1, <3>2
  <2>5. SplicedAt(m, r, x, W1, W2)
    <3>1. a = fdt_off_dt_struct(m) + x
      <4>1. fdt_off_dt_struct(m) \in Nat
        BY GoodFacts
      <4> QED BY <1>1, <4>1
    <3>2. r = fdt_splice_struct_(m, fdt_off_dt_struct(m) + x, W1, W2)
      <4> HIDE DEF a, x, W1, W2
      <4> QED BY <3>1
    <3> HIDE DEF r, x, W1, W2
    <3> QED BY <2>3, <2>4, <3>2, SpliceAt
  <2>6. f = IF r.ret # 0 THEN r ELSE Return(0, Store(r.m, a, cells))
    <3> HIDE DEF f, next, cells, r
    <3> QED BY <1>1, <1>2, <1>4
  <2>7. CASE r.ret # 0
    <3>1. f.m = r.m
      <4> HIDE DEF f, r, cells
      <4> QED BY <2>6, <2>7
    <3>2. r.m = m
      <4> HIDE DEF r
      <4> QED BY <2>5, <2>7 DEF SplicedAt
    <3> HIDE DEF f, r
    <3>3. Sound(f.m)
      BY <3>1, <3>2
    <3> QED BY <3>3 DEF f
  <2>8. CASE r.ret = 0
    <3>1. f.m = Store(b, a, cells)
      <4> HIDE DEF f, r, cells, a
      <4> QED BY <2>6, <2>8 DEF Return
    <3>2. PICK e \in {1, 2} : cells = CellsOfName(s, e)
      <4>1. cells = NameCells(b, a, s, t)
        OBVIOUS
      <4> HIDE DEF cells, a, b
      <4> QED BY <4>1, NameCopied
    <3>3. SplicedName(m, b, o, s)
      <4>1. Good(b) /\ fdt_off_dt_struct(b) = fdt_off_dt_struct(m)
        BY <2>5 DEF SplicedAt
      <4>2. Spliced(m, b, x, x + W1, x + W2)
        BY <2>5, <2>8 DEF SplicedAt
      <4>3. Spliced(m, b, x, q, q2)
        <5> HIDE DEF x, W1, W2, q, q2, b
        <5> QED BY <2>4, <4>2
      <4> HIDE DEF b
      <4> QED BY <4>1, <4>3 DEF SplicedName
    <3>4. a = fdt_off_dt_struct(m) + o + 1
      OBVIOUS
    <3>5. f.m = Store(b, a, CellsOfName(s, e))
      <4> HIDE DEF f, cells, b, a
      <4> QED BY <3>1, <3>2
    <3> HIDE DEF a, b, f, cells, r, next, old, W1, W2, x, q, q2
    <3>6. Sound(Store(b, a, CellsOfName(s, e)))
      BY <2>1, <3>2, <3>3, <3>4, NameChanged
    <3>7. Sound(f.m)
      BY <3>5, <3>6
    <3> QED BY <3>7 DEF f
  <2> QED BY <2>7, <2>8
<1> QED BY <1>1, <1>3, <1>4

-----------------------------------------------------------------------------
(* Blobs whose blocks are moved.                                           *)

\* A blob whose blocks are carried to other places stays sound.
LEMMA CarriedSound ==
    ASSUME NEW m, Good(m), Sound(m), NEW m2, Good(m2), Carried(m, m2)
    PROVE  Sound(m2)
<1>1. /\ fdt_size_dt_struct(m) \in Nat /\ fdt_size_dt_strings(m) \in Nat
      /\ fdt_size_dt_struct(m2) = fdt_size_dt_struct(m)
      /\ fdt_size_dt_strings(m2) = fdt_size_dt_strings(m)
  BY GoodFacts DEF Carried
<1>2. SameWords(m, 0, m2, 0, 0)
  BY DEF SameWords
<1>3. SameWords(m, 0, m2, 0, fdt_size_dt_struct(m))
  <2>1. \A i \in 0 .. fdt_size_dt_struct(m) - 1 : At(m2, i) = At(m, i)
    BY DEF Carried, At
  <2> DEFINE n == fdt_size_dt_struct(m)
  <2> HIDE DEF n
  <2>2. \A i \in 0 .. n - 1 : 0 + i = i
    OBVIOUS
  <2> QED BY <2>1, <2>2 DEF SameWords, n
<1>4. StringsNamed(m) => StringsNamed(m2)
  <2>1. \A i \in 0 .. fdt_size_dt_strings(m) - 1 :
          m2[fdt_off_dt_strings(m2) + i] = m[fdt_off_dt_strings(m) + i]
    BY DEF Carried
  <2> QED BY <1>1, <2>1 DEF StringsNamed
<1>5. Spliced(m, m2, 0, 0, 0)
  BY <1>1, <1>2, <1>3, <1>4 DEF Spliced
<1> QED BY <1>5, SoundSame

\* The offsets of a sound blob are those of a blob with the same block.
LEMMA CarriedOffset ==
    ASSUME NEW m, Good(m), NEW m2, Good(m2), Carried(m, m2),
           NEW o, o \in TagOffsets(m, 0), o <= fdt_size_dt_struct(m)
    PROVE  o \in TagOffsets(m2, 0)
<1>1. Framed(m) /\ Framed(m2)
  BY GoodFramed
<1>2. fdt_size_dt_struct(m2) = fdt_size_dt_struct(m) /\ fdt_size_dt_struct(m) \in Nat
  BY GoodFacts DEF Carried
<1>3. o \in Nat
  BY <1>1, TagOffsetsUnfold, MemAssumption
<1>4. SameWords(m, 0, m2, 0, o)
  <2>1. \A i \in 0 .. fdt_size_dt_struct(m) - 1 : At(m2, i) = At(m, i)
    BY DEF Carried, At
  <2> DEFINE n == fdt_size_dt_struct(m)
  <2>2. n \in Nat /\ o <= n
    BY <1>2
  <2> HIDE DEF n
  <2>3. \A i \in 0 .. o - 1 : 0 + i = i /\ i \in 0 .. n - 1
    BY <1>3, <2>2
  <2> QED BY <2>1, <2>3 DEF SameWords, n
<1> QED BY <1>1, <1>2, <1>4, SamePrefix

\* Every item of a sound blob ends inside the structure block.
LEMMA SoundItem ==
    ASSUME NEW m, Good(m), Sound(m), NEW o, o \in TagOffsets(m, 0)
    PROVE  o \in Nat /\ NextOf(m, o) \in Nat /\ o < NextOf(m, o)
           /\ NextOf(m, o) <= fdt_size_dt_struct(m)
           /\ (Tag(m, o) = FDT_BEGIN_NODE => Named(m, o))
<1>1. Framed(m) /\ Readable(m) /\ 0 \in 0 .. MemSize /\ fdt_size_dt_struct(m) \in Nat
  BY GoodFramed, GoodFacts, MemAssumption DEF Framed
<1> DEFINE T == TagOffsets(m, 0)
<1>2. T \subseteq 0 .. MemSize /\ o \in T
  BY <1>1, TagOffsetsUnfold
<1>3. PICK H, A : Tree(m, T, H, A)
  BY DEF Sound
<1>4. Nested(m, T, H, A, o)
  BY <1>2, <1>3 DEF Tree
<1>5. NextOf(m, o) \in Nat
  <2>1. CASE Tag(m, o) = FDT_END
    BY <1>1, <1>4, <2>1 DEF Nested
  <2>2. CASE Tag(m, o) # FDT_END
    BY <1>2, <1>4, <2>2, MemAssumption DEF Nested
  <2> QED BY <2>1, <2>2
<1>6. o \in Nat
  BY <1>2, MemAssumption
<1>7. o < NextOf(m, o) /\ NextOf(m, o) <= fdt_size_dt_struct(m)
  BY <1>1, <1>5, <1>6, NextTag DEF NextOf
<1>8. Tag(m, o) = FDT_BEGIN_NODE => Named(m, o)
  BY <1>4 DEF Nested
<1> QED BY <1>5, <1>6, <1>7, <1>8

\* The offsets that calls are made with are those of items.
LEMMA OffsetsVisited ==
    ASSUME Good(mem), NEW o, o \in Offsets
    PROVE  o \in TagOffsets(mem, 0)
<1> DEFINE w == Walk(mem, 0)
<1>1. \A x \in w : x.at \in TagOffsets(mem, 0)
  BY WalkItem
<1>2. Last(w) \in w
  BY WalkStop, GoodReadable
<1>3. Nodes(w) \subseteq TagOffsets(mem, 0)
  BY <1>1 DEF Nodes, Tagged
<1> QED BY <1>1, <1>2, <1>3 DEF Offsets

\* An item of a blob is the same item of a blob with the same block.
LEMMA CarriedItem ==
    ASSUME NEW m, Good(m), Sound(m), NEW m2, Good(m2), Carried(m, m2),
           NEW o, o \in TagOffsets(m, 0)
    PROVE  /\ Tag(m2, o) = Tag(m, o)
           /\ Tag(m, o) = FDT_BEGIN_NODE => NameAt(m2, o) = NameAt(m, o)
<1>1. Framed(m) /\ Framed(m2)
  BY GoodFramed
<1>2. /\ o \in Nat /\ NextOf(m, o) \in Nat /\ o < NextOf(m, o)
      /\ NextOf(m, o) <= fdt_size_dt_struct(m)
  BY SoundItem
<1> DEFINE n == NextOf(m, o) - o
           size == fdt_size_dt_struct(m)
<1>3. n \in Nat /\ o + n = NextOf(m, o) /\ o + n <= size
      /\ fdt_size_dt_struct(m2) = size
  BY <1>2 DEF Carried
<1>4. \A i \in 0 .. size - 1 : At(m2, i) = At(m, i)
  BY DEF Carried, At
<1>5. size \in Nat
  BY GoodFacts
<1>6. SameWords(m, o, m2, o, n)
  <2> HIDE DEF n, size
  <2>1. \A i \in 0 .. n - 1 : o + i \in 0 .. size - 1
    BY <1>2, <1>3, <1>5
  <2> QED BY <1>4, <2>1 DEF SameWords
<1>7. Tag(m2, o) = Tag(m, o)
  <2> HIDE DEF n
  <2> QED BY <1>1, <1>2, <1>3, <1>6, ItemShift
<1>8. ASSUME Tag(m, o) = FDT_BEGIN_NODE
      PROVE  NameAt(m2, o) = NameAt(m, o)
  <2>1. o + 2 <= NextOf(m, o)
    BY <1>1, <1>2, <1>8, NodeNext DEF Tag
  <2>2. o + 1 \in 0 .. size - 1
    BY <1>2, <1>5, <2>1
  <2>3. At(m2, o + 1) = At(m, o + 1)
    BY <1>4, <2>2
  <2> QED BY <2>3 DEF NameAt
<1> QED BY <1>7, <1>8

\* What they are made on, behind FDT_RW_CHECK_HEADER, is as sound as the blob
\* and has the same items.
LEMMA DowngradedSound ==
    ASSUME Good(mem), Sound(mem)
    PROVE  /\ Good(Downgraded(mem)) /\ Sound(Downgraded(mem))
           /\ fdt_rw_check_header_(mem) = 0
           /\ \A o \in Offsets : /\ o \in TagOffsets(mem, 0)
                                 /\ o \in TagOffsets(Downgraded(mem), 0)
           /\ \A o \in Offsets : fdt_check_node_offset_(Downgraded(mem), o) >= 0 =>
                /\ o \in Nodes(Walk(mem, 0))
                /\ NameAt(Downgraded(mem), o) = NameAt(mem, o)
<1> DEFINE d == Downgraded(mem)
<1>1. Good(d) /\ fdt_rw_check_header_(mem) = 0 /\ Carried(mem, d)
  BY DowngradedGood
<1> HIDE DEF d
<1>2. Sound(d)
  BY <1>1, CarriedSound
<1>3. ASSUME NEW o, o \in Offsets
      PROVE  o \in TagOffsets(mem, 0) /\ o \in TagOffsets(d, 0)
  <2>1. o \in TagOffsets(mem, 0)
    BY <1>3, OffsetsVisited
  <2>2. o <= fdt_size_dt_struct(mem)
    BY <2>1, SoundItem, GoodFacts
  <2> QED BY <1>1, <2>1, <2>2, CarriedOffset
<1>4. ASSUME NEW o, o \in Offsets, fdt_check_node_offset_(d, o) >= 0
      PROVE  o \in Nodes(Walk(mem, 0)) /\ NameAt(d, o) = NameAt(mem, o)
  <2>1. o \in TagOffsets(mem, 0) /\ o \in TagOffsets(d, 0)
    BY <1>3, <1>4
  <2>2. Tag(d, o) = FDT_BEGIN_NODE
    BY <1>1, <1>4, <2>1, GoodFramed, NodeItem
  <2>3. Tag(mem, o) = FDT_BEGIN_NODE /\ NameAt(d, o) = NameAt(mem, o)
    BY <1>1, <2>1, <2>2, CarriedItem
  <2> QED BY <2>1, <2>3, NodesOfWalk DEF Tag
<1> QED BY <1>1, <1>2, <1>3, <1>4 DEF d

HIDE DEF FDT_BEGIN_NODE, FDT_END_NODE, FDT_PROP, FDT_NOP, FDT_END,
         FDT_ERR_NOTFOUND, FDT_ERR_EXISTS, FDT_ERR_NOSPACE, FDT_ERR_BADOFFSET,
         FDT_ERR_BADSTATE, FDT_ERR_TRUNCATED, FDT_ERR_BADMAGIC, FDT_ERR_BADVERSION,
         FDT_ERR_BADSTRUCTURE, FDT_ERR_BADLAYOUT, FDT_MAGIC, FDT_SW_MAGIC,
         HeaderSize, RsvSize, PropSize, hMagic, hTotalsize, hOffDtStruct,
         hOffDtStrings, hOffMemRsvmap, hVersion, hLastCompVersion, hBootCpuidPhys,
         hSizeDtStrings, hSizeDtStruct

-----------------------------------------------------------------------------
(* Every call keeps the tree.                                              *)

\* The blobs that the program is given hold trees, as dtc writes them.
ImagesSound == \A m \in Images : Sound(m)

\* A property is given a name.
PropsNamed == "" \notin PropNames

\* What fdt_set_name and fdt_add_subnode ask of names, because they take their
\* length from strlen(): the name that is stored and the one that it replaces
\* take no more words with that length.
FittingNames ==
    /\ fdt_set_name \/ fdt_add_subnode => NameFits(call'.name)
    /\ fdt_set_name =>
         \A o \in Nodes(Walk(mem, 0)) :
             NumberOf(o) = call'.node => NameFits(NameAt(mem, o))

\* Names that properties are given.
LEMMA NamesGiven ==
    ASSUME PropsNamed
    PROVE  \A s \in PropNames : IsName(s)
  BY ArgAssumption DEF PropsNamed, IsName

\* A call whose outcome is sound makes a sound step.
LEMMA ReturnsSound ==
    ASSUME NEW c, NEW r, Returns(c, r), Sound(r.m)
    PROVE  Sound(mem')
<1>1. mem' = r.m
  BY DEF Returns
<1> QED BY <1>1, Zenon

\* Every call keeps a sound blob sound.
LEMMA StepSound ==
    ASSUME Good(mem), Sound(mem), FittingNames, PropsNamed, Next
    PROVE  Sound(mem')
<1>0. /\ Good(Downgraded(mem)) /\ Sound(Downgraded(mem))
      /\ fdt_rw_check_header_(mem) = 0
      /\ \A o \in Offsets : /\ o \in TagOffsets(mem, 0)
                            /\ o \in TagOffsets(Downgraded(mem), 0)
      /\ \A o \in Offsets : fdt_check_node_offset_(Downgraded(mem), o) >= 0 =>
           /\ o \in Nodes(Walk(mem, 0))
           /\ NameAt(Downgraded(mem), o) = NameAt(mem, o)
  BY DowngradedSound
<1>1. CASE fdt_open_into
  <2>1. PICK size \in BufSizes :
          Returns(Call("open_into", 0, None, NoVal, size),
                  OpenInto(mem, size))
    BY <1>1 DEF fdt_open_into
  <2> DEFINE c == Call("open_into", 0, None, NoVal, size)
             r == OpenInto(mem, size)
  <2>2. Returns(c, r)
    BY <2>1
  <2>3. Good(r.m) /\ Carried(mem, r.m)
    BY OpenIntoGood, BufAssumption
  <2>4. Sound(r.m)
    BY <2>3, CarriedSound
  <2> HIDE DEF c, r
  <2> QED BY <2>2, <2>4, ReturnsSound
<1>2. CASE fdt_pack
  <2>1. RwReturns(Call("pack", 0, None, NoVal, 0), Pack)
    BY <1>2 DEF fdt_pack
  <2> DEFINE c == Call("pack", 0, None, NoVal, 0)
             r == Pack(Downgraded(mem))
  <2>2. Returns(c, r)
    BY <1>0, <2>1 DEF RwReturns
  <2>3. Good(r.m) /\ Carried(Downgraded(mem), r.m)
    BY <1>0, PackSafe DEF Safe
  <2>4. Sound(r.m)
    BY <1>0, <2>3, CarriedSound
  <2> HIDE DEF c, r
  <2> QED BY <2>2, <2>4, ReturnsSound
<1>3. CASE fdt_add_mem_rsv
  <2>1. PICK rsv \in Rsvs :
          RwReturns(Call("add_mem_rsv", 0, None, <<rsv.address, rsv.size>>, 0),
                    LAMBDA m : AddMemRsv(m, rsv))
    BY <1>3 DEF fdt_add_mem_rsv
  <2> DEFINE c == Call("add_mem_rsv", 0, None, <<rsv.address, rsv.size>>, 0)
             r == AddMemRsv(Downgraded(mem), rsv)
  <2>2. Returns(c, r)
    BY <1>0, <2>1 DEF RwReturns
  <2>3. rsv \in [address : Nat, size : Nat]
    BY ArgAssumption
  <2>5. Good(r.m) /\ Carried(Downgraded(mem), r.m)
    BY <1>0, <2>3, AddMemRsvSafe DEF Safe
  <2>4. Sound(r.m)
    BY <1>0, <2>5, CarriedSound
  <2> HIDE DEF c, r
  <2> QED BY <2>2, <2>4, ReturnsSound
<1>4. CASE fdt_del_mem_rsv
  <2>1. PICK n \in 0 .. fdt_num_mem_rsv(mem) :
          RwReturns(Call("del_mem_rsv", 0, None, NoVal, n),
                    LAMBDA m : DelMemRsv(m, n))
    BY <1>4 DEF fdt_del_mem_rsv
  <2> DEFINE c == Call("del_mem_rsv", 0, None, NoVal, n)
             r == DelMemRsv(Downgraded(mem), n)
  <2>2. Returns(c, r)
    BY <1>0, <2>1 DEF RwReturns
  <2>3. n \in Nat
    OBVIOUS
  <2>5. Good(r.m) /\ Carried(Downgraded(mem), r.m)
    BY <1>0, <2>3, DelMemRsvSafe DEF Safe
  <2>4. Sound(r.m)
    BY <1>0, <2>5, CarriedSound
  <2> HIDE DEF c, r
  <2> QED BY <2>2, <2>4, ReturnsSound
<1>5. CASE fdt_set_name
  <2>1. PICK o \in Offsets, s \in NodeNames, t \in NameTails :
          RwReturns(Call("set_name", NumberOf(o), s, NoVal, 0),
                    LAMBDA m : SetName(m, o, s, t))
    BY <1>5 DEF fdt_set_name
  <2> DEFINE c == Call("set_name", NumberOf(o), s, NoVal, 0)
             r == SetName(Downgraded(mem), o, s, t)
  <2>2. Returns(c, r)
    BY <1>0, <2>1 DEF RwReturns
  <2>3. s \in Names /\ o \in TagOffsets(Downgraded(mem), 0)
    BY <1>0, ArgAssumption
  <2>5. call'.name = s /\ call'.node = NumberOf(o)
    BY <2>2, Zenon DEF Returns, Call
  <2>6. NameFits(s)
    BY <1>5, <2>5, Zenon DEF FittingNames
  <2>7. fdt_check_node_offset_(Downgraded(mem), o) >= 0 =>
          NameFits(NameAt(Downgraded(mem), o))
    <3> SUFFICES ASSUME fdt_check_node_offset_(Downgraded(mem), o) >= 0
                 PROVE  NameFits(NameAt(Downgraded(mem), o))
      OBVIOUS
    <3>1. o \in Nodes(Walk(mem, 0)) /\ NameAt(Downgraded(mem), o) = NameAt(mem, o)
      BY <1>0
    <3>2. NameFits(NameAt(mem, o))
      BY <1>5, <2>5, <3>1, Zenon DEF FittingNames
    <3> QED BY <3>1, <3>2, Zenon
  <2>4. Sound(r.m)
    BY <1>0, <2>3, <2>6, <2>7, SetNameSound
  <2> HIDE DEF c, r
  <2> QED BY <2>2, <2>4, ReturnsSound
<1>6. CASE fdt_setprop
  <2>1. PICK o \in Offsets, s \in PropNames, t \in StrTails, v \in Vals :
          RwReturns(Call("setprop", NumberOf(o), s, v, 0),
                    LAMBDA m : SetProp(m, o, s, t, v))
    BY <1>6 DEF fdt_setprop
  <2> DEFINE c == Call("setprop", NumberOf(o), s, v, 0)
             r == SetProp(Downgraded(mem), o, s, t, v)
  <2>2. Returns(c, r)
    BY <1>0, <2>1 DEF RwReturns
  <2>3. IsName(s)
    BY NamesGiven
  <2>5. t \in Nat /\ v \in Seq(Byte) /\ o \in TagOffsets(Downgraded(mem), 0)
    BY <1>0, ArgAssumption
  <2>4. Sound(r.m)
    BY <1>0, <2>3, <2>5, SetPropSound
  <2> HIDE DEF c, r
  <2> QED BY <2>2, <2>4, ReturnsSound
<1>7. CASE fdt_appendprop
  <2>1. PICK o \in Offsets, s \in PropNames, t \in StrTails, v \in Vals :
          RwReturns(Call("appendprop", NumberOf(o), s, v, 0),
                    LAMBDA m : AppendProp(m, o, s, t, v))
    BY <1>7 DEF fdt_appendprop
  <2> DEFINE c == Call("appendprop", NumberOf(o), s, v, 0)
             r == AppendProp(Downgraded(mem), o, s, t, v)
  <2>2. Returns(c, r)
    BY <1>0, <2>1 DEF RwReturns
  <2>3. IsName(s)
    BY NamesGiven
  <2>5. t \in Nat /\ v \in Seq(Byte) /\ o \in TagOffsets(Downgraded(mem), 0)
    BY <1>0, ArgAssumption
  <2>4. Sound(r.m)
    BY <1>0, <2>3, <2>5, AppendPropSound
  <2> HIDE DEF c, r
  <2> QED BY <2>2, <2>4, ReturnsSound
<1>8. CASE fdt_delprop
  <2>1. PICK o \in Offsets, s \in PropNames :
          RwReturns(Call("delprop", NumberOf(o), s, NoVal, 0),
                    LAMBDA m : DelProp(m, o, s))
    BY <1>8 DEF fdt_delprop
  <2> DEFINE c == Call("delprop", NumberOf(o), s, NoVal, 0)
             r == DelProp(Downgraded(mem), o, s)
  <2>2. Returns(c, r)
    BY <1>0, <2>1 DEF RwReturns
  <2>4. Sound(r.m)
    BY <1>0, DelPropSound
  <2> HIDE DEF c, r
  <2> QED BY <2>2, <2>4, ReturnsSound
<1>9. CASE fdt_add_subnode_namelen
  <2>1. PICK o \in Offsets, s \in NodeNames :
          RwReturns(Call("add_subnode_namelen", NumberOf(o), s, NoVal, 0),
                    LAMBDA m : AddSubnode(m, o, [s |-> s, namelen |-> NameLen[s]]))
    BY <1>9 DEF fdt_add_subnode_namelen
  <2> DEFINE c == Call("add_subnode_namelen", NumberOf(o), s, NoVal, 0)
             nm == [s |-> s, namelen |-> NameLen[s]]
             r == AddSubnode(Downgraded(mem), o, nm)
  <2>2. Returns(c, r)
    BY <1>0, <2>1 DEF RwReturns
  <2>3. s \in Names
    BY ArgAssumption
  <2>5. nm.s = s /\ nm.namelen = NameLen[s]
    BY DEF nm
  <2>6. Words(nm.namelen + 1) = NameSize(nm.s)
    BY <2>5, Zenon DEF NameSize
  <2>7. o \in TagOffsets(Downgraded(mem), 0)
    BY <1>0
  <2> HIDE DEF nm
  <2>4. Sound(r.m)
    BY <1>0, <2>3, <2>5, <2>6, <2>7, AddSubnodeSound
  <2> HIDE DEF c, r
  <2> QED BY <2>2, <2>4, ReturnsSound
<1>10. CASE fdt_add_subnode
  <2>1. PICK o \in Offsets, s \in NodeNames :
          RwReturns(Call("add_subnode", NumberOf(o), s, NoVal, 0),
                    LAMBDA m : AddSubnode(m, o, [s |-> s, namelen |-> strlen(s)]))
    BY <1>10 DEF fdt_add_subnode
  <2> DEFINE c == Call("add_subnode", NumberOf(o), s, NoVal, 0)
             nm == [s |-> s, namelen |-> strlen(s)]
             r == AddSubnode(Downgraded(mem), o, nm)
  <2>2. Returns(c, r)
    BY <1>0, <2>1 DEF RwReturns
  <2>3. s \in Names
    BY ArgAssumption
  <2>5. nm.s = s /\ nm.namelen = strlen(s)
    BY DEF nm
  <2>6. Words(nm.namelen + 1) = NameSize(nm.s)
    <3>1. call'.name = s
      BY <2>2, Zenon DEF Returns, Call
    <3>2. NameFits(s)
      BY <1>10, <3>1, Zenon DEF FittingNames
    <3> QED BY <2>5, <3>2, Zenon DEF NameFits
  <2>7. o \in TagOffsets(Downgraded(mem), 0)
    BY <1>0
  <2> HIDE DEF nm
  <2>4. Sound(r.m)
    BY <1>0, <2>3, <2>5, <2>6, <2>7, AddSubnodeSound
  <2> HIDE DEF c, r
  <2> QED BY <2>2, <2>4, ReturnsSound
<1>11. CASE fdt_del_node
  <2>1. PICK o \in Offsets :
          RwReturns(Call("del_node", NumberOf(o), None, NoVal, 0),
                    LAMBDA m : DelNode(m, o))
    BY <1>11 DEF fdt_del_node
  <2> DEFINE c == Call("del_node", NumberOf(o), None, NoVal, 0)
             r == DelNode(Downgraded(mem), o)
  <2>2. Returns(c, r)
    BY <1>0, <2>1 DEF RwReturns
  <2>4. Sound(r.m)
    BY <1>0, DelNodeSound
  <2> HIDE DEF c, r
  <2> QED BY <2>2, <2>4, ReturnsSound
<1>12. CASE fdt_setprop_inplace
  <2>1. PICK o \in Offsets, s \in PropNames, v \in Vals :
          Returns(Call("setprop_inplace", NumberOf(o), s, v, 0),
                  SetPropInplace(mem, o, s, v))
    BY <1>12 DEF fdt_setprop_inplace
  <2> DEFINE c == Call("setprop_inplace", NumberOf(o), s, v, 0)
             r == SetPropInplace(mem, o, s, v)
  <2>2. Returns(c, r)
    BY <2>1
  <2>3. v \in Seq(Byte)
    BY ArgAssumption
  <2>4. Sound(r.m)
    BY <1>0, <2>3, SetPropInplaceSound
  <2> HIDE DEF c, r
  <2> QED BY <2>2, <2>4, ReturnsSound
<1>13. CASE fdt_setprop_inplace_namelen_partial
  <2>1. PICK o \in Offsets, s \in PropNames, v \in Vals, idx \in 0..1 :
          Returns(Call("setprop_inplace_partial", NumberOf(o), s, v, idx),
                  SetPropPartial(mem, o, s, idx, v))
    BY <1>13 DEF fdt_setprop_inplace_namelen_partial
  <2> DEFINE c == Call("setprop_inplace_partial", NumberOf(o), s, v, idx)
             r == SetPropPartial(mem, o, s, idx, v)
  <2>2. Returns(c, r)
    BY <2>1
  <2>3. v \in Seq(Byte) /\ idx \in Nat
    BY ArgAssumption
  <2>4. Sound(r.m)
    BY <1>0, <2>3, SetPropPartialSound
  <2> HIDE DEF c, r
  <2> QED BY <2>2, <2>4, ReturnsSound
<1>14. CASE fdt_nop_property
  <2>1. PICK o \in Offsets, s \in PropNames :
          Returns(Call("nop_property", NumberOf(o), s, NoVal, 0),
                  NopProperty(mem, o, s))
    BY <1>14 DEF fdt_nop_property
  <2> DEFINE c == Call("nop_property", NumberOf(o), s, NoVal, 0)
             r == NopProperty(mem, o, s)
  <2>2. Returns(c, r)
    BY <2>1
  <2>4. Sound(r.m)
    BY <1>0, NopPropertySound
  <2> HIDE DEF c, r
  <2> QED BY <2>2, <2>4, ReturnsSound
<1>15. CASE fdt_nop_node
  <2>1. PICK o \in Offsets :
          Returns(Call("nop_node", NumberOf(o), None, NoVal, 0),
                  NopNode(mem, o))
    BY <1>15 DEF fdt_nop_node
  <2> DEFINE c == Call("nop_node", NumberOf(o), None, NoVal, 0)
             r == NopNode(mem, o)
  <2>2. Returns(c, r)
    BY <2>1
  <2>4. Sound(r.m)
    BY <1>0, NopNodeSound
  <2> HIDE DEF c, r
  <2> QED BY <2>2, <2>4, ReturnsSound
<1> QED BY <1>1, <1>2, <1>3, <1>4, <1>5, <1>6, <1>7, <1>8, <1>9, <1>10, <1>11, <1>12, <1>13, <1>14, <1>15 DEF Next

\* A name that fits is replaced inside the structure block.
LEMMA FittingInBlock ==
    ASSUME Good(mem), Sound(mem), FittingNames
    PROVE  fdt_set_name => NameInBlock
<1> DEFINE d == Downgraded(mem)
<1>0. Good(d) /\ Sound(d)
  BY DowngradedSound
<1> SUFFICES ASSUME fdt_set_name, NEW o, o \in Offsets, NumberOf(o) = call'.node,
                    fdt_check_node_offset_(d, o) >= 0
             PROVE  o + 1 + Words(strlen(NameAt(d, o)) + 1) <= fdt_size_dt_struct(d)
  BY DEF NameInBlock
<1>1. /\ o \in TagOffsets(d, 0) /\ o \in Nodes(Walk(mem, 0))
      /\ NameAt(d, o) = NameAt(mem, o)
  BY DowngradedSound
<1>2. NameFits(NameAt(d, o))
  BY <1>1, Zenon DEF FittingNames
<1> HIDE DEF d
<1>3. Tag(d, o) = FDT_BEGIN_NODE
  BY <1>0, <1>1, GoodFramed, NodeItem
<1>4. Named(d, o) /\ NextOf(d, o) <= fdt_size_dt_struct(d)
  BY <1>0, <1>1, <1>3, SoundItem
<1>5. NextOf(d, o) = o + 1 + NameSize(NameAt(d, o))
  BY <1>4, Zenon DEF Named, NameSize, NameAt
<1>6. NameSize(NameAt(d, o)) = Words(strlen(NameAt(d, o)) + 1)
  BY <1>2, Zenon DEF NameFits
<1>7. NextOf(d, o) = o + 1 + Words(strlen(NameAt(d, o)) + 1)
  BY <1>5, <1>6, Zenon
<1> QED BY <1>4, <1>7, Zenon

-----------------------------------------------------------------------------
(* The calls on a blob that is not in order, or not of this version.       *)

\* The offsets that calls are made with are natural numbers then, too.
LEMMA PlacedOffsets ==
    ASSUME Placed(mem)
    PROVE  Offsets \subseteq Nat
<1> DEFINE w == Walk(mem, 0)
<1>1. Last(w) \in w /\ \A x \in w : x.at \in Nat
  BY PlacedWalk
<1>2. Nodes(w) \subseteq Nat
  BY <1>1 DEF Nodes, Tagged
<1> QED BY <1>1, <1>2 DEF Offsets

\* What a step on any blob promises.
CallContained ==
    /\ ops < MaxOps /\ ops' = ops + 1
    /\ Placed(mem') /\ ret' \in Int
    /\ \A a \in 0 .. MemSize - 1 :
            a >= fdt_totalsize(mem') /\ a >= fdt_totalsize(mem) => mem'[a] = mem[a]
    /\ call'.op # "open_into" => fdt_totalsize(mem') <= fdt_totalsize(mem)

\* A call on such a blob keeps this promise,
LEMMA ReturnsContained ==
    ASSUME Placed(mem), NEW c, NEW r, Returns(c, r), StaysPlaced(mem, r)
    PROVE  CallContained
<1>1. fdt_totalsize(mem) \in Nat /\ fdt_totalsize(r.m) = fdt_totalsize(mem)
  BY PlacedFacts DEF StaysPlaced
<1>2. /\ ops < MaxOps /\ ops' = ops + 1 /\ mem' = r.m /\ ret' = r.ret
  BY Zenon DEF Returns
<1>3. /\ Placed(mem') /\ ret' \in Int /\ Within(mem, mem')
      /\ fdt_totalsize(mem') = fdt_totalsize(mem)
  BY <1>1, <1>2, Zenon DEF StaysPlaced
<1> QED BY <1>1, <1>2, <1>3 DEF CallContained, Within

\* and so does one that FDT_RW_CHECK_HEADER refuses.
LEMMA RefusedContained ==
    ASSUME Placed(mem), NEW c, Returns(c, Return(fdt_rw_check_header_(mem), mem))
    PROVE  CallContained
<1> DEFINE e == fdt_rw_check_header_(mem)
           r == Return(e, mem)
<1>1. e \in Int
  BY DEF fdt_rw_check_header_, fdt_check_header, FDT_MAGIC, FDT_SW_MAGIC,
         FDT_ERR_BADMAGIC, FDT_ERR_BADSTATE, FDT_ERR_BADVERSION, FDT_ERR_BADLAYOUT
<1> HIDE DEF e
<1>2. StaysPlaced(mem, r)
  BY <1>1, PlacedSame DEF Return
<1>3. Returns(c, r)
  BY DEF e
<1> HIDE DEF r
<1> QED BY <1>2, <1>3, ReturnsContained

\* Every call on a blob that the editing functions refuse keeps its blocks
\* inside it and itself inside its buffer.
LEMMA RefusedStep ==
    ASSUME Placed(mem), fdt_rw_check_header_(mem) # 0, Next
    PROVE  CallContained
<1>0. Offsets \subseteq Nat
  BY PlacedOffsets
<1>1. CASE fdt_open_into
  <2>1. PICK size \in BufSizes :
          Returns(Call("open_into", 0, None, NoVal, size), OpenInto(mem, size))
    BY <1>1 DEF fdt_open_into
  <2> DEFINE r == OpenInto(mem, size)
  <2>2. Opened(mem, r)
    BY OpenIntoPlaced, BufAssumption
  <2>3. /\ mem' = r.m /\ ret' = r.ret /\ call'.op = "open_into"
        /\ ops < MaxOps /\ ops' = ops + 1
    BY <2>1, Zenon DEF Returns, Call
  <2> HIDE DEF r
  <2> QED BY <2>2, <2>3 DEF CallContained, Opened
<1>2. CASE fdt_pack
  <2>1. Returns(Call("pack", 0, None, NoVal, 0),
                Return(fdt_rw_check_header_(mem), mem))
    BY <1>2 DEF fdt_pack, RwReturns
  <2> QED BY <2>1, RefusedContained
<1>3. CASE fdt_add_mem_rsv
  <2>1. PICK rsv \in Rsvs :
          Returns(Call("add_mem_rsv", 0, None, <<rsv.address, rsv.size>>, 0),
                  Return(fdt_rw_check_header_(mem), mem))
    BY <1>3 DEF fdt_add_mem_rsv, RwReturns
  <2> QED BY <2>1, RefusedContained
<1>4. CASE fdt_del_mem_rsv
  <2>1. PICK n \in 0 .. fdt_num_mem_rsv(mem) :
          Returns(Call("del_mem_rsv", 0, None, NoVal, n),
                  Return(fdt_rw_check_header_(mem), mem))
    BY <1>4 DEF fdt_del_mem_rsv, RwReturns
  <2> QED BY <2>1, RefusedContained
<1>5. CASE fdt_set_name
  <2>1. PICK o \in Offsets, s \in NodeNames, t \in NameTails :
          Returns(Call("set_name", NumberOf(o), s, NoVal, 0),
                  Return(fdt_rw_check_header_(mem), mem))
    BY <1>5 DEF fdt_set_name, RwReturns
  <2> QED BY <2>1, RefusedContained
<1>6. CASE fdt_setprop
  <2>1. PICK o \in Offsets, s \in PropNames, t \in StrTails, v \in Vals :
          Returns(Call("setprop", NumberOf(o), s, v, 0),
                  Return(fdt_rw_check_header_(mem), mem))
    BY <1>6 DEF fdt_setprop, RwReturns
  <2> QED BY <2>1, RefusedContained
<1>7. CASE fdt_appendprop
  <2>1. PICK o \in Offsets, s \in PropNames, t \in StrTails, v \in Vals :
          Returns(Call("appendprop", NumberOf(o), s, v, 0),
                  Return(fdt_rw_check_header_(mem), mem))
    BY <1>7 DEF fdt_appendprop, RwReturns
  <2> QED BY <2>1, RefusedContained
<1>8. CASE fdt_delprop
  <2>1. PICK o \in Offsets, s \in PropNames :
          Returns(Call("delprop", NumberOf(o), s, NoVal, 0),
                  Return(fdt_rw_check_header_(mem), mem))
    BY <1>8 DEF fdt_delprop, RwReturns
  <2> QED BY <2>1, RefusedContained
<1>9. CASE fdt_add_subnode_namelen
  <2>1. PICK o \in Offsets, s \in NodeNames :
          Returns(Call("add_subnode_namelen", NumberOf(o), s, NoVal, 0),
                  Return(fdt_rw_check_header_(mem), mem))
    BY <1>9 DEF fdt_add_subnode_namelen, RwReturns
  <2> QED BY <2>1, RefusedContained
<1>10. CASE fdt_add_subnode
  <2>1. PICK o \in Offsets, s \in NodeNames :
          Returns(Call("add_subnode", NumberOf(o), s, NoVal, 0),
                  Return(fdt_rw_check_header_(mem), mem))
    BY <1>10 DEF fdt_add_subnode, RwReturns
  <2> QED BY <2>1, RefusedContained
<1>11. CASE fdt_del_node
  <2>1. PICK o \in Offsets :
          Returns(Call("del_node", NumberOf(o), None, NoVal, 0),
                  Return(fdt_rw_check_header_(mem), mem))
    BY <1>11 DEF fdt_del_node, RwReturns
  <2> QED BY <2>1, RefusedContained
<1>12. CASE fdt_setprop_inplace
  <2>1. PICK o \in Offsets, s \in PropNames, v \in Vals :
          Returns(Call("setprop_inplace", NumberOf(o), s, v, 0),
                  SetPropInplace(mem, o, s, v))
    BY <1>12 DEF fdt_setprop_inplace
  <2> DEFINE c == Call("setprop_inplace", NumberOf(o), s, v, 0)
             r == SetPropInplace(mem, o, s, v)
  <2>2. o \in Nat /\ v \in Seq(Byte)
    BY <1>0, ArgAssumption
  <2>3. StaysPlaced(mem, r)
    BY <2>2, SetPropInplacePlaced
  <2>4. Returns(c, r)
    BY <2>1
  <2> HIDE DEF c, r
  <2> QED BY <2>3, <2>4, ReturnsContained
<1>13. CASE fdt_setprop_inplace_namelen_partial
  <2>1. PICK o \in Offsets, s \in PropNames, v \in Vals, idx \in 0..1 :
          Returns(Call("setprop_inplace_partial", NumberOf(o), s, v, idx),
                  SetPropPartial(mem, o, s, idx, v))
    BY <1>13 DEF fdt_setprop_inplace_namelen_partial
  <2> DEFINE c == Call("setprop_inplace_partial", NumberOf(o), s, v, idx)
             r == SetPropPartial(mem, o, s, idx, v)
  <2>2. o \in Nat /\ v \in Seq(Byte) /\ idx \in Nat
    BY <1>0, ArgAssumption
  <2>3. StaysPlaced(mem, r)
    BY <2>2, SetPropPartialPlaced
  <2>4. Returns(c, r)
    BY <2>1
  <2> HIDE DEF c, r
  <2> QED BY <2>3, <2>4, ReturnsContained
<1>14. CASE fdt_nop_property
  <2>1. PICK o \in Offsets, s \in PropNames :
          Returns(Call("nop_property", NumberOf(o), s, NoVal, 0),
                  NopProperty(mem, o, s))
    BY <1>14 DEF fdt_nop_property
  <2> DEFINE c == Call("nop_property", NumberOf(o), s, NoVal, 0)
             r == NopProperty(mem, o, s)
  <2>2. o \in Nat
    BY <1>0, ArgAssumption
  <2>3. StaysPlaced(mem, r)
    BY <2>2, NopPropertyPlaced
  <2>4. Returns(c, r)
    BY <2>1
  <2> HIDE DEF c, r
  <2> QED BY <2>3, <2>4, ReturnsContained
<1>15. CASE fdt_nop_node
  <2>1. PICK o \in Offsets :
          Returns(Call("nop_node", NumberOf(o), None, NoVal, 0),
                  NopNode(mem, o))
    BY <1>15 DEF fdt_nop_node
  <2> DEFINE c == Call("nop_node", NumberOf(o), None, NoVal, 0)
             r == NopNode(mem, o)
  <2>2. o \in Nat
    BY <1>0, ArgAssumption
  <2>3. StaysPlaced(mem, r)
    BY <2>2, NopNodePlaced
  <2>4. Returns(c, r)
    BY <2>1
  <2> HIDE DEF c, r
  <2> QED BY <2>3, <2>4, ReturnsContained
<1> QED BY <1>1, <1>2, <1>3, <1>4, <1>5, <1>6, <1>7, <1>8, <1>9, <1>10, <1>11, <1>12, <1>13, <1>14, <1>15 DEF Next

\* Every call on any blob does.
LEMMA StepContained ==
    ASSUME Placed(mem), fdt_set_name => NameInBlock, Next
    PROVE  CallContained
<1>1. CASE fdt_rw_check_header_(mem) # 0
  BY <1>1, RefusedStep
<1>2. CASE fdt_rw_check_header_(mem) = 0
  <2>1. Good(mem)
    BY <1>2, CheckedGood
  <2>2. CallSafe
    BY <2>1, Step
  <2>3. Placed(mem')
    BY <2>2, GoodPlaced DEF CallSafe
  <2> QED BY <2>2, <2>3 DEF CallSafe, CallContained, Within
<1> QED BY <1>1, <1>2

-----------------------------------------------------------------------------
(* The theorems.                                                           *)

\* What the theorems assume of the caller: a name is replaced only if it ends,
\* its extra bytes included, inside the structure block.  A program that, like
\* the matcher, never calls fdt_set_name satisfies it.
NamesReplaced == [][fdt_set_name => NameInBlock]_vars

\* The inductive invariant, of blobs with their blocks anywhere inside them.
PInv == Placed(mem) /\ ret \in Int /\ ops \in 0 .. MaxOps

\* The invariant holds of the blobs the program is given.
LEMMA PlacedStart ==
    ASSUME ImagesPlaced, Init
    PROVE  PInv
  BY ArgAssumption DEF ImagesPlaced, Init, PInv

\* Every step preserves the invariant.
LEMMA PlacedPreserved ==
    PInv /\ [Next]_vars /\ [fdt_set_name => NameInBlock]_vars => PInv'
<1> SUFFICES ASSUME PInv, [Next]_vars, [fdt_set_name => NameInBlock]_vars
             PROVE  PInv'
  OBVIOUS
<1>1. CASE UNCHANGED vars
  <2>1. mem' = mem /\ ret' = ret /\ ops' = ops
    BY <1>1 DEF vars
  <2> QED BY <2>1, Zenon DEF PInv
<1>2. CASE Next /\ (fdt_set_name => NameInBlock)
  <2>1. CallContained
    BY <1>2, StepContained DEF PInv
  <2>2. ops' \in 0 .. MaxOps
    BY <2>1, ArgAssumption DEF CallContained, PInv
  <2> QED BY <2>1, <2>2 DEF CallContained, PInv
<1> QED BY <1>1, <1>2

\* The state always has its type, however many calls are made on however large
\* a blob.
THEOREM TypeCorrect ==
    ASSUME ImagesPlaced
    PROVE  Spec /\ NamesReplaced => []TypeOK
<1>1. Init => PInv
  BY PlacedStart
<1>2. PInv /\ [Next]_vars /\ [fdt_set_name => NameInBlock]_vars => PInv'
  BY PlacedPreserved
<1>3. PInv => TypeOK
  BY DEF PInv, Placed, Memory, TypeOK
<1> QED BY <1>1, <1>2, <1>3, PTL DEF Spec, NamesReplaced

\* Whatever blob is opened, the editing functions work on blobs that are in
\* order only: the check of one reservation entry in fdt_rw_check_header_ is
\* enough after every edit.
THEOREM LayoutKept ==
    ASSUME ImagesPlaced
    PROVE  Spec /\ NamesReplaced => []Layout
<1>1. Init => PInv
  BY PlacedStart
<1>2. PInv /\ [Next]_vars /\ [fdt_set_name => NameInBlock]_vars => PInv'
  BY PlacedPreserved
<1>3. PInv => Layout
  BY CheckedGood DEF PInv, Good, Layout
<1> QED BY <1>1, <1>2, <1>3, PTL DEF Spec, NamesReplaced

\* No call writes behind the end of the blob's buffer.
THEOREM NothingOverrun ==
    ASSUME ImagesPlaced
    PROVE  Spec /\ NamesReplaced => NoOverrun
<1> DEFINE A ==
    /\ \A a \in DOMAIN mem : a >= fdt_totalsize(mem') /\ a >= fdt_totalsize(mem)
            => mem'[a] = mem[a]
    /\ call'.op # "open_into" => fdt_totalsize(mem') <= fdt_totalsize(mem)
<1>1. Init => PInv
  BY PlacedStart
<1>2. PInv /\ [Next]_vars /\ [fdt_set_name => NameInBlock]_vars => PInv'
  BY PlacedPreserved
<1>3. PInv /\ [Next]_vars /\ [fdt_set_name => NameInBlock]_vars => [A]_vars
  <2> SUFFICES ASSUME PInv, fdt_set_name => NameInBlock, Next
               PROVE  A
    OBVIOUS
  <2>1. CallContained
    BY StepContained DEF PInv
  <2>2. DOMAIN mem = 0 .. MemSize - 1
    BY DEF PInv, Placed, Memory
  <2> QED BY <2>1, <2>2 DEF CallContained
<1> QED BY <1>1, <1>2, <1>3, PTL DEF Spec, NamesReplaced, NoOverrun

\* The inductive invariant of blobs that were in order from the start.
IInv == Good(mem) /\ ret \in Int /\ ops \in 0 .. MaxOps

\* It holds of the blobs the program is given,
LEMMA Start ==
    ASSUME ImagesInOrder, Init
    PROVE  IInv
  BY ArgAssumption DEF ImagesInOrder, Init, IInv, Good, Memory

\* and every step preserves it.
LEMMA Preserved ==
    IInv /\ [Next]_vars /\ [fdt_set_name => NameInBlock]_vars => IInv'
<1> SUFFICES ASSUME IInv, [Next]_vars, [fdt_set_name => NameInBlock]_vars
             PROVE  IInv'
  OBVIOUS
<1>1. CASE UNCHANGED vars
  BY <1>1 DEF vars, IInv
<1>2. CASE Next /\ (fdt_set_name => NameInBlock)
  <2>1. CallSafe
    BY <1>2, Step DEF IInv
  <2>2. ops' \in 0 .. MaxOps
    BY <2>1, ArgAssumption DEF CallSafe, IInv
  <2> QED BY <2>1, <2>2 DEF CallSafe, IInv
<1> QED BY <1>1, <1>2

\* An edit of a node leaves the offsets and the names of that node and of all
\* nodes in front of it as they were; fdt_set_name leaves the offsets.
THEOREM OffsetsKept ==
    ASSUME ImagesInOrder
    PROVE  Spec /\ NamesReplaced => OffsetsStable
<1> DEFINE A ==
    call'.node # 0 /\ call'.op \notin {"del_node", "nop_node"} =>
        LET w  == Walk(mem, 0)
            w2 == Walk(mem', 0)
        IN  \A t \in Nodes(w) : NodeNo(w, t) <= call'.node =>
              /\ NodeNo(w2, t) = NodeNo(w, t)
              /\ call'.op # "set_name" => NameAt(mem', t) = NameAt(mem, t)
<1>1. Init => IInv
  BY Start
<1>2. IInv /\ [Next]_vars /\ [fdt_set_name => NameInBlock]_vars => IInv'
  BY Preserved
<1>3. IInv /\ [Next]_vars /\ [fdt_set_name => NameInBlock]_vars => [A]_vars
  <2> SUFFICES ASSUME IInv, fdt_set_name => NameInBlock, Next
               PROVE  A
    OBVIOUS
  <2>1. Stable
    BY StepStable DEF IInv
  <2> QED BY <2>1, Zenon DEF Stable, SamePlaces
<1> QED BY <1>1, <1>2, <1>3, PTL DEF Spec, NamesReplaced, OffsetsStable

\* What the tree needs of the caller's names.
NamesFit == [][FittingNames]_vars

\* A blob that holds a tree holds one after every call.
THEOREM TreeKept ==
    ASSUME ImagesInOrder, ImagesSound, PropsNamed, StringsReach
    PROVE  Spec /\ NamesFit => []WellFormed
<1> DEFINE J == IInv /\ Sound(mem)
<1>1. Init => J
  <2> SUFFICES ASSUME Init PROVE J
    OBVIOUS
  <2>1. IInv
    BY Start
  <2>2. mem \in Images
    BY DEF Init
  <2> QED BY <2>1, <2>2 DEF ImagesSound
<1>2. J /\ [Next]_vars /\ [FittingNames]_vars => J'
  <2> SUFFICES ASSUME J, [Next]_vars, [FittingNames]_vars
               PROVE  IInv' /\ Sound(mem')
    OBVIOUS
  <2>1. CASE UNCHANGED vars
    <3>1. IInv' /\ mem' = mem
      BY <2>1 DEF vars, IInv
    <3> QED BY <3>1, Zenon
  <2>2. CASE Next /\ FittingNames
    <3>1. fdt_set_name => NameInBlock
      BY <2>2, FittingInBlock DEF IInv
    <3>2. IInv'
      BY <2>2, <3>1, Preserved
    <3>3. Sound(mem')
      BY <2>2, StepSound DEF IInv
    <3> QED BY <3>2, <3>3
  <2> QED BY <2>1, <2>2
<1>3. J => WellFormed
  BY SoundWellFormed DEF IInv
<1> QED BY <1>1, <1>2, <1>3, PTL DEF Spec, NamesFit

=============================================================================
