----------------------------- MODULE FdtRwLemmas -----------------------------
(***************************************************************************)
(* Lemmas about the operators of FdtBlob and FdtRw: what the functions of  *)
(* libfdt that edit a blob do to one that is in order, and to a walk over  *)
(* its tags, for every size of the memory and every set of names and       *)
(* values.                                                                 *)
(***************************************************************************)
EXTENDS FdtRw, NatLemmas, FiniteSetTheorems, TLAPS

Memory == [0 .. MemSize - 1 -> Cell]

\* The strengthening of Layout that every call preserves.
Good(m) == m \in Memory /\ InOrder(m)

GoodHeader(m) ==
    /\ \A h \in 0 .. HeaderSize - 1 : m[h].k = "num"
    /\ fdt_magic(m) = FDT_MAGIC
    /\ fdt_version(m) >= 17
    /\ fdt_last_comp_version(m) <= 17
    /\ fdt_totalsize(m) <= BufSize

\* All that the tag functions need: a blob, finished or not, inside the memory.
Readable(m) ==
    m \in Memory /\ fdt_version(m) >= 17 /\ fdt_totalsize(m) <= MemSize

\* m2 differs from m only below the end of the blob.
Within(m, m2) ==
    \A a \in 0 .. MemSize - 1 : a >= fdt_totalsize(m) => m2[a] = m[a]

-----------------------------------------------------------------------------

USE DEF FDT_BEGIN_NODE, FDT_END_NODE, FDT_PROP, FDT_NOP, FDT_END,
        FDT_ERR_NOTFOUND, FDT_ERR_EXISTS, FDT_ERR_NOSPACE, FDT_ERR_BADOFFSET,
        FDT_ERR_BADSTATE, FDT_ERR_TRUNCATED, FDT_ERR_BADMAGIC, FDT_ERR_BADVERSION,
        FDT_ERR_BADSTRUCTURE, FDT_ERR_BADLAYOUT, FDT_MAGIC, FDT_SW_MAGIC,
        HeaderSize, RsvSize, PropSize, hMagic, hTotalsize, hOffDtStruct,
        hOffDtStrings, hOffMemRsvmap, hVersion, hLastCompVersion, hBootCpuidPhys,
        hSizeDtStrings, hSizeDtStruct

\* Every cell has a value, and a number can be stored in every cell.
LEMMA CellFacts ==
    /\ \A c \in Cell : Value(c) \in Nat
    /\ \A x \in Nat : Num(x) \in Cell /\ Value(Num(x)) = x /\ Num(x).k = "num"
    /\ \A s \in Names, t \in Nat : Str(s, t) \in Cell /\ Name(s, t) \in Cell
    /\ \A d \in [1..4 -> Byte] : Bytes(d) \in Cell
    /\ Text \in Cell
  BY NameAssumption, ByteAssumption
  DEF Cell, Value, Num, Str, Name, Bytes, Text, NoBytes, FDT_TEXT

\* The fields of the header are numbers.
LEMMA HeaderNat ==
    ASSUME NEW m \in Memory
    PROVE  /\ fdt_totalsize(m) \in Nat /\ fdt_off_dt_struct(m) \in Nat
           /\ fdt_off_dt_strings(m) \in Nat /\ fdt_off_mem_rsvmap(m) \in Nat
           /\ fdt_size_dt_struct(m) \in Nat /\ fdt_size_dt_strings(m) \in Nat
           /\ fdt_version(m) \in Nat /\ fdt_last_comp_version(m) \in Nat
           /\ fdt_magic(m) \in Nat /\ fdt_boot_cpuid_phys(m) \in Nat
<1>1. \A h \in 0..9 : m[h] \in Cell
  BY MemAssumption DEF Memory
<1> QED BY <1>1, CellFacts
    DEF fdt_totalsize, fdt_off_dt_struct, fdt_off_dt_strings, fdt_off_mem_rsvmap,
        fdt_size_dt_struct, fdt_size_dt_strings, fdt_version, fdt_last_comp_version,
        fdt_magic, fdt_boot_cpuid_phys

\* What a blob in order looks like.
LEMMA GoodFacts ==
    ASSUME NEW m, Good(m)
    PROVE  /\ m \in Memory
           /\ MemSize \in Nat /\ BufSize \in Nat
           /\ fdt_totalsize(m) \in Nat /\ fdt_off_dt_struct(m) \in Nat
           /\ fdt_off_dt_strings(m) \in Nat /\ fdt_off_mem_rsvmap(m) \in Nat
           /\ fdt_size_dt_struct(m) \in Nat /\ fdt_size_dt_strings(m) \in Nat
           /\ fdt_version(m) \in Nat /\ fdt_version(m) >= 17
           /\ fdt_last_comp_version(m) \in Nat
           /\ HeaderSize <= fdt_off_mem_rsvmap(m)
           /\ fdt_off_mem_rsvmap(m) + RsvSize <= fdt_off_dt_struct(m)
           /\ fdt_off_dt_struct(m) + fdt_size_dt_struct(m) <= fdt_off_dt_strings(m)
           /\ fdt_off_dt_strings(m) + fdt_size_dt_strings(m) <= fdt_totalsize(m)
           /\ fdt_totalsize(m) <= BufSize /\ BufSize <= MemSize
<1>1. PICK n \in 0 .. MemSize : ~fdt_blocks_misordered_(m, RsvSize * (n + 1), fdt_size_dt_struct(m))
  BY DEF Good, InOrder
<1>2. m \in Memory /\ MemSize \in Nat /\ BufSize \in Nat /\ BufSize <= MemSize
      /\ fdt_totalsize(m) <= BufSize /\ fdt_version(m) >= 17
  BY MemAssumption, BufAssumption DEF Good, InOrder
<1> QED BY <1>1, <1>2, HeaderNat DEF fdt_blocks_misordered_

\* A blob in order can be read.
LEMMA GoodReadable == \A m : Good(m) => Readable(m)
<1> SUFFICES ASSUME NEW m, Good(m) PROVE Readable(m)
  OBVIOUS
<1> QED BY GoodFacts DEF Readable

-----------------------------------------------------------------------------
(* Tags and walks.                                                         *)

\* Word counts of byte counts.
LEMMA WordsNat == \A n \in Nat : Words(n) \in Nat
  BY DEF Words

\* A tag that fdt_next_tag accepts ends behind its start and inside the
\* structure block; a property spans its header and its value.
LEMMA NextTag ==
    ASSUME NEW m, Readable(m), NEW o \in Nat
    PROVE  LET nt == fdt_next_tag(m, o)
           IN  /\ nt.next \in Nat \cup {-FDT_ERR_TRUNCATED, -FDT_ERR_BADSTRUCTURE}
               /\ nt.tag # FDT_END => nt.next \in Nat
               /\ nt.next \in Nat =>
                    o < nt.next /\ nt.next <= fdt_size_dt_struct(m)
               /\ nt.tag = FDT_PROP =>
                    /\ PropLen(m, o) \in Nat
                    /\ nt.next = o + PropSize + Words(PropLen(m, o))
<1>0. /\ m \in Memory /\ MemSize \in Nat /\ fdt_totalsize(m) \in Nat
      /\ fdt_off_dt_struct(m) \in Nat /\ fdt_size_dt_struct(m) \in Nat
      /\ fdt_version(m) >= 17 /\ fdt_totalsize(m) <= MemSize
  BY HeaderNat, MemAssumption DEF Readable
<1>1. \A x \in Nat : fdt_offset_ptr(m, x, 1) => At(m, x) \in Cell /\ Value(At(m, x)) \in Nat
  <2> SUFFICES ASSUME NEW x \in Nat, fdt_offset_ptr(m, x, 1)
               PROVE  At(m, x) \in Cell /\ Value(At(m, x)) \in Nat
    OBVIOUS
  <2>1. fdt_off_dt_struct(m) + x \in 0 .. MemSize - 1
    BY <1>0 DEF fdt_offset_ptr
  <2>2. At(m, x) \in Cell
    BY <1>0, <2>1 DEF At, Memory
  <2> QED BY <2>2, CellFacts
<1> USE <1>0
<1>2. CASE ~fdt_offset_ptr(m, o, 1)
  BY <1>2 DEF fdt_next_tag, TagTo, TagEnd
<1>3. CASE fdt_offset_ptr(m, o, 1) /\ Value(At(m, o)) = FDT_BEGIN_NODE
  <2>1. StringEnd(m, o + 1) = 0 \/ StringEnd(m, o + 1) \in o + 2 .. MemSize
    BY DEF StringEnd
  <2> QED BY <1>3, <2>1 DEF fdt_next_tag, TagTo, TagEnd, fdt_offset_ptr
<1>4. CASE fdt_offset_ptr(m, o, 1) /\ Value(At(m, o)) = FDT_PROP
  <2>1. CASE fdt_offset_ptr(m, o + 1, 1)
    <3>1. PropLen(m, o) \in Nat /\ Words(PropLen(m, o)) \in Nat
      BY <1>1, <2>1, WordsNat DEF PropLen
    <3>2. fdt_next_tag(m, o) =
            IF ~fdt_offset_ptr(m, o, PropSize + Words(PropLen(m, o)))
            THEN [tag |-> FDT_END, next |-> -FDT_ERR_BADSTRUCTURE]
            ELSE [tag |-> FDT_PROP, next |-> o + PropSize + Words(PropLen(m, o))]
      BY <1>4, <2>1, <3>1 DEF fdt_next_tag, TagTo, TagEnd, PropLen
    <3> QED BY <3>1, <3>2 DEF fdt_offset_ptr
  <2>2. CASE ~fdt_offset_ptr(m, o + 1, 1)
    BY <1>4, <2>2 DEF fdt_next_tag, TagTo, TagEnd
  <2> QED BY <2>1, <2>2
<1>5. CASE fdt_offset_ptr(m, o, 1) /\ Value(At(m, o)) \in {FDT_END, FDT_END_NODE, FDT_NOP}
  BY <1>5 DEF fdt_next_tag, TagTo, TagEnd, fdt_offset_ptr
<1>6. CASE fdt_offset_ptr(m, o, 1)
           /\ Value(At(m, o)) \notin {FDT_BEGIN_NODE, FDT_PROP, FDT_END, FDT_END_NODE, FDT_NOP}
  BY <1>6 DEF fdt_next_tag, TagTo, TagEnd
<1> QED BY <1>2, <1>3, <1>4, <1>5, <1>6

\* fdt_check_node_offset_ returns an error or the offset behind the node's name.
LEMMA CheckNode ==
    ASSUME NEW m, Good(m), NEW o \in Nat
    PROVE  LET n == fdt_check_node_offset_(m, o)
           IN  /\ n \in Int
               /\ n >= 0 => o < n /\ n <= fdt_size_dt_struct(m)
  BY NextTag, GoodReadable DEF fdt_check_node_offset_

\* Non-empty sets of items have a first item and, if bounded, a last one.
LEMMA FirstItem ==
    ASSUME NEW S, S # {}, \A x \in S : x.at \in Nat
    PROVE  First(S) \in S /\ \A y \in S : First(S).at <= y.at
<1> DEFINE T == {x.at : x \in S}
<1>1. T \subseteq Nat /\ T # {}
  OBVIOUS
<1>2. PICK t \in T : \A u \in T : t <= u
  BY <1>1, LeastNatural
<1>3. PICK x \in S : x.at = t
  OBVIOUS
<1>4. \A y \in S : x.at <= y.at
  BY <1>2, <1>3
<1> QED BY <1>4 DEF First

\* A bounded non-empty set of items has a last one.
LEMMA LastItem ==
    ASSUME NEW S, S # {}, NEW B \in Nat, \A x \in S : x.at \in 0 .. B
    PROVE  Last(S) \in S
<1> DEFINE T == {B - x.at : x \in S}
<1>1. T \subseteq Nat /\ T # {}
  OBVIOUS
<1>2. PICK t \in T : \A u \in T : t <= u
  BY <1>1, LeastNatural
<1>3. PICK x \in S : B - x.at = t
  OBVIOUS
<1>4. \A y \in S : x.at >= y.at
  <2> TAKE y \in S
  <2>1. B - y.at \in T
    OBVIOUS
  <2>2. B - x.at <= B - y.at
    BY <1>2, <1>3, <2>1
  <2>3. x.at \in Nat /\ y.at \in Nat
    OBVIOUS
  <2> QED BY <2>2, <2>3
<1> QED BY <1>4 DEF Last

\* The items of a walk start where it starts or later, and are what
\* fdt_next_tag says of them.
LEMMA WalkItems ==
    ASSUME NEW m, NEW o \in Nat
    PROVE  /\ Walk(m, o) # {}
           /\ \A x \in Walk(m, o) : /\ x.at \in o .. o + MemSize
                                    /\ x.tag = fdt_next_tag(m, x.at).tag
                                    /\ x.next = fdt_next_tag(m, x.at).next
<1>1. PICK V : TagOffsets(m, o) = {o} \cup (V \cap o .. MemSize)
  BY Zenon DEF TagOffsets
<1>2. o \in TagOffsets(m, o) /\ TagOffsets(m, o) \subseteq o .. o + MemSize
  BY <1>1, MemAssumption
<1>3. Item(m, o) \in Walk(m, o)
  BY <1>2, Zenon DEF Walk
<1>4. ASSUME NEW x \in Walk(m, o)
      PROVE  /\ x.at \in o .. o + MemSize
             /\ x.tag = fdt_next_tag(m, x.at).tag
             /\ x.next = fdt_next_tag(m, x.at).next
  <2>1. PICK t \in TagOffsets(m, o) : x = Item(m, t)
    BY DEF Walk
  <2>2. x.at = t /\ x.tag = fdt_next_tag(m, t).tag /\ x.next = fdt_next_tag(m, t).next
    BY <2>1, Zenon DEF Item
  <2> QED BY <1>2, <2>2
<1> QED BY <1>3, <1>4

-----------------------------------------------------------------------------
(* Searches.                                                               *)

\* Subsets of a walk: their items, and the first of them.
LEMMA WalkFirst ==
    ASSUME NEW m, Good(m), NEW o \in Nat, NEW S, S \subseteq Walk(m, o), S # {}
    PROVE  /\ First(S) \in S
           /\ First(S).at \in Nat /\ First(S).at >= o
           /\ First(S).tag = fdt_next_tag(m, First(S).at).tag
           /\ First(S).next = fdt_next_tag(m, First(S).at).next
<1>1. \A x \in S : x.at \in Nat /\ x.at >= o
  BY WalkItems, MemAssumption
<1>2. First(S) \in S
  BY <1>1, FirstItem
<1> QED BY <1>1, <1>2, WalkItems

\* The error at the end of a walk is an error.
LEMMA EndErrorNegative ==
    ASSUME NEW m, Good(m), NEW o \in Nat
    PROVE  EndError(Walk(m, o)) \in Int /\ EndError(Walk(m, o)) < 0
<1>1. \A x \in Walk(m, o) : x.at \in 0 .. o + MemSize
  BY WalkItems, MemAssumption
<1>2. Last(Walk(m, o)) \in Walk(m, o)
  <2>1. o + MemSize \in Nat
    BY MemAssumption
  <2> QED BY <1>1, <2>1, WalkItems, LastItem
<1>3. Last(Walk(m, o)).next \in Int
  BY <1>1, <1>2, WalkItems, NextTag, GoodReadable, MemAssumption
<1> QED BY <1>3 DEF EndError

\* A node ends behind its start and inside the structure block.
LEMMA NodeEnd ==
    ASSUME NEW m, Good(m), NEW o \in Nat
    PROVE  LET end == fdt_node_end_offset_(m, o)
           IN  /\ end \in Int
               /\ end >= 0 => o < end /\ end <= fdt_size_dt_struct(m)
<1> DEFINE next == fdt_check_node_offset_(m, o)
           w    == Walk(m, next)
<1>1. next \in Int /\ (next >= 0 => o < next)
  BY CheckNode
<1>2. CASE next < 0
  BY <1>1, <1>2 DEF fdt_node_end_offset_, EndOfNode
<1>3. CASE next >= 0 /\ Closes(w) # {}
  <2>1. Closes(w) \subseteq w /\ \A x \in Closes(w) : x.tag = FDT_END_NODE
    BY DEF Closes, Tagged
  <2> DEFINE c == First(Closes(w))
  <2>2. /\ c \in Closes(w) /\ c.at \in Nat /\ c.at >= next
        /\ c.tag = fdt_next_tag(m, c.at).tag /\ c.next = fdt_next_tag(m, c.at).next
    BY <1>1, <1>3, <2>1, WalkFirst
  <2>3. c.next \in Nat /\ c.at < c.next /\ c.next <= fdt_size_dt_struct(m)
    BY <2>1, <2>2, NextTag, GoodReadable
  <2>4. fdt_node_end_offset_(m, o) = c.next
    BY <1>1, <1>3 DEF fdt_node_end_offset_, EndOfNode
  <2> HIDE DEF c, next
  <2> QED BY <1>1, <1>3, <2>2, <2>3, <2>4
<1>4. CASE next >= 0 /\ Closes(w) = {}
  BY <1>1, <1>4, EndErrorNegative DEF fdt_node_end_offset_, EndOfNode
<1> QED BY <1>1, <1>2, <1>3, <1>4

\* The last item of a walk, and the item behind the properties, are items.
LEMMA WalkStop ==
    ASSUME NEW m, Readable(m), NEW o \in Nat
    PROVE  LET w == Walk(m, o)
           IN  /\ Last(w) \in w
               /\ AfterProps(w) \in w
               /\ AfterProps(w).at \in Nat /\ AfterProps(w).at >= o
               /\ AfterProps(w).next \in Int
               /\ AfterProps(w).at <= Last(w).at
               /\ \A x \in Closes(w) : AfterProps(w).at <= x.at
<1> DEFINE w == Walk(m, o)
           S == {x \in w : x.tag \notin {FDT_PROP, FDT_NOP}} \cup {Last(w)}
<1>1. \A x \in w : x.at \in 0 .. o + MemSize /\ x.at \in Nat /\ x.at >= o
  BY WalkItems, MemAssumption
<1>2. Last(w) \in w
  <2>1. o + MemSize \in Nat /\ w # {}
    BY MemAssumption, WalkItems
  <2> HIDE DEF w
  <2> QED BY <1>1, <2>1, LastItem
<1>3. S # {} /\ S \subseteq w
  BY <1>2
<1>4. AfterProps(w) = First(S)
  BY DEF AfterProps
<1>5. First(S) \in S /\ \A y \in S : First(S).at <= y.at
  <2> HIDE DEF S
  <2> QED BY <1>1, <1>3, FirstItem
<1>6. \A x \in Closes(w) : x \in S
  BY DEF Closes, Tagged
<1>7. \A x \in w : x.next \in Int
  BY <1>1, WalkItems, NextTag
<1> QED BY <1>1, <1>2, <1>3, <1>4, <1>5, <1>6, <1>7

\* A property that is found lies inside the structure block, and a search
\* that finds none returns an error.
LEMMA GetProperty ==
    ASSUME NEW m, Good(m), NEW o \in Nat, NEW name
    PROVE  LET p == fdt_get_property(m, o, name)
           IN  /\ p \in Int
               /\ p >= 0 => /\ PropLen(m, p) \in Nat
                            /\ p + PropSize + Words(PropLen(m, p)) <= fdt_size_dt_struct(m)
<1> DEFINE next == fdt_check_node_offset_(m, o)
           w    == Walk(m, next)
           hits == {x \in Tagged(w, {FDT_PROP}) :
                        /\ x.at < AfterProps(w).at
                        /\ fdt_string(m, Value(At(m, x.at + 2))) = name}
<1>1. next \in Int
  BY CheckNode
<1>2. CASE next < 0
  BY <1>1, <1>2 DEF fdt_get_property, PropertyIn
<1>3. CASE next >= 0 /\ hits # {}
  <2>1. hits \subseteq w /\ \A x \in hits : x.tag = FDT_PROP
    BY DEF Tagged
  <2> DEFINE c == First(hits)
  <2>2. c \in hits /\ c.at \in Nat /\ c.tag = fdt_next_tag(m, c.at).tag
    <3> HIDE DEF hits
    <3> QED BY <1>1, <1>3, <2>1, WalkFirst
  <2>3. fdt_get_property(m, o, name) = c.at
    BY <1>1, <1>3 DEF fdt_get_property, PropertyIn
  <2>4. fdt_next_tag(m, c.at).tag = FDT_PROP
    BY <2>1, <2>2
  <2> HIDE DEF c
  <2> QED BY <2>2, <2>3, <2>4, NextTag, GoodReadable
<1>4. CASE next >= 0 /\ hits = {}
  <2>1. AfterProps(w).next \in Int
    BY <1>1, <1>4, WalkStop, GoodReadable
  <2> QED BY <1>1, <1>4, <2>1 DEF fdt_get_property, PropertyIn
<1> QED BY <1>1, <1>2, <1>3, <1>4

-----------------------------------------------------------------------------
(* Edits of the structure and strings blocks.                              *)

\* A blob stays in order when nothing in front of its structure block changes
\* but its header, and the blocks still fit.
LEMMA BlocksKept ==
    ASSUME NEW m, Good(m), NEW m2 \in Memory, GoodHeader(m2),
           fdt_off_mem_rsvmap(m2) = fdt_off_mem_rsvmap(m),
           fdt_off_dt_struct(m2) = fdt_off_dt_struct(m),
           fdt_off_dt_struct(m2) + fdt_size_dt_struct(m2) <= fdt_off_dt_strings(m2),
           fdt_off_dt_strings(m2) + fdt_size_dt_strings(m2) <= fdt_totalsize(m2),
           \A a \in HeaderSize .. fdt_off_dt_struct(m) - 1 : m2[a] = m[a]
    PROVE  Good(m2)
<1>0. /\ fdt_off_mem_rsvmap(m) \in Nat /\ HeaderSize <= fdt_off_mem_rsvmap(m)
      /\ fdt_off_dt_struct(m) \in Nat /\ MemSize \in Nat
      /\ fdt_totalsize(m) \in Nat
  BY GoodFacts
<1>2. PICK n \in 0 .. MemSize :
        /\ ~fdt_blocks_misordered_(m, RsvSize * (n + 1), fdt_size_dt_struct(m))
        /\ IsNumMemRsv(m, n)
  BY DEF Good, InOrder
<1>3. ~fdt_blocks_misordered_(m2, RsvSize * (n + 1), fdt_size_dt_struct(m2))
  BY <1>0, <1>2, HeaderNat DEF fdt_blocks_misordered_
<1>4. \A i \in 0 .. n : IsLastRsv(m2, i) <=> IsLastRsv(m, i)
  <2> TAKE i \in 0 .. n
  <2>1. /\ fdt_off_mem_rsvmap(m) + RsvSize * i + 2 \in HeaderSize .. fdt_off_dt_struct(m) - 1
        /\ fdt_off_mem_rsvmap(m) + RsvSize * i + 3 \in HeaderSize .. fdt_off_dt_struct(m) - 1
    BY <1>0, <1>2 DEF fdt_blocks_misordered_
  <2> QED BY <2>1 DEF IsLastRsv
<1>5. IsNumMemRsv(m2, n)
  BY <1>2, <1>4 DEF IsNumMemRsv
<1> QED BY <1>2, <1>3, <1>5 DEF Good, InOrder, GoodHeader

\* The same when in the header, too, only the sizes and places of the blocks
\* change.
LEMMA GoodKept ==
    ASSUME NEW m, Good(m), NEW m2 \in Memory,
           \A h \in 0 .. HeaderSize - 1 : m2[h].k = "num",
           fdt_magic(m2) = fdt_magic(m), fdt_version(m2) = fdt_version(m),
           fdt_last_comp_version(m2) = fdt_last_comp_version(m),
           fdt_totalsize(m2) = fdt_totalsize(m),
           fdt_off_mem_rsvmap(m2) = fdt_off_mem_rsvmap(m),
           fdt_off_dt_struct(m2) = fdt_off_dt_struct(m),
           fdt_off_dt_struct(m2) + fdt_size_dt_struct(m2) <= fdt_off_dt_strings(m2),
           fdt_off_dt_strings(m2) + fdt_size_dt_strings(m2) <= fdt_totalsize(m2),
           \A a \in HeaderSize .. fdt_off_dt_struct(m) - 1 : m2[a] = m[a]
    PROVE  Good(m2)
<1>1. GoodHeader(m2)
  BY DEF Good, InOrder, GoodHeader
<1> QED BY <1>1, BlocksKept

\* Memory primitives keep the type of the memory.
LEMMA SetMemory ==
    ASSUME NEW m \in Memory, NEW a, NEW x \in Nat
    PROVE  /\ Set(m, a, x) \in Memory
           /\ \A b \in 0 .. MemSize - 1 : b # a => Set(m, a, x)[b] = m[b]
           /\ a \in 0 .. MemSize - 1 => Set(m, a, x)[a] = Num(x)
  BY CellFacts DEF Set, Memory

\* memmove writes its n cells and nothing else.
LEMMA MoveMemory ==
    ASSUME NEW m \in Memory, NEW dst \in Nat, NEW src \in Nat, NEW n \in Int,
           src + n <= MemSize
    PROVE  /\ Move(m, dst, src, n) \in Memory
           /\ \A a \in 0 .. MemSize - 1 :
                a < dst \/ a >= dst + n => Move(m, dst, src, n)[a] = m[a]
           /\ \A a \in 0 .. MemSize - 1 :
                a >= dst /\ a < dst + n => Move(m, dst, src, n)[a] = m[src + a - dst]
<1>1. DOMAIN m = 0 .. MemSize - 1
  BY DEF Memory
<1>2. \A a \in 0 .. MemSize - 1 :
        a \in dst .. dst + n - 1 => src + a - dst \in 0 .. MemSize - 1
  BY MemAssumption
<1> QED BY <1>1, <1>2, MemAssumption DEF Move, Memory

\* The first e words of the structure block are where they were.
Kept(m, m2, e) ==
    /\ m2 \in Memory
    /\ fdt_off_dt_struct(m2) = fdt_off_dt_struct(m)
    /\ e <= fdt_size_dt_struct(m2)
    /\ \A a \in fdt_off_dt_struct(m) .. fdt_off_dt_struct(m) + e - 1 : m2[a] = m[a]

\* What a splice of the structure block does to a blob in order.
LEMMA SpliceStruct ==
    ASSUME NEW m, Good(m), NEW p \in Nat, NEW oldlen \in Nat, NEW newlen \in Nat,
           fdt_off_dt_struct(m) <= p,
           p + oldlen <= fdt_off_dt_struct(m) + fdt_size_dt_struct(m)
    PROVE  LET r == fdt_splice_struct_(m, p, oldlen, newlen)
           IN  /\ r.ret \in Int /\ r.ret <= 0
               /\ Good(r.m) /\ Within(m, r.m)
               /\ fdt_totalsize(r.m) = fdt_totalsize(m)
               /\ fdt_off_dt_struct(r.m) = fdt_off_dt_struct(m)
               /\ Kept(m, r.m, p - fdt_off_dt_struct(m))
               /\ r.ret = 0 => fdt_size_dt_struct(r.m) =
                                    fdt_size_dt_struct(m) + newlen - oldlen
<1> DEFINE end == fdt_data_size_(m)
           s   == fdt_splice_(m, p, oldlen, newlen)
           r   == fdt_splice_struct_(m, p, oldlen, newlen)
           m0  == Move(m, p + newlen, p + oldlen, end - p - oldlen)
           m1  == Set(m0, hSizeDtStruct, fdt_size_dt_struct(m0) + (newlen - oldlen))
           m2  == Set(m1, hOffDtStrings, fdt_off_dt_strings(m1) + (newlen - oldlen))
<1>0. /\ m \in Memory /\ MemSize \in Nat /\ MemSize >= 10
      /\ fdt_totalsize(m) \in Nat /\ fdt_off_dt_struct(m) \in Nat
      /\ fdt_off_dt_strings(m) \in Nat /\ fdt_off_mem_rsvmap(m) \in Nat
      /\ fdt_size_dt_struct(m) \in Nat /\ fdt_size_dt_strings(m) \in Nat
      /\ HeaderSize + RsvSize <= fdt_off_dt_struct(m)
      /\ fdt_off_dt_struct(m) + fdt_size_dt_struct(m) <= fdt_off_dt_strings(m)
      /\ end = fdt_off_dt_strings(m) + fdt_size_dt_strings(m)
      /\ end <= fdt_totalsize(m) /\ fdt_totalsize(m) <= MemSize
  BY GoodFacts, MemAssumption DEF fdt_data_size_
<1>1. CASE s.ret # 0
  <2>1. s.ret \in {-FDT_ERR_BADOFFSET, -FDT_ERR_NOSPACE} /\ s.m = m
    BY <1>1 DEF fdt_splice_, Return
  <2>2. r = s
    BY <1>1 DEF fdt_splice_struct_
  <2>3. Kept(m, m, p - fdt_off_dt_struct(m))
    BY <1>0 DEF Kept
  <2> QED BY <1>0, <1>1, <2>1, <2>2, <2>3 DEF Within
<1>2. CASE s.ret = 0
  <2>1. end - oldlen + newlen <= fdt_totalsize(m) /\ s = [ret |-> 0, m |-> m0, p |-> 0]
    BY <1>0, <1>2 DEF fdt_splice_, Return
  <2>2. r = [ret |-> 0, m |-> m2, p |-> 0]
    BY <1>2, <2>1 DEF fdt_splice_struct_, Return
  <2>3. /\ m0 \in Memory
        /\ \A a \in 0 .. MemSize - 1 :
              a < p + newlen \/ a >= fdt_totalsize(m) => m0[a] = m[a]
    <3>1. end - p - oldlen \in Int /\ p + newlen \in Nat /\ p + oldlen \in Nat
      BY <1>0
    <3>2. p + oldlen + (end - p - oldlen) <= MemSize
      BY <1>0
    <3>3. p + newlen + (end - p - oldlen) <= fdt_totalsize(m)
      BY <1>0, <2>1
    <3>4. /\ m0 \in Memory
          /\ \A a \in 0 .. MemSize - 1 :
               a < p + newlen \/ a >= p + newlen + (end - p - oldlen) => m0[a] = m[a]
      <4> DEFINE n == end - p - oldlen
                 dst == p + newlen
                 src == p + oldlen
      <4>1. n \in Int /\ dst \in Nat /\ src \in Nat /\ src + n <= MemSize /\ m \in Memory
        BY <1>0, <3>1, <3>2
      <4>2. m0 = Move(m, dst, src, n)
        OBVIOUS
      <4> HIDE DEF m0, n, dst, src
      <4>3. /\ m0 \in Memory
            /\ \A a \in 0 .. MemSize - 1 : a < dst \/ a >= dst + n => m0[a] = m[a]
        BY <4>1, <4>2, MoveMemory
      <4> QED BY <4>3 DEF n, dst, src
    <3> HIDE DEF end, m0
    <3> QED BY <1>0, <3>1, <3>3, <3>4
  <2>4. \A h \in 0 .. 9 : m0[h] = m[h]
    BY <1>0, <2>3
  <2>5. /\ fdt_size_dt_struct(m0) = fdt_size_dt_struct(m)
        /\ fdt_off_dt_strings(m0) = fdt_off_dt_strings(m)
    BY <2>4 DEF fdt_size_dt_struct, fdt_off_dt_strings
  <2> DEFINE size == fdt_size_dt_struct(m) + (newlen - oldlen)
             offs == fdt_off_dt_strings(m) + (newlen - oldlen)
  <2>6. size \in Nat /\ offs \in Nat
    BY <1>0
  <2>7. /\ m1 \in Memory /\ m1[hSizeDtStruct] = Num(size)
        /\ \A a \in 0 .. MemSize - 1 : a # hSizeDtStruct => m1[a] = m0[a]
    <3> HIDE DEF m0, size
    <3> QED BY <1>0, <2>3, <2>5, <2>6, SetMemory DEF size
  <2>8. fdt_off_dt_strings(m1) = fdt_off_dt_strings(m)
    <3> HIDE DEF m1, m0
    <3> QED BY <1>0, <2>4, <2>7 DEF fdt_off_dt_strings
  <2>9. /\ m2 \in Memory /\ m2[hOffDtStrings] = Num(offs) /\ m2[hSizeDtStruct] = Num(size)
        /\ \A a \in 0 .. MemSize - 1 :
                a \notin {hSizeDtStruct, hOffDtStrings} => m2[a] = m0[a]
    <3> HIDE DEF m1, m0, offs, size
    <3> QED BY <1>0, <2>6, <2>7, <2>8, SetMemory DEF offs
  <2> HIDE DEF m2, m1, m0, size, offs
  <2>10. /\ fdt_size_dt_struct(m2) = size /\ fdt_off_dt_strings(m2) = offs
         /\ fdt_magic(m2) = fdt_magic(m) /\ fdt_version(m2) = fdt_version(m)
         /\ fdt_last_comp_version(m2) = fdt_last_comp_version(m)
         /\ fdt_totalsize(m2) = fdt_totalsize(m)
         /\ fdt_off_mem_rsvmap(m2) = fdt_off_mem_rsvmap(m)
         /\ fdt_off_dt_struct(m2) = fdt_off_dt_struct(m)
         /\ fdt_size_dt_strings(m2) = fdt_size_dt_strings(m)
    BY <1>0, <2>4, <2>6, <2>9, CellFacts
    DEF fdt_size_dt_struct, fdt_off_dt_strings, fdt_magic, fdt_version,
        fdt_last_comp_version, fdt_totalsize, fdt_off_mem_rsvmap, fdt_off_dt_struct,
        fdt_size_dt_strings
  <2>11. \A h \in 0 .. HeaderSize - 1 : m2[h].k = "num"
    <3>1. \A h \in 0 .. 9 : m[h].k = "num"
      BY DEF Good, InOrder
    <3> QED BY <1>0, <2>4, <2>6, <2>9, <3>1, CellFacts
  <2>12. \A a \in HeaderSize .. fdt_off_dt_struct(m) - 1 : m2[a] = m[a]
    BY <1>0, <2>3, <2>9
  <2>13. Good(m2)
    BY <1>0, <2>1, <2>9, <2>10, <2>11, <2>12, GoodKept DEF size, offs
  <2>14. Within(m, m2)
    BY <1>0, <2>3, <2>9 DEF Within
  <2>15. Kept(m, m2, p - fdt_off_dt_struct(m))
    <3>1. p - fdt_off_dt_struct(m) <= fdt_size_dt_struct(m2)
      BY <1>0, <2>10 DEF size
    <3>2. ASSUME NEW a \in fdt_off_dt_struct(m) .. p - 1 PROVE m2[a] = m[a]
      <4>1. a \in 0 .. MemSize - 1 /\ a < p + newlen /\ a \notin {hSizeDtStruct, hOffDtStrings}
        BY <1>0
      <4> QED BY <2>3, <2>9, <4>1
    <3>3. fdt_off_dt_struct(m) + (p - fdt_off_dt_struct(m)) - 1 = p - 1
      BY <1>0
    <3> QED BY <2>9, <2>10, <3>1, <3>2, <3>3 DEF Kept
  <2> QED BY <1>0, <2>2, <2>10, <2>13, <2>14, <2>15 DEF size
<1>3. s.ret \in {0, -FDT_ERR_BADOFFSET, -FDT_ERR_NOSPACE}
  BY DEF fdt_splice_, Return
<1> QED BY <1>1, <1>2

\* The blocks are where they were and as large as they were.
SameBlocks(m, m2) ==
    /\ fdt_totalsize(m2) = fdt_totalsize(m)
    /\ fdt_off_dt_struct(m2) = fdt_off_dt_struct(m)
    /\ fdt_size_dt_struct(m2) = fdt_size_dt_struct(m)
    /\ fdt_off_dt_strings(m2) = fdt_off_dt_strings(m)
    /\ fdt_size_dt_strings(m2) = fdt_size_dt_strings(m)

\* Writing anything between the start of the structure block and the end of
\* the blob leaves it in order.
LEMMA StructWritten ==
    ASSUME NEW m, Good(m), NEW m2 \in Memory,
           \A a \in 0 .. MemSize - 1 :
                a < fdt_off_dt_struct(m) \/ a >= fdt_totalsize(m) => m2[a] = m[a]
    PROVE  Good(m2) /\ Within(m, m2) /\ SameBlocks(m, m2)
<1>0. /\ m \in Memory /\ MemSize \in Nat /\ fdt_totalsize(m) <= MemSize
      /\ fdt_off_dt_struct(m) \in Nat /\ fdt_totalsize(m) \in Nat
      /\ fdt_off_dt_strings(m) \in Nat /\ fdt_size_dt_strings(m) \in Nat
      /\ fdt_size_dt_struct(m) \in Nat
      /\ 14 <= fdt_off_dt_struct(m) /\ fdt_off_dt_struct(m) <= fdt_totalsize(m)
      /\ fdt_off_dt_struct(m) + fdt_size_dt_struct(m) <= fdt_off_dt_strings(m)
      /\ fdt_off_dt_strings(m) + fdt_size_dt_strings(m) <= fdt_totalsize(m)
  BY GoodFacts
<1>1. \A a \in 0 .. fdt_off_dt_struct(m) - 1 : m2[a] = m[a]
  BY <1>0
<1>2. \A h \in 0 .. 9 : m2[h] = m[h]
  BY <1>0, <1>1
<1>3. /\ SameBlocks(m, m2)
      /\ fdt_magic(m2) = fdt_magic(m) /\ fdt_version(m2) = fdt_version(m)
      /\ fdt_last_comp_version(m2) = fdt_last_comp_version(m)
      /\ fdt_off_mem_rsvmap(m2) = fdt_off_mem_rsvmap(m)
  BY <1>2 DEF SameBlocks, fdt_size_dt_struct, fdt_off_dt_strings, fdt_magic,
        fdt_version, fdt_last_comp_version, fdt_totalsize, fdt_off_mem_rsvmap,
        fdt_off_dt_struct, fdt_size_dt_strings
<1>4. \A h \in 0 .. HeaderSize - 1 : m2[h].k = "num"
  BY <1>2 DEF Good, InOrder
<1>5. \A a \in HeaderSize .. fdt_off_dt_struct(m) - 1 : m2[a] = m[a]
  BY <1>0, <1>1
<1>6. Good(m2)
  BY <1>0, <1>3, <1>4, <1>5, GoodKept DEF SameBlocks
<1> QED BY <1>0, <1>3, <1>6 DEF Within

\* Storing a number in that range.
LEMMA SetWritten ==
    ASSUME NEW m, Good(m), NEW a \in Nat, NEW x \in Nat,
           fdt_off_dt_struct(m) <= a, a < fdt_totalsize(m)
    PROVE  Good(Set(m, a, x)) /\ Within(m, Set(m, a, x)) /\ SameBlocks(m, Set(m, a, x))
<1>0. m \in Memory /\ MemSize \in Nat /\ fdt_totalsize(m) \in Nat /\ fdt_off_dt_struct(m) \in Nat
  BY GoodFacts
<1>1. /\ Set(m, a, x) \in Memory
      /\ \A b \in 0 .. MemSize - 1 : b # a => Set(m, a, x)[b] = m[b]
  BY <1>0, SetMemory
<1> DEFINE m2 == Set(m, a, x)
<1> HIDE DEF m2
<1>2. m2 \in Memory /\ \A b \in 0 .. MemSize - 1 : b # a => m2[b] = m[b]
  BY <1>1 DEF m2
<1>3. \A b \in 0 .. MemSize - 1 :
        b < fdt_off_dt_struct(m) \/ b >= fdt_totalsize(m) => m2[b] = m[b]
  BY <1>0, <1>2
<1>4. Good(m2) /\ Within(m, m2) /\ SameBlocks(m, m2)
  BY <1>2, <1>3, StructWritten
<1> QED BY <1>4 DEF m2

\* Copying bytes writes the words they fall into and nothing else.
LEMMA CopyMemory ==
    ASSUME NEW m \in Memory, NEW a \in Nat, NEW at \in Nat, NEW val \in Seq(Byte)
    PROVE  LET m2 == CopyBytes(m, a, at, val)
           IN  /\ m2 \in Memory
               /\ \A x \in 0 .. MemSize - 1 :
                    x < a \/ x >= a + Words(at + Len(val)) => m2[x] = m[x]
<1> DEFINE m2 == CopyBytes(m, a, at, val)
           W  == a + at \div 4 .. a + (at + Len(val) - 1) \div 4
<1>0. MemSize \in Nat /\ DOMAIN m = 0 .. MemSize - 1
  BY MemAssumption DEF Memory
<1>1. \A x \in 0 .. MemSize - 1 : m2[x] \in Cell
  <2> TAKE x \in 0 .. MemSize - 1
  <2>1. m[x] \in Cell /\ m[x].d \in [1..4 -> Byte]
    BY <1>0 DEF Memory, Cell
  <2> DEFINE i(j) == 4 * (x - a) + j - at
             B(j) == IF i(j) \in 1..Len(val) THEN val[i(j)] ELSE m[x].d[j]
  <2>2. \A j \in 1..4 : B(j) \in Byte
    <3> TAKE j \in 1..4
    <3>1. m[x].d[j] \in Byte
      BY <2>1
    <3>2. \A k \in 1..Len(val) : val[k] \in Byte
      OBVIOUS
    <3> QED BY <3>1, <3>2
  <2>3. [j \in 1..4 |-> B(j)] \in [1..4 -> Byte]
    <3> HIDE DEF B
    <3> QED BY <2>2
  <2>4. Bytes([j \in 1..4 |-> B(j)]) \in Cell
    <3> HIDE DEF B
    <3> QED BY <2>3, CellFacts
  <2>5. m2[x] = IF Len(val) > 0 /\ x \in W THEN Bytes([j \in 1..4 |-> B(j)]) ELSE m[x]
    BY <1>0, Zenon DEF CopyBytes
  <2> HIDE DEF m2, W, B
  <2> QED BY <2>1, <2>4, <2>5
<1>2. m2 \in Memory
  BY <1>0, <1>1 DEF CopyBytes, Memory
<1>3. \A x \in 0 .. MemSize - 1 : Len(val) = 0 \/ x \notin W => m2[x] = m[x]
  BY <1>0 DEF CopyBytes
<1>4. Len(val) > 0 => \A x \in W : x >= a /\ x < a + Words(at + Len(val))
  BY <1>0 DEF Words
<1>5. \A x \in 0 .. MemSize - 1 : x < a \/ x >= a + Words(at + Len(val)) => m2[x] = m[x]
  <2> TAKE x \in 0 .. MemSize - 1
  <2> HAVE x < a \/ x >= a + Words(at + Len(val))
  <2>1. Words(at + Len(val)) \in Nat /\ Len(val) \in Nat
    BY SMTT(30), WordsNat
  <2>2. Len(val) = 0 \/ x \notin W
    <3> HIDE DEF m2, W
    <3> QED BY <1>0, <1>4, <2>1
  <2> HIDE DEF m2, W
  <2> QED BY <1>3, <2>2
<1> QED BY <1>2, <1>5

\* Copying bytes into the value of a property that is large enough.
LEMMA CopyWritten ==
    ASSUME NEW m, Good(m), NEW a \in Nat, NEW at \in Nat, NEW val \in Seq(Byte),
           fdt_off_dt_struct(m) <= a, a + Words(at + Len(val)) <= fdt_totalsize(m)
    PROVE  LET m2 == CopyBytes(m, a, at, val)
           IN  Good(m2) /\ Within(m, m2) /\ SameBlocks(m, m2)
<1> DEFINE m2 == CopyBytes(m, a, at, val)
           n  == Words(at + Len(val))
<1>0. /\ m \in Memory /\ MemSize \in Nat /\ fdt_totalsize(m) \in Nat
      /\ fdt_off_dt_struct(m) \in Nat /\ n \in Nat
  BY GoodFacts, WordsNat
<1>1. /\ m2 \in Memory
      /\ \A x \in 0 .. MemSize - 1 : x < a \/ x >= a + n => m2[x] = m[x]
  <2>1. m \in Memory
    BY <1>0
  <2> QED BY <2>1, CopyMemory, Zenon
<1> HIDE DEF m2
<1>2. \A x \in 0 .. MemSize - 1 :
        x < fdt_off_dt_struct(m) \/ x >= fdt_totalsize(m) => m2[x] = m[x]
  <2> HIDE DEF n
  <2>1. a + n <= fdt_totalsize(m)
    BY DEF n
  <2> QED BY <1>0, <1>1, <2>1
<1>3. Good(m2) /\ Within(m, m2) /\ SameBlocks(m, m2)
  BY <1>1, <1>2, StructWritten
<1> QED BY <1>3 DEF m2

-----------------------------------------------------------------------------
(* Strings and properties.                                                 *)

\* What a function that edits the blob promises.
Edited(m, r) ==
    /\ r.ret \in Int
    /\ Good(r.m) /\ Within(m, r.m)
    /\ fdt_totalsize(r.m) = fdt_totalsize(m)
    /\ fdt_off_dt_struct(r.m) = fdt_off_dt_struct(m)

\* One function after the other.
LEMMA EditedTwice ==
    ASSUME NEW m, NEW r, NEW r2, Edited(m, r), Edited(r.m, r2)
    PROVE  Edited(m, r2)
<1>1. fdt_totalsize(r.m) = fdt_totalsize(m)
  BY DEF Edited
<1>2. Within(m, r2.m)
  <2> SUFFICES ASSUME NEW a \in 0 .. MemSize - 1, a >= fdt_totalsize(m)
               PROVE  r2.m[a] = m[a]
    BY DEF Within
  <2>1. r.m[a] = m[a]
    BY DEF Edited, Within
  <2>2. r2.m[a] = r.m[a]
    BY <1>1 DEF Edited, Within
  <2> QED BY <2>1, <2>2
<1> QED BY <1>2 DEF Edited

\* A blob that has not changed, and a blob whose blocks have not moved.
LEMMA EditedSame ==
    ASSUME NEW m, Good(m), NEW r, r.m = m, r.ret \in Int
    PROVE  Edited(m, r)
  BY DEF Edited, Within

\* The string table grows by one string.
LEMMA SpliceString ==
    ASSUME NEW m, Good(m)
    PROVE  LET r == fdt_splice_string_(m, 1)
           IN  /\ Edited(m, r) /\ r.ret <= 0
               /\ fdt_size_dt_struct(r.m) = fdt_size_dt_struct(m)
               /\ Kept(m, r.m, fdt_size_dt_struct(m))
               /\ r.ret = 0 => fdt_data_size_(m) < fdt_totalsize(m)
<1> DEFINE end == fdt_data_size_(m)
           s   == fdt_splice_(m, end, 0, 1)
           m0  == Move(m, end + 1, end + 0, end - end - 0)
           size == fdt_size_dt_strings(m) + 1
           m1  == Set(m0, hSizeDtStrings, fdt_size_dt_strings(m0) + 1)
           r   == fdt_splice_string_(m, 1)
<1>0. /\ m \in Memory /\ MemSize \in Nat /\ MemSize >= 10
      /\ fdt_totalsize(m) \in Nat /\ fdt_off_dt_struct(m) \in Nat
      /\ fdt_off_dt_strings(m) \in Nat /\ fdt_size_dt_strings(m) \in Nat
      /\ fdt_size_dt_struct(m) \in Nat
      /\ 14 <= fdt_off_dt_struct(m)
      /\ fdt_off_dt_struct(m) + fdt_size_dt_struct(m) <= fdt_off_dt_strings(m)
      /\ end = fdt_off_dt_strings(m) + fdt_size_dt_strings(m)
      /\ end <= fdt_totalsize(m) /\ fdt_totalsize(m) <= MemSize
  BY GoodFacts, MemAssumption DEF fdt_data_size_
<1>1. CASE s.ret # 0
  <2>1. s.ret \in {-FDT_ERR_BADOFFSET, -FDT_ERR_NOSPACE} /\ s.m = m
    BY <1>1 DEF fdt_splice_, Return
  <2>2. r = s
    BY <1>1 DEF fdt_splice_string_
  <2>3. Edited(m, r)
    BY <2>1, <2>2, EditedSame
  <2>4. Kept(m, m, fdt_size_dt_struct(m))
    BY <1>0 DEF Kept
  <2> QED BY <1>1, <2>1, <2>2, <2>3, <2>4
<1>2. CASE s.ret = 0
  <2>1. end + 1 <= fdt_totalsize(m) /\ s = [ret |-> 0, m |-> m0, p |-> 0]
    BY <1>0, <1>2 DEF fdt_splice_, Return
  <2>2. r = [ret |-> 0, m |-> m1, p |-> 0]
    BY <1>2, <2>1 DEF fdt_splice_string_, Return
  <2>3. m0 = m
    <3>1. DOMAIN m = 0 .. MemSize - 1
      BY <1>0 DEF Memory
    <3>2. end + 1 .. end + 1 + (end - end - 0) - 1 = {}
      BY <1>0
    <3>3. m0 = [a \in DOMAIN m |-> m[a]]
      BY <3>2, Zenon DEF Move
    <3>4. m = [a \in DOMAIN m |-> m[a]]
      BY <1>0, Zenon DEF Memory
    <3> QED BY <3>3, <3>4, Zenon
  <2>4. m1 = Set(m, hSizeDtStrings, size) /\ size \in Nat
    BY <1>0, <2>3
  <2>5. /\ m1 \in Memory /\ m1[hSizeDtStrings] = Num(size)
        /\ \A a \in 0 .. MemSize - 1 : a # hSizeDtStrings => m1[a] = m[a]
    BY <1>0, <2>4, SetMemory
  <2> HIDE DEF m1, m0, size
  <2>6. /\ fdt_size_dt_strings(m1) = size
        /\ fdt_size_dt_struct(m1) = fdt_size_dt_struct(m)
        /\ fdt_off_dt_strings(m1) = fdt_off_dt_strings(m)
        /\ fdt_magic(m1) = fdt_magic(m) /\ fdt_version(m1) = fdt_version(m)
        /\ fdt_last_comp_version(m1) = fdt_last_comp_version(m)
        /\ fdt_totalsize(m1) = fdt_totalsize(m)
        /\ fdt_off_mem_rsvmap(m1) = fdt_off_mem_rsvmap(m)
        /\ fdt_off_dt_struct(m1) = fdt_off_dt_struct(m)
    BY <1>0, <2>4, <2>5, CellFacts
    DEF fdt_size_dt_struct, fdt_off_dt_strings, fdt_magic, fdt_version,
        fdt_last_comp_version, fdt_totalsize, fdt_off_mem_rsvmap, fdt_off_dt_struct,
        fdt_size_dt_strings
  <2>7. \A h \in 0 .. HeaderSize - 1 : m1[h].k = "num"
    <3>1. \A h \in 0 .. 9 : m[h].k = "num"
      BY DEF Good, InOrder
    <3> QED BY <1>0, <2>4, <2>5, <3>1, CellFacts
  <2>8. \A a \in HeaderSize .. fdt_off_dt_struct(m) - 1 : m1[a] = m[a]
    BY <1>0, <2>5
  <2>9. Good(m1)
    BY <1>0, <2>1, <2>5, <2>6, <2>7, <2>8, GoodKept DEF size
  <2>10. Within(m, m1)
    BY <1>0, <2>5 DEF Within
  <2>11. Edited(m, r)
    BY <2>2, <2>6, <2>9, <2>10 DEF Edited
  <2>12. Kept(m, m1, fdt_size_dt_struct(m))
    BY <1>0, <2>5, <2>6 DEF Kept
  <2> QED BY <1>0, <2>1, <2>2, <2>6, <2>11, <2>12
<1>3. s.ret \in {0, -FDT_ERR_BADOFFSET, -FDT_ERR_NOSPACE}
  BY DEF fdt_splice_, Return
<1> QED BY <1>1, <1>2

\* A string is found, or added behind the others, or there is no room.
LEMMA FindAddString ==
    ASSUME NEW m, Good(m), NEW s \in Names, NEW t \in Nat
    PROVE  LET r == fdt_find_add_string_(m, s, t)
           IN  /\ Edited(m, r)
               /\ fdt_size_dt_struct(r.m) = fdt_size_dt_struct(m)
               /\ Kept(m, r.m, fdt_size_dt_struct(m))
<1> DEFINE found == fdt_find_string_(m, s, t)
           r     == fdt_splice_string_(m, 1)
           a     == fdt_data_size_(m)
           m2    == [r.m EXCEPT ![a] = Str(s, t)]
           f     == fdt_find_add_string_(m, s, t)
<1>0. /\ m \in Memory /\ MemSize \in Nat /\ fdt_totalsize(m) \in Nat
      /\ fdt_off_dt_strings(m) \in Nat /\ fdt_size_dt_strings(m) \in Nat
      /\ fdt_off_dt_struct(m) \in Nat /\ fdt_size_dt_struct(m) \in Nat
      /\ fdt_off_dt_struct(m) + fdt_size_dt_struct(m) <= fdt_off_dt_strings(m)
      /\ a = fdt_off_dt_strings(m) + fdt_size_dt_strings(m)
  BY GoodFacts DEF fdt_data_size_
<1>1. CASE found # {}
  <2>1. found \subseteq Nat
    BY <1>0 DEF fdt_find_string_
  <2>2. PICK x \in found : \A y \in found : x <= y
    BY <1>1, <2>1, LeastNatural
  <2>3. Min(found) \in found
    BY <2>2 DEF Min
  <2>4. f = [ret |-> Min(found), m |-> m, p |-> 0]
    BY <1>1 DEF fdt_find_add_string_, Return
  <2>5. PICK i \in Nat : i = Min(found)
    BY <2>1, <2>3, Zenon
  <2>6. f = [ret |-> i, m |-> m, p |-> 0]
    BY <2>4, <2>5, Zenon
  <2>7. f.m = m /\ f.ret \in Int
    <3> HIDE DEF f
    <3> QED BY <2>6
  <2>8. Edited(m, f)
    <3> HIDE DEF f
    <3> QED BY <2>7, EditedSame
  <2>9. Kept(m, m, fdt_size_dt_struct(m))
    BY <1>0 DEF Kept
  <2> QED BY <2>7, <2>8, <2>9, Zenon
<1>2. CASE found = {} /\ r.ret # 0
  <2>1. f = r
    BY <1>2 DEF fdt_find_add_string_
  <2> QED BY <2>1, SpliceString
<1>3. CASE found = {} /\ r.ret = 0
  <2>1. /\ Edited(m, r) /\ fdt_size_dt_struct(r.m) = fdt_size_dt_struct(m)
        /\ a < fdt_totalsize(m)
    BY <1>3, SpliceString
  <2>2. f = [ret |-> fdt_size_dt_strings(m), m |-> m2, p |-> 0]
    BY <1>3 DEF fdt_find_add_string_, Return
  <2> DEFINE b == r.m
  <2>3. /\ Good(b) /\ b \in Memory /\ fdt_totalsize(b) = fdt_totalsize(m)
        /\ fdt_off_dt_struct(b) = fdt_off_dt_struct(m)
    BY <2>1, GoodFacts DEF Edited
  <2>4. m2 = [b EXCEPT ![a] = Str(s, t)]
    OBVIOUS
  <2> HIDE DEF a, b, m2
  <2>5. /\ m2 \in Memory
        /\ \A x \in 0 .. MemSize - 1 : x # a => m2[x] = b[x]
    BY <2>3, <2>4, CellFacts DEF Memory
  <2>6. \A x \in 0 .. MemSize - 1 :
            x < fdt_off_dt_struct(b) \/ x >= fdt_totalsize(b) => m2[x] = b[x]
    BY <1>0, <2>1, <2>3, <2>5
  <2>7. Good(m2) /\ Within(b, m2) /\ SameBlocks(b, m2)
    BY <2>3, <2>5, <2>6, StructWritten
  <2>8. Edited(b, f)
    BY <1>0, <2>2, <2>7 DEF Edited, SameBlocks
  <2>9. Edited(m, f)
    BY <2>1, <2>8, EditedTwice DEF b
  <2>10. fdt_size_dt_struct(f.m) = fdt_size_dt_struct(m)
    BY <2>1, <2>2, <2>7 DEF SameBlocks, b
  <2>11. Kept(m, m2, fdt_size_dt_struct(m))
    <3>1. Kept(m, b, fdt_size_dt_struct(m))
      BY <1>3, SpliceString DEF b
    <3>2. ASSUME NEW x \in fdt_off_dt_struct(m) .. fdt_off_dt_struct(m) + fdt_size_dt_struct(m) - 1
          PROVE  m2[x] = b[x]
      <4>1. x # a /\ x \in 0 .. MemSize - 1
        <5>1. fdt_totalsize(m) <= MemSize
          BY GoodFacts
        <5> QED BY <1>0, <2>1, <5>1
      <4> QED BY <2>5, <4>1
    <3> QED BY <2>3, <2>5, <2>7, <3>1, <3>2 DEF Kept, SameBlocks
  <2> QED BY <2>2, <2>9, <2>10, <2>11
<1> QED BY <1>1, <1>2, <1>3

\* The same for the functions that pass back the place of a property with room
\* for len bytes.
PropEdited(m, r, len) ==
    /\ Edited(m, r)
    /\ r.ret = 0 =>
        /\ r.p \in Nat /\ fdt_off_dt_struct(r.m) <= r.p
        /\ r.p + PropSize + Words(len) <= fdt_off_dt_struct(r.m) + fdt_size_dt_struct(r.m)

\* A splice of the structure block is an edit.
LEMMA StructEdited ==
    ASSUME NEW m, Good(m), NEW p \in Nat, NEW oldlen \in Nat, NEW newlen \in Nat,
           fdt_off_dt_struct(m) <= p,
           p + oldlen <= fdt_off_dt_struct(m) + fdt_size_dt_struct(m)
    PROVE  LET r == fdt_splice_struct_(m, p, oldlen, newlen)
           IN  /\ Edited(m, r)
               /\ r.ret = 0 => fdt_size_dt_struct(r.m) =
                                    fdt_size_dt_struct(m) + newlen - oldlen
  BY SpliceStruct DEF Edited

\* Storing a number inside the structure block, after another edit.
LEMMA EditedSet ==
    ASSUME NEW m, NEW r, Edited(m, r), NEW a \in Nat, NEW x \in Nat, NEW r2,
           fdt_off_dt_struct(r.m) <= a,
           a < fdt_off_dt_struct(r.m) + fdt_size_dt_struct(r.m),
           r2.ret \in Int, r2.m = Set(r.m, a, x)
    PROVE  Edited(m, r2) /\ fdt_size_dt_struct(r2.m) = fdt_size_dt_struct(r.m)
<1> DEFINE b == r.m
<1>1. /\ Good(b) /\ fdt_off_dt_struct(b) \in Nat /\ fdt_size_dt_struct(b) \in Nat
      /\ fdt_off_dt_strings(b) \in Nat /\ fdt_size_dt_strings(b) \in Nat
      /\ fdt_totalsize(b) \in Nat
      /\ fdt_off_dt_struct(b) + fdt_size_dt_struct(b) <= fdt_off_dt_strings(b)
      /\ fdt_off_dt_strings(b) + fdt_size_dt_strings(b) <= fdt_totalsize(b)
  BY GoodFacts DEF Edited
<1>2. fdt_off_dt_struct(b) <= a /\ a < fdt_totalsize(b) /\ r2.m = Set(b, a, x)
  BY <1>1
<1> HIDE DEF b
<1>3. Good(r2.m) /\ Within(b, r2.m) /\ SameBlocks(b, r2.m)
  BY <1>1, <1>2, SetWritten
<1>4. Edited(b, r2)
  BY <1>3 DEF Edited, SameBlocks
<1> QED BY <1>3, <1>4, EditedTwice DEF SameBlocks, b

\* fdt_resize_property_ makes room for the new value inside the structure block.
LEMMA ResizeProperty ==
    ASSUME NEW m, Good(m), NEW o \in Nat, NEW name, NEW len \in Nat
    PROVE  PropEdited(m, fdt_resize_property_(m, o, name, len), len)
<1> DEFINE prop == fdt_get_property(m, o, name)
           r    == fdt_splice_struct_(m, PropData(m, prop),
                                      Words(PropLen(m, prop)), Words(len))
           p    == fdt_off_dt_struct(m) + prop
           f    == fdt_resize_property_(m, o, name, len)
<1>0. fdt_off_dt_struct(m) \in Nat /\ fdt_size_dt_struct(m) \in Nat /\ Words(len) \in Nat
  BY GoodFacts, WordsNat
<1>1. prop \in Int
  BY GetProperty
<1>2. CASE prop < 0
  <2>1. f = [ret |-> prop, m |-> m, p |-> 0]
    BY <1>2 DEF fdt_resize_property_, ResizeAt, Return
  <2> HIDE DEF f, prop
  <2> QED BY <1>1, <1>2, <2>1, EditedSame DEF PropEdited, f
<1>3. CASE prop >= 0
  <2>1. /\ PropLen(m, prop) \in Nat /\ Words(PropLen(m, prop)) \in Nat
        /\ prop + PropSize + Words(PropLen(m, prop)) <= fdt_size_dt_struct(m)
    BY <1>3, GetProperty, WordsNat
  <2>2. /\ PropData(m, prop) \in Nat
        /\ fdt_off_dt_struct(m) <= PropData(m, prop)
        /\ PropData(m, prop) + Words(PropLen(m, prop))
                <= fdt_off_dt_struct(m) + fdt_size_dt_struct(m)
    <3> HIDE DEF prop
    <3> QED BY <1>0, <1>1, <1>3, <2>1 DEF PropData
  <2>3. /\ Edited(m, r)
        /\ r.ret = 0 => fdt_size_dt_struct(r.m) =
                fdt_size_dt_struct(m) + Words(len) - Words(PropLen(m, prop))
    <3> HIDE DEF prop
    <3> QED BY <1>0, <2>1, <2>2, StructEdited
  <2>4. CASE r.ret # 0
    <3>1. f = r
      BY <1>1, <1>3, <2>4 DEF fdt_resize_property_, ResizeAt
    <3> QED BY <2>3, <2>4, <3>1 DEF PropEdited
  <2>5. CASE r.ret = 0
    <3>1. f = [ret |-> 0, m |-> Set(r.m, p + 1, len), p |-> p]
      BY <1>1, <1>3, <2>5 DEF fdt_resize_property_, ResizeAt
    <3>2. /\ fdt_off_dt_struct(r.m) = fdt_off_dt_struct(m)
          /\ fdt_size_dt_struct(r.m) =
                fdt_size_dt_struct(m) + Words(len) - Words(PropLen(m, prop))
      BY <2>3, <2>5 DEF Edited
    <3>3. /\ p + 1 \in Nat /\ p \in Nat /\ fdt_off_dt_struct(r.m) <= p
          /\ p + PropSize + Words(len) <= fdt_off_dt_struct(r.m) + fdt_size_dt_struct(r.m)
      <4> HIDE DEF prop, r
      <4> QED BY <1>0, <1>1, <1>3, <2>1, <3>2
    <3>4. f.ret = 0 /\ f.m = Set(r.m, p + 1, len) /\ f.p = p
      <4> HIDE DEF f, p, r
      <4> QED BY <3>1
    <3> HIDE DEF f, p, r
    <3>5. Edited(m, f) /\ fdt_size_dt_struct(f.m) = fdt_size_dt_struct(r.m)
      <4>1. fdt_off_dt_struct(r.m) \in Nat /\ fdt_size_dt_struct(r.m) \in Nat
        BY <2>3, GoodFacts DEF Edited
      <4>2. fdt_off_dt_struct(r.m) <= p + 1
            /\ p + 1 < fdt_off_dt_struct(r.m) + fdt_size_dt_struct(r.m)
        BY <1>0, <3>3, <4>1
      <4>3. f.ret \in Int
        BY <3>4
      <4> QED BY <2>3, <3>3, <3>4, <4>2, <4>3, EditedSet
    <3>6. fdt_off_dt_struct(f.m) = fdt_off_dt_struct(r.m)
      BY <2>3, <3>5 DEF Edited
    <3>7. PropEdited(m, f, len)
      BY <3>3, <3>4, <3>5, <3>6 DEF PropEdited
    <3> QED BY <3>7 DEF f
  <2> QED BY <2>4, <2>5
<1> QED BY <1>1, <1>2, <1>3

\* fdt_add_property_ makes room for a property inside the structure block, also
\* when the string it adds has moved nothing or the splice then finds no space.
LEMMA AddProperty ==
    ASSUME NEW m, Good(m), NEW o \in Nat, NEW name \in Names, NEW t \in Nat,
           NEW len \in Nat
    PROVE  PropEdited(m, fdt_add_property_(m, o, name, t, len), len)
<1> DEFINE next == fdt_check_node_offset_(m, o)
           r    == fdt_find_add_string_(m, name, t)
           p    == fdt_off_dt_struct(r.m) + next
           r2   == fdt_splice_struct_(r.m, p, 0, PropSize + Words(len))
           f    == fdt_add_property_(m, o, name, t, len)
<1>0. fdt_off_dt_struct(m) \in Nat /\ fdt_size_dt_struct(m) \in Nat /\ Words(len) \in Nat
  BY GoodFacts, WordsNat
<1>1. next \in Int /\ (next >= 0 => next <= fdt_size_dt_struct(m))
  BY CheckNode
<1>2. Edited(m, r) /\ fdt_size_dt_struct(r.m) = fdt_size_dt_struct(m) /\ r.ret \in Int
  BY FindAddString DEF Edited
<1>3. CASE next < 0
  <2>1. f = [ret |-> next, m |-> m, p |-> 0]
    BY <1>3 DEF fdt_add_property_, Return
  <2> HIDE DEF f, next
  <2> QED BY <1>1, <1>3, <2>1, EditedSame DEF PropEdited, f
<1>4. CASE next >= 0 /\ r.ret < 0
  <2>1. f = r
    BY <1>1, <1>4 DEF fdt_add_property_
  <2> QED BY <1>2, <1>4, <2>1 DEF PropEdited
<1>5. CASE next >= 0 /\ r.ret >= 0
  <2> DEFINE b == r.m
  <2>0. /\ Good(b) /\ fdt_off_dt_struct(b) = fdt_off_dt_struct(m)
        /\ fdt_size_dt_struct(b) = fdt_size_dt_struct(m)
    BY <1>2 DEF Edited
  <2>1. /\ p \in Nat /\ fdt_off_dt_struct(b) <= p
        /\ p + 0 <= fdt_off_dt_struct(b) + fdt_size_dt_struct(b)
        /\ PropSize + Words(len) \in Nat
    <3> HIDE DEF next, r
    <3> QED BY <1>0, <1>1, <1>5, <2>0
  <2>2. /\ Edited(b, r2)
        /\ r2.ret = 0 => fdt_size_dt_struct(r2.m) =
                fdt_size_dt_struct(b) + (PropSize + Words(len)) - 0
    <3> HIDE DEF p
    <3>1. r2 = fdt_splice_struct_(b, p, 0, PropSize + Words(len))
      OBVIOUS
    <3> HIDE DEF b, r2
    <3> QED BY <2>0, <2>1, <3>1, StructEdited
  <2>3. Edited(m, r2)
    <3> HIDE DEF r, r2
    <3> QED BY <1>2, <2>2, EditedTwice
  <2>4. CASE r2.ret # 0
    <3>1. f = r2
      BY <1>1, <1>2, <1>5, <2>4 DEF fdt_add_property_
    <3> QED BY <2>3, <2>4, <3>1 DEF PropEdited
  <2>5. CASE r2.ret = 0
    <3> DEFINE c1 == Set(r2.m, p, FDT_PROP)
               c2 == Set(c1, p + 2, r.ret)
               c3 == Set(c2, p + 1, len)
               f1 == [ret |-> 0, m |-> c1]
               f2 == [ret |-> 0, m |-> c2]
    <3>1. f = [ret |-> 0, p |-> p, m |-> c3]
      BY <1>1, <1>2, <1>5, <2>5 DEF fdt_add_property_
    <3> DEFINE S == fdt_off_dt_struct(r2.m)
               N == fdt_size_dt_struct(r2.m)
    <3>2. S = fdt_off_dt_struct(m) /\ N = fdt_size_dt_struct(m) + PropSize + Words(len)
      <4>1. fdt_off_dt_struct(r2.m) = fdt_off_dt_struct(m)
        BY <2>3 DEF Edited
      <4> HIDE DEF r2, b
      <4> QED BY <1>0, <2>0, <2>2, <2>5, <4>1
    <3>3. r.ret \in Nat
      BY <1>2, <1>5
    <3>4. /\ p \in Nat /\ S \in Nat /\ N \in Nat /\ S <= p
          /\ p + PropSize + Words(len) <= S + N
      <4> HIDE DEF p, S, N, b
      <4> QED BY <1>0, <2>0, <2>1, <3>2
    <3>5. /\ p + 1 \in Nat /\ p + 2 \in Nat /\ S <= p + 1 /\ S <= p + 2
          /\ p < S + N /\ p + 1 < S + N /\ p + 2 < S + N
      <4> HIDE DEF p, S, N
      <4> QED BY <1>0, <3>4
    <3>6. f1.ret \in Int /\ f1.m = Set(r2.m, p, FDT_PROP) /\ f2.ret \in Int
          /\ f2.m = Set(f1.m, p + 2, r.ret) /\ f.ret = 0 /\ f.m = Set(f2.m, p + 1, len)
          /\ f.p = p
      <4> HIDE DEF f
      <4>1. f1.ret = 0 /\ f1.m = Set(r2.m, p, FDT_PROP) /\ f2.ret = 0
            /\ f2.m = Set(f1.m, p + 2, r.ret)
        BY Zenon
      <4>2. f.ret = 0 /\ f.m = Set(f2.m, p + 1, len) /\ f.p = p
        BY <3>1, Zenon
      <4> HIDE DEF f1, f2
      <4> QED BY <4>1, <4>2
    <3>7. Edited(m, f1) /\ fdt_size_dt_struct(f1.m) = N /\ fdt_off_dt_struct(f1.m) = S
      <4> HIDE DEF f1, r2, p
      <4>1. Edited(m, f1) /\ fdt_size_dt_struct(f1.m) = fdt_size_dt_struct(r2.m)
        BY <2>3, <3>4, <3>5, <3>6, EditedSet
      <4> QED BY <2>3, <4>1 DEF Edited
    <3>8. Edited(m, f2) /\ fdt_size_dt_struct(f2.m) = N /\ fdt_off_dt_struct(f2.m) = S
      <4> HIDE DEF f1, f2, r, p, S, N
      <4>1. Edited(m, f2) /\ fdt_size_dt_struct(f2.m) = fdt_size_dt_struct(f1.m)
        BY <3>3, <3>4, <3>5, <3>6, <3>7, EditedSet
      <4> QED BY <3>7, <4>1 DEF Edited
    <3>9. Edited(m, f) /\ fdt_size_dt_struct(f.m) = N /\ fdt_off_dt_struct(f.m) = S
      <4> HIDE DEF f, f2, p, S, N
      <4>0. f.ret \in Int
        BY <3>6
      <4>1. Edited(m, f) /\ fdt_size_dt_struct(f.m) = fdt_size_dt_struct(f2.m)
        BY <3>4, <3>5, <3>6, <3>8, <4>0, EditedSet
      <4> QED BY <3>8, <4>1 DEF Edited
    <3>10. PropEdited(m, f, len)
      <4> HIDE DEF f, p, S, N
      <4> QED BY <3>4, <3>6, <3>9 DEF PropEdited
    <3> QED BY <3>10
  <2> QED BY <2>4, <2>5
<1> QED BY <1>1, <1>2, <1>3, <1>4, <1>5

\* Copying bytes into a property, after another edit.
LEMMA EditedCopy ==
    ASSUME NEW m, NEW r, Edited(m, r), NEW a \in Nat, NEW at \in Nat,
           NEW val \in Seq(Byte), NEW r2,
           fdt_off_dt_struct(r.m) <= a,
           a + Words(at + Len(val)) <= fdt_off_dt_struct(r.m) + fdt_size_dt_struct(r.m),
           r2.ret \in Int, r2.m = CopyBytes(r.m, a, at, val)
    PROVE  Edited(m, r2)
<1> DEFINE b == r.m
<1>1. /\ Good(b) /\ fdt_off_dt_struct(b) \in Nat /\ fdt_size_dt_struct(b) \in Nat
      /\ fdt_off_dt_strings(b) \in Nat /\ fdt_size_dt_strings(b) \in Nat
      /\ fdt_totalsize(b) \in Nat
      /\ fdt_off_dt_struct(b) + fdt_size_dt_struct(b) <= fdt_off_dt_strings(b)
      /\ fdt_off_dt_strings(b) + fdt_size_dt_strings(b) <= fdt_totalsize(b)
  BY GoodFacts DEF Edited
<1>2. at + Len(val) \in Nat /\ Words(at + Len(val)) \in Nat
  <2>1. at + Len(val) \in Nat
    OBVIOUS
  <2> QED BY <2>1, WordsNat
<1>3. /\ fdt_off_dt_struct(b) <= a /\ r2.m = CopyBytes(b, a, at, val)
      /\ a + Words(at + Len(val)) <= fdt_totalsize(b)
  BY <1>1, <1>2
<1> HIDE DEF b
<1>4. Good(r2.m) /\ Within(b, r2.m) /\ SameBlocks(b, r2.m)
  BY <1>1, <1>3, CopyWritten
<1>5. Edited(b, r2)
  BY <1>4 DEF Edited, SameBlocks
<1> QED BY <1>5, EditedTwice DEF b

-----------------------------------------------------------------------------
(* The calls that edit properties and nodes.                               *)

\* fdt_setprop leaves the blocks in order, found or not, room or not.
LEMMA SetPropEdited ==
    ASSUME NEW m, Good(m), NEW o \in Nat, NEW name \in Names, NEW t \in Nat,
           NEW val \in Seq(Byte)
    PROVE  Edited(m, SetProp(m, o, name, t, val))
<1> DEFINE len == Len(val)
           q == fdt_resize_property_(m, o, name, len)
           r == fdt_setprop_placeholder(m, o, name, t, len)
           f == SetProp(m, o, name, t, val)
<1>0. len \in Nat
  OBVIOUS
<1>1. PropEdited(m, r, len)
  <2>1. r = q \/ r = fdt_add_property_(m, o, name, t, len)
    BY DEF fdt_setprop_placeholder
  <2> HIDE DEF r, len
  <2> QED BY <1>0, <2>1, ResizeProperty, AddProperty
<1>2. CASE r.ret # 0
  <2>1. f = r
    BY <1>2 DEF SetProp, Filled
  <2> QED BY <1>1, <2>1 DEF PropEdited
<1>3. CASE r.ret = 0
  <2>1. f = [ret |-> 0, m |-> CopyBytes(r.m, r.p + PropSize, 0, val), p |-> 0]
    BY <1>3 DEF SetProp, Filled, Return
  <2>2. f.ret \in Int /\ f.m = CopyBytes(r.m, r.p + PropSize, 0, val)
    <3> HIDE DEF f, r
    <3> QED BY <2>1
  <2>3. /\ Edited(m, r) /\ r.p \in Nat /\ fdt_off_dt_struct(r.m) <= r.p
        /\ r.p + PropSize + Words(len) <= fdt_off_dt_struct(r.m) + fdt_size_dt_struct(r.m)
    BY <1>1, <1>3 DEF PropEdited
  <2>4. fdt_off_dt_struct(r.m) \in Nat
    BY <2>3, GoodFacts DEF Edited
  <2> DEFINE a == r.p + PropSize
  <2>5. a \in Nat /\ fdt_off_dt_struct(r.m) <= a /\ 0 + Len(val) = len
    <3> HIDE DEF r
    <3> QED BY <2>3, <2>4
  <2>6. a + Words(0 + Len(val)) <= fdt_off_dt_struct(r.m) + fdt_size_dt_struct(r.m)
    BY <2>3, <2>5
  <2> HIDE DEF f, r
  <2>7. f.m = CopyBytes(r.m, a, 0, val)
    BY <2>2
  <2> HIDE DEF a
  <2>8. Edited(m, f)
    BY <2>2, <2>3, <2>5, <2>6, <2>7, EditedCopy
  <2> QED BY <2>8 DEF f
<1> QED BY <1>2, <1>3

\* fdt_appendprop does: old and new bytes fit the resized value.
LEMMA AppendPropEdited ==
    ASSUME NEW m, Good(m), NEW o \in Nat, NEW name \in Names, NEW t \in Nat,
           NEW val \in Seq(Byte)
    PROVE  Edited(m, AppendProp(m, o, name, t, val))
<1> DEFINE prop   == fdt_get_property(m, o, name)
           oldlen == PropLen(m, prop)
           newlen == Len(val) + oldlen
           data   == PropData(m, prop)
           r == fdt_splice_struct_(m, data, Words(oldlen), Words(newlen))
           a == fdt_add_property_(m, o, name, t, Len(val))
           f == AppendProp(m, o, name, t, val)
<1>0. /\ fdt_off_dt_struct(m) \in Nat /\ fdt_size_dt_struct(m) \in Nat
      /\ Len(val) \in Nat /\ prop \in Int
  BY SMTT(30), GoodFacts, GetProperty
<1>1. CASE prop >= 0
  <2>1. /\ oldlen \in Nat /\ Words(oldlen) \in Nat /\ newlen \in Nat
        /\ prop + PropSize + Words(oldlen) <= fdt_size_dt_struct(m)
    <3>1. oldlen \in Nat /\ prop + PropSize + Words(oldlen) <= fdt_size_dt_struct(m)
      BY <1>1, GetProperty
    <3> HIDE DEF oldlen, prop
    <3> QED BY <1>0, <3>1, WordsNat
  <2>2. Words(newlen) \in Nat
    BY <2>1, WordsNat
  <2>3. data = fdt_off_dt_struct(m) + prop + PropSize
    BY DEF PropData
  <2>4. /\ data \in Nat /\ fdt_off_dt_struct(m) <= data
        /\ data + Words(oldlen) <= fdt_off_dt_struct(m) + fdt_size_dt_struct(m)
    <3> HIDE DEF prop, oldlen, data
    <3> QED BY SMTT(30), <1>0, <1>1, <2>1, <2>3
  <2>5. /\ Edited(m, r)
        /\ r.ret = 0 => fdt_size_dt_struct(r.m) =
                fdt_size_dt_struct(m) + Words(newlen) - Words(oldlen)
    <3> HIDE DEF prop, oldlen, newlen, data
    <3> QED BY <2>1, <2>2, <2>4, StructEdited
  <2>6. CASE r.ret # 0
    <3>1. f = r
      BY <1>1, <2>6 DEF AppendProp, AppendAt, Filled
    <3> QED BY <2>5, <3>1
  <2>7. CASE r.ret = 0
    <3> DEFINE c == Set(r.m, fdt_off_dt_struct(m) + prop + 1, newlen)
               g == [ret |-> 0, m |-> c]
    <3>1. f = [ret |-> 0, m |-> CopyBytes(c, data, oldlen, val), p |-> 0]
      BY <1>1, <2>7 DEF AppendProp, AppendAt, Filled, Return
    <3>2. f.ret = 0 /\ f.m = CopyBytes(c, data, oldlen, val)
      <4> HIDE DEF f, c
      <4> QED BY <3>1
    <3> DEFINE S == fdt_off_dt_struct(r.m)
               N == fdt_size_dt_struct(r.m)
               x == fdt_off_dt_struct(m) + prop + 1
    <3>3. S = fdt_off_dt_struct(m) /\ N = fdt_size_dt_struct(m) + Words(newlen) - Words(oldlen)
      BY <2>5, <2>7 DEF Edited
    <3>4. /\ x \in Nat /\ S <= x /\ x < S + N
          /\ S <= data /\ data + Words(newlen) <= S + N
      <4> DEFINE W1 == Words(oldlen)
                 W2 == Words(newlen)
      <4>1. /\ W1 \in Nat /\ W2 \in Nat /\ prop + 3 + W1 <= fdt_size_dt_struct(m)
            /\ data = fdt_off_dt_struct(m) + prop + 3
            /\ N = fdt_size_dt_struct(m) + W2 - W1
        BY <2>1, <2>2, <2>3, <3>3
      <4> HIDE DEF prop, oldlen, newlen, data, S, N, W1, W2
      <4>2. x \in Nat /\ S <= x /\ S <= data
        BY <1>0, <1>1, <3>3, <4>1
      <4>3. x < S + N /\ data + W2 <= S + N
        BY SMTT(30), <1>0, <1>1, <3>3, <4>1
      <4> QED BY <4>2, <4>3 DEF W2
    <3>5. g.ret \in Int /\ g.m = Set(r.m, x, newlen)
      <4>1. g.ret = 0 /\ g.m = c
        BY Zenon
      <4> HIDE DEF g
      <4> QED BY <4>1
    <3>6. Edited(m, g) /\ fdt_size_dt_struct(g.m) = N /\ fdt_off_dt_struct(g.m) = S
      <4> HIDE DEF g, x, newlen, r
      <4>1. Edited(m, g) /\ fdt_size_dt_struct(g.m) = fdt_size_dt_struct(r.m)
        BY <2>1, <2>5, <3>4, <3>5, EditedSet
      <4> QED BY <2>5, <4>1 DEF Edited
    <3>7. f.ret \in Int /\ f.m = CopyBytes(g.m, data, oldlen, val) /\ oldlen + Len(val) = newlen
      <4>1. g.m = c
        BY Zenon
      <4>2. f.ret \in Int
        BY <3>2
      <4>3. oldlen + Len(val) = newlen
        <5> HIDE DEF oldlen
        <5> QED BY <1>0, <2>1
      <4> QED BY <3>2, <4>1, <4>2, <4>3, Zenon
    <3> HIDE DEF f, g, data, oldlen, newlen, S, N
    <3>8. Edited(m, f)
      BY <2>1, <2>4, <3>4, <3>6, <3>7, EditedCopy
    <3> QED BY <3>8 DEF f
  <2> QED BY <2>6, <2>7
<1>2. CASE prop < 0
  <2>1. PropEdited(m, a, Len(val))
    BY <1>0, AddProperty
  <2>2. CASE a.ret # 0
    <3>1. f = a
      BY <1>0, <1>2, <2>2 DEF AppendProp, AppendAt, Filled
    <3> QED BY <2>1, <3>1 DEF PropEdited
  <2>3. CASE a.ret = 0
    <3> DEFINE d == a.p + PropSize
    <3>1. f = [ret |-> 0, m |-> CopyBytes(a.m, d, 0, val), p |-> 0]
      BY <1>0, <1>2, <2>3 DEF AppendProp, AppendAt, Filled, Return
    <3>2. f.ret \in Int /\ f.m = CopyBytes(a.m, d, 0, val)
      <4> HIDE DEF f, a, d
      <4> QED BY <3>1
    <3>3. /\ Edited(m, a) /\ a.p \in Nat /\ fdt_off_dt_struct(a.m) <= a.p
          /\ a.p + PropSize + Words(Len(val)) <= fdt_off_dt_struct(a.m) + fdt_size_dt_struct(a.m)
      BY <2>1, <2>3 DEF PropEdited
    <3>4. fdt_off_dt_struct(a.m) \in Nat
      BY <3>3, GoodFacts DEF Edited
    <3>5. /\ d \in Nat /\ fdt_off_dt_struct(a.m) <= d /\ 0 + Len(val) = Len(val)
          /\ d + Words(Len(val)) <= fdt_off_dt_struct(a.m) + fdt_size_dt_struct(a.m)
      <4> HIDE DEF a
      <4> QED BY <1>0, <3>3, <3>4
    <3> HIDE DEF f, a, d
    <3>6. Edited(m, f)
      BY <3>2, <3>3, <3>5, EditedCopy
    <3> QED BY <3>6 DEF f
  <2> QED BY <2>2, <2>3
<1> QED BY <1>0, <1>1, <1>2

\* fdt_delprop does: what it cuts out ends inside the structure block.
LEMMA DelPropEdited ==
    ASSUME NEW m, Good(m), NEW o \in Nat, NEW name
    PROVE  Edited(m, DelProp(m, o, name))
<1> DEFINE prop == fdt_get_property(m, o, name)
           W    == Words(PropLen(m, prop))
           p    == fdt_off_dt_struct(m) + prop
           f    == DelProp(m, o, name)
<1>0. /\ fdt_off_dt_struct(m) \in Nat /\ fdt_size_dt_struct(m) \in Nat /\ prop \in Int
  BY GoodFacts, GetProperty
<1>1. CASE prop < 0
  <2>1. f = [ret |-> prop, m |-> m, p |-> 0]
    BY <1>1 DEF DelProp, Return
  <2> HIDE DEF f, prop
  <2> QED BY <1>0, <2>1, EditedSame DEF f
<1>2. CASE prop >= 0
  <2>1. W \in Nat /\ prop + PropSize + W <= fdt_size_dt_struct(m)
    BY <1>2, GetProperty, WordsNat
  <2>2. f = fdt_splice_struct_(m, p, PropSize + W, 0)
    BY <1>0, <1>2 DEF DelProp
  <2>3. /\ p \in Nat /\ fdt_off_dt_struct(m) <= p /\ PropSize + W \in Nat
        /\ p + (PropSize + W) <= fdt_off_dt_struct(m) + fdt_size_dt_struct(m)
    <3> HIDE DEF prop, W
    <3> QED BY <1>0, <1>2, <2>1
  <2>4. Edited(m, f)
    <3> HIDE DEF f, p, W
    <3> QED BY <2>2, <2>3, StructEdited
  <2> QED BY <2>4
<1> QED BY <1>0, <1>1, <1>2

\* fdt_del_node does: the node ends inside the structure block.
LEMMA DelNodeEdited ==
    ASSUME NEW m, Good(m), NEW o \in Nat
    PROVE  Edited(m, DelNode(m, o))
<1> DEFINE end == fdt_node_end_offset_(m, o)
           p   == fdt_off_dt_struct(m) + o
           n   == end - o
           f   == DelNode(m, o)
<1>0. /\ fdt_off_dt_struct(m) \in Nat /\ fdt_size_dt_struct(m) \in Nat /\ end \in Int
      /\ end >= 0 => o < end /\ end <= fdt_size_dt_struct(m)
  BY GoodFacts, NodeEnd
<1>1. CASE end < 0
  <2>1. f = [ret |-> end, m |-> m, p |-> 0]
    BY <1>1 DEF DelNode, Return
  <2> HIDE DEF f, end
  <2> QED BY <1>0, <2>1, EditedSame DEF f
<1>2. CASE end >= 0
  <2>1. f = fdt_splice_struct_(m, p, n, 0)
    BY <1>0, <1>2 DEF DelNode
  <2>2. /\ p \in Nat /\ fdt_off_dt_struct(m) <= p /\ n \in Nat
        /\ p + n <= fdt_off_dt_struct(m) + fdt_size_dt_struct(m)
    <3> HIDE DEF end
    <3> QED BY <1>0, <1>2
  <2>3. Edited(m, f)
    <3> HIDE DEF f, p, n
    <3> QED BY <2>1, <2>2, StructEdited
  <2> QED BY <2>3
<1> QED BY <1>0, <1>1, <1>2

(* fdt_wip.c never moves anything.                                         *)

\* fdt_setprop_inplace_namelen_partial stays inside the value it overwrites.
LEMMA SetPropPartialEdited ==
    ASSUME NEW m, Good(m), NEW o \in Nat, NEW name, NEW idx \in Nat,
           NEW val \in Seq(Byte)
    PROVE  Edited(m, SetPropPartial(m, o, name, idx, val))
<1> DEFINE prop == fdt_get_property(m, o, name)
           len  == PropLen(m, prop)
           data == PropData(m, prop)
           same == [ret |-> 0, m |-> m]
           f    == SetPropPartial(m, o, name, idx, val)
<1>0. /\ fdt_off_dt_struct(m) \in Nat /\ fdt_size_dt_struct(m) \in Nat /\ prop \in Int
      /\ Len(val) \in Nat
  BY SMTT(30), GoodFacts, GetProperty
<1>1. CASE prop < 0 \/ len < Len(val) + idx
  <2> DEFINE e == IF prop < 0 THEN prop ELSE -FDT_ERR_NOSPACE
  <2>1. f = [ret |-> e, m |-> m, p |-> 0]
    BY <1>1, Zenon DEF SetPropPartial, Return
  <2>2. e \in Int
    BY <1>0
  <2> HIDE DEF f, e
  <2>3. Edited(m, f)
    BY <2>1, <2>2, EditedSame
  <2> QED BY <2>3 DEF f
<1>2. CASE prop >= 0 /\ ~(len < Len(val) + idx)
  <2>1. /\ len \in Nat /\ Words(len) \in Nat
        /\ prop + PropSize + Words(len) <= fdt_size_dt_struct(m)
    BY <1>2, GetProperty, WordsNat
  <2>2. Words(idx + Len(val)) \in Nat /\ Words(idx + Len(val)) <= Words(len)
    <3> HIDE DEF len
    <3> QED BY <1>0, <1>2, <2>1 DEF Words
  <2>3. data = fdt_off_dt_struct(m) + prop + PropSize
    BY DEF PropData
  <2>4. /\ data \in Nat /\ fdt_off_dt_struct(m) <= data
        /\ data + Words(idx + Len(val)) <= fdt_off_dt_struct(m) + fdt_size_dt_struct(m)
    <3> DEFINE W1 == Words(idx + Len(val))
               W2 == Words(len)
    <3>1. W1 \in Nat /\ W2 \in Nat /\ W1 <= W2 /\ prop + 3 + W2 <= fdt_size_dt_struct(m)
      BY <2>1, <2>2
    <3> HIDE DEF W1, W2, prop, data
    <3>2. data \in Nat /\ fdt_off_dt_struct(m) <= data
          /\ data + W1 <= fdt_off_dt_struct(m) + fdt_size_dt_struct(m)
      BY <1>0, <1>2, <2>3, <3>1
    <3> QED BY <3>2 DEF W1
  <2>5. f = [ret |-> 0, m |-> CopyBytes(m, data, idx, val), p |-> 0]
    <3>1. ~(prop < 0)
      <4> HIDE DEF prop
      <4> QED BY <1>0, <1>2
    <3> QED BY <1>2, <3>1 DEF SetPropPartial, Return
  <2>6. same.m = m /\ same.ret = 0
    BY Zenon
  <2>7. f.ret \in Int /\ f.m = CopyBytes(same.m, data, idx, val)
    <3> HIDE DEF f, data, same
    <3> QED BY <2>5, <2>6
  <2>8. Edited(m, same)
    <3> HIDE DEF same
    <3> QED BY <2>6, EditedSame
  <2>9. Edited(m, f)
    <3> HIDE DEF f, data, same
    <3> QED BY <2>4, <2>6, <2>7, <2>8, EditedCopy
  <2> QED BY <2>9
<1> QED BY <1>0, <1>1, <1>2

\* fdt_setprop_inplace does, through the partial function.
LEMMA SetPropInplaceEdited ==
    ASSUME NEW m, Good(m), NEW o \in Nat, NEW name, NEW val \in Seq(Byte)
    PROVE  Edited(m, SetPropInplace(m, o, name, val))
<1> DEFINE f == SetPropInplace(m, o, name, val)
<1>1. \/ f = SetPropPartial(m, o, name, 0, val)
      \/ \E e \in Int : f = [ret |-> e, m |-> m, p |-> 0]
  BY GetProperty DEF SetPropInplace, Return
<1> HIDE DEF f
<1>2. CASE \E e \in Int : f = [ret |-> e, m |-> m, p |-> 0]
  BY <1>2, EditedSame DEF f
<1> QED BY <1>1, <1>2, SetPropPartialEdited DEF f

\* FDT_NOPs over words of the structure block.
LEMMA NopRegion ==
    ASSUME NEW m, Good(m), NEW a \in Nat, NEW n \in Nat, NEW r, r.ret \in Int,
           r.m = fdt_nop_region_(m, a, n), fdt_off_dt_struct(m) <= a,
           a + n <= fdt_off_dt_struct(m) + fdt_size_dt_struct(m)
    PROVE  Edited(m, r)
<1> DEFINE m2 == fdt_nop_region_(m, a, n)
<1>0. /\ m \in Memory /\ MemSize \in Nat /\ fdt_totalsize(m) \in Nat
      /\ fdt_off_dt_struct(m) \in Nat /\ fdt_size_dt_struct(m) \in Nat
      /\ fdt_off_dt_strings(m) \in Nat /\ fdt_size_dt_strings(m) \in Nat
      /\ fdt_off_dt_struct(m) + fdt_size_dt_struct(m) <= fdt_off_dt_strings(m)
      /\ fdt_off_dt_strings(m) + fdt_size_dt_strings(m) <= fdt_totalsize(m)
      /\ DOMAIN m = 0 .. MemSize - 1
  BY GoodFacts DEF Memory
<1>1. /\ m2 \in Memory
      /\ \A x \in 0 .. MemSize - 1 : x \notin a .. a + n - 1 => m2[x] = m[x]
  BY <1>0, CellFacts DEF fdt_nop_region_, Memory
<1> HIDE DEF m2
<1>2. \A x \in 0 .. MemSize - 1 :
        x < fdt_off_dt_struct(m) \/ x >= fdt_totalsize(m) => m2[x] = m[x]
  BY <1>0, <1>1
<1>3. Good(m2) /\ Within(m, m2) /\ SameBlocks(m, m2)
  BY <1>1, <1>2, StructWritten
<1> QED BY <1>3 DEF Edited, SameBlocks, m2

\* fdt_nop_property overwrites the property and no more.
LEMMA NopPropertyEdited ==
    ASSUME NEW m, Good(m), NEW o \in Nat, NEW name
    PROVE  Edited(m, NopProperty(m, o, name))
<1> DEFINE prop == fdt_get_property(m, o, name)
           W    == Words(PropLen(m, prop))
           a    == fdt_off_dt_struct(m) + prop
           f    == NopProperty(m, o, name)
<1>0. /\ fdt_off_dt_struct(m) \in Nat /\ fdt_size_dt_struct(m) \in Nat /\ prop \in Int
  BY GoodFacts, GetProperty
<1>1. CASE prop < 0
  <2>1. f = [ret |-> prop, m |-> m, p |-> 0]
    BY <1>1 DEF NopProperty, Return
  <2> HIDE DEF f, prop
  <2> QED BY <1>0, <2>1, EditedSame DEF f
<1>2. CASE prop >= 0
  <2>1. W \in Nat /\ prop + PropSize + W <= fdt_size_dt_struct(m)
    BY <1>2, GetProperty, WordsNat
  <2>2. f = [ret |-> 0, m |-> fdt_nop_region_(m, a, PropSize + W), p |-> 0]
    BY <1>0, <1>2 DEF NopProperty, Return
  <2>3. /\ a \in Nat /\ fdt_off_dt_struct(m) <= a /\ PropSize + W \in Nat
        /\ a + (PropSize + W) <= fdt_off_dt_struct(m) + fdt_size_dt_struct(m)
    <3> HIDE DEF prop, W
    <3> QED BY <1>0, <1>2, <2>1
  <2>4. f.ret \in Int /\ f.m = fdt_nop_region_(m, a, PropSize + W)
    <3> HIDE DEF f, a, W
    <3> QED BY <2>2
  <2>5. Edited(m, f)
    <3> HIDE DEF f, a, W
    <3> QED BY <2>3, <2>4, NopRegion
  <2> QED BY <2>5
<1> QED BY <1>0, <1>1, <1>2

\* fdt_nop_node overwrites the node and no more.
LEMMA NopNodeEdited ==
    ASSUME NEW m, Good(m), NEW o \in Nat
    PROVE  Edited(m, NopNode(m, o))
<1> DEFINE end == fdt_node_end_offset_(m, o)
           a   == fdt_off_dt_struct(m) + o
           n   == end - o
           f   == NopNode(m, o)
<1>0. /\ fdt_off_dt_struct(m) \in Nat /\ fdt_size_dt_struct(m) \in Nat /\ end \in Int
      /\ end >= 0 => o < end /\ end <= fdt_size_dt_struct(m)
  BY GoodFacts, NodeEnd
<1>1. CASE end < 0
  <2>1. f = [ret |-> end, m |-> m, p |-> 0]
    BY <1>1 DEF NopNode, Return
  <2> HIDE DEF f, end
  <2> QED BY <1>0, <2>1, EditedSame DEF f
<1>2. CASE end >= 0
  <2>1. f = [ret |-> 0, m |-> fdt_nop_region_(m, a, n), p |-> 0]
    BY <1>0, <1>2 DEF NopNode, Return
  <2>2. /\ a \in Nat /\ fdt_off_dt_struct(m) <= a /\ n \in Nat
        /\ a + n <= fdt_off_dt_struct(m) + fdt_size_dt_struct(m)
    <3> HIDE DEF end
    <3> QED BY <1>0, <1>2
  <2>3. f.ret \in Int /\ f.m = fdt_nop_region_(m, a, n)
    <3> HIDE DEF f, a, n
    <3> QED BY <2>1
  <2>4. Edited(m, f)
    <3> HIDE DEF f, a, n
    <3> QED BY <2>2, <2>3, NopRegion
  <2> QED BY <2>4
<1> QED BY <1>0, <1>1, <1>2

-----------------------------------------------------------------------------
(* Nodes.                                                                  *)

\* Storing cells inside the structure block, after another edit.
LEMMA EditedStore ==
    ASSUME NEW m, NEW r, Edited(m, r), NEW a \in Nat, NEW n \in Nat,
           NEW cells, cells \in [1 .. n -> Cell], Len(cells) = n,
           fdt_off_dt_struct(r.m) <= a,
           a + n <= fdt_off_dt_struct(r.m) + fdt_size_dt_struct(r.m),
           NEW r2, r2.ret \in Int, r2.m = Store(r.m, a, cells)
    PROVE  Edited(m, r2)
<1> DEFINE b  == r.m
           m2 == Store(b, a, cells)
<1>0. /\ Good(b) /\ b \in Memory /\ MemSize \in Nat /\ fdt_totalsize(b) \in Nat
      /\ fdt_off_dt_struct(b) \in Nat /\ fdt_size_dt_struct(b) \in Nat
      /\ fdt_off_dt_strings(b) \in Nat /\ fdt_size_dt_strings(b) \in Nat
      /\ fdt_off_dt_struct(b) + fdt_size_dt_struct(b) <= fdt_off_dt_strings(b)
      /\ fdt_off_dt_strings(b) + fdt_size_dt_strings(b) <= fdt_totalsize(b)
      /\ DOMAIN b = 0 .. MemSize - 1
  BY GoodFacts DEF Edited, Memory
<1>1. \A x \in 0 .. MemSize - 1 :
        m2[x] = IF x \in a .. a + n - 1 THEN cells[x - a + 1] ELSE b[x]
  BY <1>0 DEF Store
<1>2. \A x \in 0 .. MemSize - 1 : m2[x] \in Cell
  <2> TAKE x \in 0 .. MemSize - 1
  <2>1. x \in a .. a + n - 1 => x - a + 1 \in 1 .. n
    OBVIOUS
  <2>2. b[x] \in Cell
    BY <1>0 DEF Memory
  <2> HIDE DEF m2, b
  <2> QED BY <1>1, <2>1, <2>2
<1>3. m2 \in Memory
  BY <1>0, <1>2 DEF Store, Memory
<1>4. \A x \in 0 .. MemSize - 1 :
        x < fdt_off_dt_struct(b) \/ x >= fdt_totalsize(b) => m2[x] = b[x]
  <2> HIDE DEF m2
  <2> QED BY SMTT(30), <1>0, <1>1
<1>5. Good(m2) /\ Within(b, m2) /\ SameBlocks(b, m2)
  <2> HIDE DEF m2
  <2> QED BY <1>0, <1>3, <1>4, StructWritten
<1>6. Edited(b, r2)
  BY <1>5 DEF Edited, SameBlocks
<1> QED BY <1>6, EditedTwice

\* A search for a subnode that finds none has seen the node's properties end
\* inside the structure block.
LEMMA SubnodeNotFound ==
    ASSUME NEW m, Good(m), NEW o \in Nat, NEW name
    PROVE  LET found == fdt_subnode_offset_namelen(m, o, name)
               at    == AfterProps(Walk(m, fdt_next_tag(m, o).next)).at
           IN  /\ found \in Int
               /\ found = -FDT_ERR_NOTFOUND => at \in Nat /\ at <= fdt_size_dt_struct(m)
<1> DEFINE next == fdt_check_node_offset_(m, o)
           w    == Walk(m, next)
           hits == {x \in Tagged(w, {FDT_BEGIN_NODE}) :
                        /\ Depth(w, x) = 1
                        /\ \A y \in Closes(w) : x.at < y.at
                        /\ fdt_nodename_eq_(m, x.at, name)}
           found == fdt_subnode_offset_namelen(m, o, name)
<1>1. fdt_check_header(m) = 0
  BY GoodFacts DEF Good, InOrder, fdt_check_header
<1>2. next \in Nat \/ next = -FDT_ERR_BADOFFSET
  BY NextTag, GoodReadable DEF fdt_check_node_offset_
<1>3. found = IF next < 0 THEN next
              ELSE IF hits # {} THEN First(hits).at
              ELSE IF Closes(w) # {} THEN -FDT_ERR_NOTFOUND
              ELSE EndError(w)
  BY <1>1, Zenon DEF fdt_subnode_offset_namelen, SubnodeIn
<1>4. CASE next = -FDT_ERR_BADOFFSET
  <2>1. found = next
    BY <1>3, <1>4
  <2> QED BY <1>4, <2>1
<1>5. CASE next \in Nat /\ hits # {}
  <2>1. hits \subseteq w
    BY DEF Tagged
  <2>2. First(hits).at \in Nat
    <3> HIDE DEF hits
    <3> QED BY <1>5, <2>1, WalkFirst
  <2>3. found = First(hits).at
    <3> HIDE DEF hits, found, next
    <3> QED BY <1>3, <1>5
  <2> HIDE DEF found, hits
  <2> QED BY <2>2, <2>3 DEF found
<1>6. CASE next \in Nat /\ hits = {}
  <2> DEFINE at == AfterProps(w).at
             e  == EndError(w)
  <2>1. next = fdt_next_tag(m, o).next
    BY <1>6 DEF fdt_check_node_offset_
  <2>2. /\ Last(w) \in w /\ at \in Nat /\ at <= Last(w).at
        /\ \A x \in Closes(w) : at <= x.at
    BY <1>6, WalkStop, GoodReadable
  <2>3. \A x \in w : /\ x.at \in Nat
                     /\ x.next \in Nat \cup {-FDT_ERR_TRUNCATED, -FDT_ERR_BADSTRUCTURE}
                     /\ x.tag # FDT_END => x.next \in Nat
                     /\ x.next \in Nat => x.at < x.next /\ x.next <= fdt_size_dt_struct(m)
    <3> TAKE x \in w
    <3>1. x.at \in Nat /\ x.tag = fdt_next_tag(m, x.at).tag /\ x.next = fdt_next_tag(m, x.at).next
      BY <1>6, WalkItems, MemAssumption
    <3> HIDE DEF w
    <3> QED BY <3>1, NextTag, GoodReadable
  <2>4. \A x \in Closes(w) : x \in w /\ x.tag # FDT_END
    BY DEF Closes, Tagged
  <2>5. fdt_size_dt_struct(m) \in Nat
    BY GoodFacts
  <2>6. CASE Closes(w) # {}
    <3>1. found = -FDT_ERR_NOTFOUND
      <4> HIDE DEF hits, found, next
      <4> QED BY <1>3, <1>6, <2>6
    <3>2. PICK x \in Closes(w) : TRUE
      BY <2>6
    <3>3. at \in Nat /\ x.at \in Nat /\ x.next \in Nat /\ at <= x.at /\ x.at < x.next
          /\ x.next <= fdt_size_dt_struct(m)
      <4> HIDE DEF w, at
      <4> QED BY <2>2, <2>3, <2>4
    <3>4. at \in Nat /\ at <= fdt_size_dt_struct(m)
      <4> HIDE DEF w, at
      <4> QED BY <2>5, <3>3
    <3>5. found \in Int
      BY <3>1
    <3> QED BY <2>1, <3>4, <3>5
  <2>7. CASE Closes(w) = {}
    <3>1. found = e
      <4> HIDE DEF hits, found, next, e
      <4> QED BY <1>3, <1>6, <2>7 DEF e
    <3> DEFINE last == Last(w)
    <3>2. /\ last.at \in Nat /\ last.next \in Nat \cup {-FDT_ERR_TRUNCATED, -FDT_ERR_BADSTRUCTURE}
          /\ last.next \in Nat => last.at < last.next /\ last.next <= fdt_size_dt_struct(m)
      <4> HIDE DEF w
      <4> QED BY <2>2, <2>3
    <3>3. e = IF last.next >= 0 THEN -FDT_ERR_NOTFOUND ELSE last.next
      BY DEF EndError
    <3>4. e \in Int /\ (e = -FDT_ERR_NOTFOUND => last.next \in Nat)
      <4> HIDE DEF last, e
      <4> QED BY <3>2, <3>3
    <3>5. last.next \in Nat => at \in Nat /\ at <= fdt_size_dt_struct(m)
      <4>1. at \in Nat /\ at <= last.at
        BY <2>2
      <4> HIDE DEF last, at
      <4> QED BY <2>5, <3>2, <4>1
    <3>6. found \in Int /\ (found = -FDT_ERR_NOTFOUND => at \in Nat /\ at <= fdt_size_dt_struct(m))
      <4> HIDE DEF last, at, found, e
      <4> QED BY <3>1, <3>4, <3>5
    <3> HIDE DEF found, next
    <3> QED BY <2>1, <3>6 DEF found
  <2> QED BY <2>6, <2>7
<1> QED BY <1>2, <1>4, <1>5, <1>6

\* fdt_add_subnode_namelen puts the new node behind the parent's properties and
\* writes exactly the words it has made room for.
LEMMA AddSubnodeEdited ==
    ASSUME NEW m, Good(m), NEW o \in Nat, NEW name \in [s : Names, namelen : Nat]
    PROVE  Edited(m, AddSubnode(m, o, name))
<1> DEFINE found == fdt_subnode_offset_namelen(m, o, name)
           at    == AfterProps(Walk(m, fdt_next_tag(m, o).next)).at
           nh    == fdt_off_dt_struct(m) + at
           len   == Words(name.namelen + 1)
           r     == fdt_splice_struct_(m, nh, 0, len + 2)
           n     == Words(NameLen[name.s] + 1)
           cells == [i \in 1 .. len + 2 |->
                        IF i = 1 THEN Num(FDT_BEGIN_NODE)
                        ELSE IF i <= n THEN Name(name.s, 0)
                        ELSE IF i = n + 1 THEN Name(name.s, 1)
                        ELSE IF i = len + 2 THEN Num(FDT_END_NODE)
                        ELSE Num(0)]
           f     == AddSubnode(m, o, name)
<1>0. /\ fdt_off_dt_struct(m) \in Nat /\ fdt_size_dt_struct(m) \in Nat /\ len \in Nat
      /\ found \in Int
  BY GoodFacts, WordsNat, SubnodeNotFound
<1>1. f = IF found >= 0 THEN Return(-FDT_ERR_EXISTS, m)
          ELSE IF found # -FDT_ERR_NOTFOUND THEN Return(found, m)
          ELSE IF r.ret # 0 THEN r
          ELSE Return(at, Store(r.m, nh, cells))
  BY Zenon DEF AddSubnode
<1>2. CASE found # -FDT_ERR_NOTFOUND
  <2> DEFINE e == IF found >= 0 THEN -FDT_ERR_EXISTS ELSE found
  <2>1. f = [ret |-> e, m |-> m, p |-> 0]
    <3> HIDE DEF f, found, cells, r
    <3> QED BY <1>1, <1>2, Zenon DEF Return
  <2>2. e \in Int
    BY <1>0
  <2> HIDE DEF f, e
  <2>3. Edited(m, f)
    BY <2>1, <2>2, EditedSame
  <2> QED BY <2>3 DEF f
<1>3. CASE found = -FDT_ERR_NOTFOUND
  <2>1. at \in Nat /\ at <= fdt_size_dt_struct(m)
    BY <1>3, SubnodeNotFound
  <2>2. /\ nh \in Nat /\ fdt_off_dt_struct(m) <= nh /\ len + 2 \in Nat
        /\ nh + 0 <= fdt_off_dt_struct(m) + fdt_size_dt_struct(m)
    <3> HIDE DEF at, len
    <3> QED BY <1>0, <2>1
  <2>3. /\ Edited(m, r)
        /\ r.ret = 0 => fdt_size_dt_struct(r.m) = fdt_size_dt_struct(m) + (len + 2) - 0
    <3> HIDE DEF at, nh, len
    <3> QED BY <2>2, StructEdited
  <2>4. f = IF r.ret # 0 THEN r ELSE Return(at, Store(r.m, nh, cells))
    <3>1. ~(found >= 0)
      BY <1>3
    <3> HIDE DEF f, found, cells, r
    <3> QED BY <1>1, <1>3, <3>1
  <2>5. CASE r.ret # 0
    <3>1. f = r
      <4> HIDE DEF f, r, cells
      <4> QED BY <2>4, <2>5
    <3> QED BY <2>3, <3>1
  <2>6. CASE r.ret = 0
    <3>1. f = [ret |-> at, m |-> Store(r.m, nh, cells), p |-> 0]
      <4> HIDE DEF f, r, cells, at, nh
      <4> QED BY <2>4, <2>6 DEF Return
    <3>2. f.ret \in Int /\ f.m = Store(r.m, nh, cells)
      <4> HIDE DEF f, r, cells, at, nh
      <4> QED BY <2>1, <3>1
    <3>3. \A i \in 1 .. len + 2 : cells[i] \in Cell
      <4>1. /\ Num(FDT_BEGIN_NODE) \in Cell /\ Num(FDT_END_NODE) \in Cell /\ Num(0) \in Cell
            /\ Name(name.s, 0) \in Cell /\ Name(name.s, 1) \in Cell
        BY CellFacts
      <4> HIDE DEF len, n
      <4> QED BY <4>1
    <3>4. cells \in [1 .. len + 2 -> Cell] /\ Len(cells) = len + 2
      <4>1. DOMAIN cells = 1 .. len + 2 /\ len + 2 \in Nat
        BY <2>2
      <4>2. cells = [i \in 1 .. len + 2 |-> cells[i]]
        BY Zenon
      <4> HIDE DEF cells, len
      <4>3. cells \in [1 .. len + 2 -> Cell]
        BY <3>3, <4>2
      <4>4. cells \in Seq(Cell)
        BY <4>1, <4>3
      <4> QED BY <4>1, <4>3, <4>4
    <3>5. /\ fdt_off_dt_struct(r.m) = fdt_off_dt_struct(m)
          /\ fdt_size_dt_struct(r.m) = fdt_size_dt_struct(m) + (len + 2) - 0
      BY <2>3, <2>6 DEF Edited
    <3>6. /\ fdt_off_dt_struct(r.m) <= nh
          /\ nh + (len + 2) <= fdt_off_dt_struct(r.m) + fdt_size_dt_struct(r.m)
      <4> HIDE DEF nh, len, r
      <4> QED BY <1>0, <2>2, <3>5
    <3> HIDE DEF f, r, cells, nh, len
    <3>7. Edited(m, f)
      BY <2>2, <2>3, <3>2, <3>4, <3>6, EditedStore
    <3> QED BY <3>7 DEF f
  <2> QED BY <2>5, <2>6
<1> QED BY <1>2, <1>3

\* Every name has a length.
LEMMA StrlenNat == \A s \in Names : strlen(s) \in Nat
<1> TAKE s \in Names
<1>1. NameLen[s] \in Nat
  BY NameAssumption, Zenon
<1> QED BY <1>1 DEF strlen

\* A node that there is has a name.
LEMMA NameIsName ==
    ASSUME NEW m, Good(m), NEW o \in Nat, fdt_check_node_offset_(m, o) >= 0
    PROVE  NameAt(m, o) \in Names /\ strlen(NameAt(m, o)) \in Nat
<1>1. /\ m \in Memory /\ MemSize \in Nat /\ fdt_off_dt_struct(m) \in Nat
      /\ fdt_size_dt_struct(m) \in Nat
      /\ fdt_off_dt_struct(m) + fdt_size_dt_struct(m) <= MemSize
  <2>1. /\ fdt_off_dt_strings(m) \in Nat /\ fdt_size_dt_strings(m) \in Nat
        /\ fdt_totalsize(m) \in Nat /\ BufSize \in Nat
        /\ fdt_off_dt_struct(m) + fdt_size_dt_struct(m) <= fdt_off_dt_strings(m)
        /\ fdt_off_dt_strings(m) + fdt_size_dt_strings(m) <= fdt_totalsize(m)
        /\ fdt_totalsize(m) <= BufSize /\ BufSize <= MemSize
    BY GoodFacts
  <2>2. m \in Memory /\ MemSize \in Nat /\ fdt_off_dt_struct(m) \in Nat
        /\ fdt_size_dt_struct(m) \in Nat
    BY GoodFacts
  <2> QED BY <2>1, <2>2
<1>2. o + 1 < fdt_size_dt_struct(m)
  <2> DEFINE nt == fdt_next_tag(m, o)
             e  == StringEnd(m, o + 1)
  <2>1. nt.tag = FDT_BEGIN_NODE
    BY DEF fdt_check_node_offset_
  <2>2. nt.next \in Nat /\ nt.next <= fdt_size_dt_struct(m)
    BY <2>1, NextTag, GoodReadable
  <2>3. e = 0 \/ e \in o + 2 .. MemSize
    BY DEF StringEnd
  <2>4. Value(At(m, o)) = FDT_BEGIN_NODE
    BY <2>1 DEF fdt_next_tag, TagTo, TagEnd
  <2>5. nt = IF ~fdt_offset_ptr(m, o, 1)
             THEN [tag |-> FDT_END, next |-> -FDT_ERR_TRUNCATED]
             ELSE IF e = 0 \/ ~fdt_offset_ptr(m, o, e - o)
             THEN [tag |-> FDT_END, next |-> -FDT_ERR_BADSTRUCTURE]
             ELSE [tag |-> FDT_BEGIN_NODE, next |-> e]
    BY <2>4 DEF fdt_next_tag, TagTo, TagEnd
  <2> HIDE DEF nt, e
  <2>6. nt.next = e /\ e # 0
    BY <2>1, <2>5
  <2> QED BY <1>1, <2>2, <2>3, <2>6
<1>3. At(m, o + 1) \in Cell
  BY <1>1, <1>2 DEF At, Memory
<1>4. NameAt(m, o) \in Names
  BY <1>3, NameAssumption DEF NameAt, Cell
<1> QED BY <1>4, StrlenNat

\* fdt_set_name replaces words of the structure block, if the old name and its
\* two extra bytes end inside it.
LEMMA SetNameEdited ==
    ASSUME NEW m, Good(m), NEW o \in Nat, NEW s \in Names, NEW t \in Nat,
           fdt_check_node_offset_(m, o) >= 0 =>
                o + 1 + Words(strlen(NameAt(m, o)) + 1) <= fdt_size_dt_struct(m)
    PROVE  Edited(m, SetName(m, o, s, t))
<1> DEFINE next  == fdt_check_node_offset_(m, o)
           a     == fdt_off_dt_struct(m) + o + 1
           W1    == Words(strlen(NameAt(m, o)) + 1)
           W2    == Words(strlen(s) + 1)
           r     == fdt_splice_struct_(m, a, W1, W2)
           cells == NameCells(r.m, a, s, t)
           f     == SetName(m, o, s, t)
<1>0. /\ fdt_off_dt_struct(m) \in Nat /\ fdt_size_dt_struct(m) \in Nat
      /\ next \in Int /\ W2 \in Nat
  <2>1. strlen(s) + 1 \in Nat
    BY StrlenNat
  <2> QED BY <2>1, GoodFacts, WordsNat, CheckNode
<1>1. f = IF next < 0 THEN Return(next, m)
          ELSE IF r.ret # 0 THEN r
          ELSE Return(0, Store(r.m, a, cells))
  BY Zenon DEF SetName
<1>2. CASE next < 0
  <2>1. f = [ret |-> next, m |-> m, p |-> 0]
    <3> HIDE DEF f, next, cells, r
    <3> QED BY <1>1, <1>2 DEF Return
  <2> HIDE DEF f, next
  <2>2. Edited(m, f)
    BY <1>0, <2>1, EditedSame
  <2> QED BY <2>2 DEF f
<1>3. CASE next >= 0
  <2>1. W1 \in Nat
    <3>1. strlen(NameAt(m, o)) + 1 \in Nat
      BY <1>3, NameIsName
    <3> QED BY <3>1, WordsNat
  <2>2. a \in Nat /\ fdt_off_dt_struct(m) <= a
        /\ a + W1 <= fdt_off_dt_struct(m) + fdt_size_dt_struct(m)
    <3>1. o + 1 + W1 <= fdt_size_dt_struct(m)
      BY <1>3
    <3> HIDE DEF W1
    <3> QED BY <1>0, <2>1, <3>1
  <2>3. /\ Edited(m, r)
        /\ r.ret = 0 => fdt_size_dt_struct(r.m) = fdt_size_dt_struct(m) + W2 - W1
    <3> HIDE DEF a, W1, W2
    <3> QED BY <1>0, <2>1, <2>2, StructEdited
  <2>4. f = IF r.ret # 0 THEN r ELSE Return(0, Store(r.m, a, cells))
    <3> HIDE DEF f, next, cells, r
    <3> QED BY <1>0, <1>1, <1>3
  <2>5. CASE r.ret # 0
    <3>1. f = r
      <4> HIDE DEF f, r, cells
      <4> QED BY <2>4, <2>5
    <3> QED BY <2>3, <3>1
  <2>6. CASE r.ret = 0
    <3>1. f = [ret |-> 0, m |-> Store(r.m, a, cells), p |-> 0]
      <4> HIDE DEF f, r, cells, a
      <4> QED BY <2>4, <2>6 DEF Return
    <3>2. f.ret \in Int /\ f.m = Store(r.m, a, cells)
      <4> HIDE DEF f, r, cells, a
      <4> QED BY <3>1
    <3>3. /\ fdt_off_dt_struct(r.m) = fdt_off_dt_struct(m)
          /\ fdt_size_dt_struct(r.m) = fdt_size_dt_struct(m) + W2 - W1
          /\ r.m \in Memory /\ MemSize \in Nat
          /\ fdt_off_dt_struct(r.m) + fdt_size_dt_struct(r.m) <= MemSize
      <4>1. Good(r.m) /\ fdt_off_dt_struct(r.m) = fdt_off_dt_struct(m)
        BY <2>3 DEF Edited
      <4>2. /\ fdt_off_dt_strings(r.m) \in Nat /\ fdt_size_dt_strings(r.m) \in Nat
            /\ fdt_size_dt_struct(r.m) \in Nat /\ fdt_off_dt_struct(r.m) \in Nat
            /\ fdt_totalsize(r.m) \in Nat /\ BufSize \in Nat
            /\ fdt_off_dt_struct(r.m) + fdt_size_dt_struct(r.m) <= fdt_off_dt_strings(r.m)
            /\ fdt_off_dt_strings(r.m) + fdt_size_dt_strings(r.m) <= fdt_totalsize(r.m)
            /\ fdt_totalsize(r.m) <= BufSize /\ BufSize <= MemSize
            /\ MemSize \in Nat /\ r.m \in Memory
        BY <4>1, GoodFacts
      <4> HIDE DEF r
      <4> QED BY <2>3, <2>6, <4>1, <4>2
    <3>4. /\ fdt_off_dt_struct(r.m) <= a
          /\ a + W2 <= fdt_off_dt_struct(r.m) + fdt_size_dt_struct(r.m)
      <4> HIDE DEF a, r, W1, W2
      <4> QED BY <1>0, <2>1, <2>2, <3>3
    <3>5. /\ cells \in [1 .. W2 -> Cell] /\ Len(cells) = W2
      <4> DEFINE b == r.m
                 n == Words(NameLen[s] + 1)
                 c(i) == IF i < n THEN Name(s, 0)
                         ELSE IF i = n
                         THEN Name(s, IF strlen(s) % 4 # 0 /\ t # 0 THEN 2 ELSE 1)
                         ELSE IF t = 0 /\ b[a + i - 1].k = "num" THEN b[a + i - 1]
                         ELSE Text
      <4>1. cells = [i \in 1 .. W2 |-> c(i)]
        BY Zenon DEF NameCells
      <4>2. \A i \in 1 .. W2 : c(i) \in Cell
        <5> TAKE i \in 1 .. W2
        <5>1. a + i - 1 \in 0 .. MemSize - 1
          <6> HIDE DEF a, b, W2, W1, r
          <6> QED BY <1>0, <2>1, <2>2, <3>3, <3>4
        <5>2. b[a + i - 1] \in Cell
          BY <3>3, <5>1 DEF Memory
        <5>3. Name(s, 0) \in Cell /\ Name(s, 1) \in Cell /\ Name(s, 2) \in Cell /\ Text \in Cell
          BY CellFacts
        <5> HIDE DEF a, b, W2, W1, r, n
        <5> QED BY <5>2, <5>3
      <4> HIDE DEF cells, W2, c
      <4>3. cells \in [1 .. W2 -> Cell]
        BY <4>1, <4>2
      <4>4. cells \in Seq(Cell) /\ DOMAIN cells = 1 .. W2
        BY <1>0, <4>3
      <4> QED BY <1>0, <4>3, <4>4
    <3> HIDE DEF f, r, cells, a, W2
    <3>6. Edited(m, f)
      BY <1>0, <2>2, <2>3, <3>2, <3>4, <3>5, EditedStore
    <3> QED BY <3>6 DEF f
  <2> QED BY <2>5, <2>6
<1> QED BY <1>0, <1>2, <1>3

-----------------------------------------------------------------------------
(* The reservation list.                                                   *)

\* Where the list ends, and that there is room for all of it.
LEMMA NumRsv ==
    ASSUME NEW m, Good(m)
    PROVE  LET n == fdt_num_mem_rsv(m)
           IN  /\ n \in 0 .. MemSize
               /\ IsNumMemRsv(m, n)
               /\ ~fdt_blocks_misordered_(m, RsvSize * (n + 1), fdt_size_dt_struct(m))
<1>1. PICK n \in 0 .. MemSize :
        /\ ~fdt_blocks_misordered_(m, RsvSize * (n + 1), fdt_size_dt_struct(m))
        /\ IsNumMemRsv(m, n)
  BY DEF Good, InOrder
<1> DEFINE k == fdt_num_mem_rsv(m)
<1>2. k \in 0 .. MemSize /\ IsNumMemRsv(m, k)
  BY <1>1, Zenon DEF fdt_num_mem_rsv
<1>3. k = n
  <2> HIDE DEF k
  <2>1. ~(k < n) /\ ~(n < k)
    BY <1>1, <1>2 DEF IsNumMemRsv
  <2> QED BY <1>1, <1>2, <2>1
<1> QED BY <1>1, <1>2, <1>3

\* A blob is in order if its header is, and some n is the number of entries in
\* its reservation list, for which there is room.
LEMMA GoodIntro ==
    ASSUME NEW m \in Memory, GoodHeader(m), NEW n \in 0 .. MemSize,
           ~fdt_blocks_misordered_(m, RsvSize * (n + 1), fdt_size_dt_struct(m)),
           IsNumMemRsv(m, n)
    PROVE  Good(m)
  BY DEF Good, InOrder, GoodHeader

\* What a splice of the reservation list by one entry, in or out, does.
LEMMA SpliceMemRsv ==
    ASSUME NEW m, Good(m), NEW k \in Nat, NEW oldn \in {0, 1}, NEW newn \in {0, 1},
           oldn + newn = 1,
           fdt_off_mem_rsvmap(m) + RsvSize * (k + oldn) + RsvSize <= fdt_off_dt_struct(m)
    PROVE  LET p  == fdt_off_mem_rsvmap(m) + RsvSize * k
               r  == fdt_splice_mem_rsv_(m, p, oldn, newn)
               d  == RsvSize * (newn - oldn)
           IN  /\ r.ret \in Int
               /\ r.ret # 0 => r.m = m
               /\ r.ret = 0 =>
                    /\ r.m \in Memory
                    /\ GoodHeader(r.m) /\ Within(m, r.m)
                    /\ fdt_totalsize(r.m) = fdt_totalsize(m)
                    /\ fdt_off_mem_rsvmap(r.m) = fdt_off_mem_rsvmap(m)
                    /\ fdt_off_dt_struct(r.m) = fdt_off_dt_struct(m) + d
                    /\ fdt_size_dt_struct(r.m) = fdt_size_dt_struct(m)
                    /\ fdt_off_dt_strings(r.m) = fdt_off_dt_strings(m) + d
                    /\ fdt_size_dt_strings(r.m) = fdt_size_dt_strings(m)
                    /\ fdt_data_size_(m) + d <= fdt_totalsize(m)
                    /\ \A a \in HeaderSize .. p + RsvSize * newn - 1 : r.m[a] = m[a]
                    /\ \A a \in p + RsvSize * newn .. fdt_data_size_(m) + d - 1 :
                            r.m[a] = m[a - d]
<1> DEFINE p   == fdt_off_mem_rsvmap(m) + RsvSize * k
           o   == RsvSize * oldn
           w   == RsvSize * newn
           d   == RsvSize * (newn - oldn)
           end == fdt_data_size_(m)
           s   == fdt_splice_(m, p, o, w)
           r   == fdt_splice_mem_rsv_(m, p, oldn, newn)
           m0  == Move(m, p + w, p + o, end - p - o)
           m1  == Set(m0, hOffDtStruct, fdt_off_dt_struct(m0) + d)
           m2  == Set(m1, hOffDtStrings, fdt_off_dt_strings(m1) + d)
<1>0. /\ m \in Memory /\ MemSize \in Nat /\ MemSize >= 10
      /\ fdt_totalsize(m) \in Nat /\ fdt_off_dt_struct(m) \in Nat
      /\ fdt_off_dt_strings(m) \in Nat /\ fdt_off_mem_rsvmap(m) \in Nat
      /\ fdt_size_dt_struct(m) \in Nat /\ fdt_size_dt_strings(m) \in Nat
      /\ HeaderSize <= fdt_off_mem_rsvmap(m)
      /\ fdt_off_dt_struct(m) + fdt_size_dt_struct(m) <= fdt_off_dt_strings(m)
      /\ end = fdt_off_dt_strings(m) + fdt_size_dt_strings(m)
      /\ end <= fdt_totalsize(m) /\ fdt_totalsize(m) <= MemSize
  <2>1. /\ fdt_totalsize(m) \in Nat /\ BufSize \in Nat /\ MemSize \in Nat
        /\ fdt_totalsize(m) <= BufSize /\ BufSize <= MemSize
    BY GoodFacts
  <2> QED BY <2>1, GoodFacts, MemAssumption DEF fdt_data_size_
<1>a. /\ o \in Nat /\ w \in Nat /\ d \in Int /\ d = w - o /\ p \in Nat /\ p >= 10
      /\ p + o + 4 <= fdt_off_dt_struct(m) /\ o <= 4
  BY <1>0
<1>1. CASE s.ret # 0
  <2>1. s.ret \in {-FDT_ERR_BADOFFSET, -FDT_ERR_NOSPACE} /\ s.m = m
    BY <1>1 DEF fdt_splice_, Return
  <2>2. r = s
    BY <1>1 DEF fdt_splice_mem_rsv_
  <2> HIDE DEF r, s
  <2>3. r.ret \in Int /\ r.ret # 0 /\ r.m = m
    BY <1>1, <2>1, <2>2
  <2> QED BY <2>3 DEF r
<1>2. CASE s.ret = 0
  <2>1. end - o + w <= fdt_totalsize(m) /\ s = [ret |-> 0, m |-> m0, p |-> 0]
    BY <1>0, <1>a, <1>2 DEF fdt_splice_, Return
  <2>2. r = [ret |-> 0, m |-> m2, p |-> 0]
    <3>1. s.m = m0
      <4> HIDE DEF s, m0
      <4> QED BY <2>1
    <3>2. r = Return(0, Set(Set(s.m, hOffDtStruct, fdt_off_dt_struct(s.m) + d), hOffDtStrings,
                            fdt_off_dt_strings(Set(s.m, hOffDtStruct, fdt_off_dt_struct(s.m) + d)) + d))
      BY <1>2, Zenon DEF fdt_splice_mem_rsv_
    <3> HIDE DEF s, m0, d, r
    <3> QED BY <3>1, <3>2, Zenon DEF Return
  <2>3. /\ m0 \in Memory
        /\ \A a \in 0 .. MemSize - 1 :
              a < p + w \/ a >= fdt_totalsize(m) => m0[a] = m[a]
        /\ \A a \in p + w .. end + d - 1 : m0[a] = m[a - d]
    <3> DEFINE n   == end - p - o
               dst == p + w
               src == p + o
    <3>1. n \in Int /\ dst \in Nat /\ src \in Nat /\ src + n <= MemSize
          /\ dst + n <= fdt_totalsize(m) /\ dst + n = end + d
      <4> HIDE DEF end, o, w, d, p
      <4> QED BY <1>0, <1>a, <2>1
    <3>2. m0 = Move(m, dst, src, n)
      OBVIOUS
    <3> HIDE DEF m0, n, dst, src
    <3>3. /\ m0 \in Memory
          /\ \A a \in 0 .. MemSize - 1 : a < dst \/ a >= dst + n => m0[a] = m[a]
          /\ \A a \in 0 .. MemSize - 1 : a >= dst /\ a < dst + n => m0[a] = m[src + a - dst]
      <4> HIDE DEF p, o, w, d, end, s, r, m1, m2
      <4>1. m \in Memory /\ n \in Int /\ dst \in Nat /\ src \in Nat /\ src + n <= MemSize
        BY <1>0, <3>1
      <4>2. /\ Move(m, dst, src, n) \in Memory
            /\ \A a \in 0 .. MemSize - 1 :
                 a < dst \/ a >= dst + n => Move(m, dst, src, n)[a] = m[a]
            /\ \A a \in 0 .. MemSize - 1 :
                 a >= dst /\ a < dst + n => Move(m, dst, src, n)[a] = m[src + a - dst]
        BY <4>1, MoveMemory, ZenonT(40)
      <4> QED BY <3>2, <4>2, Zenon
    <3>4. \A a \in 0 .. MemSize - 1 : a < p + w \/ a >= fdt_totalsize(m) => m0[a] = m[a]
      <4>1. dst = p + w
        BY DEF dst
      <4> HIDE DEF p, w
      <4> QED BY <1>0, <3>1, <3>3, <4>1
    <3>5. \A a \in p + w .. end + d - 1 : m0[a] = m[a - d]
      <4> SUFFICES ASSUME NEW a \in p + w .. end + d - 1 PROVE m0[a] = m[a - d]
        OBVIOUS
      <4>1. dst = p + w /\ src = p + o
        BY DEF dst, src
      <4> HIDE DEF p, w, o, d, end
      <4>2. a \in 0 .. MemSize - 1 /\ a >= dst /\ a < dst + n /\ src + a - dst = a - d
        BY <1>0, <1>a, <3>1, <4>1
      <4> QED BY <3>3, <4>2
    <3> HIDE DEF p, w, d, end
    <3> QED BY <3>3, <3>4, <3>5
  <2>4. \A h \in 0 .. 9 : m0[h] = m[h]
    <3> HIDE DEF m0, p, w
    <3> QED BY <1>0, <1>a, <2>3
  <2>5. /\ fdt_off_dt_struct(m0) = fdt_off_dt_struct(m)
        /\ fdt_off_dt_strings(m0) = fdt_off_dt_strings(m)
    <3> HIDE DEF m0
    <3> QED BY <2>4 DEF fdt_off_dt_struct, fdt_off_dt_strings
  <2> DEFINE so == fdt_off_dt_struct(m) + d
             offs == fdt_off_dt_strings(m) + d
  <2>6. so \in Nat /\ offs \in Nat
    <3> HIDE DEF d, o, w, p, end
    <3> QED BY <1>0, <1>a
  <2>7. /\ m1 \in Memory /\ m1[hOffDtStruct] = Num(so)
        /\ \A a \in 0 .. MemSize - 1 : a # hOffDtStruct => m1[a] = m0[a]
    <3>1. m1 = Set(m0, hOffDtStruct, so)
      <4> HIDE DEF m0
      <4> QED BY <2>5
    <3> HIDE DEF m1, m0, so
    <3> QED BY <1>0, <2>3, <2>6, <3>1, SetMemory
  <2>8. fdt_off_dt_strings(m1) = fdt_off_dt_strings(m)
    <3> HIDE DEF m1, m0
    <3> QED BY <1>0, <2>4, <2>7 DEF fdt_off_dt_strings
  <2>9. /\ m2 \in Memory /\ m2[hOffDtStrings] = Num(offs) /\ m2[hOffDtStruct] = Num(so)
        /\ \A a \in 0 .. MemSize - 1 :
                a \notin {hOffDtStruct, hOffDtStrings} => m2[a] = m0[a]
    <3>1. m2 = Set(m1, hOffDtStrings, offs)
      <4> HIDE DEF m1
      <4> QED BY <2>8
    <3> HIDE DEF m2, m1, m0, offs, so
    <3> QED BY <1>0, <2>6, <2>7, <3>1, SetMemory
  <2> HIDE DEF m2, m1, m0, so, offs
  <2>10. /\ fdt_off_dt_struct(m2) = so /\ fdt_off_dt_strings(m2) = offs
         /\ fdt_magic(m2) = fdt_magic(m) /\ fdt_version(m2) = fdt_version(m)
         /\ fdt_last_comp_version(m2) = fdt_last_comp_version(m)
         /\ fdt_totalsize(m2) = fdt_totalsize(m)
         /\ fdt_off_mem_rsvmap(m2) = fdt_off_mem_rsvmap(m)
         /\ fdt_size_dt_struct(m2) = fdt_size_dt_struct(m)
         /\ fdt_size_dt_strings(m2) = fdt_size_dt_strings(m)
    BY <1>0, <2>4, <2>6, <2>9, CellFacts
    DEF fdt_size_dt_struct, fdt_off_dt_strings, fdt_magic, fdt_version,
        fdt_last_comp_version, fdt_totalsize, fdt_off_mem_rsvmap, fdt_off_dt_struct,
        fdt_size_dt_strings
  <2>11. GoodHeader(m2)
    <3>1. \A h \in 0 .. 9 : m[h].k = "num"
      BY DEF Good, InOrder
    <3>2. \A h \in 0 .. HeaderSize - 1 : m2[h].k = "num"
      BY <1>0, <2>4, <2>6, <2>9, <3>1, CellFacts
    <3> QED BY <2>10, <3>2 DEF GoodHeader, Good, InOrder
  <2>12. Within(m, m2)
    <3> HIDE DEF p, w
    <3> QED BY <1>0, <2>3, <2>9 DEF Within
  <2>13. \A a \in HeaderSize .. p + w - 1 : m2[a] = m[a]
    <3> SUFFICES ASSUME NEW a \in HeaderSize .. p + w - 1 PROVE m2[a] = m[a]
      OBVIOUS
    <3>1. a \in 0 .. MemSize - 1 /\ a \notin {hOffDtStruct, hOffDtStrings} /\ a < p + w
      <4> HIDE DEF p, w, o, d, end
      <4> QED BY <1>0, <1>a, <2>1
    <3> QED BY <2>3, <2>9, <3>1
  <2>14. \A a \in p + w .. end + d - 1 : m2[a] = m[a - d]
    <3> SUFFICES ASSUME NEW a \in p + w .. end + d - 1 PROVE m2[a] = m[a - d]
      OBVIOUS
    <3>1. a \in 0 .. MemSize - 1 /\ a \notin {hOffDtStruct, hOffDtStrings}
      <4> HIDE DEF p, w, o, d, end
      <4> QED BY <1>0, <1>a, <2>1
    <3> QED BY <2>3, <2>9, <3>1
  <2>15. end + d <= fdt_totalsize(m)
    <3> HIDE DEF p, w, o, d, end
    <3> QED BY <1>0, <1>a, <2>1
  <2>16. r.ret = 0 /\ r.m = m2
    <3> HIDE DEF r
    <3> QED BY <2>2
  <2> HIDE DEF r, p, w, d, end
  <2> QED BY <2>9, <2>10, <2>11, <2>12, <2>13, <2>14, <2>15, <2>16 DEF so, offs, r, p, w, d, end
<1>3. s.ret \in {0, -FDT_ERR_BADOFFSET, -FDT_ERR_NOSPACE}
  BY DEF fdt_splice_, Return
<1> QED BY <1>1, <1>2

\* What every call promises.
Safe(m, r) ==
    /\ r.ret \in Int
    /\ Good(r.m) /\ Within(m, r.m)
    /\ fdt_totalsize(r.m) <= fdt_totalsize(m)

\* The structure block and the strings block are the same, wherever they are.
Carried(m, m2) ==
    /\ fdt_size_dt_struct(m2) = fdt_size_dt_struct(m)
    /\ fdt_size_dt_strings(m2) = fdt_size_dt_strings(m)
    /\ \A i \in 0 .. fdt_size_dt_struct(m) - 1 :
         m2[fdt_off_dt_struct(m2) + i] = m[fdt_off_dt_struct(m) + i]
    /\ \A i \in 0 .. fdt_size_dt_strings(m) - 1 :
         m2[fdt_off_dt_strings(m2) + i] = m[fdt_off_dt_strings(m) + i]

\* That is so of memory that has not changed.
LEMMA CarriedSelf == \A m : Carried(m, m)
  BY DEF Carried

\* And of memory in which both blocks have moved by d words.
LEMMA CarriedShift ==
    ASSUME NEW m, Good(m), NEW m2, NEW d, d \in Int,
           fdt_off_dt_struct(m2) = fdt_off_dt_struct(m) + d,
           fdt_size_dt_struct(m2) = fdt_size_dt_struct(m),
           fdt_off_dt_strings(m2) = fdt_off_dt_strings(m) + d,
           fdt_size_dt_strings(m2) = fdt_size_dt_strings(m),
           \A a \in fdt_off_dt_struct(m) .. fdt_data_size_(m) - 1 : m2[a + d] = m[a]
    PROVE  Carried(m, m2)
<1> DEFINE S == fdt_off_dt_struct(m)
           G == fdt_off_dt_strings(m)
           ss == fdt_size_dt_struct(m)
           gs == fdt_size_dt_strings(m)
<1>1. /\ S \in Nat /\ G \in Nat /\ ss \in Nat /\ gs \in Nat /\ S + ss <= G
      /\ fdt_data_size_(m) = G + gs
  BY GoodFacts DEF fdt_data_size_
<1>2. /\ \A i \in 0 .. ss - 1 : S + i \in S .. fdt_data_size_(m) - 1 /\ S + i + d = S + d + i
      /\ \A i \in 0 .. gs - 1 : G + i \in S .. fdt_data_size_(m) - 1 /\ G + i + d = G + d + i
  <2> HIDE DEF S, G, ss, gs
  <2> QED BY <1>1
<1>3. \A i \in 0 .. ss - 1 : m2[fdt_off_dt_struct(m2) + i] = m[S + i]
  <2> TAKE i \in 0 .. ss - 1
  <2>1. m2[S + i + d] = m[S + i]
    BY <1>2
  <2> QED BY <1>2, <2>1
<1>4. \A i \in 0 .. gs - 1 : m2[fdt_off_dt_strings(m2) + i] = m[G + i]
  <2> TAKE i \in 0 .. gs - 1
  <2>1. m2[G + i + d] = m[G + i]
    BY <1>2
  <2> QED BY <1>2, <2>1
<1> QED BY <1>3, <1>4 DEF Carried

\* Entries of the list before and after the place of the splice.
LEMMA SameRsv ==
    ASSUME NEW m, NEW m2, NEW i \in Nat, NEW j \in Nat,
           m2[fdt_off_mem_rsvmap(m2) + RsvSize * j + 2] = m[fdt_off_mem_rsvmap(m) + RsvSize * i + 2],
           m2[fdt_off_mem_rsvmap(m2) + RsvSize * j + 3] = m[fdt_off_mem_rsvmap(m) + RsvSize * i + 3]
    PROVE  IsLastRsv(m2, j) <=> IsLastRsv(m, i)
  BY DEF IsLastRsv

\* fdt_del_mem_rsv takes an entry out of the list, whose end moves with it.
LEMMA DelMemRsvSafe ==
    ASSUME NEW m, Good(m), NEW k \in Nat
    PROVE  Safe(m, DelMemRsv(m, k)) /\ Carried(m, DelMemRsv(m, k).m)
<1> DEFINE n == fdt_num_mem_rsv(m)
           p == fdt_off_mem_rsvmap(m) + RsvSize * k
           r == fdt_splice_mem_rsv_(m, p, 1, 0)
           f == DelMemRsv(m, k)
           S == fdt_off_dt_struct(m)
           R == fdt_off_mem_rsvmap(m)
<1>0. /\ m \in Memory /\ MemSize \in Nat /\ fdt_totalsize(m) \in Nat
      /\ S \in Nat /\ R \in Nat
      /\ fdt_off_dt_strings(m) \in Nat /\ fdt_size_dt_strings(m) \in Nat
      /\ fdt_size_dt_struct(m) \in Nat /\ HeaderSize <= R
      /\ S + fdt_size_dt_struct(m) <= fdt_off_dt_strings(m)
      /\ fdt_data_size_(m) = fdt_off_dt_strings(m) + fdt_size_dt_strings(m)
      /\ fdt_data_size_(m) <= fdt_totalsize(m)
  BY GoodFacts DEF fdt_data_size_
<1>1. /\ n \in 0 .. MemSize /\ IsNumMemRsv(m, n)
      /\ ~fdt_blocks_misordered_(m, RsvSize * (n + 1), fdt_size_dt_struct(m))
  BY NumRsv
<1>2. R + RsvSize * (n + 1) <= S
  <2> HIDE DEF n, S, R
  <2> QED BY <1>0, <1>1 DEF fdt_blocks_misordered_, S, R
<1>3. CASE k >= n
  <2>1. f = [ret |-> -FDT_ERR_NOTFOUND, m |-> m, p |-> 0]
    BY <1>3 DEF DelMemRsv, Return
  <2> HIDE DEF f
  <2>2. f.ret \in Int /\ f.m = m
    BY <2>1
  <2>3. Safe(m, f) /\ Carried(m, f.m)
    BY <1>0, <2>2, CarriedSelf DEF Safe, Within
  <2> QED BY <2>3 DEF f
<1>4. CASE k < n
  <2>1. f = r
    <3>1. ~(k >= n)
      <4> HIDE DEF n
      <4> QED BY <1>1, <1>4
    <3> QED BY <3>1 DEF DelMemRsv
  <2>2. R + RsvSize * (k + 1) + RsvSize <= S
    <3> HIDE DEF n, R, S
    <3> QED BY <1>0, <1>1, <1>2, <1>4
  <2> DEFINE d == RsvSize * (0 - 1)
  <2>3. /\ r.ret \in Int
        /\ r.ret # 0 => r.m = m
        /\ r.ret = 0 =>
             /\ r.m \in Memory
             /\ GoodHeader(r.m) /\ Within(m, r.m)
             /\ fdt_totalsize(r.m) = fdt_totalsize(m)
             /\ fdt_off_mem_rsvmap(r.m) = R
             /\ fdt_off_dt_struct(r.m) = S + d
             /\ fdt_size_dt_struct(r.m) = fdt_size_dt_struct(m)
             /\ fdt_off_dt_strings(r.m) = fdt_off_dt_strings(m) + d
             /\ fdt_size_dt_strings(r.m) = fdt_size_dt_strings(m)
             /\ fdt_data_size_(m) + d <= fdt_totalsize(m)
             /\ \A a \in HeaderSize .. p + RsvSize * 0 - 1 : r.m[a] = m[a]
             /\ \A a \in p + RsvSize * 0 .. fdt_data_size_(m) + d - 1 : r.m[a] = m[a - d]
    <3>1. 1 \in {0, 1} /\ 0 \in {0, 1} /\ 1 + 0 = 1
      OBVIOUS
    <3>2. fdt_off_mem_rsvmap(m) + RsvSize * (k + 1) + RsvSize <= fdt_off_dt_struct(m)
      BY <2>2
    <3> QED BY <3>1, <3>2, SpliceMemRsv
  <2>4. CASE r.ret # 0
    <3> HIDE DEF r, f
    <3>1. Safe(m, f) /\ Carried(m, f.m)
      BY <1>0, <2>1, <2>3, <2>4, CarriedSelf DEF Safe, Within
    <3> QED BY <3>1 DEF f
  <2>5. CASE r.ret = 0
    <3> DEFINE m2 == r.m
    <3>1. /\ m2 \in Memory /\ GoodHeader(m2) /\ Within(m, m2)
          /\ fdt_totalsize(m2) = fdt_totalsize(m) /\ fdt_off_mem_rsvmap(m2) = R
          /\ fdt_off_dt_struct(m2) = S - 4
          /\ fdt_size_dt_struct(m2) = fdt_size_dt_struct(m)
          /\ fdt_off_dt_strings(m2) = fdt_off_dt_strings(m) - 4
          /\ fdt_size_dt_strings(m2) = fdt_size_dt_strings(m)
          /\ \A a \in HeaderSize .. p - 1 : m2[a] = m[a]
          /\ \A a \in p .. fdt_data_size_(m) - 5 : m2[a] = m[a + 4]
      <4>1. d = -4 /\ RsvSize * 0 = 0
        OBVIOUS
      <4> HIDE DEF r, d, p, S, R
      <4> QED BY <1>0, <2>3, <2>5, <4>1 DEF p, R
    <3> HIDE DEF m2
    <3>2. \A i \in 0 .. k - 1 : IsLastRsv(m2, i) <=> IsLastRsv(m, i)
      <4> SUFFICES ASSUME NEW i \in 0 .. k - 1 PROVE IsLastRsv(m2, i) <=> IsLastRsv(m, i)
        OBVIOUS
      <4>1. /\ R + RsvSize * i + 2 \in HeaderSize .. p - 1
            /\ R + RsvSize * i + 3 \in HeaderSize .. p - 1
        <5>1. p = R + RsvSize * k
          OBVIOUS
        <5> HIDE DEF p, R
        <5> QED BY <1>0, <5>1
      <4>2. /\ m2[R + RsvSize * i + 2] = m[R + RsvSize * i + 2]
            /\ m2[R + RsvSize * i + 3] = m[R + RsvSize * i + 3]
        BY <3>1, <4>1
      <4> QED BY <3>1, <4>2, SameRsv
    <3>3. \A i \in k .. n - 1 : IsLastRsv(m2, i) <=> IsLastRsv(m, i + 1)
      <4> SUFFICES ASSUME NEW i \in k .. n - 1 PROVE IsLastRsv(m2, i) <=> IsLastRsv(m, i + 1)
        OBVIOUS
      <4>1. i \in Nat /\ i + 1 \in Nat
        <5> HIDE DEF n
        <5> QED BY <1>1
      <4>2. /\ R + RsvSize * i + 2 \in p .. fdt_data_size_(m) - 5
            /\ R + RsvSize * i + 3 \in p .. fdt_data_size_(m) - 5
            /\ R + RsvSize * i + 2 + 4 = R + RsvSize * (i + 1) + 2
            /\ R + RsvSize * i + 3 + 4 = R + RsvSize * (i + 1) + 3
        <5>1. p = R + RsvSize * k
          OBVIOUS
        <5> HIDE DEF p, R, S, n
        <5> QED BY <1>0, <1>1, <1>2, <5>1
      <4>3. /\ m2[R + RsvSize * i + 2] = m[R + RsvSize * (i + 1) + 2]
            /\ m2[R + RsvSize * i + 3] = m[R + RsvSize * (i + 1) + 3]
        <5> HIDE DEF p, R
        <5> QED BY <3>1, <4>2
      <4> QED BY <3>1, <4>1, <4>3, SameRsv
    <3>4. n - 1 \in 0 .. MemSize /\ IsNumMemRsv(m2, n - 1)
      <4> HIDE DEF n
      <4>1. n - 1 \in k .. n - 1 /\ n - 1 \in 0 .. MemSize /\ n - 1 + 1 = n
        BY <1>0, <1>1, <1>4
      <4>2. IsLastRsv(m2, n - 1)
        BY <1>1, <3>3, <4>1 DEF IsNumMemRsv
      <4>3. ASSUME NEW i \in 0 .. n - 1 - 1
            PROVE  ~IsLastRsv(m2, i)
        <5>1. \A j \in 0 .. n - 1 : ~IsLastRsv(m, j)
          BY <1>1 DEF IsNumMemRsv
        <5>2. CASE i < k
          <6>1. i \in 0 .. k - 1 /\ i \in 0 .. n - 1
            BY <1>1, <5>2
          <6> QED BY <3>2, <5>1, <6>1
        <5>3. CASE i >= k
          <6>1. i \in k .. n - 1 /\ i + 1 \in 0 .. n - 1
            BY <1>1, <5>3
          <6> QED BY <3>3, <5>1, <6>1
        <5> QED BY <5>2, <5>3
      <4> QED BY <4>1, <4>2, <4>3 DEF IsNumMemRsv
    <3>5. ~fdt_blocks_misordered_(m2, RsvSize * (n - 1 + 1), fdt_size_dt_struct(m2))
      <4> HIDE DEF n, R, S, p
      <4> QED BY <1>0, <1>1, <1>2, <3>1 DEF fdt_blocks_misordered_
    <3>6. Good(m2)
      <4> HIDE DEF n
      <4> QED BY <3>1, <3>4, <3>5, GoodIntro
    <3>7. f.m = m2 /\ f.ret \in Int
      <4> HIDE DEF f, r
      <4> QED BY <2>1, <2>3 DEF m2
    <3> HIDE DEF f
    <3>8. Safe(m, f)
      BY <1>0, <3>1, <3>6, <3>7 DEF Safe
    <3>9. Carried(m, m2)
      <4> DEFINE e == -4
      <4>1. \A a \in S .. fdt_data_size_(m) - 1 : m2[a + e] = m[a]
        <5> TAKE a \in S .. fdt_data_size_(m) - 1
        <5>1. a + e \in p .. fdt_data_size_(m) - 5 /\ a + e + 4 = a
          <6>1. p + 4 <= S /\ p \in Nat
            <7>1. p = R + RsvSize * k
              OBVIOUS
            <7> HIDE DEF p, R, S
            <7> QED BY <1>0, <2>2, <7>1
          <6> HIDE DEF p, S
          <6> QED BY <1>0, <6>1
        <5>2. m2[a + e] = m[a + e + 4]
          <6> HIDE DEF p, S, e
          <6> QED BY <3>1, <5>1
        <5> QED BY <5>1, <5>2
      <4>2. /\ e \in Int /\ fdt_off_dt_struct(m2) = S + e
            /\ fdt_off_dt_strings(m2) = fdt_off_dt_strings(m) + e
        <5> HIDE DEF S
        <5> QED BY <1>0, <3>1
      <4> HIDE DEF e
      <4> QED BY <3>1, <4>1, <4>2, CarriedShift
    <3> QED BY <3>7, <3>8, <3>9 DEF f
  <2> QED BY <2>4, <2>5
<1>5. k >= n \/ k < n
  <2> HIDE DEF n
  <2> QED BY <1>1
<1> QED BY <1>3, <1>4, <1>5

\* fdt_add_mem_rsv puts an entry in front of the end of the list; an entry of
\* size 0 ends the list itself.
LEMMA AddMemRsvSafe ==
    ASSUME NEW m, Good(m), NEW rsv \in [address : Nat, size : Nat]
    PROVE  Safe(m, AddMemRsv(m, rsv)) /\ Carried(m, AddMemRsv(m, rsv).m)
<1> DEFINE n  == fdt_num_mem_rsv(m)
           re == fdt_off_mem_rsvmap(m) + RsvSize * n
           r  == fdt_splice_mem_rsv_(m, re, 0, 1)
           cells == <<Num(0), Num(rsv.address), Num(0), Num(rsv.size)>>
           f == AddMemRsv(m, rsv)
           S == fdt_off_dt_struct(m)
           R == fdt_off_mem_rsvmap(m)
<1>0. /\ m \in Memory /\ MemSize \in Nat /\ fdt_totalsize(m) \in Nat
      /\ S \in Nat /\ R \in Nat
      /\ fdt_off_dt_strings(m) \in Nat /\ fdt_size_dt_strings(m) \in Nat
      /\ fdt_size_dt_struct(m) \in Nat /\ HeaderSize <= R
      /\ S + fdt_size_dt_struct(m) <= fdt_off_dt_strings(m)
      /\ fdt_data_size_(m) = fdt_off_dt_strings(m) + fdt_size_dt_strings(m)
      /\ fdt_data_size_(m) <= fdt_totalsize(m)
      /\ fdt_totalsize(m) <= MemSize
  <2>1. /\ fdt_totalsize(m) \in Nat /\ BufSize \in Nat /\ MemSize \in Nat
        /\ fdt_totalsize(m) <= BufSize /\ BufSize <= MemSize
    BY GoodFacts
  <2> QED BY <2>1, GoodFacts DEF fdt_data_size_
<1>1. /\ n \in 0 .. MemSize /\ IsNumMemRsv(m, n)
      /\ ~fdt_blocks_misordered_(m, RsvSize * (n + 1), fdt_size_dt_struct(m))
  BY NumRsv
<1>2. R + RsvSize * (n + 1) <= S
  <2> HIDE DEF n, S, R
  <2> QED BY <1>0, <1>1 DEF fdt_blocks_misordered_, S, R
<1> DEFINE d == RsvSize * (1 - 0)
<1>3. /\ r.ret \in Int
      /\ r.ret # 0 => r.m = m
      /\ r.ret = 0 =>
           /\ r.m \in Memory
           /\ GoodHeader(r.m) /\ Within(m, r.m)
           /\ fdt_totalsize(r.m) = fdt_totalsize(m)
           /\ fdt_off_mem_rsvmap(r.m) = R
           /\ fdt_off_dt_struct(r.m) = S + d
           /\ fdt_size_dt_struct(r.m) = fdt_size_dt_struct(m)
           /\ fdt_off_dt_strings(r.m) = fdt_off_dt_strings(m) + d
           /\ fdt_size_dt_strings(r.m) = fdt_size_dt_strings(m)
           /\ fdt_data_size_(m) + d <= fdt_totalsize(m)
           /\ \A a \in HeaderSize .. re + RsvSize * 1 - 1 : r.m[a] = m[a]
           /\ \A a \in re + RsvSize * 1 .. fdt_data_size_(m) + d - 1 : r.m[a] = m[a - d]
  <2>1. 1 \in {0, 1} /\ 0 \in {0, 1} /\ 0 + 1 = 1
    OBVIOUS
  <2>2. n \in Nat /\ fdt_off_mem_rsvmap(m) + RsvSize * (n + 0) + RsvSize <= fdt_off_dt_struct(m)
    <3>1. R + RsvSize * (n + 0) + RsvSize <= S
      <4> HIDE DEF n, S, R
      <4> QED BY <1>0, <1>1, <1>2
    <3>2. n \in Nat
      <4> HIDE DEF n
      <4> QED BY <1>1
    <3> QED BY <3>1, <3>2
  <2> HIDE DEF n
  <2> QED BY <2>1, <2>2, SpliceMemRsv
<1>4. CASE r.ret # 0
  <2>1. f = r
    BY <1>4 DEF AddMemRsv
  <2> HIDE DEF r, f
  <2>2. Safe(m, f) /\ Carried(m, f.m)
    BY <1>0, <1>3, <1>4, <2>1, CarriedSelf DEF Safe, Within
  <2> QED BY <2>2 DEF f
<1>5. CASE r.ret = 0
  <2> DEFINE b  == r.m
             m2 == Store(b, re, cells)
  <2>1. f = [ret |-> 0, m |-> m2, p |-> 0]
    BY <1>5 DEF AddMemRsv, Return
  <2>2. f.ret \in Int /\ f.m = m2
    <3> HIDE DEF f, m2
    <3> QED BY <2>1
  <2>3. /\ b \in Memory /\ GoodHeader(b) /\ Within(m, b)
        /\ fdt_totalsize(b) = fdt_totalsize(m) /\ fdt_off_mem_rsvmap(b) = R
        /\ fdt_off_dt_struct(b) = S + 4
        /\ fdt_size_dt_struct(b) = fdt_size_dt_struct(m)
        /\ fdt_off_dt_strings(b) = fdt_off_dt_strings(m) + 4
        /\ fdt_size_dt_strings(b) = fdt_size_dt_strings(m)
        /\ fdt_data_size_(m) + 4 <= fdt_totalsize(m)
        /\ \A a \in HeaderSize .. re - 1 : b[a] = m[a]
        /\ \A a \in re + 4 .. fdt_data_size_(m) + 3 : b[a] = m[a - 4]
    <3>1. d = 4 /\ RsvSize * 1 = 4 /\ re \in Nat
      <4> HIDE DEF n, R
      <4> QED BY <1>0, <1>1 DEF R
    <3> HIDE DEF r, d, re, S, R
    <3> QED BY <1>0, <1>3, <1>5, <3>1 DEF R, b
  <2>4. re \in Nat /\ re >= 10 /\ re + 4 <= S /\ re = R + RsvSize * n
    <3> HIDE DEF n, S, R
    <3> QED BY <1>0, <1>1, <1>2 DEF R
  <2>5. \A x \in 0 .. MemSize - 1 :
            m2[x] = IF x \in re .. re + 3 THEN cells[x - re + 1] ELSE b[x]
    <3>1. Len(cells) = 4 /\ DOMAIN b = 0 .. MemSize - 1 /\ re + 4 - 1 = re + 3
      <4>1. Len(cells) = 4
        OBVIOUS
      <4> HIDE DEF cells, b, re
      <4> QED BY <2>3, <2>4, <4>1 DEF Memory
    <3> HIDE DEF cells, b, re
    <3> QED BY <3>1 DEF Store
  <2>6. /\ cells[1] = Num(0) /\ cells[2] = Num(rsv.address) /\ cells[3] = Num(0)
        /\ cells[4] = Num(rsv.size)
    OBVIOUS
  <2>7. /\ Num(0) \in Cell /\ Num(rsv.address) \in Cell /\ Num(rsv.size) \in Cell
        /\ Value(Num(0)) = 0 /\ Value(Num(rsv.size)) = rsv.size /\ rsv.size \in Nat
    BY CellFacts
  <2>8. m2 \in Memory
    <3>1. \A x \in 0 .. MemSize - 1 : m2[x] \in Cell
      <4> SUFFICES ASSUME NEW x \in 0 .. MemSize - 1 PROVE m2[x] \in Cell
        OBVIOUS
      <4>1. b[x] \in Cell
        BY <2>3 DEF Memory
      <4>2. x \in re .. re + 3 => x - re + 1 \in {1, 2, 3, 4}
        <5> HIDE DEF re
        <5> QED BY <2>4
      <4> HIDE DEF cells, b, m2, re
      <4> QED BY <2>5, <2>6, <2>7, <4>1, <4>2
    <3>2. m2 = [x \in DOMAIN b |-> m2[x]] /\ DOMAIN b = 0 .. MemSize - 1
      <4>1. m2 = [x \in DOMAIN b |-> m2[x]]
        BY Zenon DEF Store
      <4> HIDE DEF m2, b
      <4> QED BY <2>3, <4>1 DEF Memory
    <3> HIDE DEF m2, b
    <3> QED BY <3>1, <3>2 DEF Memory
  <2>9. \A h \in 0 .. 9 : m2[h] = b[h]
    <3> SUFFICES ASSUME NEW h \in 0 .. 9 PROVE m2[h] = b[h]
      OBVIOUS
    <3>1. h \in 0 .. MemSize - 1 /\ h \notin re .. re + 3
      <4> HIDE DEF re
      <4> QED BY <2>4, MemAssumption
    <3> HIDE DEF m2, b, re, cells
    <3> QED BY <2>5, <3>1
  <2>10. /\ fdt_totalsize(m2) = fdt_totalsize(b) /\ fdt_off_mem_rsvmap(m2) = R
         /\ fdt_off_dt_struct(m2) = fdt_off_dt_struct(b)
         /\ fdt_size_dt_struct(m2) = fdt_size_dt_struct(b)
         /\ fdt_off_dt_strings(m2) = fdt_off_dt_strings(b)
         /\ fdt_size_dt_strings(m2) = fdt_size_dt_strings(b)
         /\ GoodHeader(m2)
    <3> HIDE DEF m2, b, R
    <3> QED BY <2>3, <2>9
        DEF GoodHeader, fdt_size_dt_struct, fdt_off_dt_strings, fdt_magic, fdt_version,
            fdt_last_comp_version, fdt_totalsize, fdt_off_mem_rsvmap, fdt_off_dt_struct,
            fdt_size_dt_strings
  <2>11. Within(m, m2)
    <3> SUFFICES ASSUME NEW a \in 0 .. MemSize - 1, a >= fdt_totalsize(m) PROVE m2[a] = m[a]
      BY DEF Within
    <3>1. a \notin re .. re + 3
      <4> HIDE DEF re, S
      <4> QED BY <1>0, <2>4
    <3>2. b[a] = m[a]
      BY <2>3 DEF Within
    <3> HIDE DEF m2, b, re, cells
    <3> QED BY <2>5, <3>1, <3>2
  <2>12. \A i \in 0 .. n - 1 : IsLastRsv(m2, i) <=> IsLastRsv(m, i)
    <3> SUFFICES ASSUME NEW i \in 0 .. n - 1 PROVE IsLastRsv(m2, i) <=> IsLastRsv(m, i)
      OBVIOUS
    <3>1. \A x \in {R + RsvSize * i + 2, R + RsvSize * i + 3} :
            x \in HeaderSize .. re - 1 /\ x \in 0 .. MemSize - 1 /\ x \notin re .. re + 3
      <4> HIDE DEF re, R, S, n
      <4> QED BY <1>0, <1>1, <2>4
    <3>2. \A x \in {R + RsvSize * i + 2, R + RsvSize * i + 3} : m2[x] = m[x]
      <4> HIDE DEF m2, b, re, R, cells
      <4> QED BY <2>3, <2>5, <3>1
    <3> HIDE DEF m2
    <3> QED BY <2>10, <3>2, SameRsv
  <2>13. IsLastRsv(m2, n) <=> rsv.size = 0
    <3>1. /\ re + 2 \in 0 .. MemSize - 1 /\ re + 2 \in re .. re + 3
          /\ re + 3 \in 0 .. MemSize - 1 /\ re + 3 \in re .. re + 3
          /\ re + 2 - re + 1 = 3 /\ re + 3 - re + 1 = 4
      <4> HIDE DEF re, S
      <4> QED BY <1>0, <2>4
    <3>2. m2[re + 2] = Num(0) /\ m2[re + 3] = Num(rsv.size)
      <4> HIDE DEF m2, b, re, cells
      <4>0. \A x \in 0 .. MemSize - 1 : x \in re .. re + 3 => m2[x] = cells[x - re + 1]
        BY <2>5
      <4>1. m2[re + 2] = cells[re + 2 - re + 1] /\ m2[re + 3] = cells[re + 3 - re + 1]
        BY <2>4, <3>1, <4>0
      <4>2. m2[re + 2] = cells[3] /\ m2[re + 3] = cells[4]
        BY <3>1, <4>1, Zenon
      <4> QED BY <2>6, <4>2, Zenon
    <3>3. re = fdt_off_mem_rsvmap(m2) + RsvSize * n
      <4> HIDE DEF m2, re, n, R
      <4> QED BY <2>4, <2>10
    <3> HIDE DEF m2, re, n
    <3> QED BY <2>7, <3>2, <3>3 DEF IsLastRsv
  <2>14. IsLastRsv(m2, n + 1)
    <3>1. \A x \in {re + 6, re + 7} :
            /\ x \in 0 .. MemSize - 1 /\ x \notin re .. re + 3
            /\ x \in re + 4 .. fdt_data_size_(m) + 3
      <4> HIDE DEF re, S
      <4> QED BY <1>0, <2>3, <2>4
    <3>2. m2[re + 6] = m[re + 6 - 4] /\ m2[re + 7] = m[re + 7 - 4]
      <4> HIDE DEF m2, b, re, cells
      <4>1. m2[re + 6] = b[re + 6] /\ m2[re + 7] = b[re + 7]
        BY <2>5, <3>1, Zenon
      <4>0. \A a \in re + 4 .. fdt_data_size_(m) + 3 : b[a] = m[a - 4]
        BY <2>3
      <4>2. b[re + 6] = m[re + 6 - 4] /\ b[re + 7] = m[re + 7 - 4]
        BY <2>4, <3>1, <4>0
      <4> QED BY <4>1, <4>2, Zenon
    <3>3. /\ R + RsvSize * n + 2 = re + 6 - 4 /\ R + RsvSize * n + 3 = re + 7 - 4
          /\ R + RsvSize * (n + 1) + 2 = re + 6 /\ R + RsvSize * (n + 1) + 3 = re + 7
          /\ n \in Nat /\ n + 1 \in Nat
      <4> HIDE DEF re, R, n
      <4> QED BY <1>0, <1>1, <2>4
    <3>4. IsLastRsv(m2, n + 1) <=> IsLastRsv(m, n)
      <4>1. /\ m2[fdt_off_mem_rsvmap(m2) + RsvSize * (n + 1) + 2] = m[fdt_off_mem_rsvmap(m) + RsvSize * n + 2]
            /\ m2[fdt_off_mem_rsvmap(m2) + RsvSize * (n + 1) + 3] = m[fdt_off_mem_rsvmap(m) + RsvSize * n + 3]
        <5> HIDE DEF m2, re, n, R
        <5> QED BY <2>10, <3>2, <3>3 DEF R
      <4> HIDE DEF m2, n
      <4> QED BY <3>3, <4>1, SameRsv
    <3> HIDE DEF m2, n
    <3> QED BY <1>1, <3>4 DEF IsNumMemRsv
  <2>15. n + 1 \in 0 .. MemSize
    <3> HIDE DEF n, re, S, R
    <3> QED BY <1>0, <1>1, <2>4
  <2>16. \A i \in 0 .. n - 1 : ~IsLastRsv(m2, i)
    <3> HIDE DEF m2, n
    <3> QED BY <1>1, <2>12 DEF IsNumMemRsv
  <2>17. Good(m2)
    <3>1. CASE rsv.size = 0
      <4>1. ~fdt_blocks_misordered_(m2, RsvSize * (n + 1), fdt_size_dt_struct(m2))
        <5> HIDE DEF m2, b, n, R, S
        <5> QED BY <1>0, <1>1, <1>2, <2>3, <2>10 DEF fdt_blocks_misordered_
      <4>2. IsNumMemRsv(m2, n)
        <5> HIDE DEF m2, n
        <5> QED BY <2>13, <2>16, <3>1 DEF IsNumMemRsv
      <4> HIDE DEF m2, n
      <4> QED BY <1>1, <2>8, <2>10, <4>1, <4>2, GoodIntro
    <3>2. CASE rsv.size # 0
      <4> DEFINE k == n + 1
      <4>1. ~fdt_blocks_misordered_(m2, RsvSize * (k + 1), fdt_size_dt_struct(m2))
        <5> HIDE DEF m2, b, n, R, S
        <5> QED BY <1>0, <1>1, <1>2, <2>3, <2>10 DEF fdt_blocks_misordered_
      <4>2. IsNumMemRsv(m2, k)
        <5> HIDE DEF m2, n
        <5>1. \A i \in 0 .. k - 1 : i \in 0 .. n - 1 \/ i = n
          BY <1>1
        <5>2. ~IsLastRsv(m2, n) /\ IsLastRsv(m2, k)
          BY <2>13, <2>14, <3>2
        <5> HIDE DEF k
        <5>3. \A i \in 0 .. k - 1 : ~IsLastRsv(m2, i)
          BY <2>16, <5>1, <5>2, Zenon
        <5> QED BY <5>2, <5>3 DEF IsNumMemRsv
      <4>3. k \in 0 .. MemSize
        BY <2>15
      <4> HIDE DEF m2, k
      <4> QED BY <2>8, <2>10, <4>1, <4>2, <4>3, GoodIntro
    <3> QED BY <3>1, <3>2
  <2> HIDE DEF f, m2, b
  <2>18. Safe(m, f)
    BY <1>0, <2>2, <2>3, <2>10, <2>11, <2>17 DEF Safe
  <2>19. Carried(m, m2)
    <3> DEFINE e == 4
    <3>1. \A a \in S .. fdt_data_size_(m) - 1 : m2[a + e] = m[a]
      <4> TAKE a \in S .. fdt_data_size_(m) - 1
      <4> DEFINE y == a + e
      <4>1. /\ y \in re + 4 .. fdt_data_size_(m) + 3 /\ y - 4 = a
            /\ y \in 0 .. MemSize - 1 /\ y \notin re .. re + 3
        <5> HIDE DEF re, S
        <5> QED BY <1>0, <2>3, <2>4
      <4>2. \A x \in re + 4 .. fdt_data_size_(m) + 3 : b[x] = m[x - 4]
        BY <2>3
      <4> HIDE DEF y, re, S, e, b, cells
      <4>3. b[y] = m[a]
        BY <4>1, <4>2
      <4>4. m2[y] = b[y]
        BY <2>5, <4>1
      <4> QED BY <4>3, <4>4 DEF y
    <3>2. /\ e \in Int /\ fdt_off_dt_struct(m2) = S + e
          /\ fdt_off_dt_strings(m2) = fdt_off_dt_strings(m) + e
          /\ fdt_size_dt_struct(m2) = fdt_size_dt_struct(m)
          /\ fdt_size_dt_strings(m2) = fdt_size_dt_strings(m)
      <4> HIDE DEF S
      <4> QED BY <1>0, <2>3, <2>10
    <3> HIDE DEF e
    <3> QED BY <3>1, <3>2, CarriedShift
  <2> QED BY <2>2, <2>18, <2>19 DEF f
<1> QED BY <1>4, <1>5

-----------------------------------------------------------------------------
(* The header: what fdt_rw_check_header_ and fdt_open_into change in it.   *)

\* The read-write functions accept a blob in order, and setting its version to
\* 17 changes nothing else.
LEMMA DowngradedGood ==
    ASSUME NEW m, Good(m)
    PROVE  LET d == Downgraded(m)
           IN  /\ Good(d) /\ Within(m, d) /\ fdt_totalsize(d) = fdt_totalsize(m)
               /\ fdt_rw_check_header_(m) = 0 /\ Carried(m, d)
<1> DEFINE m2 == Set(m, hVersion, 17)
           d  == Downgraded(m)
<1>0. /\ m \in Memory /\ MemSize \in Nat /\ MemSize >= 10 /\ fdt_totalsize(m) \in Nat
      /\ fdt_totalsize(m) >= 14
  <2>1. /\ fdt_off_dt_struct(m) \in Nat /\ fdt_off_mem_rsvmap(m) \in Nat
        /\ fdt_size_dt_struct(m) \in Nat /\ fdt_size_dt_strings(m) \in Nat
        /\ fdt_off_dt_strings(m) \in Nat /\ fdt_totalsize(m) \in Nat
        /\ HeaderSize <= fdt_off_mem_rsvmap(m)
        /\ fdt_off_mem_rsvmap(m) + RsvSize <= fdt_off_dt_struct(m)
        /\ fdt_off_dt_struct(m) + fdt_size_dt_struct(m) <= fdt_off_dt_strings(m)
        /\ fdt_off_dt_strings(m) + fdt_size_dt_strings(m) <= fdt_totalsize(m)
    BY GoodFacts
  <2> QED BY <2>1, GoodFacts, MemAssumption
<1>1. fdt_rw_check_header_(m) = 0
  <2>1. fdt_check_header(m) = 0
    BY GoodFacts DEF Good, InOrder, fdt_check_header
  <2>2. ~(fdt_version(m) < 17)
    BY GoodFacts
  <2>3. ~fdt_blocks_misordered_(m, RsvSize, fdt_size_dt_struct(m))
    BY GoodFacts DEF fdt_blocks_misordered_
  <2> QED BY <2>1, <2>2, <2>3 DEF fdt_rw_check_header_
<1>2. /\ m2 \in Memory /\ m2[hVersion] = Num(17)
      /\ \A a \in 0 .. MemSize - 1 : a # hVersion => m2[a] = m[a]
  BY <1>0, SetMemory
<1> HIDE DEF m2
<1>3. /\ fdt_totalsize(m2) = fdt_totalsize(m) /\ fdt_magic(m2) = fdt_magic(m)
      /\ fdt_last_comp_version(m2) = fdt_last_comp_version(m) /\ fdt_version(m2) = 17
      /\ fdt_off_mem_rsvmap(m2) = fdt_off_mem_rsvmap(m)
      /\ fdt_off_dt_struct(m2) = fdt_off_dt_struct(m)
      /\ fdt_size_dt_struct(m2) = fdt_size_dt_struct(m)
      /\ fdt_off_dt_strings(m2) = fdt_off_dt_strings(m)
      /\ fdt_size_dt_strings(m2) = fdt_size_dt_strings(m)
  BY <1>0, <1>2, CellFacts
  DEF fdt_size_dt_struct, fdt_off_dt_strings, fdt_magic, fdt_version,
      fdt_last_comp_version, fdt_totalsize, fdt_off_mem_rsvmap, fdt_off_dt_struct,
      fdt_size_dt_strings
<1>4. GoodHeader(m2)
  <2>1. \A h \in 0 .. 9 : m[h].k = "num"
    BY DEF Good, InOrder
  <2>2. \A h \in 0 .. 9 : m2[h].k = "num"
    BY <1>0, <1>2, <2>1, CellFacts
  <2> QED BY <1>3, <2>2 DEF Good, InOrder, GoodHeader
<1>5. \A a \in HeaderSize .. fdt_off_dt_struct(m) - 1 : m2[a] = m[a]
  <2>1. /\ fdt_off_dt_struct(m) \in Nat /\ fdt_off_dt_strings(m) \in Nat
        /\ fdt_size_dt_struct(m) \in Nat /\ fdt_size_dt_strings(m) \in Nat
        /\ fdt_totalsize(m) \in Nat /\ BufSize \in Nat
        /\ fdt_off_dt_struct(m) + fdt_size_dt_struct(m) <= fdt_off_dt_strings(m)
        /\ fdt_off_dt_strings(m) + fdt_size_dt_strings(m) <= fdt_totalsize(m)
        /\ fdt_totalsize(m) <= BufSize /\ BufSize <= MemSize
    BY GoodFacts
  <2> QED BY <1>0, <1>2, <2>1
<1>6. Good(m2)
  BY <1>2, <1>3, <1>4, <1>5, GoodFacts, BlocksKept
<1>7. Within(m, m2)
  BY <1>0, <1>2 DEF Within
<1>8. d = m2 \/ d = m
  BY DEF Downgraded, m2
<1>9. Carried(m, m2)
  <2> DEFINE z == 0
  <2>1. /\ z \in Int /\ fdt_off_dt_struct(m2) = fdt_off_dt_struct(m) + z
        /\ fdt_off_dt_strings(m2) = fdt_off_dt_strings(m) + z
    BY <1>3, GoodFacts
  <2>2. \A a \in fdt_off_dt_struct(m) .. fdt_data_size_(m) - 1 : m2[a + z] = m[a]
    <3> TAKE a \in fdt_off_dt_struct(m) .. fdt_data_size_(m) - 1
    <3>1. a \in 0 .. MemSize - 1 /\ a # hVersion /\ a + z = a
      <4>1. /\ fdt_off_dt_struct(m) \in Nat /\ fdt_off_mem_rsvmap(m) \in Nat
            /\ HeaderSize <= fdt_off_mem_rsvmap(m)
            /\ fdt_off_mem_rsvmap(m) + RsvSize <= fdt_off_dt_struct(m)
            /\ fdt_totalsize(m) \in Nat /\ BufSize \in Nat
            /\ fdt_data_size_(m) \in Nat /\ fdt_data_size_(m) <= fdt_totalsize(m)
            /\ fdt_totalsize(m) <= BufSize /\ BufSize <= MemSize
        BY GoodFacts DEF fdt_data_size_
      <4> QED BY <1>0, <4>1
    <3> HIDE DEF z
    <3> QED BY <1>2, <3>1
  <2> HIDE DEF z
  <2> QED BY <1>3, <2>1, <2>2, CarriedShift
<1> QED BY <1>1, <1>3, <1>6, <1>7, <1>8, <1>9, CarriedSelf DEF Within

\* fdt_open_into finds the blocks of a blob in order where they are.
LEMMA OpenIntoGood ==
    ASSUME NEW m, Good(m), NEW bufsize \in 0 .. BufSize
    PROVE  LET r == OpenInto(m, bufsize)
           IN  r.ret \in Int /\ Good(r.m) /\ Within(m, r.m) /\ Carried(m, r.m)
<1> DEFINE size == fdt_size_dt_struct(m)
           b1 == Set(m, hVersion, 17)
           b2 == Set(b1, hSizeDtStruct, size)
           m2 == Set(b2, hTotalsize, bufsize)
           f  == OpenInto(m, bufsize)
<1>0. /\ m \in Memory /\ MemSize \in Nat /\ MemSize >= 10 /\ BufSize \in Nat
      /\ fdt_totalsize(m) \in Nat /\ size \in Nat /\ bufsize \in Nat
      /\ fdt_version(m) \in Nat /\ fdt_version(m) >= 17
      /\ fdt_off_dt_struct(m) \in Nat /\ fdt_off_mem_rsvmap(m) \in Nat
      /\ fdt_size_dt_strings(m) \in Nat /\ fdt_off_dt_strings(m) \in Nat
      /\ HeaderSize <= fdt_off_mem_rsvmap(m)
      /\ fdt_off_mem_rsvmap(m) + RsvSize <= fdt_off_dt_struct(m)
      /\ fdt_off_dt_struct(m) + size <= fdt_off_dt_strings(m)
      /\ fdt_off_dt_strings(m) + fdt_size_dt_strings(m) <= fdt_totalsize(m)
      /\ fdt_totalsize(m) <= BufSize /\ BufSize <= MemSize
  BY GoodFacts, MemAssumption
<1>1. fdt_check_header(m) = 0
  BY GoodFacts DEF Good, InOrder, fdt_check_header
<1>2. ~fdt_blocks_misordered_(m, MemRsvSize(m), size)
  BY NumRsv DEF MemRsvSize
<1>3. f = IF fdt_totalsize(m) > bufsize THEN Return(-FDT_ERR_NOSPACE, m)
          ELSE Return(0, m2)
  <2>1. ~(size < 0) /\ fdt_version(m) >= 17
    BY <1>0
  <2> QED BY <1>1, <1>2, <2>1, Zenon DEF OpenInto
<1>4. CASE fdt_totalsize(m) > bufsize
  <2>1. f = [ret |-> -FDT_ERR_NOSPACE, m |-> m, p |-> 0]
    <3> HIDE DEF f, m2
    <3> QED BY <1>3, <1>4 DEF Return
  <2> HIDE DEF f
  <2>2. f.ret \in Int /\ f.m = m
    BY <2>1
  <2>3. f.ret \in Int /\ Good(f.m) /\ Within(m, f.m) /\ Carried(m, f.m)
    BY <2>2, CarriedSelf DEF Within
  <2> QED BY <2>3 DEF f
<1>5. CASE ~(fdt_totalsize(m) > bufsize)
  <2>1. f = [ret |-> 0, m |-> m2, p |-> 0]
    <3> HIDE DEF f, m2
    <3> QED BY <1>3, <1>5 DEF Return
  <2>2. f.ret \in Int /\ f.m = m2
    <3> HIDE DEF f, m2
    <3> QED BY <2>1
  <2>3. /\ b1 \in Memory /\ b1[hVersion] = Num(17)
        /\ \A a \in 0 .. MemSize - 1 : a # hVersion => b1[a] = m[a]
    BY <1>0, SetMemory
  <2>4. /\ b2 \in Memory /\ b2[hSizeDtStruct] = Num(size)
        /\ \A a \in 0 .. MemSize - 1 : a # hSizeDtStruct => b2[a] = b1[a]
    <3> HIDE DEF b1, size
    <3> QED BY <1>0, <2>3, SetMemory
  <2>5. /\ m2 \in Memory /\ m2[hTotalsize] = Num(bufsize)
        /\ \A a \in 0 .. MemSize - 1 : a # hTotalsize => m2[a] = b2[a]
    <3> HIDE DEF b2
    <3> QED BY <1>0, <2>4, SetMemory
  <2> HIDE DEF b1, b2, m2, f, size
  <2>6. /\ m2[hVersion] = Num(17) /\ m2[hSizeDtStruct] = Num(size)
        /\ \A a \in 0 .. MemSize - 1 :
                a \notin {hVersion, hSizeDtStruct, hTotalsize} => m2[a] = m[a]
    BY <1>0, <2>3, <2>4, <2>5
  <2>7. /\ fdt_totalsize(m2) = bufsize /\ fdt_magic(m2) = fdt_magic(m)
        /\ fdt_last_comp_version(m2) = fdt_last_comp_version(m) /\ fdt_version(m2) = 17
        /\ fdt_off_mem_rsvmap(m2) = fdt_off_mem_rsvmap(m)
        /\ fdt_off_dt_struct(m2) = fdt_off_dt_struct(m)
        /\ fdt_size_dt_struct(m2) = size
        /\ fdt_off_dt_strings(m2) = fdt_off_dt_strings(m)
        /\ fdt_size_dt_strings(m2) = fdt_size_dt_strings(m)
    BY <1>0, <2>5, <2>6, CellFacts
    DEF fdt_size_dt_struct, fdt_off_dt_strings, fdt_magic, fdt_version,
        fdt_last_comp_version, fdt_totalsize, fdt_off_mem_rsvmap, fdt_off_dt_struct,
        fdt_size_dt_strings
  <2>8. GoodHeader(m2)
    <3>1. \A h \in 0 .. 9 : m[h].k = "num"
      BY DEF Good, InOrder
    <3>2. \A h \in 0 .. 9 : m2[h].k = "num"
      BY <1>0, <2>5, <2>6, <3>1, CellFacts
    <3> QED BY <1>0, <2>7, <3>2 DEF Good, InOrder, GoodHeader
  <2>9. \A a \in HeaderSize .. fdt_off_dt_struct(m) - 1 : m2[a] = m[a]
    BY <1>0, <2>6
  <2>10. Good(m2)
    <3>1. fdt_off_dt_struct(m2) + fdt_size_dt_struct(m2) <= fdt_off_dt_strings(m2)
      BY <1>0, <2>7
    <3>2. fdt_off_dt_strings(m2) + fdt_size_dt_strings(m2) <= fdt_totalsize(m2)
      BY <1>0, <1>5, <2>7
    <3> QED BY <2>5, <2>7, <2>8, <2>9, <3>1, <3>2, BlocksKept
  <2>11. Within(m, m2)
    BY <1>0, <2>6 DEF Within
  <2>12. Carried(m, m2)
    <3> DEFINE z == 0
    <3>1. /\ z \in Int /\ fdt_off_dt_struct(m2) = fdt_off_dt_struct(m) + z
          /\ fdt_off_dt_strings(m2) = fdt_off_dt_strings(m) + z
          /\ fdt_size_dt_struct(m2) = fdt_size_dt_struct(m)
      BY <1>0, <2>7 DEF size
    <3>2. \A a \in fdt_off_dt_struct(m) .. fdt_data_size_(m) - 1 : m2[a + z] = m[a]
      <4> TAKE a \in fdt_off_dt_struct(m) .. fdt_data_size_(m) - 1
      <4>1. /\ a \in 0 .. MemSize - 1 /\ a + z = a
            /\ a \notin {hVersion, hSizeDtStruct, hTotalsize}
        BY <1>0 DEF fdt_data_size_
      <4> HIDE DEF z
      <4> QED BY <2>6, <4>1
    <3> HIDE DEF z
    <3> QED BY <2>7, <3>1, <3>2, CarriedShift
  <2>13. f.ret \in Int /\ Good(f.m) /\ Within(m, f.m) /\ Carried(m, f.m)
    BY <2>2, <2>10, <2>11, <2>12
  <2> QED BY <2>13 DEF f
<1> QED BY <1>4, <1>5

\* fdt_pack moves every block towards the header.
LEMMA PackSafe ==
    ASSUME NEW m, Good(m)
    PROVE  Safe(m, Pack(m)) /\ Carried(m, Pack(m).m)
<1> DEFINE n    == fdt_num_mem_rsv(m)
           R    == fdt_off_mem_rsvmap(m)
           S    == fdt_off_dt_struct(m)
           G    == fdt_off_dt_strings(m)
           ss   == fdt_size_dt_struct(m)
           gs   == fdt_size_dt_strings(m)
           T    == fdt_totalsize(m)
           L    == RsvSize * (n + 1)
           soff == HeaderSize + L
           goff == soff + ss
           b1 == Move(m, HeaderSize, R, L)
           m1 == Set(b1, hOffMemRsvmap, HeaderSize)
           b2 == Move(m1, soff, S, ss)
           c2 == Set(b2, hOffDtStruct, soff)
           m2 == Set(c2, hSizeDtStruct, ss)
           b3 == Move(m2, goff, G, gs)
           m3 == Set(b3, hOffDtStrings, goff)
           pk == Set(m3, hSizeDtStrings, gs)
           m4 == Set(pk, hTotalsize, goff + gs)
           RsvKept(x) == /\ x \in Memory
                         /\ \A a \in HeaderSize .. soff - 1 : x[a] = m[R + a - HeaderSize]
                         /\ \A a \in 0 .. MemSize - 1 : a >= T => x[a] = m[a]
           f  == Pack(m)
<1>0. /\ m \in Memory /\ MemSize \in Nat /\ MemSize >= 10 /\ BufSize \in Nat
      /\ T \in Nat /\ S \in Nat /\ R \in Nat /\ G \in Nat /\ ss \in Nat /\ gs \in Nat
      /\ HeaderSize <= R /\ S + ss <= G /\ G + gs <= T /\ T <= BufSize /\ BufSize <= MemSize
  BY GoodFacts, MemAssumption
<1>1. /\ n \in 0 .. MemSize /\ IsNumMemRsv(m, n)
      /\ ~fdt_blocks_misordered_(m, L, ss)
  BY NumRsv
<1>2. /\ n \in Nat /\ L \in Nat /\ L = 4 * (n + 1) /\ R + L <= S
      /\ soff \in Nat /\ soff = 10 + L /\ goff \in Nat /\ goff = 10 + L + ss
  <2>1. R + L <= S
    <3> HIDE DEF n, L
    <3>1. L = 4 * (n + 1)
      BY DEF L
    <3> HIDE DEF R, S
    <3> QED BY <1>0, <1>1, <3>1 DEF fdt_blocks_misordered_, R, S
  <2> HIDE DEF n, R, S, ss
  <2> QED BY <1>0, <1>1, <2>1
<1> HIDE DEF n, L, soff, goff
<1>3. /\ RsvKept(m1) /\ m1[hOffMemRsvmap] = Num(HeaderSize)
      /\ \A h \in 0 .. 9 : h # hOffMemRsvmap => m1[h] = m[h]
      /\ \A a \in 0 .. MemSize - 1 : a >= soff => m1[a] = m[a]
  <2> HIDE DEF R, S, T, m1
  <2>1. /\ b1 \in Memory
        /\ \A a \in 0 .. MemSize - 1 : a < HeaderSize \/ a >= HeaderSize + L => b1[a] = m[a]
        /\ \A a \in 0 .. MemSize - 1 :
              a >= HeaderSize /\ a < HeaderSize + L => b1[a] = m[R + a - HeaderSize]
    <3>1. /\ m \in Memory /\ HeaderSize \in Nat /\ R \in Nat /\ L \in Int
          /\ R + L <= MemSize
      <4> HIDE DEF G, ss, gs
      <4> QED BY <1>0, <1>2
    <3> DEFINE dst == HeaderSize
    <3>2. dst \in Nat /\ b1 = Move(m, dst, R, L)
      OBVIOUS
    <3> HIDE DEF dst, b1
    <3>3. /\ Move(m, dst, R, L) \in Memory
          /\ \A a \in 0 .. MemSize - 1 :
                a < dst \/ a >= dst + L => Move(m, dst, R, L)[a] = m[a]
          /\ \A a \in 0 .. MemSize - 1 :
                a >= dst /\ a < dst + L => Move(m, dst, R, L)[a] = m[R + a - dst]
      BY <3>1, <3>2, MoveMemory, ZenonT(40)
    <3> QED BY <3>2, <3>3, Zenon DEF dst
  <2> HIDE DEF b1
  <2>2. /\ m1 \in Memory /\ m1[hOffMemRsvmap] = Num(HeaderSize)
        /\ \A a \in 0 .. MemSize - 1 : a # hOffMemRsvmap => m1[a] = b1[a]
    BY <1>0, <2>1, SetMemory DEF m1
  <2>3. /\ HeaderSize + L = soff /\ soff <= S /\ soff <= T /\ soff <= MemSize
    <3> HIDE DEF G, ss, gs
    <3> QED BY <1>0, <1>2
  <2>4. \A h \in 0 .. 9 : h # hOffMemRsvmap => m1[h] = m[h]
    BY <1>0, <2>1, <2>2
  <2>5. \A a \in HeaderSize .. soff - 1 : m1[a] = m[R + a - HeaderSize]
    BY <1>0, <1>2, <2>1, <2>2, <2>3
  <2>6. \A a \in 0 .. MemSize - 1 : a >= T => m1[a] = m[a]
    BY <1>0, <1>2, <2>1, <2>2, <2>3
  <2>7. \A a \in 0 .. MemSize - 1 : a >= soff => m1[a] = m[a]
    BY <1>0, <1>2, <2>1, <2>2, <2>3
  <2> QED BY <2>2, <2>4, <2>5, <2>6, <2>7
<1> HIDE DEF m1
<1>4. /\ RsvKept(m2) /\ m2[hOffDtStruct] = Num(soff) /\ m2[hSizeDtStruct] = Num(ss)
      /\ \A h \in 0 .. 9 : h \notin {hOffDtStruct, hSizeDtStruct} => m2[h] = m1[h]
      /\ \A a \in 0 .. MemSize - 1 : a >= soff /\ a < goff => m2[a] = m[S + a - soff]
      /\ \A a \in 0 .. MemSize - 1 : a >= goff => m2[a] = m[a]
  <2> HIDE DEF R, S, T, G, ss, gs, m2
  <2>1. /\ b2 \in Memory
        /\ \A a \in 0 .. MemSize - 1 : a < soff \/ a >= soff + ss => b2[a] = m1[a]
        /\ \A a \in 0 .. MemSize - 1 :
              a >= soff /\ a < soff + ss => b2[a] = m1[S + a - soff]
    <3>1. soff \in Nat /\ S \in Nat /\ ss \in Int /\ S + ss <= MemSize /\ m1 \in Memory
      BY <1>0, <1>2, <1>3
    <3> QED BY <3>1, MoveMemory
  <2> HIDE DEF b2
  <2>2. /\ c2 \in Memory /\ c2[hOffDtStruct] = Num(soff)
        /\ \A a \in 0 .. MemSize - 1 : a # hOffDtStruct => c2[a] = b2[a]
    BY <1>0, <1>2, <2>1, SetMemory
  <2> HIDE DEF c2
  <2>3. /\ m2 \in Memory /\ m2[hSizeDtStruct] = Num(ss)
        /\ \A a \in 0 .. MemSize - 1 : a # hSizeDtStruct => m2[a] = c2[a]
    BY <1>0, <2>2, SetMemory DEF m2
  <2>4. soff >= 10 /\ soff + ss <= T /\ soff <= MemSize
    BY <1>0, <1>2
  <2>5. m2[hOffDtStruct] = Num(soff)
    BY <1>0, <2>2, <2>3
  <2>6. \A a \in 0 .. MemSize - 1 :
            a < soff \/ a >= T => a \in {hOffDtStruct, hSizeDtStruct} \/ m2[a] = m1[a]
    BY <1>0, <1>2, <2>1, <2>2, <2>3, <2>4
  <2>7. \A h \in 0 .. 9 : h \notin {hOffDtStruct, hSizeDtStruct} => m2[h] = m1[h]
    BY <1>0, <1>2, <2>4, <2>6
  <2>8. \A a \in HeaderSize .. soff - 1 : m2[a] = m[R + a - HeaderSize]
    <3>1. \A a \in HeaderSize .. soff - 1 : m2[a] = m1[a]
      BY <1>0, <1>2, <2>4, <2>6
    <3> QED BY <1>3, <3>1
  <2>9. \A a \in 0 .. MemSize - 1 : a >= T => m2[a] = m[a]
    <3>1. \A a \in 0 .. MemSize - 1 : a >= T => m2[a] = m1[a]
      BY <1>0, <1>2, <2>4, <2>6
    <3> QED BY <1>3, <3>1
  <2>10. \A a \in 0 .. MemSize - 1 : a >= soff /\ a < goff => m2[a] = m[S + a - soff]
    <3> TAKE a \in 0 .. MemSize - 1
    <3> HAVE a >= soff /\ a < goff
    <3> DEFINE y == S + a - soff
    <3>1. a < soff + ss /\ a \notin {hOffDtStruct, hSizeDtStruct}
      BY <1>2, <2>4
    <3>2. m2[a] = b2[a]
      BY <2>2, <2>3, <3>1
    <3>3. b2[a] = m1[y]
      BY <2>1, <3>1
    <3>4. y \in 0 .. MemSize - 1 /\ y >= soff
      BY <1>0, <1>2, <3>1
    <3> HIDE DEF y
    <3>5. m1[y] = m[y]
      BY <1>3, <3>4
    <3> QED BY <3>2, <3>3, <3>5 DEF y
  <2>11. \A a \in 0 .. MemSize - 1 : a >= goff => m2[a] = m[a]
    <3> TAKE a \in 0 .. MemSize - 1
    <3> HAVE a >= goff
    <3>1. a >= soff + ss /\ a \notin {hOffDtStruct, hSizeDtStruct} /\ a >= soff
      BY <1>0, <1>2, <2>4
    <3>2. m2[a] = b2[a]
      BY <2>2, <2>3, <3>1
    <3>3. b2[a] = m1[a]
      BY <2>1, <3>1
    <3> QED BY <1>3, <3>1, <3>2, <3>3
  <2> QED BY <2>3, <2>5, <2>7, <2>8, <2>9, <2>10, <2>11
<1> HIDE DEF m2
<1>5. /\ RsvKept(m4) /\ m4[hOffDtStrings] = Num(goff) /\ m4[hSizeDtStrings] = Num(gs)
      /\ m4[hTotalsize] = Num(goff + gs)
      /\ \A h \in 0 .. 9 : h \notin {hOffDtStrings, hSizeDtStrings, hTotalsize} => m4[h] = m2[h]
      /\ b3[hSizeDtStrings] = m2[hSizeDtStrings] /\ m3[hSizeDtStrings] = m2[hSizeDtStrings]
      /\ \A a \in 0 .. MemSize - 1 : a >= soff /\ a < goff => m4[a] = m2[a]
      /\ \A a \in 0 .. MemSize - 1 : a >= goff /\ a < goff + gs => m4[a] = m2[G + a - goff]
  <2> HIDE DEF R, S, T, G, ss, gs, m4
  <2>1. /\ b3 \in Memory
        /\ \A a \in 0 .. MemSize - 1 : a < goff \/ a >= goff + gs => b3[a] = m2[a]
        /\ \A a \in 0 .. MemSize - 1 :
              a >= goff /\ a < goff + gs => b3[a] = m2[G + a - goff]
    <3>1. goff \in Nat /\ G \in Nat /\ gs \in Int /\ G + gs <= MemSize /\ m2 \in Memory
      BY <1>0, <1>2, <1>4
    <3> QED BY <3>1, MoveMemory
  <2> HIDE DEF b3
  <2>2. /\ m3 \in Memory /\ m3[hOffDtStrings] = Num(goff)
        /\ \A a \in 0 .. MemSize - 1 : a # hOffDtStrings => m3[a] = b3[a]
    BY <1>0, <1>2, <2>1, SetMemory
  <2> HIDE DEF m3
  <2>3. /\ pk \in Memory /\ pk[hSizeDtStrings] = Num(gs)
        /\ \A a \in 0 .. MemSize - 1 : a # hSizeDtStrings => pk[a] = m3[a]
    BY <1>0, <2>2, SetMemory
  <2> HIDE DEF pk
  <2>4. /\ m4 \in Memory /\ m4[hTotalsize] = Num(goff + gs)
        /\ \A a \in 0 .. MemSize - 1 : a # hTotalsize => m4[a] = pk[a]
    <3>1. goff + gs \in Nat
      BY <1>0, <1>2
    <3> QED BY <1>0, <2>3, <3>1, SetMemory DEF m4
  <2>5. goff >= 10 /\ goff + gs <= T /\ soff <= goff /\ goff <= MemSize
    BY <1>0, <1>2
  <2>6. m4[hOffDtStrings] = Num(goff) /\ m4[hSizeDtStrings] = Num(gs)
    BY <1>0, <2>2, <2>3, <2>4
  <2>7. \A a \in 0 .. MemSize - 1 :
            a < goff \/ a >= T =>
                a \in {hOffDtStrings, hSizeDtStrings, hTotalsize} \/ m4[a] = m2[a]
    BY <1>0, <1>2, <2>1, <2>2, <2>3, <2>4, <2>5
  <2>8. \A h \in 0 .. 9 :
            h \notin {hOffDtStrings, hSizeDtStrings, hTotalsize} => m4[h] = m2[h]
    BY <1>0, <1>2, <2>5, <2>7
  <2>9. \A a \in HeaderSize .. soff - 1 : m4[a] = m[R + a - HeaderSize]
    <3>1. \A a \in HeaderSize .. soff - 1 : m4[a] = m2[a]
      BY <1>0, <1>2, <2>5, <2>7
    <3> QED BY <1>4, <3>1
  <2>10. \A a \in 0 .. MemSize - 1 : a >= T => m4[a] = m[a]
    <3>1. \A a \in 0 .. MemSize - 1 : a >= T => m4[a] = m2[a]
      BY <1>0, <1>2, <2>5, <2>7
    <3> QED BY <1>4, <3>1
  <2>11. b3[hSizeDtStrings] = m2[hSizeDtStrings] /\ m3[hSizeDtStrings] = m2[hSizeDtStrings]
    BY <1>0, <1>2, <2>1, <2>2, <2>5
  <2>12. \A a \in 0 .. MemSize - 1 : a >= soff /\ a < goff => m4[a] = m2[a]
    <3> TAKE a \in 0 .. MemSize - 1
    <3> HAVE a >= soff /\ a < goff
    <3>1. a \notin {hOffDtStrings, hSizeDtStrings, hTotalsize}
      BY <1>2
    <3> QED BY <2>7, <3>1
  <2>13. \A a \in 0 .. MemSize - 1 : a >= goff /\ a < goff + gs => m4[a] = m2[G + a - goff]
    <3> TAKE a \in 0 .. MemSize - 1
    <3> HAVE a >= goff /\ a < goff + gs
    <3>1. a \notin {hOffDtStrings, hSizeDtStrings, hTotalsize}
      BY <1>2, <2>5
    <3>2. m4[a] = b3[a]
      BY <2>2, <2>3, <2>4, <3>1
    <3> QED BY <2>1, <3>2
  <2> QED BY <2>4, <2>6, <2>8, <2>9, <2>10, <2>11, <2>12, <2>13
<1>6. /\ fdt_off_dt_struct(m1) = S /\ fdt_off_dt_strings(m2) = G
      /\ fdt_size_dt_strings(m2) = gs /\ fdt_size_dt_strings(m3) = gs
      /\ m2[hSizeDtStrings] = m[hSizeDtStrings]
  <2>1. m1[hOffDtStruct] = m[hOffDtStruct] /\ m2[hOffDtStrings] = m[hOffDtStrings]
        /\ m2[hSizeDtStrings] = m[hSizeDtStrings]
    BY <1>3, <1>4
  <2> HIDE DEF m3
  <2> QED BY <1>5, <2>1 DEF fdt_off_dt_struct, fdt_off_dt_strings, fdt_size_dt_strings
<1> HIDE DEF RsvKept, b3, m3
<1>7. pk = fdt_packblocks_(m, 0, MemRsvSize(m), ss)
  <2> DEFINE u1 == Set(Move(m, 0 + HeaderSize, R, L), 0 + hOffMemRsvmap, HeaderSize)
             u2 == Set(Set(Move(u1, 0 + soff, fdt_off_dt_struct(u1), ss), 0 + hOffDtStruct, soff),
                       0 + hSizeDtStruct, ss)
             u3 == Set(Move(u2, 0 + goff, fdt_off_dt_strings(u2), fdt_size_dt_strings(u2)),
                       0 + hOffDtStrings, goff)
  <2>1. fdt_packblocks_(m, 0, MemRsvSize(m), ss) = Set(u3, 0 + hSizeDtStrings, fdt_size_dt_strings(u3))
    <3>1. MemRsvSize(m) = L
      BY DEF MemRsvSize, L, n
    <3> QED BY <3>1, ZenonT(40) DEF fdt_packblocks_, soff, goff
  <2>2. /\ 0 + HeaderSize = HeaderSize /\ 0 + hOffMemRsvmap = hOffMemRsvmap
        /\ 0 + hOffDtStruct = hOffDtStruct /\ 0 + hSizeDtStruct = hSizeDtStruct
        /\ 0 + hOffDtStrings = hOffDtStrings /\ 0 + hSizeDtStrings = hSizeDtStrings
        /\ 0 + soff = soff /\ 0 + goff = goff
    BY <1>2
  <2>3. u1 = m1
    BY <2>2, Zenon DEF m1
  <2> HIDE DEF u1
  <2>4. u2 = m2
    BY <1>6, <2>2, <2>3, Zenon DEF m2
  <2> HIDE DEF u2
  <2>5. u3 = m3
    BY <1>6, <2>2, <2>4, Zenon DEF m3, b3
  <2> HIDE DEF u3
  <2> QED BY <1>6, <2>1, <2>2, <2>5, Zenon
<1>8. f = [ret |-> 0, m |-> m4, p |-> 0]
  <2>1. fdt_data_size_(pk) = goff + gs
    <3>1. m4[hOffDtStrings] = pk[hOffDtStrings] /\ m4[hSizeDtStrings] = pk[hSizeDtStrings]
      <4>1. \A a : a # hTotalsize => Set(pk, hTotalsize, goff + gs)[a] = pk[a]
                                     \/ a \notin DOMAIN pk
        BY DEF Set
      <4> HIDE DEF pk
      <4> QED BY <1>0, <4>1 DEF Set
    <3> HIDE DEF pk, m4, gs
    <3> QED BY <1>0, <1>2, <1>5, <3>1, CellFacts
        DEF fdt_data_size_, fdt_off_dt_strings, fdt_size_dt_strings
  <2>2. f = Return(0, Set(pk, hTotalsize, fdt_data_size_(pk)))
    BY <1>7, Zenon DEF Pack
  <2> HIDE DEF pk, f
  <2> QED BY <2>1, <2>2, Zenon DEF Return
<1> HIDE DEF m4, f, pk
<1>9. /\ fdt_totalsize(m4) = goff + gs /\ fdt_off_mem_rsvmap(m4) = HeaderSize
      /\ fdt_off_dt_struct(m4) = soff /\ fdt_size_dt_struct(m4) = ss
      /\ fdt_off_dt_strings(m4) = goff /\ fdt_size_dt_strings(m4) = gs
      /\ m4[hMagic] = m[hMagic] /\ m4[hVersion] = m[hVersion]
      /\ m4[hLastCompVersion] = m[hLastCompVersion]
      /\ \A h \in 0 .. 9 : m4[h].k = "num"
  <2>1. goff + gs \in Nat
    <3> HIDE DEF gs, ss
    <3> QED BY <1>0, <1>2
  <2>2. /\ m4[hOffMemRsvmap] = Num(HeaderSize) /\ m4[hOffDtStruct] = Num(soff)
        /\ m4[hSizeDtStruct] = Num(ss)
        /\ m4[hMagic] = m[hMagic] /\ m4[hVersion] = m[hVersion]
        /\ m4[hLastCompVersion] = m[hLastCompVersion]
        /\ m4[hBootCpuidPhys] = m[hBootCpuidPhys]
    BY <1>3, <1>4, <1>5
  <2>3. \A h \in 0 .. 9 : m[h].k = "num"
    BY DEF Good, InOrder
  <2>4. \A h \in 0 .. 9 : h \in {0, 5, 6, 7} \/ h \in {1, 2, 3, 4, 8, 9}
    OBVIOUS
  <2>5. \A x \in Nat : Value(Num(x)) = x /\ Num(x).k = "num"
    BY CellFacts
  <2> HIDE DEF gs, ss
  <2>6. \A h \in 0 .. 9 : m4[h].k = "num"
    BY <1>0, <1>2, <1>5, <2>1, <2>2, <2>3, <2>4, <2>5
  <2> QED BY <1>0, <1>2, <1>5, <2>1, <2>2, <2>5, <2>6
      DEF fdt_totalsize, fdt_off_mem_rsvmap, fdt_off_dt_struct, fdt_size_dt_struct,
          fdt_off_dt_strings, fdt_size_dt_strings
<1>10. GoodHeader(m4)
  <2>1. goff + gs <= BufSize
    <3> HIDE DEF gs, ss, R, S, G, T
    <3> QED BY <1>0, <1>2
  <2>2. fdt_totalsize(m4) <= BufSize
    BY <1>9, <2>1
  <2>3. /\ fdt_magic(m) = FDT_MAGIC /\ fdt_version(m) >= 17 /\ fdt_last_comp_version(m) <= 17
    BY DEF Good, InOrder
  <2> QED BY <1>9, <2>2, <2>3 DEF GoodHeader, fdt_magic, fdt_version, fdt_last_comp_version
<1>11. \A i \in 0 .. n : IsLastRsv(m4, i) <=> IsLastRsv(m, i)
  <2> SUFFICES ASSUME NEW i \in 0 .. n PROVE IsLastRsv(m4, i) <=> IsLastRsv(m, i)
    OBVIOUS
  <2>1. /\ i \in Nat /\ HeaderSize + RsvSize * i + 2 \in HeaderSize .. soff - 1
        /\ HeaderSize + RsvSize * i + 3 \in HeaderSize .. soff - 1
        /\ R + (HeaderSize + RsvSize * i + 2) - HeaderSize = R + RsvSize * i + 2
        /\ R + (HeaderSize + RsvSize * i + 3) - HeaderSize = R + RsvSize * i + 3
    <3> HIDE DEF R
    <3> QED BY <1>0, <1>2
  <2>2. \A a \in HeaderSize .. soff - 1 : m4[a] = m[R + a - HeaderSize]
    BY <1>5 DEF RsvKept
  <2>3. /\ m4[HeaderSize + RsvSize * i + 2] = m[R + RsvSize * i + 2]
        /\ m4[HeaderSize + RsvSize * i + 3] = m[R + RsvSize * i + 3]
    <3> HIDE DEF R
    <3> QED BY <1>2, <2>1, <2>2
  <2> QED BY <1>9, <2>1, <2>3, SameRsv
<1>12. ~fdt_blocks_misordered_(m4, RsvSize * (n + 1), fdt_size_dt_struct(m4))
  <2> HIDE DEF R, S, G, ss, gs, T
  <2> QED BY <1>0, <1>2, <1>9 DEF fdt_blocks_misordered_
<1>13. Good(m4)
  <2>1. IsNumMemRsv(m4, n)
    BY <1>1, <1>2, <1>11 DEF IsNumMemRsv
  <2>2. m4 \in Memory
    BY <1>5 DEF RsvKept
  <2> QED BY <1>1, <1>10, <1>12, <2>1, <2>2, GoodIntro
<1>14. Within(m, m4) /\ fdt_totalsize(m4) <= fdt_totalsize(m)
  <2>1. goff + gs <= T
    <3> HIDE DEF gs, ss, R, S, G, T
    <3> QED BY <1>0, <1>2
  <2>2. \A a \in 0 .. MemSize - 1 : a >= T => m4[a] = m[a]
    BY <1>5 DEF RsvKept
  <2> QED BY <1>9, <2>1, <2>2 DEF Within
<1>15. f.ret = 0 /\ f.m = m4
  BY <1>8
<1>16. Safe(m, f)
  BY <1>13, <1>14, <1>15 DEF Safe
<1>17. \A i \in 0 .. ss - 1 : m4[soff + i] = m[S + i]
  <2> TAKE i \in 0 .. ss - 1
  <2> DEFINE y == soff + i
  <2>1. y \in 0 .. MemSize - 1 /\ y >= soff /\ y < goff /\ S + y - soff = S + i
    <3> HIDE DEF S, ss, G, gs, R, T
    <3> QED BY <1>0, <1>2
  <2> HIDE DEF y, S
  <2>2. m4[y] = m2[y] /\ m2[y] = m[S + y - soff]
    BY <1>4, <1>5, <2>1
  <2> QED BY <2>1, <2>2 DEF y
<1>18. \A i \in 0 .. gs - 1 : m4[goff + i] = m[G + i]
  <2> TAKE i \in 0 .. gs - 1
  <2> DEFINE y == goff + i
             x == G + i
  <2>1. /\ y \in 0 .. MemSize - 1 /\ y >= goff /\ y < goff + gs /\ G + y - goff = x
        /\ x \in 0 .. MemSize - 1 /\ x >= goff
    <3> HIDE DEF S, ss, G, gs, R, T
    <3> QED BY <1>0, <1>2
  <2> HIDE DEF y, x, G, gs
  <2>2. m4[y] = m2[G + y - goff] /\ m2[x] = m[x]
    BY <1>4, <1>5, <2>1
  <2> QED BY <2>1, <2>2 DEF y, x
<1>19. Carried(m, m4)
  BY <1>9, <1>17, <1>18 DEF Carried
<1> QED BY <1>15, <1>16, <1>19 DEF f

-----------------------------------------------------------------------------
(* Blobs whose blocks are in any order, or of an old version.  The         *)
(* functions of fdt_wip.c write to them without a look at the header, and  *)
(* fdt_open_into puts them in order.                                       *)

\* The structure block reaches to offset e, as far as its end is known: a blob
\* of version 16 does not say where it is.
ReachesTo(m, e) ==
    /\ fdt_off_dt_struct(m) + e <= fdt_totalsize(m)
    /\ fdt_version(m) >= 17 => e <= fdt_size_dt_struct(m)

\* The reservation list, with n entries, lies inside the blob and off the
\* structure block.
RsvApart(m, n) ==
    LET end == fdt_off_mem_rsvmap(m) + RsvSize * (n + 1)
    IN  /\ end <= fdt_totalsize(m)
        /\ \/ end <= fdt_off_dt_struct(m)
           \/ /\ fdt_version(m) >= 17
              /\ fdt_off_dt_struct(m) + fdt_size_dt_struct(m) <= fdt_off_mem_rsvmap(m)

\* The strengthening of Layout for any blob: a header that fits the memory, and
\* blocks that it places inside the blob.
Placed(m) ==
    /\ m \in Memory
    /\ \A h \in 0 .. HeaderSize - 1 : m[h].k = "num"
    /\ fdt_magic(m) # FDT_SW_MAGIC
    /\ fdt_totalsize(m) <= BufSize
    /\ HeaderSize <= fdt_off_mem_rsvmap(m) /\ HeaderSize <= fdt_off_dt_struct(m)
    /\ fdt_version(m) >= 17 =>
            fdt_off_dt_struct(m) + fdt_size_dt_struct(m) <= fdt_totalsize(m)
    /\ fdt_off_dt_strings(m) + fdt_size_dt_strings(m) <= fdt_totalsize(m)
    /\ \E n \in 0 .. MemSize : IsNumMemRsv(m, n) /\ RsvApart(m, n)

\* The numbers in the header of such a blob.
LEMMA PlacedFacts ==
    ASSUME NEW m, Placed(m)
    PROVE  /\ m \in Memory /\ MemSize \in Nat /\ BufSize \in Nat
           /\ fdt_totalsize(m) \in Nat /\ fdt_off_dt_struct(m) \in Nat
           /\ fdt_off_dt_strings(m) \in Nat /\ fdt_off_mem_rsvmap(m) \in Nat
           /\ fdt_size_dt_struct(m) \in Nat /\ fdt_size_dt_strings(m) \in Nat
           /\ fdt_version(m) \in Nat /\ MemSize >= 10
           /\ fdt_totalsize(m) <= BufSize /\ BufSize <= MemSize /\ fdt_totalsize(m) >= 14
           /\ HeaderSize <= fdt_off_mem_rsvmap(m) /\ HeaderSize <= fdt_off_dt_struct(m)
           /\ fdt_version(m) >= 17 =>
                fdt_off_dt_struct(m) + fdt_size_dt_struct(m) <= fdt_totalsize(m)
           /\ fdt_off_dt_strings(m) + fdt_size_dt_strings(m) <= fdt_totalsize(m)
<1>1. m \in Memory /\ MemSize \in Nat /\ MemSize >= 10 /\ BufSize \in Nat /\ BufSize <= MemSize
  BY MemAssumption, BufAssumption DEF Placed
<1>2. PICK n \in 0 .. MemSize : RsvApart(m, n)
  BY DEF Placed
<1>3. fdt_totalsize(m) >= 14
  BY <1>1, <1>2, HeaderNat DEF RsvApart, Placed
<1> QED BY <1>1, <1>3, HeaderNat DEF Placed

\* A blob in order is one of them.
LEMMA GoodPlaced ==
    ASSUME NEW m, Good(m)
    PROVE  Placed(m)
<1>1. PICK n \in 0 .. MemSize :
        /\ ~fdt_blocks_misordered_(m, RsvSize * (n + 1), fdt_size_dt_struct(m))
        /\ IsNumMemRsv(m, n)
  BY DEF Good, InOrder
<1>2. RsvApart(m, n)
  BY <1>1, GoodFacts DEF fdt_blocks_misordered_, RsvApart
<1>3. \E k \in 0 .. MemSize : IsNumMemRsv(m, k) /\ RsvApart(m, k)
  BY <1>1, <1>2
<1>4. (\A h \in 0 .. HeaderSize - 1 : m[h].k = "num") /\ fdt_magic(m) = FDT_MAGIC
  BY DEF Good, InOrder
<1>5. fdt_magic(m) # FDT_SW_MAGIC
  BY <1>4
<1> QED BY <1>3, <1>4, <1>5, GoodFacts DEF Placed

\* The check of the editing functions finds those that are in order.
LEMMA CheckedGood ==
    ASSUME NEW m, Placed(m), fdt_rw_check_header_(m) = 0
    PROVE  Good(m)
<1>0. fdt_magic(m) \in Nat /\ fdt_version(m) \in Nat /\ fdt_last_comp_version(m) \in Nat
  BY HeaderNat DEF Placed
<1>1. fdt_check_header(m) = 0
  BY Zenon DEF fdt_rw_check_header_
<1>2. fdt_version(m) >= 17 /\ ~fdt_blocks_misordered_(m, RsvSize, fdt_size_dt_struct(m))
  <2>1. ~(fdt_version(m) < 17)
    BY <1>1 DEF fdt_rw_check_header_
  <2>2. ~fdt_blocks_misordered_(m, RsvSize, fdt_size_dt_struct(m))
    BY <1>1, <2>1 DEF fdt_rw_check_header_
  <2> QED BY <1>0, <2>1, <2>2
<1>3. fdt_magic(m) = FDT_MAGIC /\ fdt_last_comp_version(m) <= 17
  <2>1. fdt_magic(m) = FDT_MAGIC
    BY <1>0, <1>1 DEF fdt_check_header, Placed
  <2> QED BY <1>0, <1>1, <2>1 DEF fdt_check_header
<1>4. PICK n \in 0 .. MemSize : IsNumMemRsv(m, n) /\ RsvApart(m, n)
  BY DEF Placed
<1>5. ~fdt_blocks_misordered_(m, RsvSize * (n + 1), fdt_size_dt_struct(m))
  BY <1>2, <1>4, PlacedFacts DEF fdt_blocks_misordered_, RsvApart
<1>6. m \in Memory /\ GoodHeader(m)
  BY <1>2, <1>3 DEF Placed, GoodHeader
<1> QED BY <1>4, <1>5, <1>6, GoodIntro

\* Writing to the structure block leaves the blocks where they are.
LEMMA PlacedWritten ==
    ASSUME NEW m, Placed(m), NEW e \in Nat, ReachesTo(m, e), NEW m2 \in Memory,
           \A a \in 0 .. MemSize - 1 :
                a < fdt_off_dt_struct(m) \/ a >= fdt_off_dt_struct(m) + e => m2[a] = m[a]
    PROVE  Placed(m2) /\ Within(m, m2) /\ fdt_totalsize(m2) = fdt_totalsize(m)
<1>1. \A h \in 0 .. 9 : m2[h] = m[h]
  BY PlacedFacts
<1>2. /\ fdt_totalsize(m2) = fdt_totalsize(m) /\ fdt_magic(m2) = fdt_magic(m)
      /\ fdt_version(m2) = fdt_version(m)
      /\ fdt_off_mem_rsvmap(m2) = fdt_off_mem_rsvmap(m)
      /\ fdt_off_dt_struct(m2) = fdt_off_dt_struct(m)
      /\ fdt_size_dt_struct(m2) = fdt_size_dt_struct(m)
      /\ fdt_off_dt_strings(m2) = fdt_off_dt_strings(m)
      /\ fdt_size_dt_strings(m2) = fdt_size_dt_strings(m)
  BY <1>1 DEF fdt_size_dt_struct, fdt_off_dt_strings, fdt_magic, fdt_version,
      fdt_totalsize, fdt_off_mem_rsvmap, fdt_off_dt_struct, fdt_size_dt_strings
<1>3. PICK n \in 0 .. MemSize : IsNumMemRsv(m, n) /\ RsvApart(m, n)
  BY DEF Placed
<1>4. \A i \in 0 .. n : IsLastRsv(m2, i) <=> IsLastRsv(m, i)
  <2> SUFFICES ASSUME NEW i \in 0 .. n PROVE IsLastRsv(m2, i) <=> IsLastRsv(m, i)
    OBVIOUS
  <2> DEFINE x == fdt_off_mem_rsvmap(m) + RsvSize * i + 2
             y == fdt_off_mem_rsvmap(m) + RsvSize * i + 3
  <2>1. \A z \in {x, y} : /\ z \in 0 .. MemSize - 1
                          /\ z < fdt_off_dt_struct(m) \/ z >= fdt_off_dt_struct(m) + e
    BY <1>3, PlacedFacts DEF RsvApart, ReachesTo
  <2>2. m2[x] = m[x] /\ m2[y] = m[y]
    <3> HIDE DEF x, y
    <3> QED BY <2>1
  <2>3. i \in Nat
    OBVIOUS
  <2> QED BY <1>2, <2>2, <2>3, SameRsv
<1>5. IsNumMemRsv(m2, n)
  BY <1>3, <1>4 DEF IsNumMemRsv
<1>6. RsvApart(m2, n)
  BY <1>2, <1>3 DEF RsvApart
<1>7. Placed(m2)
  <2>1. \A h \in 0 .. HeaderSize - 1 : m2[h].k = "num"
    BY <1>1 DEF Placed
  <2>2. \E k \in 0 .. MemSize : IsNumMemRsv(m2, k) /\ RsvApart(m2, k)
    BY <1>5, <1>6
  <2> QED BY <1>2, <2>1, <2>2 DEF Placed
<1>8. Within(m, m2)
  BY PlacedFacts DEF Within, ReachesTo
<1> QED BY <1>2, <1>7, <1>8

\* An item that fdt_next_tag accepts ends behind its start and where the
\* structure block reaches to, in a blob of any version.
LEMMA PlacedTag ==
    ASSUME NEW m, Placed(m), NEW o \in Nat
    PROVE  LET nt == fdt_next_tag(m, o)
           IN  /\ nt.next \in Nat \cup {-FDT_ERR_TRUNCATED, -FDT_ERR_BADSTRUCTURE}
               /\ nt.tag # FDT_END => nt.next \in Nat
               /\ nt.next \in Nat => o < nt.next /\ ReachesTo(m, nt.next)
               /\ nt.tag = FDT_PROP =>
                    /\ PropLen(m, o) \in Nat
                    /\ nt.next = o + PropSize + Words(PropLen(m, o))
<1>0. /\ m \in Memory /\ MemSize \in Nat /\ fdt_totalsize(m) \in Nat
      /\ fdt_off_dt_struct(m) \in Nat /\ fdt_size_dt_struct(m) \in Nat
      /\ fdt_version(m) \in Nat /\ fdt_totalsize(m) <= MemSize
  BY PlacedFacts
<1>1. \A x \in Nat : fdt_offset_ptr(m, x, 1) => At(m, x) \in Cell /\ Value(At(m, x)) \in Nat
  <2> SUFFICES ASSUME NEW x \in Nat, fdt_offset_ptr(m, x, 1)
               PROVE  At(m, x) \in Cell /\ Value(At(m, x)) \in Nat
    OBVIOUS
  <2>1. fdt_off_dt_struct(m) + x \in 0 .. MemSize - 1
    BY <1>0 DEF fdt_offset_ptr
  <2>2. At(m, x) \in Cell
    BY <1>0, <2>1 DEF At, Memory
  <2> QED BY <2>2, CellFacts
<1>2. \A x \in Nat : o < x /\ fdt_offset_ptr(m, o, x - o) => ReachesTo(m, x)
  BY <1>0 DEF fdt_offset_ptr, ReachesTo
<1> USE <1>0
<1>3. CASE ~fdt_offset_ptr(m, o, 1)
  BY <1>3 DEF fdt_next_tag, TagTo, TagEnd
<1>4. CASE fdt_offset_ptr(m, o, 1) /\ Value(At(m, o)) = FDT_BEGIN_NODE
  <2>1. StringEnd(m, o + 1) = 0 \/ StringEnd(m, o + 1) \in o + 2 .. MemSize
    BY DEF StringEnd
  <2> QED BY <1>2, <1>4, <2>1 DEF fdt_next_tag, TagTo, TagEnd
<1>5. CASE fdt_offset_ptr(m, o, 1) /\ Value(At(m, o)) = FDT_PROP
  <2>1. CASE fdt_offset_ptr(m, o + 1, 1)
    <3> DEFINE end == o + PropSize + Words(PropLen(m, o))
    <3>1. PropLen(m, o) \in Nat /\ Words(PropLen(m, o)) \in Nat
      BY <1>1, <2>1, WordsNat DEF PropLen
    <3>2. end \in Nat /\ o < end /\ end # 0
      BY <3>1
    <3>3. fdt_next_tag(m, o) = IF ~fdt_offset_ptr(m, o, end - o)
                               THEN [tag |-> FDT_END, next |-> -FDT_ERR_BADSTRUCTURE]
                               ELSE [tag |-> FDT_PROP, next |-> end]
      BY <1>5, <2>1, <3>2 DEF fdt_next_tag, TagTo, TagEnd, PropLen
    <3>4. CASE fdt_offset_ptr(m, o, end - o)
      <4>1. ReachesTo(m, end)
        <5> HIDE DEF end
        <5> QED BY <1>2, <3>2, <3>4
      <4> QED BY <3>1, <3>2, <3>3, <3>4, <4>1
    <3> HIDE DEF end
    <3>5. CASE ~fdt_offset_ptr(m, o, end - o)
      BY <3>3, <3>5
    <3> QED BY <3>4, <3>5
  <2>2. CASE ~fdt_offset_ptr(m, o + 1, 1)
    BY <1>5, <2>2 DEF fdt_next_tag, TagTo, TagEnd
  <2> QED BY <2>1, <2>2
<1>6. CASE fdt_offset_ptr(m, o, 1) /\ Value(At(m, o)) \in {FDT_END, FDT_END_NODE, FDT_NOP}
  BY <1>2, <1>6 DEF fdt_next_tag, TagTo, TagEnd
<1>7. CASE fdt_offset_ptr(m, o, 1)
           /\ Value(At(m, o)) \notin {FDT_BEGIN_NODE, FDT_PROP, FDT_END, FDT_END_NODE, FDT_NOP}
  BY <1>7 DEF fdt_next_tag, TagTo, TagEnd
<1> QED BY <1>3, <1>4, <1>5, <1>6, <1>7

\* What walks over such a blob have: items, a last one, and a first one in each
\* set of them; where each of them ends is a number.
LEMMA PlacedWalk ==
    ASSUME NEW m, Placed(m), NEW o \in Nat
    PROVE  LET w == Walk(m, o)
           IN  /\ Last(w) \in w /\ AfterProps(w) \in w
               /\ \A x \in w : /\ x.at \in Nat /\ x.at >= o /\ x.next \in Int
                               /\ x.tag = fdt_next_tag(m, x.at).tag
                               /\ x.next = fdt_next_tag(m, x.at).next
               /\ \A S : S \subseteq w /\ S # {} => First(S) \in S
<1> DEFINE w == Walk(m, o)
<1>1. \A x \in w : /\ x.at \in 0 .. o + MemSize /\ x.at \in Nat /\ x.at >= o
                   /\ x.tag = fdt_next_tag(m, x.at).tag
                   /\ x.next = fdt_next_tag(m, x.at).next
  BY WalkItems, MemAssumption
<1>2. Last(w) \in w
  <2>1. o + MemSize \in Nat /\ w # {}
    BY MemAssumption, WalkItems
  <2> HIDE DEF w
  <2> QED BY <1>1, <2>1, LastItem
<1>3. \A S : S \subseteq w /\ S # {} => First(S) \in S
  <2> SUFFICES ASSUME NEW S, S \subseteq w, S # {} PROVE First(S) \in S
    OBVIOUS
  <2>1. \A x \in S : x.at \in Nat
    BY <1>1
  <2> QED BY <2>1, FirstItem
<1>4. AfterProps(w) \in w
  <2> DEFINE S == {x \in w : x.tag \notin {FDT_PROP, FDT_NOP}} \cup {Last(w)}
  <2>1. S \subseteq w /\ S # {}
    BY <1>2
  <2>2. First(S) \in S
    <3> HIDE DEF S, w
    <3> QED BY <1>3, <2>1
  <2> QED BY <2>1, <2>2 DEF AfterProps
<1>5. \A x \in w : x.next \in Int
  BY <1>1, PlacedTag
<1> QED BY <1>1, <1>2, <1>3, <1>4, <1>5

\* A property that is found ends where the structure block reaches to.
LEMMA PlacedProperty ==
    ASSUME NEW m, Placed(m), NEW o \in Nat, NEW name
    PROVE  LET p == fdt_get_property(m, o, name)
           IN  /\ p \in Int
               /\ p >= 0 => /\ PropLen(m, p) \in Nat
                            /\ ReachesTo(m, p + PropSize + Words(PropLen(m, p)))
<1> DEFINE next == fdt_check_node_offset_(m, o)
           w    == Walk(m, next)
           hits == {x \in Tagged(w, {FDT_PROP}) :
                        /\ x.at < AfterProps(w).at
                        /\ fdt_string(m, Value(At(m, x.at + 2))) = name}
<1>1. next \in Int
  BY PlacedTag DEF fdt_check_node_offset_
<1>2. CASE next < 0
  BY <1>1, <1>2 DEF fdt_get_property, PropertyIn
<1>3. CASE next >= 0 /\ hits # {}
  <2>1. hits \subseteq w /\ \A x \in hits : x.tag = FDT_PROP
    BY DEF Tagged
  <2> DEFINE c == First(hits)
  <2>2. c \in hits /\ c.at \in Nat /\ c.tag = fdt_next_tag(m, c.at).tag
    <3> HIDE DEF hits
    <3> QED BY <1>1, <1>3, <2>1, PlacedWalk
  <2>3. fdt_get_property(m, o, name) = c.at
    BY <1>1, <1>3 DEF fdt_get_property, PropertyIn
  <2>4. fdt_next_tag(m, c.at).tag = FDT_PROP
    BY <2>1, <2>2
  <2> HIDE DEF c
  <2> QED BY <2>2, <2>3, <2>4, PlacedTag
<1>4. CASE next >= 0 /\ hits = {}
  <2>1. AfterProps(w).next \in Int
    BY <1>1, <1>4, PlacedWalk
  <2> QED BY <1>1, <1>4, <2>1 DEF fdt_get_property, PropertyIn
<1> QED BY <1>1, <1>2, <1>3, <1>4

\* So does a node whose end is found.
LEMMA PlacedEnd ==
    ASSUME NEW m, Placed(m), NEW o \in Nat
    PROVE  LET end == fdt_node_end_offset_(m, o)
           IN  end \in Int /\ (end >= 0 => o < end /\ ReachesTo(m, end))
<1> DEFINE next == fdt_check_node_offset_(m, o)
           w    == Walk(m, next)
<1>1. next \in Int /\ (next >= 0 => o < next)
  BY PlacedTag DEF fdt_check_node_offset_
<1>2. CASE next < 0
  BY <1>1, <1>2 DEF fdt_node_end_offset_, EndOfNode
<1>3. CASE next >= 0 /\ Closes(w) # {}
  <2>1. Closes(w) \subseteq w /\ \A x \in Closes(w) : x.tag = FDT_END_NODE
    BY DEF Closes, Tagged
  <2> DEFINE c == First(Closes(w))
  <2>2. /\ c \in Closes(w) /\ c.at \in Nat /\ c.at >= next
        /\ c.tag = fdt_next_tag(m, c.at).tag /\ c.next = fdt_next_tag(m, c.at).next
    BY <1>1, <1>3, <2>1, PlacedWalk
  <2>3. c.next \in Nat /\ c.at < c.next /\ ReachesTo(m, c.next)
    BY <2>1, <2>2, PlacedTag
  <2>4. fdt_node_end_offset_(m, o) = c.next
    BY <1>1, <1>3 DEF fdt_node_end_offset_, EndOfNode
  <2> HIDE DEF c, next
  <2> QED BY <1>1, <1>3, <2>2, <2>3, <2>4
<1>4. CASE next >= 0 /\ Closes(w) = {}
  <2>1. Last(w).next \in Int
    BY <1>1, <1>4, PlacedWalk
  <2>2. EndError(w) \in Int /\ EndError(w) < 0
    BY <2>1 DEF EndError
  <2> QED BY <1>1, <1>4, <2>2 DEF fdt_node_end_offset_, EndOfNode
<1> QED BY <1>1, <1>2, <1>3, <1>4

\* What a call on a placed blob does.
StaysPlaced(m, r) ==
    /\ r.ret \in Int /\ Placed(r.m) /\ Within(m, r.m)
    /\ fdt_totalsize(r.m) = fdt_totalsize(m)

\* A call that fails leaves the blob as it was.
LEMMA PlacedSame ==
    ASSUME NEW m, Placed(m), NEW r, r.m = m, r.ret \in Int
    PROVE  StaysPlaced(m, r)
  BY DEF StaysPlaced, Within

\* A value, or a part of one, is copied over a property.
LEMMA SetPropPartialPlaced ==
    ASSUME NEW m, Placed(m), NEW o \in Nat, NEW name, NEW idx \in Nat,
           NEW val \in Seq(Byte)
    PROVE  StaysPlaced(m, SetPropPartial(m, o, name, idx, val))
<1> DEFINE prop == fdt_get_property(m, o, name)
           len  == PropLen(m, prop)
           data == PropData(m, prop)
           f    == SetPropPartial(m, o, name, idx, val)
<1>0. prop \in Int /\ Len(val) \in Nat /\ m \in Memory /\ fdt_off_dt_struct(m) \in Nat
  BY PlacedProperty, PlacedFacts
<1>1. CASE prop < 0 \/ len < Len(val) + idx
  <2> DEFINE e == IF prop < 0 THEN prop ELSE -FDT_ERR_NOSPACE
  <2>1. f = [ret |-> e, m |-> m, p |-> 0]
    BY <1>1, Zenon DEF SetPropPartial, Return
  <2>2. e \in Int
    BY <1>0
  <2> HIDE DEF f, e
  <2>3. StaysPlaced(m, f)
    BY <2>1, <2>2, PlacedSame
  <2> QED BY <2>3 DEF f
<1>2. CASE prop >= 0 /\ ~(len < Len(val) + idx)
  <2> DEFINE W  == Words(len)
             W1 == Words(idx + Len(val))
             e  == prop + PropSize + W
             m2 == CopyBytes(m, data, idx, val)
  <2>1. len \in Nat /\ ReachesTo(m, e)
    BY <1>2, PlacedProperty
  <2>2. W \in Nat /\ W1 \in Nat /\ W1 <= W
    <3> HIDE DEF len
    <3> QED BY <1>0, <1>2, <2>1 DEF Words
  <2>3. data = fdt_off_dt_struct(m) + prop + PropSize
    BY DEF PropData
  <2>4. /\ e \in Nat /\ data \in Nat /\ fdt_off_dt_struct(m) <= data
        /\ data + W1 <= fdt_off_dt_struct(m) + e
    <3> HIDE DEF W, W1, prop, data
    <3> QED BY <1>0, <1>2, <2>2, <2>3
  <2>5. f = [ret |-> 0, m |-> m2, p |-> 0]
    <3>1. f = IF prop < 0 THEN [ret |-> prop, m |-> m, p |-> 0]
              ELSE IF len < Len(val) + idx THEN [ret |-> -FDT_ERR_NOSPACE, m |-> m, p |-> 0]
              ELSE [ret |-> 0, m |-> m2, p |-> 0]
      BY Zenon DEF SetPropPartial, Return
    <3> HIDE DEF prop, len, f, m2
    <3>2. ~(prop < 0) /\ ~(len < Len(val) + idx)
      BY <1>0, <1>2
    <3> QED BY <3>1, <3>2
  <2>6. /\ m2 \in Memory
        /\ \A x \in 0 .. MemSize - 1 : x < data \/ x >= data + W1 => m2[x] = m[x]
    <3>1. data \in Nat /\ m \in Memory
      BY <1>0, <2>4
    <3> HIDE DEF data
    <3>2. /\ CopyBytes(m, data, idx, val) \in Memory
          /\ \A x \in 0 .. MemSize - 1 :
               x < data \/ x >= data + Words(idx + Len(val))
                 => CopyBytes(m, data, idx, val)[x] = m[x]
      BY <3>1, CopyMemory, Zenon
    <3> QED BY <3>2, Zenon
  <2> HIDE DEF m2, data, e, W, W1, f, prop
  <2>7. \A x \in 0 .. MemSize - 1 :
            x < fdt_off_dt_struct(m) \/ x >= fdt_off_dt_struct(m) + e => m2[x] = m[x]
    BY <1>0, <2>2, <2>4, <2>6, MemAssumption
  <2>8. Placed(m2) /\ Within(m, m2) /\ fdt_totalsize(m2) = fdt_totalsize(m)
    BY <2>1, <2>4, <2>6, <2>7, PlacedWritten
  <2>9. StaysPlaced(m, f)
    BY <2>5, <2>8 DEF StaysPlaced
  <2> QED BY <2>9 DEF f
<1> QED BY <1>0, <1>1, <1>2

\* fdt_setprop_inplace does it through the partial function.
LEMMA SetPropInplacePlaced ==
    ASSUME NEW m, Placed(m), NEW o \in Nat, NEW name, NEW val \in Seq(Byte)
    PROVE  StaysPlaced(m, SetPropInplace(m, o, name, val))
<1> DEFINE f == SetPropInplace(m, o, name, val)
<1>1. \/ f = SetPropPartial(m, o, name, 0, val)
      \/ \E e \in Int : f = [ret |-> e, m |-> m, p |-> 0]
  BY PlacedProperty DEF SetPropInplace, Return
<1> HIDE DEF f
<1>2. CASE \E e \in Int : f = [ret |-> e, m |-> m, p |-> 0]
  BY <1>2, PlacedSame DEF f
<1> QED BY <1>1, <1>2, SetPropPartialPlaced DEF f

\* FDT_NOPs are written over words of the structure block.
LEMMA NopRegionPlaced ==
    ASSUME NEW m, Placed(m), NEW o \in Nat, NEW n \in Nat, ReachesTo(m, o + n)
    PROVE  StaysPlaced(m, Return(0, fdt_nop_region_(m, fdt_off_dt_struct(m) + o, n)))
<1> DEFINE a  == fdt_off_dt_struct(m) + o
           m2 == fdt_nop_region_(m, a, n)
<1>0. /\ m \in Memory /\ MemSize \in Nat /\ fdt_off_dt_struct(m) \in Nat
      /\ DOMAIN m = 0 .. MemSize - 1
  BY PlacedFacts DEF Memory
<1>1. /\ m2 \in Memory
      /\ \A x \in 0 .. MemSize - 1 : x \notin a .. a + n - 1 => m2[x] = m[x]
  BY <1>0, CellFacts DEF fdt_nop_region_, Memory
<1> HIDE DEF m2
<1>2. \A x \in 0 .. MemSize - 1 :
        x < fdt_off_dt_struct(m) \/ x >= fdt_off_dt_struct(m) + (o + n) => m2[x] = m[x]
  BY <1>0, <1>1
<1>3. Placed(m2) /\ Within(m, m2) /\ fdt_totalsize(m2) = fdt_totalsize(m)
  <2> DEFINE e == o + n
  <2>1. e \in Nat /\ ReachesTo(m, e)
        /\ \A x \in 0 .. MemSize - 1 :
            x < fdt_off_dt_struct(m) \/ x >= fdt_off_dt_struct(m) + e => m2[x] = m[x]
    BY <1>2
  <2> HIDE DEF e
  <2> QED BY <1>1, <2>1, PlacedWritten
<1>4. StaysPlaced(m, Return(0, m2))
  BY <1>3 DEF StaysPlaced, Return
<1> QED BY <1>4 DEF m2

\* Over a property,
LEMMA NopPropertyPlaced ==
    ASSUME NEW m, Placed(m), NEW o \in Nat, NEW name
    PROVE  StaysPlaced(m, NopProperty(m, o, name))
<1> DEFINE prop == fdt_get_property(m, o, name)
           W    == Words(PropLen(m, prop))
           f    == NopProperty(m, o, name)
<1>0. prop \in Int
  BY PlacedProperty
<1>1. CASE prop < 0
  <2>1. f = [ret |-> prop, m |-> m, p |-> 0]
    BY <1>1 DEF NopProperty, Return
  <2> HIDE DEF f, prop
  <2> QED BY <1>0, <2>1, PlacedSame DEF f
<1>2. CASE prop >= 0
  <2>1. W \in Nat /\ ReachesTo(m, prop + PropSize + W)
    BY <1>2, PlacedProperty, WordsNat
  <2>2. f = Return(0, fdt_nop_region_(m, fdt_off_dt_struct(m) + prop, PropSize + W))
    <3>1. ~(prop < 0)
      <4> HIDE DEF prop
      <4> QED BY <1>0, <1>2
    <3> QED BY <3>1, Zenon DEF NopProperty
  <2> HIDE DEF W, prop
  <2>3. PropSize + W \in Nat /\ prop \in Nat
        /\ prop + (PropSize + W) = prop + PropSize + W
    BY <1>0, <1>2, <2>1
  <2> DEFINE n == PropSize + W
  <2>4. n \in Nat /\ ReachesTo(m, prop + n)
    BY <2>1, <2>3
  <2> HIDE DEF n, f
  <2>5. StaysPlaced(m, Return(0, fdt_nop_region_(m, fdt_off_dt_struct(m) + prop, n)))
    BY <2>3, <2>4, NopRegionPlaced
  <2>6. StaysPlaced(m, f)
    BY <2>2, <2>5, Zenon DEF n
  <2> QED BY <2>6 DEF f
<1> QED BY <1>0, <1>1, <1>2

\* and over a node.
LEMMA NopNodePlaced ==
    ASSUME NEW m, Placed(m), NEW o \in Nat
    PROVE  StaysPlaced(m, NopNode(m, o))
<1> DEFINE end == fdt_node_end_offset_(m, o)
           f   == NopNode(m, o)
<1>0. end \in Int /\ (end >= 0 => o < end /\ ReachesTo(m, end))
  BY PlacedEnd
<1>1. CASE end < 0
  <2>1. f = [ret |-> end, m |-> m, p |-> 0]
    BY <1>1 DEF NopNode, Return
  <2> HIDE DEF f, end
  <2> QED BY <1>0, <2>1, PlacedSame DEF f
<1>2. CASE end >= 0
  <2> DEFINE n == end - o
  <2>1. f = Return(0, fdt_nop_region_(m, fdt_off_dt_struct(m) + o, n))
    <3>1. ~(end < 0)
      <4> HIDE DEF end
      <4> QED BY <1>0, <1>2
    <3> QED BY <3>1, Zenon DEF NopNode
  <2>2. n \in Nat /\ o + n = end
    <3> HIDE DEF end
    <3> QED BY <1>0, <1>2
  <2>3. ReachesTo(m, o + n)
    BY <1>0, <1>2, <2>2
  <2> HIDE DEF n, f
  <2>4. StaysPlaced(m, f)
    BY <2>1, <2>2, <2>3, NopRegionPlaced
  <2> QED BY <2>4 DEF f
<1> QED BY <1>0, <1>1, <1>2

\* Two memories differ at most in the n cells from a on.
OnlyIn(m, x, a, n) ==
    /\ m \in Memory /\ x \in Memory
    /\ \A b \in 0 .. MemSize - 1 : b < a \/ b >= a + n => x[b] = m[b]

\* These cells are among the n2 cells from a2 on.
Inside(a, n, a2, n2) ==
    /\ a \in Nat /\ n \in Nat /\ a2 \in Nat /\ n2 \in Nat
    /\ a2 <= a /\ a + n <= a2 + n2

\* Differences add up,
LEMMA OnlyInTwice ==
    ASSUME NEW m, NEW x, NEW y, NEW a, NEW n, NEW a2, NEW n2,
           OnlyIn(m, x, a2, n2), OnlyIn(x, y, a, n), Inside(a, n, a2, n2)
    PROVE  OnlyIn(m, y, a2, n2)
<1>1. \A b \in 0 .. MemSize - 1 : b < a2 \/ b >= a2 + n2 => b < a \/ b >= a + n
  BY MemAssumption DEF Inside
<1> QED BY <1>1 DEF OnlyIn

\* a block that is moved is one,
LEMMA OnlyInMove ==
    ASSUME NEW x \in Memory, NEW dst \in Nat, NEW src \in Nat, NEW n \in Nat,
           src + n <= MemSize
    PROVE  OnlyIn(x, Move(x, dst, src, n), dst, n)
  BY MoveMemory DEF OnlyIn

\* and a number that is stored is one.
LEMMA OnlyInSet ==
    ASSUME NEW x \in Memory, NEW a \in Nat, NEW v \in Nat
    PROVE  OnlyIn(x, Set(x, a, v), a, 1)
<1>1. \A b \in 0 .. MemSize - 1 : b < a \/ b >= a + 1 => b # a
  OBVIOUS
<1> QED BY <1>1, SetMemory DEF OnlyIn

\* The blocks of m, packed from address T of x on.
PackedAt(m, x, T, L, ss) ==
    /\ OnlyIn(m, x, T, HeaderSize + L + ss + fdt_size_dt_strings(m))
    /\ x[T + hOffMemRsvmap] = Num(HeaderSize)
    /\ x[T + hOffDtStruct] = Num(HeaderSize + L)
    /\ x[T + hSizeDtStruct] = Num(ss)
    /\ x[T + hOffDtStrings] = Num(HeaderSize + L + ss)
    /\ x[T + hSizeDtStrings] = Num(fdt_size_dt_strings(m))
    /\ \A i \in 0 .. L - 1 : x[T + HeaderSize + i] = m[fdt_off_mem_rsvmap(m) + i]

\* The copy that fdt_packblocks_ makes behind a blob has the reservation list,
\* and a header that says where the blocks are.
LEMMA PackedBehind ==
    ASSUME NEW m \in Memory, NEW T \in Nat, NEW L \in Nat, NEW ss \in Nat,
           fdt_off_mem_rsvmap(m) \in Nat, fdt_off_dt_struct(m) \in Nat,
           fdt_off_dt_strings(m) \in Nat, fdt_size_dt_strings(m) \in Nat,
           HeaderSize <= T, fdt_off_mem_rsvmap(m) + L <= T, fdt_off_dt_struct(m) + ss <= T,
           fdt_off_dt_strings(m) + fdt_size_dt_strings(m) <= T,
           T + (HeaderSize + L + ss + fdt_size_dt_strings(m)) <= MemSize
    PROVE  PackedAt(m, fdt_packblocks_(m, T, L, ss), T, L, ss)
<1> DEFINE R    == fdt_off_mem_rsvmap(m)
           S    == fdt_off_dt_struct(m)
           G    == fdt_off_dt_strings(m)
           gs   == fdt_size_dt_strings(m)
<1>a. /\ R \in Nat /\ S \in Nat /\ G \in Nat /\ gs \in Nat
      /\ R = fdt_off_mem_rsvmap(m) /\ S = fdt_off_dt_struct(m)
      /\ G = fdt_off_dt_strings(m) /\ gs = fdt_size_dt_strings(m)
      /\ R + L <= T /\ S + ss <= T /\ G + gs <= T
      /\ T + (HeaderSize + L + ss + gs) <= MemSize
  OBVIOUS
<1> USE <1>a
<1> HIDE DEF R, S, G, gs
<1> DEFINE soff == HeaderSize + L
           goff == soff + ss
           D    == HeaderSize + L + ss + gs
           b1 == Move(m, T + HeaderSize, R, L)
           m1 == Set(b1, T + hOffMemRsvmap, HeaderSize)
           b2 == Move(m1, T + soff, S, ss)
           c2 == Set(b2, T + hOffDtStruct, soff)
           m2 == Set(c2, T + hSizeDtStruct, ss)
           b3 == Move(m2, T + goff, G, gs)
           m3 == Set(b3, T + hOffDtStrings, goff)
           q  == Set(m3, T + hSizeDtStrings, gs)
           RsvIn(x) == \A i \in 0 .. L - 1 : x[T + HeaderSize + i] = m[R + i]
<1>0. /\ soff \in Nat /\ goff \in Nat /\ D \in Nat /\ MemSize \in Nat /\ T + D <= MemSize
      /\ soff = 10 + L /\ goff = 10 + L + ss /\ D = 10 + L + ss + gs
  BY MemAssumption
<1> HIDE DEF soff, goff, D
<1>1. /\ OnlyIn(m, b1, T, D) /\ RsvIn(b1)
  <2> DEFINE dst == T + HeaderSize
  <2>1. dst \in Nat /\ R + L <= MemSize /\ dst = T + 10
    BY <1>0
  <2>2. Inside(dst, L, T, D)
    BY <1>0, <2>1 DEF Inside
  <2>3. b1 = Move(m, dst, R, L)
    OBVIOUS
  <2> HIDE DEF dst, b1
  <2>4. OnlyIn(m, m, T, D) /\ m \in Memory
    BY DEF OnlyIn
  <2>5. OnlyIn(m, b1, dst, L)
    BY <2>1, <2>3, <2>4, OnlyInMove
  <2>6. OnlyIn(m, b1, T, D)
    BY <2>2, <2>4, <2>5, OnlyInTwice, Zenon
  <2>7. \A a \in 0 .. MemSize - 1 :
            a >= dst /\ a < dst + L => b1[a] = m[R + a - dst]
    BY <1>0, <2>1, <2>3 DEF Move, Memory
  <2>8. ASSUME NEW i \in 0 .. L - 1 PROVE b1[T + HeaderSize + i] = m[R + i]
    <3> DEFINE a == T + HeaderSize + i
    <3>1. a \in 0 .. MemSize - 1 /\ a >= dst /\ a < dst + L /\ R + a - dst = R + i
      BY <1>0, <2>1
    <3> HIDE DEF a
    <3>2. b1[a] = m[R + a - dst]
      BY <2>7, <3>1
    <3> QED BY <3>1, <3>2 DEF a
  <2> QED BY <2>6, <2>8
<1> HIDE DEF b1
<1>2. /\ OnlyIn(m, m1, T, D) /\ RsvIn(m1)
      /\ m1[T + hOffMemRsvmap] = Num(HeaderSize)
  <2> DEFINE at == T + hOffMemRsvmap
             v  == HeaderSize
  <2>1. at \in 0 .. MemSize - 1 /\ at \in Nat /\ at = T + 4 /\ v \in Nat
    BY <1>0
  <2>2. Inside(at, 1, T, D)
    BY <1>0, <2>1 DEF Inside
  <2>3. m1 = Set(b1, at, v)
    OBVIOUS
  <2> HIDE DEF at, v, m1
  <2>4. OnlyIn(m, b1, T, D) /\ b1 \in Memory
    BY <1>1 DEF OnlyIn
  <2>5. OnlyIn(b1, m1, at, 1)
    BY <2>1, <2>3, <2>4, OnlyInSet
  <2>6. OnlyIn(m, m1, T, D)
    BY <2>2, <2>4, <2>5, OnlyInTwice, Zenon
  <2>7. m1[at] = Num(v)
    BY <2>1, <2>3, <2>4, SetMemory
  <2>8. \A a \in 0 .. MemSize - 1 : a # at => m1[a] = b1[a]
    BY <2>1, <2>5 DEF OnlyIn
  <2>9. \A i \in 0 .. L - 1 : m1[T + HeaderSize + i] = b1[T + HeaderSize + i]
    BY <1>0, <2>1, <2>8
  <2>10. \A h \in 0 .. 9 : h # hOffMemRsvmap => m1[T + h] = b1[T + h]
    BY <1>0, <2>1, <2>8
  <2>11. RsvIn(m1)
    BY <1>1, <2>9
  <2> QED BY <2>6, <2>7, <2>11 DEF at, v
<1> HIDE DEF m1
<1>3. /\ OnlyIn(m, b2, T, D) /\ RsvIn(b2)
      /\ b2[T + hOffMemRsvmap] = Num(HeaderSize)
  <2> DEFINE dst == T + soff
  <2>1. dst \in Nat /\ S + ss <= MemSize /\ dst = T + 10 + L
    BY <1>0
  <2>2. Inside(dst, ss, T, D)
    BY <1>0, <2>1 DEF Inside
  <2>3. b2 = Move(m1, dst, S, ss)
    OBVIOUS
  <2> HIDE DEF dst, b2
  <2>4. OnlyIn(m, m1, T, D) /\ m1 \in Memory
    BY <1>2 DEF OnlyIn
  <2>5. OnlyIn(m1, b2, dst, ss)
    BY <2>1, <2>3, <2>4, OnlyInMove
  <2>6. OnlyIn(m, b2, T, D)
    BY <2>2, <2>4, <2>5, OnlyInTwice, Zenon
  <2>7. \A a \in 0 .. MemSize - 1 : a < dst => b2[a] = m1[a]
    BY <2>1, <2>5 DEF OnlyIn
  <2>8. \A i \in 0 .. L - 1 : b2[T + HeaderSize + i] = m1[T + HeaderSize + i]
    BY <1>0, <2>1, <2>7
  <2>9. \A h \in 0 .. 9 : b2[T + h] = m1[T + h]
    BY <1>0, <2>1, <2>7
  <2>10. RsvIn(b2)
    BY <1>2, <2>8
  <2>11. b2[T + hOffMemRsvmap] = m1[T + hOffMemRsvmap]
    BY <2>9
  <2> QED BY <1>2, <2>6, <2>10, <2>11, Zenon
<1> HIDE DEF b2
<1>4. /\ OnlyIn(m, c2, T, D) /\ RsvIn(c2)
      /\ c2[T + hOffMemRsvmap] = Num(HeaderSize)
      /\ c2[T + hOffDtStruct] = Num(soff)
  <2> DEFINE at == T + hOffDtStruct
             v  == soff
  <2>1. at \in 0 .. MemSize - 1 /\ at \in Nat /\ at = T + 2 /\ v \in Nat
    BY <1>0
  <2>2. Inside(at, 1, T, D)
    BY <1>0, <2>1 DEF Inside
  <2>3. c2 = Set(b2, at, v)
    OBVIOUS
  <2> HIDE DEF at, v, c2
  <2>4. OnlyIn(m, b2, T, D) /\ b2 \in Memory
    BY <1>3 DEF OnlyIn
  <2>5. OnlyIn(b2, c2, at, 1)
    BY <2>1, <2>3, <2>4, OnlyInSet
  <2>6. OnlyIn(m, c2, T, D)
    BY <2>2, <2>4, <2>5, OnlyInTwice, Zenon
  <2>7. c2[at] = Num(v)
    BY <2>1, <2>3, <2>4, SetMemory
  <2>8. \A a \in 0 .. MemSize - 1 : a # at => c2[a] = b2[a]
    BY <2>1, <2>5 DEF OnlyIn
  <2>9. \A i \in 0 .. L - 1 : c2[T + HeaderSize + i] = b2[T + HeaderSize + i]
    BY <1>0, <2>1, <2>8
  <2>10. \A h \in 0 .. 9 : h # hOffDtStruct => c2[T + h] = b2[T + h]
    BY <1>0, <2>1, <2>8
  <2>11. RsvIn(c2)
    BY <1>3, <2>9
  <2>12. c2[T + hOffMemRsvmap] = b2[T + hOffMemRsvmap]
    BY <2>10
  <2> QED BY <1>3, <2>6, <2>7, <2>11, <2>12 DEF at, v
<1> HIDE DEF c2
<1>5. /\ OnlyIn(m, m2, T, D) /\ RsvIn(m2)
      /\ m2[T + hOffMemRsvmap] = Num(HeaderSize)
      /\ m2[T + hOffDtStruct] = Num(soff)
      /\ m2[T + hSizeDtStruct] = Num(ss)
  <2> DEFINE at == T + hSizeDtStruct
             v  == ss
  <2>1. at \in 0 .. MemSize - 1 /\ at \in Nat /\ at = T + 9 /\ v \in Nat
    BY <1>0
  <2>2. Inside(at, 1, T, D)
    BY <1>0, <2>1 DEF Inside
  <2>3. m2 = Set(c2, at, v)
    OBVIOUS
  <2> HIDE DEF at, v, m2
  <2>4. OnlyIn(m, c2, T, D) /\ c2 \in Memory
    BY <1>4 DEF OnlyIn
  <2>5. OnlyIn(c2, m2, at, 1)
    BY <2>1, <2>3, <2>4, OnlyInSet
  <2>6. OnlyIn(m, m2, T, D)
    BY <2>2, <2>4, <2>5, OnlyInTwice, Zenon
  <2>7. m2[at] = Num(v)
    BY <2>1, <2>3, <2>4, SetMemory
  <2>8. \A a \in 0 .. MemSize - 1 : a # at => m2[a] = c2[a]
    BY <2>1, <2>5 DEF OnlyIn
  <2>9. \A i \in 0 .. L - 1 : m2[T + HeaderSize + i] = c2[T + HeaderSize + i]
    BY <1>0, <2>1, <2>8
  <2>10. \A h \in 0 .. 9 : h # hSizeDtStruct => m2[T + h] = c2[T + h]
    BY <1>0, <2>1, <2>8
  <2>11. RsvIn(m2)
    BY <1>4, <2>9
  <2>12. /\ m2[T + hOffMemRsvmap] = c2[T + hOffMemRsvmap]
         /\ m2[T + hOffDtStruct] = c2[T + hOffDtStruct]
    BY <2>10
  <2> QED BY <1>4, <2>6, <2>7, <2>11, <2>12 DEF at, v
<1> HIDE DEF m2
<1>6. /\ OnlyIn(m, b3, T, D) /\ RsvIn(b3)
      /\ b3[T + hOffMemRsvmap] = Num(HeaderSize)
      /\ b3[T + hOffDtStruct] = Num(soff)
      /\ b3[T + hSizeDtStruct] = Num(ss)
  <2> DEFINE dst == T + goff
  <2>1. dst \in Nat /\ G + gs <= MemSize /\ dst = T + 10 + L + ss
    BY <1>0
  <2>2. Inside(dst, gs, T, D)
    BY <1>0, <2>1 DEF Inside
  <2>3. b3 = Move(m2, dst, G, gs)
    OBVIOUS
  <2> HIDE DEF dst, b3
  <2>4. OnlyIn(m, m2, T, D) /\ m2 \in Memory
    BY <1>5 DEF OnlyIn
  <2>5. OnlyIn(m2, b3, dst, gs)
    BY <2>1, <2>3, <2>4, OnlyInMove
  <2>6. OnlyIn(m, b3, T, D)
    BY <2>2, <2>4, <2>5, OnlyInTwice, Zenon
  <2>7. \A a \in 0 .. MemSize - 1 : a < dst => b3[a] = m2[a]
    BY <2>1, <2>5 DEF OnlyIn
  <2>8. \A i \in 0 .. L - 1 : b3[T + HeaderSize + i] = m2[T + HeaderSize + i]
    BY <1>0, <2>1, <2>7
  <2>9. \A h \in 0 .. 9 : b3[T + h] = m2[T + h]
    BY <1>0, <2>1, <2>7
  <2>10. RsvIn(b3)
    BY <1>5, <2>8
  <2>11. /\ b3[T + hOffMemRsvmap] = m2[T + hOffMemRsvmap]
         /\ b3[T + hOffDtStruct] = m2[T + hOffDtStruct]
         /\ b3[T + hSizeDtStruct] = m2[T + hSizeDtStruct]
    BY <2>9
  <2> QED BY <1>5, <2>6, <2>10, <2>11, Zenon
<1> HIDE DEF b3
<1>7. /\ OnlyIn(m, m3, T, D) /\ RsvIn(m3)
      /\ m3[T + hOffMemRsvmap] = Num(HeaderSize)
      /\ m3[T + hOffDtStruct] = Num(soff)
      /\ m3[T + hSizeDtStruct] = Num(ss)
      /\ m3[T + hOffDtStrings] = Num(goff)
  <2> DEFINE at == T + hOffDtStrings
             v  == goff
  <2>1. at \in 0 .. MemSize - 1 /\ at \in Nat /\ at = T + 3 /\ v \in Nat
    BY <1>0
  <2>2. Inside(at, 1, T, D)
    BY <1>0, <2>1 DEF Inside
  <2>3. m3 = Set(b3, at, v)
    OBVIOUS
  <2> HIDE DEF at, v, m3
  <2>4. OnlyIn(m, b3, T, D) /\ b3 \in Memory
    BY <1>6 DEF OnlyIn
  <2>5. OnlyIn(b3, m3, at, 1)
    BY <2>1, <2>3, <2>4, OnlyInSet
  <2>6. OnlyIn(m, m3, T, D)
    BY <2>2, <2>4, <2>5, OnlyInTwice, Zenon
  <2>7. m3[at] = Num(v)
    BY <2>1, <2>3, <2>4, SetMemory
  <2>8. \A a \in 0 .. MemSize - 1 : a # at => m3[a] = b3[a]
    BY <2>1, <2>5 DEF OnlyIn
  <2>9. \A i \in 0 .. L - 1 : m3[T + HeaderSize + i] = b3[T + HeaderSize + i]
    BY <1>0, <2>1, <2>8
  <2>10. \A h \in 0 .. 9 : h # hOffDtStrings => m3[T + h] = b3[T + h]
    BY <1>0, <2>1, <2>8
  <2>11. RsvIn(m3)
    BY <1>6, <2>9
  <2>12. /\ m3[T + hOffMemRsvmap] = b3[T + hOffMemRsvmap]
         /\ m3[T + hOffDtStruct] = b3[T + hOffDtStruct]
         /\ m3[T + hSizeDtStruct] = b3[T + hSizeDtStruct]
    BY <2>10
  <2> QED BY <1>6, <2>6, <2>7, <2>11, <2>12 DEF at, v
<1> HIDE DEF m3
<1>8. /\ OnlyIn(m, q, T, D) /\ RsvIn(q)
      /\ q[T + hOffMemRsvmap] = Num(HeaderSize)
      /\ q[T + hOffDtStruct] = Num(soff)
      /\ q[T + hSizeDtStruct] = Num(ss)
      /\ q[T + hOffDtStrings] = Num(goff)
      /\ q[T + hSizeDtStrings] = Num(gs)
  <2> DEFINE at == T + hSizeDtStrings
             v  == gs
  <2>1. at \in 0 .. MemSize - 1 /\ at \in Nat /\ at = T + 8 /\ v \in Nat
    BY <1>0
  <2>2. Inside(at, 1, T, D)
    BY <1>0, <2>1 DEF Inside
  <2>3. q = Set(m3, at, v)
    OBVIOUS
  <2> HIDE DEF at, v, q
  <2>4. OnlyIn(m, m3, T, D) /\ m3 \in Memory
    BY <1>7 DEF OnlyIn
  <2>5. OnlyIn(m3, q, at, 1)
    BY <2>1, <2>3, <2>4, OnlyInSet
  <2>6. OnlyIn(m, q, T, D)
    BY <2>2, <2>4, <2>5, OnlyInTwice, Zenon
  <2>7. q[at] = Num(v)
    BY <2>1, <2>3, <2>4, SetMemory
  <2>8. \A a \in 0 .. MemSize - 1 : a # at => q[a] = m3[a]
    BY <2>1, <2>5 DEF OnlyIn
  <2>9. \A i \in 0 .. L - 1 : q[T + HeaderSize + i] = m3[T + HeaderSize + i]
    BY <1>0, <2>1, <2>8
  <2>10. \A h \in 0 .. 9 : h # hSizeDtStrings => q[T + h] = m3[T + h]
    BY <1>0, <2>1, <2>8
  <2>11. RsvIn(q)
    BY <1>7, <2>9
  <2>12. /\ q[T + hOffMemRsvmap] = m3[T + hOffMemRsvmap]
         /\ q[T + hOffDtStruct] = m3[T + hOffDtStruct]
         /\ q[T + hSizeDtStruct] = m3[T + hSizeDtStruct]
         /\ q[T + hOffDtStrings] = m3[T + hOffDtStrings]
    BY <2>10
  <2> QED BY <1>7, <2>6, <2>7, <2>11, <2>12 DEF at, v
<1>9. \A x : OnlyIn(m, x, T, D) =>
        /\ fdt_off_dt_struct(x) = S /\ fdt_off_dt_strings(x) = G /\ fdt_size_dt_strings(x) = gs
  <2> SUFFICES ASSUME NEW x, OnlyIn(m, x, T, D)
               PROVE  fdt_off_dt_struct(x) = S /\ fdt_off_dt_strings(x) = G
                      /\ fdt_size_dt_strings(x) = gs
    OBVIOUS
  <2>1. x[2] = m[2] /\ x[3] = m[3] /\ x[8] = m[8]
    BY <1>0 DEF OnlyIn
  <2> QED BY <2>1 DEF fdt_off_dt_struct, fdt_off_dt_strings, fdt_size_dt_strings
<1>10. q = fdt_packblocks_(m, T, L, ss)
  <2>1. /\ fdt_off_dt_struct(m1) = S /\ fdt_off_dt_strings(m2) = G
        /\ fdt_size_dt_strings(m2) = gs /\ fdt_size_dt_strings(m3) = gs
    BY <1>2, <1>5, <1>7, <1>9
  <2> DEFINE u1 == Set(Move(m, T + HeaderSize, R, L), T + hOffMemRsvmap, HeaderSize)
             u2 == Set(Set(Move(u1, T + soff, fdt_off_dt_struct(u1), ss), T + hOffDtStruct, soff),
                       T + hSizeDtStruct, ss)
             u3 == Set(Move(u2, T + goff, fdt_off_dt_strings(u2), fdt_size_dt_strings(u2)),
                       T + hOffDtStrings, goff)
  <2>2. fdt_packblocks_(m, T, L, ss) = Set(u3, T + hSizeDtStrings, fdt_size_dt_strings(u3))
    BY ZenonT(40) DEF fdt_packblocks_, soff, goff
  <2>3. u1 = m1
    BY Zenon DEF m1, b1
  <2> HIDE DEF u1
  <2>4. u2 = m2
    BY <2>1, <2>3, Zenon DEF m2, c2, b2
  <2> HIDE DEF u2
  <2>5. u3 = m3
    BY <2>1, <2>4, Zenon DEF m3, b3
  <2> HIDE DEF u3
  <2> QED BY <2>1, <2>2, <2>5, Zenon
<1> HIDE DEF q
<1> QED BY <1>8, <1>10, Zenon DEF D, soff, goff, R, gs, PackedAt

\* The number of reservations that is found is the one that is inside the blob.
LEMMA PlacedRsv ==
    ASSUME NEW m, Placed(m)
    PROVE  LET n == fdt_num_mem_rsv(m)
           IN  n \in 0 .. MemSize /\ IsNumMemRsv(m, n) /\ RsvApart(m, n)
<1>1. PICK n \in 0 .. MemSize : IsNumMemRsv(m, n) /\ RsvApart(m, n)
  BY DEF Placed
<1> DEFINE k == fdt_num_mem_rsv(m)
<1>2. k \in 0 .. MemSize /\ IsNumMemRsv(m, k)
  BY <1>1, Zenon DEF fdt_num_mem_rsv
<1>3. k = n
  <2> HIDE DEF k
  <2>1. ~(k < n) /\ ~(n < k)
    BY <1>1, <1>2 DEF IsNumMemRsv
  <2> QED BY <1>1, <1>2, <2>1
<1> QED BY <1>1, <1>2, <1>3

\* The size of the structure block that fdt_open_into goes by.
StructSize(m) ==
    IF fdt_version(m) >= 17 THEN fdt_size_dt_struct(m) ELSE Last(Walk(m, 0)).next

\* The structure block reaches that far.
LEMMA StructSizeReached ==
    ASSUME NEW m, Placed(m)
    PROVE  StructSize(m) \in Int /\ (StructSize(m) >= 0 => ReachesTo(m, StructSize(m)))
<1>1. CASE fdt_version(m) >= 17
  BY <1>1, PlacedFacts DEF StructSize, ReachesTo
<1>2. CASE ~(fdt_version(m) >= 17)
  <2> DEFINE c == Last(Walk(m, 0))
  <2>1. c.at \in Nat /\ c.next \in Int /\ c.next = fdt_next_tag(m, c.at).next
    BY PlacedWalk
  <2>2. StructSize(m) = c.next
    BY <1>2 DEF StructSize
  <2> HIDE DEF c
  <2> QED BY <2>1, <2>2, PlacedTag
<1> QED BY <1>1, <1>2

\* What a call on a placed blob may do: fdt_open_into moves the end of the blob.
Opened(m, r) ==
    /\ r.ret \in Int /\ Placed(r.m)
    /\ \A a \in 0 .. MemSize - 1 :
            a >= fdt_totalsize(r.m) /\ a >= fdt_totalsize(m) => r.m[a] = m[a]

\* A blob that is in order stays where it is.
LEMMA OpenedInPlace ==
    ASSUME NEW m, Placed(m), NEW bufsize \in 0 .. BufSize, NEW size \in Nat,
           fdt_check_header(m) = 0,
           ~fdt_blocks_misordered_(m, MemRsvSize(m), size), fdt_totalsize(m) <= bufsize
    PROVE  Opened(m, Return(0, Set(Set(Set(m, hVersion, 17), hSizeDtStruct, size),
                                   hTotalsize, bufsize)))
<1> DEFINE n  == fdt_num_mem_rsv(m)
           b1 == Set(m, hVersion, 17)
           b2 == Set(b1, hSizeDtStruct, size)
           m2 == Set(b2, hTotalsize, bufsize)
<1>0. /\ m \in Memory /\ MemSize \in Nat /\ MemSize >= 10 /\ BufSize \in Nat
      /\ bufsize \in Nat /\ bufsize <= BufSize
      /\ fdt_totalsize(m) \in Nat /\ fdt_totalsize(m) >= 14 /\ fdt_version(m) \in Nat
      /\ fdt_off_dt_struct(m) \in Nat /\ fdt_off_mem_rsvmap(m) \in Nat
      /\ fdt_size_dt_strings(m) \in Nat /\ fdt_off_dt_strings(m) \in Nat
      /\ HeaderSize <= fdt_off_mem_rsvmap(m) /\ BufSize <= MemSize
  BY PlacedFacts
<1>1. /\ b1 \in Memory /\ b1[hVersion] = Num(17)
      /\ \A a \in 0 .. MemSize - 1 : a # hVersion => b1[a] = m[a]
  BY <1>0, SetMemory
<1>2. /\ b2 \in Memory /\ b2[hSizeDtStruct] = Num(size)
      /\ \A a \in 0 .. MemSize - 1 : a # hSizeDtStruct => b2[a] = b1[a]
  <2> HIDE DEF b1
  <2> QED BY <1>0, <1>1, SetMemory
<1>3. /\ m2 \in Memory /\ m2[hTotalsize] = Num(bufsize)
      /\ \A a \in 0 .. MemSize - 1 : a # hTotalsize => m2[a] = b2[a]
  <2> HIDE DEF b2
  <2> QED BY <1>0, <1>2, SetMemory
<1> HIDE DEF b1, b2, m2
<1>4. /\ m2[hVersion] = Num(17) /\ m2[hSizeDtStruct] = Num(size)
      /\ \A a \in 0 .. MemSize - 1 :
                a \notin {hVersion, hSizeDtStruct, hTotalsize} => m2[a] = m[a]
  BY <1>0, <1>1, <1>2, <1>3
<1>5. /\ fdt_totalsize(m2) = bufsize /\ fdt_magic(m2) = fdt_magic(m)
      /\ fdt_last_comp_version(m2) = fdt_last_comp_version(m) /\ fdt_version(m2) = 17
      /\ fdt_off_mem_rsvmap(m2) = fdt_off_mem_rsvmap(m)
      /\ fdt_off_dt_struct(m2) = fdt_off_dt_struct(m)
      /\ fdt_size_dt_struct(m2) = size
      /\ fdt_off_dt_strings(m2) = fdt_off_dt_strings(m)
      /\ fdt_size_dt_strings(m2) = fdt_size_dt_strings(m)
  BY <1>0, <1>3, <1>4, CellFacts
  DEF fdt_size_dt_struct, fdt_off_dt_strings, fdt_magic, fdt_version,
      fdt_last_comp_version, fdt_totalsize, fdt_off_mem_rsvmap, fdt_off_dt_struct,
      fdt_size_dt_strings
<1>6. GoodHeader(m2)
  <2>1. \A h \in 0 .. 9 : m[h].k = "num"
    BY DEF Placed
  <2>2. \A h \in 0 .. 9 : m2[h].k = "num"
    BY <1>0, <1>3, <1>4, <2>1, CellFacts
  <2>3. fdt_magic(m) = FDT_MAGIC /\ ~(fdt_last_comp_version(m) > 17)
    BY <1>0, HeaderNat DEF fdt_check_header, Placed
  <2>4. fdt_last_comp_version(m) <= 17
    BY <1>0, <2>3, HeaderNat
  <2> QED BY <1>0, <1>5, <2>2, <2>3, <2>4 DEF GoodHeader
<1>7. n \in 0 .. MemSize /\ IsNumMemRsv(m, n) /\ RsvApart(m, n)
      /\ ~fdt_blocks_misordered_(m, RsvSize * (n + 1), size)
  BY PlacedRsv DEF MemRsvSize
<1> HIDE DEF n
<1>8. IsNumMemRsv(m2, n)
  <2>1. ASSUME NEW i \in 0 .. n PROVE IsLastRsv(m2, i) <=> IsLastRsv(m, i)
    <3> DEFINE x == fdt_off_mem_rsvmap(m) + RsvSize * i + 2
               y == fdt_off_mem_rsvmap(m) + RsvSize * i + 3
    <3>1. \A z \in {x, y} : z \in 0 .. MemSize - 1 /\ z \notin {5, 9, 1}
      BY <1>0, <1>7, PlacedFacts DEF RsvApart
    <3>2. m2[x] = m[x] /\ m2[y] = m[y]
      <4> HIDE DEF x, y
      <4> QED BY <1>4, <3>1
    <3>3. i \in Nat
      BY <1>7
    <3> QED BY <1>5, <3>2, <3>3, SameRsv
  <2> QED BY <1>7, <2>1 DEF IsNumMemRsv
<1>9. ~fdt_blocks_misordered_(m2, RsvSize * (n + 1), fdt_size_dt_struct(m2))
  BY <1>0, <1>5, <1>7 DEF fdt_blocks_misordered_
<1>10. Placed(m2)
  <2>1. Good(m2)
    BY <1>3, <1>6, <1>7, <1>8, <1>9, GoodIntro
  <2> QED BY <2>1, GoodPlaced
<1>11. \A a \in 0 .. MemSize - 1 : a >= fdt_totalsize(m) => m2[a] = m[a]
  BY <1>0, <1>4
<1>12. Opened(m, Return(0, m2))
  BY <1>10, <1>11 DEF Opened, Return
<1> QED BY <1>12 DEF m2, b2, b1

\* The header that fdt_open_into finishes a copied blob with.
Finished(b, bufsize) ==
    Set(Set(Set(Set(b, hMagic, FDT_MAGIC), hTotalsize, bufsize), hVersion, 17),
        hLastCompVersion, 16)

\* It writes five of the header's fields.
LEMMA FinishedFields ==
    ASSUME NEW b \in Memory, NEW bufsize \in Nat
    PROVE  LET f == Set(Finished(b, bufsize), hBootCpuidPhys, fdt_boot_cpuid_phys(b))
           IN  /\ f \in Memory /\ fdt_magic(f) = FDT_MAGIC /\ fdt_totalsize(f) = bufsize
               /\ fdt_version(f) = 17 /\ fdt_last_comp_version(f) = 16
               /\ \A h \in {hMagic, hTotalsize, hVersion, hLastCompVersion, hBootCpuidPhys} :
                        f[h].k = "num"
               /\ \A a \in 0 .. MemSize - 1 :
                        a \notin {hMagic, hTotalsize, hVersion, hLastCompVersion, hBootCpuidPhys}
                            => f[a] = b[a]
<1> DEFINE f1 == Set(b, hMagic, FDT_MAGIC)
           f2 == Set(f1, hTotalsize, bufsize)
           f3 == Set(f2, hVersion, 17)
           f4 == Set(f3, hLastCompVersion, 16)
           boot == fdt_boot_cpuid_phys(b)
           f  == Set(f4, hBootCpuidPhys, boot)
<1>0. MemSize \in Nat /\ MemSize >= 10 /\ boot \in Nat
  BY MemAssumption, HeaderNat
<1>1. /\ f1 \in Memory /\ f1[hMagic] = Num(77)
      /\ \A a \in 0 .. MemSize - 1 : a # hMagic => f1[a] = b[a]
  BY <1>0, SetMemory
<1> HIDE DEF f1, boot
<1>2. /\ f2 \in Memory /\ f2[hTotalsize] = Num(bufsize)
      /\ \A a \in 0 .. MemSize - 1 : a # hTotalsize => f2[a] = f1[a]
  BY <1>0, <1>1, SetMemory
<1> HIDE DEF f2
<1>3. /\ f3 \in Memory /\ f3[hVersion] = Num(17)
      /\ \A a \in 0 .. MemSize - 1 : a # hVersion => f3[a] = f2[a]
  BY <1>0, <1>2, SetMemory
<1> HIDE DEF f3
<1>4. /\ f4 \in Memory /\ f4[hLastCompVersion] = Num(16)
      /\ \A a \in 0 .. MemSize - 1 : a # hLastCompVersion => f4[a] = f3[a]
  BY <1>0, <1>3, SetMemory
<1> HIDE DEF f4
<1>5. /\ f \in Memory /\ f[hBootCpuidPhys] = Num(boot)
      /\ \A a \in 0 .. MemSize - 1 : a # hBootCpuidPhys => f[a] = f4[a]
  BY <1>0, <1>4, SetMemory
<1> HIDE DEF f
<1>6. /\ f[hMagic] = Num(77) /\ f[hTotalsize] = Num(bufsize) /\ f[hVersion] = Num(17)
      /\ f[hLastCompVersion] = Num(16)
      /\ \A a \in 0 .. MemSize - 1 : a \notin {0, 1, 5, 6, 7} => f[a] = b[a]
  BY <1>0, <1>1, <1>2, <1>3, <1>4, <1>5
<1>7. /\ fdt_magic(f) = 77 /\ fdt_totalsize(f) = bufsize /\ fdt_version(f) = 17
      /\ fdt_last_comp_version(f) = 16
      /\ f[0].k = "num" /\ f[1].k = "num" /\ f[5].k = "num" /\ f[6].k = "num"
      /\ f[7].k = "num"
  BY <1>0, <1>5, <1>6, CellFacts
  DEF fdt_magic, fdt_totalsize, fdt_version, fdt_last_comp_version
<1> QED BY <1>5, <1>6, <1>7, Zenon DEF Finished, f, f4, f3, f2, f1, boot

\* Blocks in another order are put in order behind the blob, and the result is
\* moved over it.
LEMMA OpenedMoved ==
    ASSUME NEW m, Placed(m), NEW bufsize \in 0 .. BufSize, NEW size \in Nat,
           ReachesTo(m, size),
           fdt_totalsize(m)
             + (HeaderSize + MemRsvSize(m) + size + fdt_size_dt_strings(m)) <= bufsize
    PROVE  LET newsize == HeaderSize + MemRsvSize(m) + size + fdt_size_dt_strings(m)
               tmp   == fdt_totalsize(m)
               moved == Move(fdt_packblocks_(m, tmp, MemRsvSize(m), size), 0, tmp, newsize)
           IN  Opened(m, Return(0, Set(Finished(moved, bufsize), hBootCpuidPhys,
                                       fdt_boot_cpuid_phys(moved))))
<1> DEFINE n  == fdt_num_mem_rsv(m)
           L  == MemRsvSize(m)
           T  == fdt_totalsize(m)
           R  == fdt_off_mem_rsvmap(m)
           S  == fdt_off_dt_struct(m)
           G  == fdt_off_dt_strings(m)
           gs == fdt_size_dt_strings(m)
           D  == HeaderSize + L + size + gs
           q  == fdt_packblocks_(m, T, L, size)
           mv == Move(q, 0, T, D)
           f  == Set(Finished(mv, bufsize), hBootCpuidPhys, fdt_boot_cpuid_phys(mv))
<1>0. /\ m \in Memory /\ MemSize \in Nat /\ BufSize \in Nat /\ BufSize <= MemSize
      /\ bufsize \in Nat /\ bufsize <= BufSize
      /\ T \in Nat /\ T >= 14 /\ S \in Nat /\ R \in Nat /\ gs \in Nat /\ G \in Nat
      /\ G + gs <= T
  BY PlacedFacts
<1>1. n \in 0 .. MemSize /\ IsNumMemRsv(m, n) /\ RsvApart(m, n) /\ L = RsvSize * (n + 1)
  BY PlacedRsv DEF MemRsvSize
<1>2. /\ n \in Nat /\ L = 4 * (n + 1) /\ L \in Nat /\ R + L <= T /\ S + size <= T
      /\ T + (10 + L + size + gs) <= bufsize
  <2>1. R + L <= T
    BY <1>1 DEF RsvApart
  <2>2. S + size <= T
    BY DEF ReachesTo
  <2> HIDE DEF n, L, R, S, T, gs
  <2> QED BY <1>0, <1>1, <2>1, <2>2 DEF L, T, gs
<1> HIDE DEF n, L
<1>3. D \in Nat /\ D = 10 + L + size + gs /\ T + D <= bufsize /\ T + D <= MemSize
  <2> HIDE DEF T, gs
  <2> QED BY <1>0, <1>2
<1>4. /\ OnlyIn(m, q, T, D)
      /\ q[T + hOffMemRsvmap] = Num(HeaderSize)
      /\ q[T + hOffDtStruct] = Num(HeaderSize + L)
      /\ q[T + hSizeDtStruct] = Num(size)
      /\ q[T + hOffDtStrings] = Num(HeaderSize + L + size)
      /\ q[T + hSizeDtStrings] = Num(gs)
      /\ \A i \in 0 .. L - 1 : q[T + HeaderSize + i] = m[R + i]
  <2>1. /\ m \in Memory /\ T \in Nat /\ L \in Nat /\ size \in Nat
        /\ R \in Nat /\ S \in Nat /\ G \in Nat /\ gs \in Nat
        /\ HeaderSize <= T /\ R + L <= T /\ S + size <= T /\ G + gs <= T
        /\ T + (HeaderSize + L + size + gs) <= MemSize
    <3> HIDE DEF T, gs, R, S, G
    <3> QED BY <1>0, <1>2, <1>3
  <2> HIDE DEF T, q
  <2>2. PackedAt(m, fdt_packblocks_(m, T, L, size), T, L, size)
    BY <2>1, PackedBehind
  <2>3. PackedAt(m, q, T, L, size)
    BY <2>2, Zenon DEF q
  <2> QED BY <2>3, Zenon DEF PackedAt
<1> HIDE DEF q, D, T
<1>5. /\ mv \in Memory
      /\ \A a \in 0 .. MemSize - 1 : a < D => mv[a] = q[T + a]
      /\ \A a \in 0 .. MemSize - 1 : a >= T + D => mv[a] = m[a]
  <2>1. q \in Memory /\ DOMAIN q = 0 .. MemSize - 1
    BY <1>4 DEF OnlyIn, Memory
  <2>2. mv \in Memory
    BY <1>0, <1>3, <2>1, MoveMemory
  <2>3. \A a \in 0 .. MemSize - 1 : a < D => mv[a] = q[T + a]
    BY <1>0, <1>3, <2>1 DEF Move
  <2>4. \A a \in 0 .. MemSize - 1 : a >= T + D => mv[a] = q[a]
    BY SMTT(30), <1>0, <1>3, <2>1 DEF Move
  <2>5. \A a \in 0 .. MemSize - 1 : a >= T + D => q[a] = m[a]
    BY <1>0, <1>3, <1>4 DEF OnlyIn
  <2> QED BY <2>2, <2>3, <2>4, <2>5
<1> HIDE DEF mv
<1>6. /\ f \in Memory /\ fdt_magic(f) = 77 /\ fdt_totalsize(f) = bufsize
      /\ fdt_version(f) = 17 /\ fdt_last_comp_version(f) = 16
      /\ \A h \in {0, 1, 5, 6, 7} : f[h].k = "num"
      /\ \A a \in 0 .. MemSize - 1 : a \notin {0, 1, 5, 6, 7} => f[a] = mv[a]
  BY <1>0, <1>5, FinishedFields
<1> HIDE DEF f
<1>7. /\ f[4] = Num(HeaderSize) /\ f[2] = Num(HeaderSize + L) /\ f[9] = Num(size)
      /\ f[3] = Num(HeaderSize + L + size) /\ f[8] = Num(gs)
  <2>1. \A h \in {2, 3, 4, 8, 9} : f[h] = q[T + h]
    <3> HIDE DEF R, S, G, gs
    <3> QED BY <1>0, <1>2, <1>3, <1>5, <1>6
  <2> QED BY <1>4, <2>1
<1>8. /\ fdt_off_mem_rsvmap(f) = 10 /\ fdt_off_dt_struct(f) = 10 + L
      /\ fdt_size_dt_struct(f) = size /\ fdt_off_dt_strings(f) = 10 + L + size
      /\ fdt_size_dt_strings(f) = gs
      /\ \A h \in 0 .. 9 : f[h].k = "num"
  <2> HIDE DEF R, S, G, gs
  <2>1. 10 + L \in Nat /\ 10 + L + size \in Nat
    BY <1>2
  <2>2. /\ fdt_off_mem_rsvmap(f) = 10 /\ fdt_off_dt_struct(f) = 10 + L
        /\ fdt_size_dt_struct(f) = size /\ fdt_off_dt_strings(f) = 10 + L + size
        /\ fdt_size_dt_strings(f) = gs
        /\ f[4].k = "num" /\ f[2].k = "num" /\ f[9].k = "num" /\ f[3].k = "num"
        /\ f[8].k = "num"
    BY <1>0, <1>7, <2>1, CellFacts
    DEF fdt_off_mem_rsvmap, fdt_off_dt_struct, fdt_size_dt_struct, fdt_off_dt_strings,
        fdt_size_dt_strings
  <2> QED BY <1>6, <2>2
<1>9. \A i \in 0 .. L - 1 : f[10 + i] = m[R + i]
  <2> TAKE i \in 0 .. L - 1
  <2> HIDE DEF R, S, G, gs
  <2> DEFINE a == 10 + i
  <2>1. a \in 0 .. MemSize - 1 /\ a < D /\ a \notin {0, 1, 5, 6, 7}
        /\ T + a = T + HeaderSize + i
    BY <1>0, <1>2, <1>3
  <2> HIDE DEF a
  <2>2. f[a] = mv[a] /\ mv[a] = q[T + a]
    BY <1>5, <1>6, <2>1
  <2>3. q[T + a] = m[R + i]
    BY <1>4, <2>1
  <2> QED BY <2>2, <2>3 DEF a
<1>10. IsNumMemRsv(f, n)
  <2>1. ASSUME NEW i \in 0 .. n PROVE IsLastRsv(f, i) <=> IsLastRsv(m, i)
    <3>1. /\ i \in Nat /\ RsvSize * i + 2 \in 0 .. L - 1 /\ RsvSize * i + 3 \in 0 .. L - 1
          /\ 10 + (RsvSize * i + 2) = 10 + RsvSize * i + 2
          /\ 10 + (RsvSize * i + 3) = 10 + RsvSize * i + 3
          /\ R + (RsvSize * i + 2) = R + RsvSize * i + 2
          /\ R + (RsvSize * i + 3) = R + RsvSize * i + 3
      <4> HIDE DEF R
      <4> QED BY <1>0, <1>2
    <3>2. /\ f[10 + RsvSize * i + 2] = m[R + RsvSize * i + 2]
          /\ f[10 + RsvSize * i + 3] = m[R + RsvSize * i + 3]
      <4> HIDE DEF R
      <4> QED BY <1>9, <3>1
    <3> QED BY <1>8, <3>1, <3>2, SameRsv
  <2> QED BY <1>1, <2>1 DEF IsNumMemRsv
<1>11. ~fdt_blocks_misordered_(f, RsvSize * (n + 1), fdt_size_dt_struct(f))
  <2> HIDE DEF R, S, G, gs
  <2> QED BY <1>0, <1>2, <1>6, <1>8 DEF fdt_blocks_misordered_
<1>12. Placed(f)
  <2>1. GoodHeader(f)
    BY <1>0, <1>6, <1>8 DEF GoodHeader
  <2>2. Good(f)
    BY <1>1, <1>6, <1>10, <1>11, <2>1, GoodIntro
  <2> QED BY <2>2, GoodPlaced
<1>13. \A a \in 0 .. MemSize - 1 : a >= fdt_totalsize(f) => f[a] = m[a]
  <2> HIDE DEF R, S, G, gs
  <2> QED BY <1>0, <1>2, <1>3, <1>5, <1>6
<1>14. Opened(m, Return(0, f))
  BY <1>12, <1>13 DEF Opened, Return
<1> QED BY <1>14, Zenon DEF f, mv, q, D, L, T

\* What fdt_open_into does to a blob of any version, with its blocks in any order.
LEMMA OpenIntoPlaced ==
    ASSUME NEW m, Placed(m), NEW bufsize \in 0 .. BufSize
    PROVE  Opened(m, OpenInto(m, bufsize))
<1> DEFINE size    == StructSize(m)
           newsize == HeaderSize + MemRsvSize(m) + size + fdt_size_dt_strings(m)
           tmp     == fdt_totalsize(m)
           moved   == Move(fdt_packblocks_(m, tmp, MemRsvSize(m), size), 0, tmp, newsize)
           stay    == Return(0, Set(Set(Set(m, hVersion, 17), hSizeDtStruct, size),
                                    hTotalsize, bufsize))
           copy    == Return(0, Set(Finished(moved, bufsize), hBootCpuidPhys,
                                    fdt_boot_cpuid_phys(moved)))
           r       == OpenInto(m, bufsize)
<1>0. /\ size \in Int /\ (size >= 0 => ReachesTo(m, size))
      /\ tmp \in Nat /\ bufsize \in Nat /\ fdt_size_dt_strings(m) \in Nat
      /\ fdt_check_header(m) \in Int
  BY StructSizeReached, PlacedFacts, BufAssumption DEF fdt_check_header
<1>1. MemRsvSize(m) \in Nat
  BY PlacedRsv, MemAssumption DEF MemRsvSize
<1>2. r = IF fdt_check_header(m) # 0 THEN Return(fdt_check_header(m), m)
          ELSE IF size < 0 THEN Return(size, m)
          ELSE IF ~fdt_blocks_misordered_(m, MemRsvSize(m), size)
          THEN IF tmp > bufsize THEN Return(-FDT_ERR_NOSPACE, m) ELSE stay
          ELSE IF bufsize < newsize \/ tmp + newsize > bufsize
          THEN Return(-FDT_ERR_NOSPACE, m) ELSE copy
  BY Zenon DEF OpenInto, StructSize, Finished
<1> HIDE DEF r, stay, copy, size
<1>3. ASSUME NEW e \in Int PROVE Opened(m, Return(e, m))
  BY DEF Opened, Return
<1>4. CASE fdt_check_header(m) # 0
  <2>1. r = Return(fdt_check_header(m), m)
    BY <1>2, <1>4
  <2>2. Opened(m, Return(fdt_check_header(m), m))
    BY <1>0, <1>3
  <2> QED BY <2>1, <2>2 DEF r
<1>5. CASE fdt_check_header(m) = 0 /\ size < 0
  <2>1. r = Return(size, m)
    BY <1>2, <1>5
  <2>2. Opened(m, Return(size, m))
    BY <1>0, <1>3
  <2> QED BY <2>1, <2>2 DEF r
<1>6. CASE /\ fdt_check_header(m) = 0 /\ ~(size < 0)
           /\ ~fdt_blocks_misordered_(m, MemRsvSize(m), size)
  <2>1. CASE tmp > bufsize
    <3>1. r = Return(-FDT_ERR_NOSPACE, m)
      BY <1>2, <1>6, <2>1
    <3>2. Opened(m, Return(-FDT_ERR_NOSPACE, m))
      BY <1>3
    <3> QED BY <3>1, <3>2 DEF r
  <2>2. CASE ~(tmp > bufsize)
    <3>1. size \in Nat /\ tmp <= bufsize
      BY <1>0, <1>6, <2>2
    <3>2. r = stay
      BY <1>2, <1>6, <2>2
    <3>3. Opened(m, stay)
      BY <1>6, <3>1, OpenedInPlace DEF stay
    <3> QED BY <3>2, <3>3 DEF r
  <2> QED BY <2>1, <2>2
<1>7. CASE /\ fdt_check_header(m) = 0 /\ ~(size < 0)
           /\ fdt_blocks_misordered_(m, MemRsvSize(m), size)
  <2>1. CASE bufsize < newsize \/ tmp + newsize > bufsize
    <3>1. r = Return(-FDT_ERR_NOSPACE, m)
      BY <1>2, <1>7, <2>1
    <3>2. Opened(m, Return(-FDT_ERR_NOSPACE, m))
      BY <1>3
    <3> QED BY <3>1, <3>2 DEF r
  <2>2. CASE ~(bufsize < newsize \/ tmp + newsize > bufsize)
    <3>1. size \in Nat /\ ReachesTo(m, size)
      BY <1>0, <1>7
    <3>2. newsize \in Nat /\ tmp + newsize <= bufsize
      BY <1>0, <1>1, <2>2, <3>1
    <3>3. r = copy
      BY <1>2, <1>7, <2>2
    <3>4. Opened(m, copy)
      BY <3>1, <3>2, OpenedMoved, Zenon DEF copy
    <3> QED BY <3>3, <3>4 DEF r
  <2> QED BY <2>1, <2>2
<1> QED BY <1>0, <1>4, <1>5, <1>6, <1>7

-----------------------------------------------------------------------------
(* What a walk over the tags of a blob visits, and what an edit of the     *)
(* blob does to it.                                                        *)
(*                                                                         *)
(* A walk is computed by recursion over offsets.  Everything that is said  *)
(* about it here is proved by the least or the greatest offset at which it *)
(* fails: the tag at that offset leads to a larger one.                    *)

(* Tags.                                                                   *)

\* A blob, finished or not, whose structure block lies inside it.
Framed(m) == Readable(m) /\ fdt_off_dt_struct(m) + fdt_size_dt_struct(m) <= fdt_totalsize(m)

\* Its block and its size are natural numbers within the memory.
LEMMA FramedFacts ==
    ASSUME NEW m, Framed(m)
    PROVE  /\ Readable(m) /\ m \in Memory /\ MemSize \in Nat
           /\ fdt_totalsize(m) \in Nat /\ fdt_off_dt_struct(m) \in Nat
           /\ fdt_size_dt_struct(m) \in Nat /\ fdt_size_dt_struct(m) <= MemSize
           /\ fdt_off_dt_struct(m) + fdt_size_dt_struct(m) <= MemSize
<1>1. /\ m \in Memory /\ MemSize \in Nat /\ fdt_totalsize(m) \in Nat
      /\ fdt_off_dt_struct(m) \in Nat /\ fdt_size_dt_struct(m) \in Nat
      /\ fdt_version(m) >= 17 /\ fdt_totalsize(m) <= MemSize
      /\ fdt_off_dt_struct(m) + fdt_size_dt_struct(m) <= fdt_totalsize(m)
  BY HeaderNat, MemAssumption DEF Framed, Readable
<1> QED BY <1>1 DEF Framed

\* In it, offsets are checked against the size of the structure block alone.
LEMMA OffsetPtr ==
    ASSUME NEW m, Framed(m), NEW x \in Nat, NEW n \in Nat
    PROVE  fdt_offset_ptr(m, x, n) <=> x + n <= fdt_size_dt_struct(m)
<1>1. /\ m \in Memory /\ fdt_totalsize(m) \in Nat
      /\ fdt_off_dt_struct(m) \in Nat /\ fdt_size_dt_struct(m) \in Nat
      /\ fdt_version(m) >= 17
      /\ fdt_off_dt_struct(m) + fdt_size_dt_struct(m) <= fdt_totalsize(m)
  BY HeaderNat DEF Framed, Readable
<1> QED BY <1>1 DEF fdt_offset_ptr

\* A blob in order is one.
LEMMA GoodFramed == \A m : Good(m) => Framed(m)
<1> SUFFICES ASSUME NEW m, Good(m) PROVE Framed(m)
  OBVIOUS
<1> QED BY GoodFacts, GoodReadable DEF Framed

\* The n words from offset o of m are those from offset o2 of m2.
SameWords(m, o, m2, o2, n) == \A i \in 0 .. n - 1 : At(m2, o2 + i) = At(m, o + i)

\* Where a string ends is decided by its words.
LEMMA StringEndShift ==
    ASSUME NEW m, Framed(m), NEW m2, Framed(m2), NEW o \in Nat, NEW o2 \in Nat,
           NEW n \in Nat \ {0}, o + n = StringEnd(m, o),
           o2 + n <= fdt_size_dt_struct(m2), SameWords(m, o, m2, o2, n)
    PROVE  StringEnd(m2, o2) = o2 + n
<1> DEFINE e == o + n
           e2 == o2 + n
<1>0. /\ MemSize \in Nat /\ fdt_size_dt_struct(m) \in Nat /\ fdt_size_dt_struct(m2) \in Nat
      /\ fdt_size_dt_struct(m2) <= MemSize
  BY FramedFacts
<1>1. EndsString(m, o, e)
  BY <1>0 DEF StringEnd
<1>2. e2 \in o2 + 1 .. MemSize /\ e2 \in Nat
  BY <1>0
<1>3. At(m2, e2 - 1) = At(m, e - 1)
  <2>1. n - 1 \in 0 .. n - 1 /\ o2 + (n - 1) = e2 - 1 /\ o + (n - 1) = e - 1
    BY <1>0
  <2> QED BY <2>1 DEF SameWords
<1>4. \A i \in o2 .. e2 - 2 : ~HasNul(At(m2, i))
  <2> SUFFICES ASSUME NEW i \in o2 .. e2 - 2 PROVE ~HasNul(At(m2, i))
    OBVIOUS
  <2>1. i - o2 \in 0 .. n - 1 /\ o2 + (i - o2) = i /\ o + (i - o2) \in o .. e - 2
    BY <1>0
  <2>2. At(m2, i) = At(m, o + (i - o2))
    BY <2>1 DEF SameWords
  <2> QED BY <1>1, <2>1, <2>2 DEF EndsString
<1>5. EndsString(m2, o2, e2)
  <2>1. fdt_offset_ptr(m2, e2 - 1, 1)
    <3>1. e2 - 1 \in Nat /\ (e2 - 1) + 1 <= fdt_size_dt_struct(m2)
      BY <1>0, <1>2
    <3> HIDE DEF e2
    <3> QED BY <3>1, OffsetPtr
  <2> QED BY <1>1, <1>3, <1>4, <2>1 DEF EndsString
<1>6. ASSUME NEW f \in o2 + 1 .. MemSize, EndsString(m2, o2, f)
      PROVE  f = e2
  <2>1. CASE f < e2
    <3>1. f - 1 \in o2 .. e2 - 2
      BY <1>0, <1>2, <2>1
    <3> QED BY <1>4, <1>6, <3>1 DEF EndsString
  <2>2. CASE e2 < f
    <3>1. e2 - 1 \in o2 .. f - 2
      BY <1>0, <1>2, <2>2
    <3> QED BY <1>5, <1>6, <3>1 DEF EndsString
  <2> HIDE DEF e2
  <2> QED BY <1>0, <1>2, <2>1, <2>2
<1> HIDE DEF e2
<1>7. StringEnd(m2, o2) = e2
  BY <1>2, <1>5, <1>6 DEF StringEnd
<1> QED BY <1>7 DEF e2

\* An item that fdt_next_tag accepts is accepted wherever its words are.
LEMMA NextTagShift ==
    ASSUME NEW m, Framed(m), NEW m2, Framed(m2), NEW o \in Nat, NEW o2 \in Nat,
           NEW n \in Nat, o + n = fdt_next_tag(m, o).next,
           o2 + n <= fdt_size_dt_struct(m2), SameWords(m, o, m2, o2, n)
    PROVE  /\ fdt_next_tag(m2, o2).tag = fdt_next_tag(m, o).tag
           /\ fdt_next_tag(m2, o2).next = o2 + n
<1> DEFINE tag == Value(At(m, o))
           next == o + n
<1>0. /\ MemSize \in Nat /\ fdt_size_dt_struct(m) \in Nat /\ fdt_size_dt_struct(m2) \in Nat
      /\ o < next /\ next <= fdt_size_dt_struct(m) /\ fdt_size_dt_struct(m) <= MemSize
  BY FramedFacts, NextTag
<1>1. /\ fdt_offset_ptr(m, o, 1)
      /\ next = TagEnd(m, o, tag) /\ fdt_next_tag(m, o).tag = tag
  <2>1. fdt_offset_ptr(m, o, 1)
    BY <1>0 DEF fdt_next_tag
  <2>2. fdt_next_tag(m, o) = TagTo(m, o, tag, TagEnd(m, o, tag))
    BY <2>1 DEF fdt_next_tag
  <2> HIDE DEF tag
  <2> QED BY <1>0, <2>1, <2>2 DEF TagTo
<1>2. Value(At(m2, o2)) = tag /\ fdt_offset_ptr(m2, o2, 1)
  <2>1. 0 \in 0 .. n - 1 /\ o2 + 0 = o2 /\ o + 0 = o /\ o2 + 1 <= fdt_size_dt_struct(m2)
    BY <1>0
  <2>2. At(m2, o2) = At(m, o)
    BY <2>1 DEF SameWords
  <2> QED BY <2>1, <2>2, OffsetPtr
<1>3. TagEnd(m2, o2, tag) = o2 + n
  <2>1. CASE tag = FDT_BEGIN_NODE
    <3>1. StringEnd(m, o + 1) = next
      BY <1>1, <2>1 DEF TagEnd
    <3>2. next \in o + 2 .. MemSize
      BY <1>0, <3>1 DEF StringEnd
    <3> DEFINE s == o + 1
               s2 == o2 + 1
               k == n - 1
    <3>3. SameWords(m, s, m2, s2, k)
      <4> SUFFICES ASSUME NEW i \in 0 .. k - 1 PROVE At(m2, s2 + i) = At(m, s + i)
        BY DEF SameWords
      <4>1. i + 1 \in 0 .. n - 1 /\ o2 + (i + 1) = s2 + i /\ o + (i + 1) = s + i
        BY <1>0
      <4> QED BY <4>1 DEF SameWords
    <3>4. /\ s2 + k = o2 + n /\ s \in Nat /\ s2 \in Nat
          /\ k \in Nat \ {0} /\ s + k = StringEnd(m, s)
          /\ s2 + k <= fdt_size_dt_struct(m2)
      BY <1>0, <3>1, <3>2
    <3>5. StringEnd(m2, s2) = s2 + k
      <4> HIDE DEF s, s2, k
      <4> QED BY <3>3, <3>4, StringEndShift
    <3> QED BY <2>1, <3>4, <3>5 DEF TagEnd
  <2>2. CASE tag = FDT_PROP
    <3>1. fdt_offset_ptr(m, o + 1, 1) /\ next = o + PropSize + Words(PropLen(m, o))
      BY <1>0, <1>1, <2>2 DEF TagEnd, PropLen
    <3>2. PropLen(m, o) \in Nat
      BY <1>1, <2>2, NextTag, FramedFacts
    <3>3. Words(PropLen(m, o)) \in Nat
      BY <3>2, WordsNat
    <3>4. 1 \in 0 .. n - 1
      BY <1>0, <3>1, <3>3
    <3>5. At(m2, o2 + 1) = At(m, o + 1) /\ fdt_offset_ptr(m2, o2 + 1, 1)
      <4>1. o2 + 1 \in Nat /\ (o2 + 1) + 1 <= fdt_size_dt_struct(m2)
        BY <1>0, <3>1, <3>3
      <4>2. At(m2, o2 + 1) = At(m, o + 1)
        BY <3>4 DEF SameWords
      <4> QED BY <4>1, <4>2, OffsetPtr
    <3>6. TagEnd(m2, o2, tag) = o2 + PropSize + Words(PropLen(m, o))
      BY <2>2, <3>5 DEF TagEnd, PropLen
    <3> HIDE DEF tag
    <3> QED BY <1>0, <3>1, <3>3, <3>6
  <2>3. CASE tag \in {FDT_END, FDT_END_NODE, FDT_NOP}
    BY <1>0, <1>1, <2>3 DEF TagEnd
  <2>4. CASE tag \notin {FDT_BEGIN_NODE, FDT_PROP, FDT_END, FDT_END_NODE, FDT_NOP}
    BY <1>0, <1>1, <2>4 DEF TagEnd
  <2> QED BY <2>1, <2>2, <2>3, <2>4
<1>4. fdt_next_tag(m2, o2) = TagTo(m2, o2, tag, TagEnd(m2, o2, tag))
  BY <1>2 DEF fdt_next_tag
<1>5. fdt_next_tag(m2, o2) = [tag |-> tag, next |-> o2 + n]
  <2> HIDE DEF tag
  <2>1. o2 + n \in Nat /\ o2 + n # 0 /\ (o2 + n) - o2 = n
    BY <1>0
  <2>2. fdt_offset_ptr(m2, o2, (o2 + n) - o2)
    BY <2>1, OffsetPtr
  <2> QED BY <1>3, <1>4, <2>1, <2>2 DEF TagTo
<1> HIDE DEF tag
<1> QED BY <1>1, <1>5

-----------------------------------------------------------------------------
(* The recursion behind a walk.                                            *)

NextOf(m, x) == fdt_next_tag(m, x).next

\* Whether the walk goes on behind the item at x.
Leads(m, x) == fdt_next_tag(m, x).tag # FDT_END

Onward(m, V, x) == IF Leads(m, x) THEN {x} \cup V[NextOf(m, x)] ELSE {x}

IsVisits(m, n, V) == V = [x \in n .. MemSize |-> Onward(m, V, x)]

Visits(m) == CHOOSE V : IsVisits(m, 0, V)

\* An item that leads on leads to a larger offset of the memory.
LEMMA LeadsOn ==
    ASSUME NEW m, Framed(m), NEW x \in Nat, Leads(m, x)
    PROVE  /\ NextOf(m, x) \in Nat /\ x < NextOf(m, x)
           /\ NextOf(m, x) <= fdt_size_dt_struct(m) /\ NextOf(m, x) <= MemSize
  BY NextTag, FramedFacts DEF Leads, NextOf

\* The recursion is sound: from the last offset down, it has a solution.
LEMMA VisitsExist ==
    ASSUME NEW m, Framed(m)
    PROVE  \E V : IsVisits(m, 0, V)
<1>0. MemSize \in Nat
  BY MemAssumption
<1> DEFINE K == {k \in Nat : k <= MemSize + 1 /\ ~ \E V : IsVisits(m, MemSize + 1 - k, V)}
<1>1. SUFFICES ASSUME K # {} PROVE FALSE
  <2>1. MemSize + 1 \in Nat /\ MemSize + 1 - (MemSize + 1) = 0
    BY <1>0
  <2>2. MemSize + 1 \notin K
    BY <1>1
  <2> QED BY <2>1, <2>2
<1>2. K \subseteq Nat
  OBVIOUS
<1>3. PICK k \in K : \A j \in K : k <= j
  <2> HIDE DEF K
  <2> QED BY <1>1, <1>2, LeastNatural
<1>4. k # 0
  <2> SUFFICES ASSUME k = 0 PROVE FALSE
    OBVIOUS
  <2> DEFINE V == [x \in {} |-> {}]
  <2>1. MemSize + 1 - k = MemSize + 1 /\ MemSize + 1 .. MemSize = {}
    BY <1>0
  <2>2. V = [x \in MemSize + 1 .. MemSize |-> Onward(m, V, x)]
    BY <2>1
  <2>3. IsVisits(m, MemSize + 1 - k, V)
    BY <2>1, <2>2 DEF IsVisits
  <2> QED BY <2>3
<1> DEFINE n == MemSize + 1 - k
<1>5. k \in Nat /\ k - 1 \in Nat /\ k - 1 <= MemSize + 1 /\ n \in 0 .. MemSize
      /\ MemSize + 1 - (k - 1) = n + 1
  BY <1>0, <1>4
<1>6. k - 1 \notin K
  BY <1>3, <1>5
<1>7. PICK V : IsVisits(m, n + 1, V)
  BY <1>5, <1>6
<1> DEFINE W == [x \in n .. MemSize |-> IF x = n THEN Onward(m, V, n) ELSE V[x]]
<1>8. \A x \in n .. MemSize : Leads(m, x) => NextOf(m, x) \in n + 1 .. MemSize /\ NextOf(m, x) # n
  <2> TAKE x \in n .. MemSize
  <2>1. x \in Nat /\ n \in Nat /\ n <= x
    BY <1>0, <1>5
  <2> HIDE DEF n
  <2> QED BY <1>0, <2>1, LeadsOn
<1>9. \A x \in n .. MemSize : Onward(m, W, x) = Onward(m, V, x)
  <2> TAKE x \in n .. MemSize
  <2>1. Leads(m, x) => W[NextOf(m, x)] = V[NextOf(m, x)]
    <3>1. HAVE Leads(m, x)
    <3>2. NextOf(m, x) \in n .. MemSize /\ NextOf(m, x) # n
      BY <1>0, <1>5, <1>8, <3>1
    <3> HIDE DEF n
    <3> QED BY <3>2
  <2> HIDE DEF W
  <2> QED BY <2>1 DEF Onward
<1>10. \A x \in n .. MemSize : W[x] = Onward(m, V, x)
  <2> TAKE x \in n .. MemSize
  <2>1. CASE x = n
    BY <2>1
  <2>2. CASE x # n
    <3>1. x \in n + 1 .. MemSize
      BY <1>0, <1>5, <2>2
    <3>2. V[x] = Onward(m, V, x)
      <4> HIDE DEF n
      <4> QED BY <1>7, <3>1 DEF IsVisits
    <3> QED BY <2>2, <3>2
  <2> QED BY <2>1, <2>2
<1>11. W = [x \in n .. MemSize |-> Onward(m, W, x)]
  <2> DEFINE U == [x \in n .. MemSize |-> Onward(m, W, x)]
  <2>1. \A x \in n .. MemSize : W[x] = Onward(m, W, x)
    <3> HIDE DEF W, n
    <3> QED BY <1>9, <1>10
  <2>2. W = [x \in n .. MemSize |-> W[x]]
    OBVIOUS
  <2> HIDE DEF W, n
  <2> QED BY <2>1, <2>2
<1>12. IsVisits(m, n, W)
  <2> HIDE DEF W, n
  <2> QED BY <1>11 DEF IsVisits
<1>13. k \notin K
  BY <1>12
<1> QED BY <1>13

\* From an offset, a walk visits that offset and what it visits from the next.
LEMMA VisitsUnfold ==
    ASSUME NEW m, Framed(m), NEW x \in 0 .. MemSize
    PROVE  Visits(m)[x] = Onward(m, Visits(m), x)
<1>1. IsVisits(m, 0, Visits(m))
  BY VisitsExist DEF Visits
<1> QED BY <1>1 DEF IsVisits

\* The tags that a walk passes are those that it visits.
LEMMA TagOffsetsVisits ==
    ASSUME NEW m, NEW o
    PROVE  TagOffsets(m, o) = {o} \cup (Visits(m)[o] \cap o .. MemSize)
<1> DEFINE D(V) == [x \in 0 .. MemSize |->
                        LET nt == fdt_next_tag(m, x)
                        IN  IF nt.tag = FDT_END THEN {x} ELSE {x} \cup V[nt.next]]
<1>1. \A V : D(V) = [x \in 0 .. MemSize |-> Onward(m, V, x)]
  BY DEF Onward, Leads, NextOf
<1>2. (CHOOSE V : V = D(V)) = Visits(m)
  <2> HIDE DEF D
  <2>1. \A V : (V = D(V)) <=> IsVisits(m, 0, V)
    BY <1>1 DEF IsVisits
  <2> QED BY <2>1 DEF Visits
<1> QED BY <1>2 DEF TagOffsets

-----------------------------------------------------------------------------
(* The offsets that a walk visits.                                         *)

\* A walk goes only forward.
LEMMA VisitsWithin ==
    ASSUME NEW m, Framed(m)
    PROVE  \A x \in 0 .. MemSize : x \in Visits(m)[x] /\ Visits(m)[x] \subseteq x .. MemSize
<1> DEFINE K == {x \in 0 .. MemSize : ~ (x \in Visits(m)[x] /\ Visits(m)[x] \subseteq x .. MemSize)}
<1>0. MemSize \in Nat
  BY MemAssumption
<1>1. SUFFICES ASSUME K # {} PROVE FALSE
  OBVIOUS
<1>2. K \subseteq 0 .. MemSize
  OBVIOUS
<1>3. PICK k \in K : \A j \in K : j <= k
  <2> HIDE DEF K
  <2> QED BY <1>0, <1>1, <1>2, GreatestNatural
<1>4. k \in 0 .. MemSize /\ k \in Nat
  OBVIOUS
<1>5. Visits(m)[k] = Onward(m, Visits(m), k)
  BY <1>4, VisitsUnfold
<1>6. CASE ~Leads(m, k)
  BY <1>0, <1>4, <1>5, <1>6 DEF Onward
<1>7. CASE Leads(m, k)
  <2> DEFINE n == NextOf(m, k)
  <2>1. n \in 0 .. MemSize /\ k < n
    BY <1>0, <1>4, <1>7, LeadsOn
  <2>2. n \notin K
    BY <1>3, <1>4, <2>1
  <2>3. Visits(m)[n] \subseteq n .. MemSize
    BY <2>1, <2>2
  <2>4. Visits(m)[k] = {k} \cup Visits(m)[n]
    BY <1>5, <1>7 DEF Onward
  <2>5. k \in Visits(m)[k] /\ Visits(m)[k] \subseteq k .. MemSize
    <3> HIDE DEF n
    <3>1. n .. MemSize \subseteq k .. MemSize /\ k \in k .. MemSize
      BY <1>0, <1>4, <2>1
    <3> QED BY <2>3, <2>4, <3>1
  <2> QED BY <2>5
<1> QED BY <1>6, <1>7

\* A walk visits its first offset and, if that leads on, what the walk from the
\* next one visits.
LEMMA TagOffsetsUnfold ==
    ASSUME NEW m, Framed(m), NEW o \in 0 .. MemSize
    PROVE  /\ TagOffsets(m, o) \subseteq o .. MemSize /\ o \in TagOffsets(m, o)
           /\ Leads(m, o) => TagOffsets(m, o) = {o} \cup TagOffsets(m, NextOf(m, o))
           /\ ~Leads(m, o) => TagOffsets(m, o) = {o}
<1>0. MemSize \in Nat
  BY MemAssumption
<1>1. ASSUME NEW x \in 0 .. MemSize PROVE TagOffsets(m, x) = Visits(m)[x]
  <2>1. x \in Visits(m)[x] /\ Visits(m)[x] \subseteq x .. MemSize
    BY VisitsWithin
  <2> QED BY <2>1, TagOffsetsVisits
<1>2. o \in Visits(m)[o] /\ Visits(m)[o] \subseteq o .. MemSize
  BY VisitsWithin
<1>3. Visits(m)[o] = Onward(m, Visits(m), o)
  BY VisitsUnfold
<1>4. CASE Leads(m, o)
  <2>1. NextOf(m, o) \in 0 .. MemSize
    BY <1>0, <1>4, LeadsOn
  <2> QED BY <1>1, <1>2, <1>3, <1>4, <2>1 DEF Onward
<1>5. CASE ~Leads(m, o)
  BY <1>1, <1>2, <1>3, <1>5 DEF Onward
<1> QED BY <1>4, <1>5

\* The offsets of a walk form a chain.
IsChain(m, o) ==
    LET T == TagOffsets(m, o)
    IN  /\ \A x \in T : Leads(m, x) => NextOf(m, x) \in T
        /\ \A x \in T : x # o => \E y \in T : Leads(m, y) /\ NextOf(m, y) = x
        /\ \A x, y \in T : x < y => Leads(m, x) /\ NextOf(m, x) <= y
        /\ \A x \in T : TagOffsets(m, x) = {y \in T : x <= y}

\* Every walk is a chain: each tag leads to the next, and nothing in between is
\* visited.
LEMMA WalkIsChain ==
    ASSUME NEW m, Framed(m), NEW o \in 0 .. MemSize
    PROVE  IsChain(m, o)
<1> DEFINE K == {x \in 0 .. MemSize : ~IsChain(m, x)}
<1>0. MemSize \in Nat
  BY MemAssumption
<1>1. SUFFICES ASSUME K # {} PROVE FALSE
  OBVIOUS
<1>2. K \subseteq 0 .. MemSize
  OBVIOUS
<1>3. PICK k \in K : \A j \in K : j <= k
  <2> HIDE DEF K
  <2> QED BY <1>0, <1>1, <1>2, GreatestNatural
<1>4. k \in 0 .. MemSize /\ k \in Nat
  OBVIOUS
<1> DEFINE T == TagOffsets(m, k)
<1>5. T \subseteq k .. MemSize /\ k \in T
  BY <1>4, TagOffsetsUnfold
<1>6. CASE ~Leads(m, k)
  <2>1. T = {k}
    BY <1>4, <1>6, TagOffsetsUnfold
  <2>2. IsChain(m, k)
    BY <1>4, <1>6, <2>1 DEF IsChain
  <2> QED BY <2>2
<1>7. CASE Leads(m, k)
  <2> DEFINE n == NextOf(m, k)
             U == TagOffsets(m, n)
  <2>1. n \in 0 .. MemSize /\ n \in Nat /\ k < n
    BY <1>0, <1>4, <1>7, LeadsOn
  <2>2. n \notin K
    BY <1>3, <1>4, <2>1
  <2>3. IsChain(m, n)
    BY <2>1, <2>2
  <2>4. T = {k} \cup U /\ U \subseteq n .. MemSize /\ n \in U
    BY <1>4, <1>7, <2>1, TagOffsetsUnfold
  <2>5. \A x \in U : x \in Nat /\ n <= x /\ k < x
    <3> HIDE DEF U, n
    <3> QED BY <1>4, <2>1, <2>4
  <2>6. /\ \A x \in U : Leads(m, x) => NextOf(m, x) \in U
        /\ \A x \in U : x # n => \E y \in U : Leads(m, y) /\ NextOf(m, y) = x
        /\ \A x, y \in U : x < y => Leads(m, x) /\ NextOf(m, x) <= y
        /\ \A x \in U : TagOffsets(m, x) = {y \in U : x <= y}
    BY <2>3 DEF IsChain
  <2>7. \A x \in T : Leads(m, x) => NextOf(m, x) \in T
    BY <2>4, <2>6
  <2>8. \A x \in T : x # k => \E y \in T : Leads(m, y) /\ NextOf(m, y) = x
    <3> TAKE x \in T
    <3>1. HAVE x # k
    <3>2. x \in U
      BY <2>4, <3>1
    <3>3. CASE x = n
      BY <1>5, <1>7, <3>3
    <3>4. CASE x # n
      <4>1. PICK y \in U : Leads(m, y) /\ NextOf(m, y) = x
        BY <2>6, <3>2, <3>4
      <4>2. y \in T
        BY <2>4
      <4> QED BY <4>1, <4>2
    <3> QED BY <3>3, <3>4
  <2>9. ASSUME NEW x \in T, NEW y \in T, x < y
        PROVE  Leads(m, x) /\ NextOf(m, x) <= y
    <3>1. CASE x = k
      <4>1. y \in U
        BY <1>4, <2>4, <2>9, <3>1
      <4> QED BY <1>7, <2>5, <3>1, <4>1
    <3>2. CASE x # k
      <4>1. x \in U
        BY <2>4, <3>2
      <4>2. y \in U
        <5>1. y # k
          BY <1>4, <2>5, <2>9, <4>1
        <5> QED BY <2>4, <5>1
      <4> QED BY <2>6, <2>9, <4>1, <4>2
    <3> QED BY <3>1, <3>2
  <2>10. ASSUME NEW x \in T PROVE TagOffsets(m, x) = {y \in T : x <= y}
    <3>1. CASE x = k
      <4>1. \A y \in T : k <= y
        BY <1>4, <2>4, <2>5
      <4> HIDE DEF T
      <4>2. {y \in T : k <= y} = T
        BY <4>1
      <4> QED BY <3>1, <4>2 DEF T
    <3>2. CASE x # k
      <4>1. x \in U
        BY <2>4, <3>2
      <4>2. ~(x <= k)
        BY <1>4, <2>5, <4>1
      <4>3. {y \in T : x <= y} = {y \in U : x <= y}
        <5> HIDE DEF T, U, n
        <5> QED BY <2>4, <4>2
      <4>4. TagOffsets(m, x) = {y \in U : x <= y}
        BY <2>6, <4>1
      <4> QED BY <4>3, <4>4
    <3> QED BY <3>1, <3>2
  <2>11. IsChain(m, k)
    <3> HIDE DEF n, U, K
    <3> QED BY <2>7, <2>8, <2>9, <2>10, Zenon DEF IsChain
  <2> QED BY <2>11
<1> QED BY <1>6, <1>7

\* What holds at the start of a walk and is handed on along it holds all along.
LEMMA WalkInduction ==
    ASSUME NEW m, Framed(m), NEW o \in 0 .. MemSize, NEW P,
           o \in P,
           \A x \in TagOffsets(m, o) : x \in P /\ Leads(m, x) => NextOf(m, x) \in P
    PROVE  TagOffsets(m, o) \subseteq P
<1> DEFINE T == TagOffsets(m, o)
           K == T \ P
<1>1. SUFFICES ASSUME K # {} PROVE FALSE
  OBVIOUS
<1>2. T \subseteq o .. MemSize /\ \A x \in T : x \in Nat
  <2>1. T \subseteq o .. MemSize
    BY TagOffsetsUnfold
  <2> HIDE DEF T
  <2> QED BY <2>1
<1>3. PICK k \in K : \A j \in K : k <= j
  <2>1. K \subseteq Nat
    BY <1>2
  <2> HIDE DEF K
  <2> QED BY <1>1, <2>1, LeastNatural
<1>4. k \in T /\ k \notin P /\ k # o
  OBVIOUS
<1>5. PICK y \in T : Leads(m, y) /\ NextOf(m, y) = k
  BY <1>4, WalkIsChain DEF IsChain
<1>6. y < k /\ k \in Nat /\ y \in Nat
  BY <1>2, <1>4, <1>5, LeadsOn
<1>7. y \in P
  BY <1>3, <1>6
<1> QED BY <1>4, <1>5, <1>7

-----------------------------------------------------------------------------
(* Edits behind an item of the walk.                                       *)

\* Up to an item in front of which nothing has changed, the walk is the same.
LEMMA SamePrefix ==
    ASSUME NEW m, Framed(m), NEW m2, Framed(m2), NEW p \in TagOffsets(m, 0),
           p <= fdt_size_dt_struct(m2), SameWords(m, 0, m2, 0, p)
    PROVE  /\ p \in TagOffsets(m2, 0)
           /\ \A x \in 0 .. p : x \in TagOffsets(m2, 0) <=> x \in TagOffsets(m, 0)
           /\ \A x \in TagOffsets(m, 0) :
                x < p => fdt_next_tag(m2, x).tag = fdt_next_tag(m, x).tag
<1> DEFINE T  == TagOffsets(m, 0)
           T2 == TagOffsets(m2, 0)
<1>0. MemSize \in Nat /\ 0 \in 0 .. MemSize
  BY MemAssumption
<1>1. /\ T \subseteq 0 .. MemSize /\ T2 \subseteq 0 .. MemSize /\ 0 \in T /\ 0 \in T2
      /\ p \in Nat /\ \A x \in T : x \in Nat
  BY <1>0, TagOffsetsUnfold
<1>2. IsChain(m, 0) /\ IsChain(m2, 0)
  BY <1>0, WalkIsChain
<1>3. ASSUME NEW x \in T, x < p
      PROVE  /\ Leads(m, x) /\ NextOf(m, x) \in T /\ NextOf(m, x) <= p
             /\ Leads(m2, x) /\ NextOf(m2, x) = NextOf(m, x)
             /\ fdt_next_tag(m2, x).tag = fdt_next_tag(m, x).tag
  <2>1. Leads(m, x) /\ NextOf(m, x) <= p /\ NextOf(m, x) \in T
    BY <1>2, <1>3, Zenon DEF IsChain
  <2>2. x \in Nat /\ NextOf(m, x) \in Nat /\ x < NextOf(m, x)
    BY <1>1, <2>1, LeadsOn
  <2> DEFINE n == NextOf(m, x) - x
  <2>3. n \in Nat /\ x + n = NextOf(m, x) /\ x + n <= p
    BY <2>1, <2>2
  <2>4. SameWords(m, x, m2, x, n)
    <3> SUFFICES ASSUME NEW i \in 0 .. n - 1 PROVE At(m2, x + i) = At(m, x + i)
      BY DEF SameWords
    <3> HIDE DEF n
    <3>1. x + i \in 0 .. p - 1 /\ 0 + (x + i) = x + i
      BY <1>1, <2>2, <2>3
    <3> QED BY <3>1 DEF SameWords
  <2>5. x + n <= fdt_size_dt_struct(m2) /\ x + n = fdt_next_tag(m, x).next
    <3>1. fdt_size_dt_struct(m2) \in Nat
      BY FramedFacts
    <3> HIDE DEF n
    <3> QED BY <1>1, <2>2, <2>3, <3>1 DEF NextOf
  <2>6. /\ fdt_next_tag(m2, x).tag = fdt_next_tag(m, x).tag
        /\ fdt_next_tag(m2, x).next = x + n
    <3> HIDE DEF n
    <3> QED BY <2>2, <2>3, <2>4, <2>5, NextTagShift
  <2> HIDE DEF n
  <2> QED BY <2>1, <2>3, <2>6 DEF Leads, NextOf
<1>4. ASSUME NEW x \in T, x <= p PROVE x \in T2
  <2> DEFINE P == {y \in 0 .. MemSize : y <= p => y \in T2}
  <2>1. 0 \in P
    BY <1>0, <1>1
  <2>2. \A y \in T : y \in P /\ Leads(m, y) => NextOf(m, y) \in P
    <3> SUFFICES ASSUME NEW y \in T, y \in P, Leads(m, y) PROVE NextOf(m, y) \in P
      OBVIOUS
    <3>1. y \in Nat /\ y < NextOf(m, y) /\ NextOf(m, y) \in 0 .. MemSize
      BY <1>0, <1>1, LeadsOn
    <3>2. CASE y < p
      <4>1. y \in T2
        BY <1>1, <3>1, <3>2
      <4>2. NextOf(m2, y) \in T2
        BY <1>2, <1>3, <3>2, <4>1 DEF IsChain
      <4> QED BY <1>3, <3>1, <3>2, <4>2
    <3>3. CASE ~(y < p)
      BY <1>1, <3>1, <3>3
    <3> QED BY <3>2, <3>3
  <2>3. T \subseteq P
    <3> HIDE DEF P
    <3> QED BY <1>0, <2>1, <2>2, WalkInduction
  <2> QED BY <1>4, <2>3
<1>5. ASSUME NEW x \in T2, x <= p PROVE x \in T
  <2> DEFINE P == {y \in 0 .. MemSize : y <= p => y \in T}
  <2>1. 0 \in P
    BY <1>0, <1>1
  <2>2. \A y \in T2 : y \in P /\ Leads(m2, y) => NextOf(m2, y) \in P
    <3> SUFFICES ASSUME NEW y \in T2, y \in P, Leads(m2, y) PROVE NextOf(m2, y) \in P
      OBVIOUS
    <3>1. y \in Nat /\ y < NextOf(m2, y) /\ NextOf(m2, y) \in 0 .. MemSize
      BY <1>0, <1>1, LeadsOn
    <3>2. CASE y < p
      <4>1. y \in T
        BY <1>1, <3>1, <3>2
      <4> QED BY <1>3, <3>1, <3>2, <4>1
    <3>3. CASE ~(y < p)
      BY <1>1, <3>1, <3>3
    <3> QED BY <3>2, <3>3
  <2>3. T2 \subseteq P
    <3> HIDE DEF P
    <3> QED BY <1>0, <2>1, <2>2, WalkInduction
  <2> QED BY <1>5, <2>3
<1>6. \A x \in 0 .. p : x \in T2 <=> x \in T
  BY <1>4, <1>5
<1>7. p \in T2
  BY <1>1, <1>4
<1> QED BY <1>3, <1>6, <1>7

\* The nodes of a walk are the offsets with the tag of a node.
LEMMA NodesOfWalk ==
    ASSUME NEW m, NEW x
    PROVE  x \in Nodes(Walk(m, 0)) <=>
             x \in TagOffsets(m, 0) /\ fdt_next_tag(m, x).tag = FDT_BEGIN_NODE
<1>1. ASSUME NEW t PROVE Item(m, t).at = t /\ Item(m, t).tag = fdt_next_tag(m, t).tag
  BY Zenon DEF Item
<1>2. ASSUME x \in Nodes(Walk(m, 0))
      PROVE  x \in TagOffsets(m, 0) /\ fdt_next_tag(m, x).tag = FDT_BEGIN_NODE
  <2>1. PICK y \in Walk(m, 0) : y.tag = FDT_BEGIN_NODE /\ y.at = x
    BY <1>2 DEF Nodes, Tagged
  <2>2. PICK t \in TagOffsets(m, 0) : y = Item(m, t)
    BY DEF Walk
  <2> QED BY <1>1, <2>1, <2>2
<1>3. ASSUME x \in TagOffsets(m, 0), fdt_next_tag(m, x).tag = FDT_BEGIN_NODE
      PROVE  x \in Nodes(Walk(m, 0))
  <2>1. Item(m, x) \in Walk(m, 0)
    BY <1>3 DEF Walk
  <2>2. Item(m, x) \in Tagged(Walk(m, 0), {FDT_BEGIN_NODE})
    BY <1>1, <1>3, <2>1 DEF Tagged
  <2> QED BY <1>1, <2>2 DEF Nodes
<1> QED BY <1>2, <1>3

\* Numbers follow the order of the nodes.
LEMMA NumberOrder ==
    ASSUME NEW N, N \subseteq 0 .. MemSize, NEW t \in N, NEW o \in N,
           Cardinality({u \in N : u <= t}) <= Cardinality({u \in N : u <= o})
    PROVE  t <= o
<1> DEFINE A == {u \in N : u <= o}
           B == {u \in N : u <= t}
<1>0. MemSize \in Nat
  BY MemAssumption
<1>1. SUFFICES ASSUME ~(t <= o) PROVE FALSE
  OBVIOUS
<1>2. t \in Nat /\ o \in Nat /\ o < t /\ \A u \in N : u \in Nat
  BY <1>0, <1>1
<1>3. A \subseteq B /\ t \in B /\ t \notin A
  <2>1. \A u \in N : u <= o => u <= t
    BY <1>2
  <2>2. t <= t /\ ~(t <= o)
    BY <1>2
  <2> QED BY <2>1, <2>2, Zenon
<1>4. IsFiniteSet(B)
  <2>0. 0 \in Int /\ MemSize \in Int
    BY <1>0
  <2>1. IsFiniteSet(0 .. MemSize)
    BY <2>0, FS_Interval
  <2> QED BY <2>1, FS_Subset
<1>5. Cardinality(A) < Cardinality(B) /\ Cardinality(A) \in Nat /\ Cardinality(B) \in Nat
  <2> HIDE DEF A, B
  <2>1. A \in SUBSET B /\ A # B
    BY <1>3
  <2>2. IsFiniteSet(A) /\ Cardinality(A) <= Cardinality(B) /\ Cardinality(A) # Cardinality(B)
    BY <1>4, <2>1, FS_Subset
  <2>3. Cardinality(A) \in Nat /\ Cardinality(B) \in Nat
    BY <1>4, <2>2, FS_CardinalityType
  <2> QED BY <2>2, <2>3
<1> HIDE DEF A, B
<1> QED BY <1>5 DEF A, B

\* The nodes up to that item, if it is one and stays one, keep their numbers.
LEMMA SameNumbers ==
    ASSUME NEW m, Framed(m), NEW m2, Framed(m2), NEW p \in Nodes(Walk(m, 0)),
           p <= fdt_size_dt_struct(m2), SameWords(m, 0, m2, 0, p),
           fdt_next_tag(m2, p).tag = FDT_BEGIN_NODE,
           NEW t \in Nodes(Walk(m, 0)), NodeNo(Walk(m, 0), t) <= NodeNo(Walk(m, 0), p)
    PROVE  t <= p /\ NodeNo(Walk(m2, 0), t) = NodeNo(Walk(m, 0), t)
<1> DEFINE N  == Nodes(Walk(m, 0))
           N2 == Nodes(Walk(m2, 0))
<1>0. MemSize \in Nat /\ 0 \in 0 .. MemSize
  BY MemAssumption
<1>1. /\ p \in TagOffsets(m, 0) /\ fdt_next_tag(m, p).tag = FDT_BEGIN_NODE
      /\ N \subseteq 0 .. MemSize /\ N2 \subseteq 0 .. MemSize
  BY <1>0, TagOffsetsUnfold, NodesOfWalk
<1>2. t <= p
  <2>1. Cardinality({u \in N : u <= t}) <= Cardinality({u \in N : u <= p})
    BY DEF NodeNo
  <2> HIDE DEF N
  <2> QED BY <1>1, <2>1, NumberOrder DEF N
<1>3. p \in Nat /\ t \in Nat
  BY <1>1
<1>4. \A x \in 0 .. p : x \in N2 <=> x \in N
  <2> TAKE x \in 0 .. p
  <2>1. x \in TagOffsets(m2, 0) <=> x \in TagOffsets(m, 0)
    BY <1>1, SamePrefix
  <2>2. CASE x = p
    BY <1>1, <2>1, <2>2, NodesOfWalk
  <2>3. CASE x # p
    <3>1. x < p
      BY <1>3, <2>3
    <3>2. x \in TagOffsets(m, 0) => fdt_next_tag(m2, x).tag = fdt_next_tag(m, x).tag
      BY <1>1, <3>1, SamePrefix
    <3> QED BY <2>1, <3>2, NodesOfWalk
  <2> QED BY <2>2, <2>3
<1>5. {u \in N2 : u <= t} = {u \in N : u <= t} /\ t \in N2
  <2>1. \A u \in N \cup N2 : u <= t => u \in 0 .. p
    BY <1>0, <1>1, <1>2, <1>3
  <2> HIDE DEF N, N2
  <2>2. t \in 0 .. p
    BY <1>2, <1>3
  <2>3. t \in N
    BY DEF N
  <2> QED BY <1>4, <2>1, <2>2, <2>3
<1> QED BY <1>2, <1>5 DEF NodeNo

-----------------------------------------------------------------------------
(* What an edit leaves alone.                                              *)

\* Nothing has changed, or less than was said.
LEMMA KeptSame ==
    ASSUME NEW m, Good(m), NEW e, e <= fdt_size_dt_struct(m)
    PROVE  Kept(m, m, e)
  BY GoodFacts DEF Kept

\* What keeps d words keeps fewer.
LEMMA KeptLess ==
    ASSUME NEW m, Good(m), NEW b, NEW d \in Int, Kept(m, b, d), NEW e \in Nat, e <= d
    PROVE  Kept(m, b, e)
<1>1. b \in Memory /\ fdt_size_dt_struct(b) \in Nat /\ fdt_off_dt_struct(m) \in Nat
  BY GoodFacts, HeaderNat DEF Kept
<1> QED BY <1>1 DEF Kept

\* One edit after the other.
LEMMA KeptTwice ==
    ASSUME NEW m, NEW b, NEW c, NEW e, Kept(m, b, e), Kept(b, c, e)
    PROVE  Kept(m, c, e)
  BY DEF Kept

\* What is kept ends inside the memory and starts behind the header.
LEMMA KeptFacts ==
    ASSUME NEW m, Good(m), NEW e \in Nat, e <= fdt_size_dt_struct(m)
    PROVE  /\ MemSize \in Nat /\ fdt_off_dt_struct(m) \in Nat
           /\ 14 <= fdt_off_dt_struct(m) /\ fdt_off_dt_struct(m) + e <= MemSize
<1>1. /\ MemSize \in Nat /\ fdt_off_dt_struct(m) \in Nat /\ fdt_off_mem_rsvmap(m) \in Nat
      /\ fdt_size_dt_struct(m) \in Nat /\ fdt_size_dt_strings(m) \in Nat
      /\ fdt_off_dt_strings(m) \in Nat /\ fdt_totalsize(m) \in Nat /\ BufSize \in Nat
      /\ 10 <= fdt_off_mem_rsvmap(m) /\ fdt_off_mem_rsvmap(m) + 4 <= fdt_off_dt_struct(m)
      /\ fdt_off_dt_struct(m) + fdt_size_dt_struct(m) <= fdt_off_dt_strings(m)
      /\ fdt_off_dt_strings(m) + fdt_size_dt_strings(m) <= fdt_totalsize(m)
      /\ fdt_totalsize(m) <= BufSize /\ BufSize <= MemSize
  BY GoodFacts
<1> QED BY <1>1

\* An edit that writes behind it only keeps it.
LEMMA KeptMore ==
    ASSUME NEW m, Good(m), NEW e \in Nat, e <= fdt_size_dt_struct(m),
           NEW b, Kept(m, b, e), NEW c \in Memory,
           \A a \in 0 .. fdt_off_dt_struct(m) + e - 1 : c[a] = b[a]
    PROVE  Kept(m, c, e)
<1>1. fdt_off_dt_struct(m) \in Nat /\ 14 <= fdt_off_dt_struct(m)
  BY KeptFacts
<1>2. c[2] = b[2] /\ c[9] = b[9]
  BY <1>1
<1>3. fdt_off_dt_struct(c) = fdt_off_dt_struct(b) /\ fdt_size_dt_struct(c) = fdt_size_dt_struct(b)
  BY <1>2 DEF fdt_off_dt_struct, fdt_size_dt_struct
<1>4. \A a \in fdt_off_dt_struct(m) .. fdt_off_dt_struct(m) + e - 1 : c[a] = m[a]
  <2> TAKE a \in fdt_off_dt_struct(m) .. fdt_off_dt_struct(m) + e - 1
  <2>1. a \in 0 .. fdt_off_dt_struct(m) + e - 1
    BY <1>1
  <2> QED BY <2>1 DEF Kept
<1> QED BY <1>3, <1>4 DEF Kept

\* A number stored behind it, bytes copied behind it, a splice behind it.
LEMMA KeptSet ==
    ASSUME NEW m, Good(m), NEW e \in Nat, e <= fdt_size_dt_struct(m),
           NEW b, Kept(m, b, e), NEW a \in Nat, fdt_off_dt_struct(m) + e <= a, NEW x \in Nat
    PROVE  Kept(m, Set(b, a, x), e)
<1> DEFINE c == Set(b, a, x)
<1>1. /\ MemSize \in Nat /\ fdt_off_dt_struct(m) \in Nat
      /\ fdt_off_dt_struct(m) + e <= MemSize
  BY KeptFacts
<1>2. c \in Memory /\ \A i \in 0 .. MemSize - 1 : i # a => c[i] = b[i]
  BY SetMemory DEF Kept
<1> HIDE DEF c
<1>3. \A i \in 0 .. fdt_off_dt_struct(m) + e - 1 : c[i] = b[i]
  BY <1>1, <1>2
<1>4. Kept(m, c, e)
  BY <1>2, <1>3, KeptMore
<1> QED BY <1>4 DEF c

\* What stays in front when bytes are copied behind it,
LEMMA KeptCopy ==
    ASSUME NEW m, Good(m), NEW e \in Nat, e <= fdt_size_dt_struct(m),
           NEW b, Kept(m, b, e), NEW a \in Nat, fdt_off_dt_struct(m) + e <= a,
           NEW at \in Nat, NEW val \in Seq(Byte)
    PROVE  Kept(m, CopyBytes(b, a, at, val), e)
<1> DEFINE c == CopyBytes(b, a, at, val)
           n == Words(at + Len(val))
<1>1. /\ MemSize \in Nat /\ fdt_off_dt_struct(m) \in Nat
      /\ fdt_off_dt_struct(m) + e <= MemSize
  BY KeptFacts
<1>2. c \in Memory /\ \A x \in 0 .. MemSize - 1 : x < a \/ x >= a + n => c[x] = b[x]
  <2>1. b \in Memory
    BY DEF Kept
  <2> QED BY <2>1, CopyMemory, Zenon
<1> HIDE DEF c, n
<1>3. \A i \in 0 .. fdt_off_dt_struct(m) + e - 1 : c[i] = b[i]
  <2> TAKE i \in 0 .. fdt_off_dt_struct(m) + e - 1
  <2>1. i \in 0 .. MemSize - 1 /\ i < a
    BY <1>1
  <2> QED BY <1>2, <2>1
<1>4. Kept(m, c, e)
  BY <1>2, <1>3, KeptMore
<1> QED BY <1>4 DEF c

\* when cells are stored behind it,
LEMMA KeptStore ==
    ASSUME NEW m, Good(m), NEW e \in Nat, e <= fdt_size_dt_struct(m),
           NEW b, Kept(m, b, e), NEW a \in Nat, fdt_off_dt_struct(m) + e <= a,
           NEW cells, Store(b, a, cells) \in Memory
    PROVE  Kept(m, Store(b, a, cells), e)
<1> DEFINE c == Store(b, a, cells)
<1>1. /\ MemSize \in Nat /\ fdt_off_dt_struct(m) \in Nat
      /\ fdt_off_dt_struct(m) + e <= MemSize
  BY KeptFacts
<1>2. b \in Memory /\ DOMAIN b = 0 .. MemSize - 1
  BY DEF Kept, Memory
<1>3. \A x \in 0 .. MemSize - 1 : x \notin a .. a + Len(cells) - 1 => c[x] = b[x]
  BY <1>2 DEF Store
<1> HIDE DEF c
<1>4. \A i \in 0 .. fdt_off_dt_struct(m) + e - 1 : c[i] = b[i]
  <2> TAKE i \in 0 .. fdt_off_dt_struct(m) + e - 1
  <2>1. i \in 0 .. MemSize - 1 /\ i < a
    BY <1>1
  <2>2. i \notin a .. a + Len(cells) - 1
    BY <2>1
  <2> QED BY <1>3, <2>1, <2>2
<1>5. Kept(m, c, e)
  BY <1>4, KeptMore DEF c
<1> QED BY <1>5 DEF c

\* when tags behind it are overwritten with FDT_NOP,
LEMMA KeptNops ==
    ASSUME NEW m, Good(m), NEW e \in Nat, e <= fdt_size_dt_struct(m),
           NEW a \in Nat, fdt_off_dt_struct(m) + e <= a, NEW n,
           fdt_nop_region_(m, a, n) \in Memory
    PROVE  Kept(m, fdt_nop_region_(m, a, n), e)
<1> DEFINE c == fdt_nop_region_(m, a, n)
<1>1. /\ MemSize \in Nat /\ fdt_off_dt_struct(m) \in Nat
      /\ fdt_off_dt_struct(m) + e <= MemSize
  BY KeptFacts
<1>2. DOMAIN m = 0 .. MemSize - 1
  BY GoodFacts DEF Memory
<1>3. \A x \in 0 .. MemSize - 1 : x \notin a .. a + n - 1 => c[x] = m[x]
  BY <1>2 DEF fdt_nop_region_
<1> HIDE DEF c
<1>4. \A i \in 0 .. fdt_off_dt_struct(m) + e - 1 : c[i] = m[i]
  <2> TAKE i \in 0 .. fdt_off_dt_struct(m) + e - 1
  <2>1. i \in 0 .. MemSize - 1 /\ i < a
    BY <1>1
  <2>2. i \notin a .. a + n - 1
    BY <2>1
  <2> QED BY <1>3, <2>1, <2>2
<1>5. Kept(m, c, e)
  BY <1>4, KeptSame, KeptMore DEF c
<1> QED BY <1>5 DEF c

\* and when words are put in or taken out behind it.
LEMMA KeptSplice ==
    ASSUME NEW m, Good(m), NEW e \in Nat, e <= fdt_size_dt_struct(m),
           NEW b, Good(b), Kept(m, b, e), NEW p \in Nat, NEW oldlen \in Nat,
           NEW newlen \in Nat, fdt_off_dt_struct(m) + e <= p,
           p + oldlen <= fdt_off_dt_struct(b) + fdt_size_dt_struct(b)
    PROVE  Kept(m, fdt_splice_struct_(b, p, oldlen, newlen).m, e)
<1> DEFINE r == fdt_splice_struct_(b, p, oldlen, newlen)
<1>1. fdt_off_dt_struct(b) = fdt_off_dt_struct(m) /\ fdt_off_dt_struct(m) \in Nat
  BY GoodFacts DEF Kept
<1>2. Kept(b, r.m, p - fdt_off_dt_struct(b))
  BY <1>1, SpliceStruct
<1>3. p - fdt_off_dt_struct(b) \in Int /\ e <= p - fdt_off_dt_struct(b)
  BY <1>1
<1> HIDE DEF r
<1>4. Kept(b, r.m, e)
  BY <1>2, <1>3, KeptLess
<1> QED BY <1>4, KeptTwice DEF r

-----------------------------------------------------------------------------
(* The calls leave alone what lies in front of the contents of their node. *)

\* A property that is found lies among the contents.
LEMMA PropertyBehind ==
    ASSUME NEW m, Good(m), NEW o \in Nat, NEW name, fdt_get_property(m, o, name) >= 0
    PROVE  /\ fdt_check_node_offset_(m, o) >= 0
           /\ fdt_check_node_offset_(m, o) <= fdt_get_property(m, o, name)
<1> DEFINE next == fdt_check_node_offset_(m, o)
           w    == Walk(m, next)
           stop == AfterProps(w)
           hits == {x \in Tagged(w, {FDT_PROP}) :
                        /\ x.at < stop.at
                        /\ fdt_string(m, Value(At(m, x.at + 2))) = name}
<1>1. next \in Int
  BY CheckNode
<1>2. next >= 0
  <2> SUFFICES ASSUME next < 0 PROVE FALSE
    BY <1>1
  <2>1. fdt_get_property(m, o, name) = next
    BY DEF fdt_get_property
  <2> HIDE DEF next
  <2> QED BY <1>1, <2>1
<1>3. fdt_get_property(m, o, name) =
        IF hits # {} THEN First(hits).at
        ELSE IF stop.tag # FDT_END THEN -FDT_ERR_NOTFOUND
        ELSE IF stop.next >= 0 THEN -FDT_ERR_BADSTRUCTURE
        ELSE stop.next
  BY <1>1, <1>2 DEF fdt_get_property, PropertyIn
<1>4. stop.next \in Int
  BY <1>1, <1>2, WalkStop, GoodReadable
<1>5. hits # {}
  <2> HIDE DEF hits, stop
  <2> QED BY <1>3, <1>4
<1>6. hits \subseteq w
  BY DEF Tagged
<1>7. First(hits).at \in Nat /\ First(hits).at >= next
  <2> HIDE DEF hits, next
  <2>1. next \in Nat
    BY <1>1, <1>2
  <2> QED BY <1>5, <1>6, <2>1, WalkFirst
<1> HIDE DEF hits, stop, next
<1>8. fdt_get_property(m, o, name) = First(hits).at
  BY <1>3, <1>5
<1> QED BY <1>1, <1>2, <1>7, <1>8 DEF next

\* The facts of a property that is found.
LEMMA PropertyPlace ==
    ASSUME NEW m, Good(m), NEW o \in Nat, NEW name, NEW e \in Nat,
           e <= fdt_check_node_offset_(m, o), NEW prop,
           prop = fdt_get_property(m, o, name), prop >= 0
    PROVE  /\ prop \in Nat /\ e <= prop /\ PropLen(m, prop) \in Nat
           /\ Words(PropLen(m, prop)) \in Nat
           /\ prop + PropSize + Words(PropLen(m, prop)) <= fdt_size_dt_struct(m)
           /\ fdt_off_dt_struct(m) \in Nat /\ fdt_size_dt_struct(m) \in Nat
<1>1. fdt_off_dt_struct(m) \in Nat /\ fdt_size_dt_struct(m) \in Nat
      /\ fdt_check_node_offset_(m, o) \in Int
  BY GoodFacts, CheckNode
<1>2. /\ prop \in Int /\ PropLen(m, prop) \in Nat
      /\ prop + PropSize + Words(PropLen(m, prop)) <= fdt_size_dt_struct(m)
  BY GetProperty
<1>3. fdt_check_node_offset_(m, o) <= prop
  BY PropertyBehind
<1> QED BY <1>1, <1>2, <1>3, WordsNat

\* fdt_resize_property_
LEMMA ResizeKept ==
    ASSUME NEW m, Good(m), NEW o \in Nat, NEW name, NEW len \in Nat,
           NEW e \in Nat, e <= fdt_check_node_offset_(m, o), e <= fdt_size_dt_struct(m)
    PROVE  LET f == fdt_resize_property_(m, o, name, len)
           IN  /\ Kept(m, f.m, e)
               /\ f.ret = 0 => f.p \in Nat /\ fdt_off_dt_struct(m) + e <= f.p
<1> DEFINE prop == fdt_get_property(m, o, name)
           r    == fdt_splice_struct_(m, PropData(m, prop),
                                      Words(PropLen(m, prop)), Words(len))
           p    == fdt_off_dt_struct(m) + prop
           f    == fdt_resize_property_(m, o, name, len)
<1>0. prop \in Int
  BY GetProperty
<1>1. CASE prop < 0
  <2>1. f = [ret |-> prop, m |-> m, p |-> 0]
    BY <1>1 DEF fdt_resize_property_, ResizeAt, Return
  <2>2. f.ret # 0 /\ f.m = m
    <3> HIDE DEF f, prop
    <3> QED BY <1>0, <1>1, <2>1
  <2> HIDE DEF f
  <2> QED BY <2>2, KeptSame DEF f
<1>2. CASE prop >= 0
  <2> DEFINE data == PropData(m, prop)
             W1   == Words(PropLen(m, prop))
             W2   == Words(len)
  <2>1. /\ prop \in Nat /\ e <= prop /\ W1 \in Nat /\ W2 \in Nat
        /\ prop + PropSize + W1 <= fdt_size_dt_struct(m)
        /\ fdt_off_dt_struct(m) \in Nat /\ fdt_size_dt_struct(m) \in Nat
    BY <1>2, PropertyPlace, WordsNat
  <2>2. /\ data \in Nat /\ fdt_off_dt_struct(m) + e <= data
        /\ data + W1 <= fdt_off_dt_struct(m) + fdt_size_dt_struct(m)
        /\ p \in Nat /\ p + 1 \in Nat /\ fdt_off_dt_struct(m) + e <= p
        /\ fdt_off_dt_struct(m) + e <= p + 1
    <3>1. data = fdt_off_dt_struct(m) + prop + 3
      BY DEF PropData
    <3> HIDE DEF data, prop, W1
    <3> QED BY <2>1, <3>1
  <2>3. Kept(m, r.m, e)
    <3>1. Kept(m, m, e)
      BY KeptSame
    <3> HIDE DEF data, W1, W2
    <3>2. r = fdt_splice_struct_(m, data, W1, W2)
      BY DEF data, W1, W2
    <3> HIDE DEF r
    <3> QED BY <2>1, <2>2, <3>1, <3>2, KeptSplice
  <2>4. f = IF r.ret # 0 THEN r ELSE [ret |-> 0, m |-> Set(r.m, p + 1, len), p |-> p]
    <3>1. ~(prop < 0)
      BY <1>0, <1>2
    <3> QED BY <3>1 DEF fdt_resize_property_, ResizeAt
  <2> HIDE DEF f, r, p
  <2>5. CASE r.ret # 0
    BY <2>3, <2>4, <2>5 DEF f
  <2>6. CASE r.ret = 0
    <3>1. f.m = Set(r.m, p + 1, len) /\ f.p = p
      BY <2>4, <2>6
    <3>2. Kept(m, f.m, e)
      BY <2>2, <2>3, <3>1, KeptSet
    <3> QED BY <2>2, <3>1, <3>2 DEF f
  <2> QED BY <2>5, <2>6
<1> QED BY <1>0, <1>1, <1>2

\* fdt_add_property_
LEMMA AddPropertyKept ==
    ASSUME NEW m, Good(m), NEW o \in Nat, NEW name \in Names, NEW t \in Nat,
           NEW len \in Nat,
           NEW e \in Nat, e <= fdt_check_node_offset_(m, o), e <= fdt_size_dt_struct(m)
    PROVE  LET f == fdt_add_property_(m, o, name, t, len)
           IN  /\ Kept(m, f.m, e)
               /\ f.ret = 0 => f.p \in Nat /\ fdt_off_dt_struct(m) + e <= f.p
<1> DEFINE next == fdt_check_node_offset_(m, o)
           r    == fdt_find_add_string_(m, name, t)
           b    == r.m
           p    == fdt_off_dt_struct(b) + next
           W    == PropSize + Words(len)
           r2   == fdt_splice_struct_(b, p, 0, W)
           c1   == Set(r2.m, p, FDT_PROP)
           c2   == Set(c1, p + 2, r.ret)
           c3   == Set(c2, p + 1, len)
           f    == fdt_add_property_(m, o, name, t, len)
<1>0. /\ fdt_off_dt_struct(m) \in Nat /\ fdt_size_dt_struct(m) \in Nat /\ W \in Nat
      /\ next \in Nat /\ e <= next /\ next <= fdt_size_dt_struct(m)
  <2>1. next \in Int /\ (next >= 0 => next <= fdt_size_dt_struct(m))
    BY CheckNode
  <2>2. Words(len) \in Nat /\ e <= next
    BY WordsNat
  <2> HIDE DEF next
  <2> QED BY <2>1, <2>2, GoodFacts
<1>1. f = IF r.ret < 0 THEN r
          ELSE IF r2.ret # 0 THEN r2
          ELSE [ret |-> 0, p |-> p, m |-> c3]
  <2>1. ~(next < 0)
    BY <1>0
  <2> QED BY <2>1, Zenon DEF fdt_add_property_
<1>2. /\ Good(b) /\ fdt_off_dt_struct(b) = fdt_off_dt_struct(m) /\ r.ret \in Int
      /\ fdt_size_dt_struct(b) = fdt_size_dt_struct(m)
      /\ Kept(m, b, fdt_size_dt_struct(m))
  BY FindAddString DEF Edited
<1>3. Kept(m, b, e)
  <2> HIDE DEF b
  <2>1. fdt_size_dt_struct(m) \in Int
    BY <1>0
  <2> QED BY <1>2, <2>1, KeptLess
<1>4. CASE r.ret < 0
  <2>1. f = r
    BY <1>1, <1>4
  <2>2. f.ret # 0
    BY <1>2, <1>4, <2>1
  <2> QED BY <1>3, <2>1, <2>2
<1>5. CASE ~(r.ret < 0)
  <2>1. /\ p \in Nat /\ p + 1 \in Nat /\ p + 2 \in Nat /\ fdt_off_dt_struct(m) + e <= p
        /\ fdt_off_dt_struct(m) + e <= p + 1 /\ fdt_off_dt_struct(m) + e <= p + 2
        /\ p + 0 <= fdt_off_dt_struct(b) + fdt_size_dt_struct(b)
    <3> HIDE DEF b, next
    <3> QED BY <1>0, <1>2
  <2>2. Kept(m, r2.m, e)
    <3> HIDE DEF p, b, W
    <3>1. r2 = fdt_splice_struct_(b, p, 0, W)
      OBVIOUS
    <3> HIDE DEF r2
    <3> QED BY <1>0, <1>2, <1>3, <2>1, <3>1, KeptSplice
  <2>3. CASE r2.ret # 0
    <3>1. f = r2
      BY <1>1, <1>5, <2>3
    <3> QED BY <2>2, <2>3, <3>1
  <2>4. CASE r2.ret = 0
    <3>1. f = [ret |-> 0, p |-> p, m |-> c3]
      <4> HIDE DEF f, r, r2, p, c3
      <4> QED BY <1>1, <1>5, <2>4
    <3>2. r.ret \in Nat
      BY <1>2, <1>5
    <3>3. Kept(m, c1, e)
      <4> HIDE DEF p, r2
      <4> QED BY <2>1, <2>2, KeptSet
    <3>4. Kept(m, c2, e)
      <4> HIDE DEF p, c1, r
      <4> QED BY <2>1, <3>2, <3>3, KeptSet
    <3>5. Kept(m, c3, e)
      <4> HIDE DEF p, c2
      <4> QED BY <2>1, <3>4, KeptSet
    <3>6. f.m = c3 /\ f.p = p
      <4> HIDE DEF f, c3, p
      <4> QED BY <3>1
    <3> HIDE DEF f, c3, p
    <3> QED BY <2>1, <3>5, <3>6 DEF f
  <2> QED BY <2>3, <2>4
<1> QED BY <1>4, <1>5

\* The value is copied into the property.
LEMMA FilledKept ==
    ASSUME NEW m, Good(m), NEW e \in Nat, e <= fdt_size_dt_struct(m),
           NEW r, Kept(m, r.m, e), NEW val \in Seq(Byte),
           r.ret = 0 => r.p \in Nat /\ fdt_off_dt_struct(m) + e <= r.p
    PROVE  Kept(m, Filled(r, val).m, e)
<1>1. CASE r.ret # 0
  BY <1>1 DEF Filled
<1>2. CASE r.ret = 0
  <2> DEFINE b == r.m
             a == r.p + PropSize
             f == Filled(r, val)
  <2>1. f = [ret |-> 0, m |-> CopyBytes(b, a, 0, val), p |-> 0]
    BY <1>2 DEF Filled, Return
  <2>2. f.m = CopyBytes(b, a, 0, val)
    <3> HIDE DEF f, a, b
    <3> QED BY <2>1
  <2>3. a \in Nat /\ fdt_off_dt_struct(m) + e <= a
    <3>1. fdt_off_dt_struct(m) \in Nat
      BY GoodFacts
    <3> QED BY <1>2, <3>1
  <2> HIDE DEF a, b, f
  <2>4. Kept(m, f.m, e)
    BY <2>2, <2>3, KeptCopy DEF b
  <2> QED BY <2>4 DEF f
<1> QED BY <1>1, <1>2

\* fdt_setprop
LEMMA SetPropKept ==
    ASSUME NEW m, Good(m), NEW o \in Nat, NEW name \in Names, NEW t \in Nat,
           NEW val \in Seq(Byte), fdt_check_node_offset_(m, o) >= 0
    PROVE  Kept(m, SetProp(m, o, name, t, val).m, fdt_check_node_offset_(m, o))
<1> DEFINE e   == fdt_check_node_offset_(m, o)
           len == Len(val)
           r   == fdt_setprop_placeholder(m, o, name, t, len)
<1>1. e \in Nat /\ e <= fdt_check_node_offset_(m, o) /\ e <= fdt_size_dt_struct(m)
  BY CheckNode
<1>2. len \in Nat
  OBVIOUS
<1> HIDE DEF e, len
<1>3. \/ r = fdt_resize_property_(m, o, name, len)
      \/ r = fdt_add_property_(m, o, name, t, len)
  BY DEF fdt_setprop_placeholder
<1>4. /\ Kept(m, r.m, e)
      /\ r.ret = 0 => r.p \in Nat /\ fdt_off_dt_struct(m) + e <= r.p
  <2> HIDE DEF r
  <2> QED BY <1>1, <1>2, <1>3, ResizeKept, AddPropertyKept
<1>5. SetProp(m, o, name, t, val) = Filled(r, val)
  BY DEF SetProp, len
<1> HIDE DEF r
<1> QED BY <1>1, <1>4, <1>5, FilledKept DEF e

\* fdt_appendprop
LEMMA AppendPropKept ==
    ASSUME NEW m, Good(m), NEW o \in Nat, NEW name \in Names, NEW t \in Nat,
           NEW val \in Seq(Byte), fdt_check_node_offset_(m, o) >= 0
    PROVE  Kept(m, AppendProp(m, o, name, t, val).m, fdt_check_node_offset_(m, o))
<1> DEFINE e    == fdt_check_node_offset_(m, o)
           prop == fdt_get_property(m, o, name)
           len  == Len(val)
           a    == fdt_add_property_(m, o, name, t, len)
           f    == AppendProp(m, o, name, t, val)
<1>1. e \in Nat /\ e <= fdt_check_node_offset_(m, o) /\ e <= fdt_size_dt_struct(m)
  BY CheckNode
<1>2. len \in Nat
  OBVIOUS
<1>3. prop \in Int
  BY GetProperty
<1> HIDE DEF e
<1>4. CASE prop < 0
  <2>1. f = Filled(a, val)
    BY <1>3, <1>4 DEF AppendProp
  <2>2. /\ Kept(m, a.m, e)
        /\ a.ret = 0 => a.p \in Nat /\ fdt_off_dt_struct(m) + e <= a.p
    <3> HIDE DEF len
    <3> QED BY <1>1, <1>2, AddPropertyKept
  <2> HIDE DEF a, f
  <2>3. Kept(m, f.m, e)
    BY <1>1, <2>1, <2>2, FilledKept
  <2> QED BY <2>3 DEF e, f
<1>5. CASE prop >= 0
  <2> DEFINE oldlen == PropLen(m, prop)
             newlen == len + oldlen
             data   == PropData(m, prop)
             W1     == Words(oldlen)
             W2     == Words(newlen)
             r      == fdt_splice_struct_(m, data, W1, W2)
             x      == fdt_off_dt_struct(m) + prop + 1
             c      == Set(r.m, x, newlen)
             d      == CopyBytes(c, data, oldlen, val)
  <2>1. /\ prop \in Nat /\ e <= prop /\ oldlen \in Nat /\ W1 \in Nat
        /\ prop + PropSize + W1 <= fdt_size_dt_struct(m)
        /\ fdt_off_dt_struct(m) \in Nat /\ fdt_size_dt_struct(m) \in Nat
    BY <1>1, <1>5, PropertyPlace
  <2>2. newlen \in Nat /\ W2 \in Nat
    <3>1. newlen \in Nat
      <4> HIDE DEF len, oldlen
      <4> QED BY <1>2, <2>1
    <3> QED BY <3>1, WordsNat
  <2>3. /\ data \in Nat /\ fdt_off_dt_struct(m) + e <= data
        /\ data + W1 <= fdt_off_dt_struct(m) + fdt_size_dt_struct(m)
        /\ x \in Nat /\ fdt_off_dt_struct(m) + e <= x
    <3>1. data = fdt_off_dt_struct(m) + prop + 3
      BY DEF PropData
    <3> HIDE DEF data, prop, W1
    <3> QED BY SMTT(30), <1>1, <2>1, <3>1
  <2>4. Kept(m, r.m, e)
    <3>1. Kept(m, m, e)
      BY <1>1, KeptSame
    <3> HIDE DEF data, W1, W2
    <3>2. r = fdt_splice_struct_(m, data, W1, W2)
      OBVIOUS
    <3> HIDE DEF r
    <3> QED BY <1>1, <2>1, <2>2, <2>3, <3>1, <3>2, KeptSplice
  <2>5. f = IF r.ret # 0 THEN r ELSE [ret |-> 0, m |-> d, p |-> 0]
    BY <1>5 DEF AppendProp, AppendAt, Return
  <2>6. Kept(m, c, e)
    <3> HIDE DEF x, newlen, r
    <3> QED BY <1>1, <2>2, <2>3, <2>4, KeptSet
  <2>7. Kept(m, d, e)
    <3> HIDE DEF c, data, oldlen
    <3> QED BY <1>1, <2>1, <2>3, <2>6, KeptCopy
  <2>8. f.m = r.m \/ f.m = d
    <3> HIDE DEF f, r, d
    <3> QED BY <2>5
  <2> HIDE DEF f, r, d
  <2>9. Kept(m, f.m, e)
    BY <2>4, <2>7, <2>8
  <2> QED BY <2>9 DEF e, f
<1> QED BY <1>3, <1>4, <1>5

\* fdt_delprop
LEMMA DelPropKept ==
    ASSUME NEW m, Good(m), NEW o \in Nat, NEW name, fdt_check_node_offset_(m, o) >= 0
    PROVE  Kept(m, DelProp(m, o, name).m, fdt_check_node_offset_(m, o))
<1> DEFINE e    == fdt_check_node_offset_(m, o)
           prop == fdt_get_property(m, o, name)
           p    == fdt_off_dt_struct(m) + prop
           W    == Words(PropLen(m, prop))
           n    == PropSize + W
           f    == DelProp(m, o, name)
<1>1. e \in Nat /\ e <= fdt_check_node_offset_(m, o) /\ e <= fdt_size_dt_struct(m)
  BY CheckNode
<1>2. prop \in Int
  BY GetProperty
<1> HIDE DEF e
<1>3. Kept(m, m, e)
  BY <1>1, KeptSame
<1>4. CASE prop < 0
  <2>1. f.m = m
    BY <1>4 DEF DelProp, Return
  <2> QED BY <1>3, <2>1 DEF e
<1>5. CASE prop >= 0
  <2>1. /\ prop \in Nat /\ e <= prop /\ W \in Nat
        /\ prop + PropSize + W <= fdt_size_dt_struct(m)
        /\ fdt_off_dt_struct(m) \in Nat /\ fdt_size_dt_struct(m) \in Nat
    BY <1>1, <1>5, PropertyPlace
  <2>2. /\ p \in Nat /\ fdt_off_dt_struct(m) + e <= p /\ n \in Nat
        /\ p + n <= fdt_off_dt_struct(m) + fdt_size_dt_struct(m)
    <3> HIDE DEF prop, W
    <3> QED BY <1>1, <2>1
  <2>3. f = fdt_splice_struct_(m, p, n, 0)
    BY <1>2, <1>5 DEF DelProp
  <2> HIDE DEF f, p, n
  <2>4. Kept(m, f.m, e)
    BY <1>1, <1>3, <2>2, <2>3, KeptSplice
  <2> QED BY <2>4 DEF e, f
<1> QED BY <1>2, <1>4, <1>5

\* fdt_setprop_inplace_namelen_partial
LEMMA SetPropPartialKept ==
    ASSUME NEW m, Good(m), NEW o \in Nat, NEW name, NEW idx \in Nat,
           NEW val \in Seq(Byte), fdt_check_node_offset_(m, o) >= 0
    PROVE  Kept(m, SetPropPartial(m, o, name, idx, val).m, fdt_check_node_offset_(m, o))
<1> DEFINE e    == fdt_check_node_offset_(m, o)
           prop == fdt_get_property(m, o, name)
           data == PropData(m, prop)
           c    == CopyBytes(m, data, idx, val)
           f    == SetPropPartial(m, o, name, idx, val)
<1>1. e \in Nat /\ e <= fdt_check_node_offset_(m, o) /\ e <= fdt_size_dt_struct(m)
  BY CheckNode
<1>2. prop \in Int
  BY GetProperty
<1> HIDE DEF e
<1>3. Kept(m, m, e)
  BY <1>1, KeptSame
<1>4. CASE prop < 0
  <2>1. f.m = m
    BY <1>4 DEF SetPropPartial, Return
  <2> QED BY <1>3, <2>1 DEF e
<1>5. CASE prop >= 0
  <2>1. /\ prop \in Nat /\ e <= prop /\ fdt_off_dt_struct(m) \in Nat
    BY <1>1, <1>5, PropertyPlace
  <2>2. data \in Nat /\ fdt_off_dt_struct(m) + e <= data
    <3>1. data = fdt_off_dt_struct(m) + prop + 3
      BY DEF PropData
    <3> HIDE DEF data, prop
    <3> QED BY <1>1, <2>1, <3>1
  <2>3. f.m = m \/ f.m = c
    <3> HIDE DEF c
    <3> QED BY <1>5 DEF SetPropPartial, Return, c
  <2>4. Kept(m, c, e)
    <3> HIDE DEF data
    <3> QED BY <1>1, <1>3, <2>2, KeptCopy
  <2> HIDE DEF f, c
  <2>5. Kept(m, f.m, e)
    BY <1>3, <2>3, <2>4
  <2> QED BY <2>5 DEF e, f
<1> QED BY <1>2, <1>4, <1>5

\* fdt_setprop_inplace
LEMMA SetPropInplaceKept ==
    ASSUME NEW m, Good(m), NEW o \in Nat, NEW name, NEW val \in Seq(Byte),
           fdt_check_node_offset_(m, o) >= 0
    PROVE  Kept(m, SetPropInplace(m, o, name, val).m, fdt_check_node_offset_(m, o))
<1> DEFINE f == SetPropInplace(m, o, name, val)
<1>1. f = SetPropPartial(m, o, name, 0, val) \/ f.m = m
  BY DEF SetPropInplace, Return
<1> HIDE DEF f
<1>2. fdt_check_node_offset_(m, o) <= fdt_size_dt_struct(m)
  BY CheckNode
<1>3. Kept(m, f.m, fdt_check_node_offset_(m, o))
  BY <1>1, <1>2, SetPropPartialKept, KeptSame
<1> QED BY <1>3 DEF f

\* fdt_nop_property
LEMMA NopPropertyKept ==
    ASSUME NEW m, Good(m), NEW o \in Nat, NEW name, fdt_check_node_offset_(m, o) >= 0
    PROVE  Kept(m, NopProperty(m, o, name).m, fdt_check_node_offset_(m, o))
<1> DEFINE e    == fdt_check_node_offset_(m, o)
           prop == fdt_get_property(m, o, name)
           a    == fdt_off_dt_struct(m) + prop
           n    == PropSize + Words(PropLen(m, prop))
           c    == fdt_nop_region_(m, a, n)
           f    == NopProperty(m, o, name)
<1>1. e \in Nat /\ e <= fdt_check_node_offset_(m, o) /\ e <= fdt_size_dt_struct(m)
  BY CheckNode
<1>2. prop \in Int
  BY GetProperty
<1>3. f.m \in Memory
  BY NopPropertyEdited, GoodFacts DEF Edited
<1> HIDE DEF e
<1>4. CASE prop < 0
  <2>1. f.m = m
    BY <1>4 DEF NopProperty, Return
  <2> QED BY <1>1, <2>1, KeptSame DEF e
<1>5. CASE prop >= 0
  <2>1. /\ prop \in Nat /\ e <= prop /\ fdt_off_dt_struct(m) \in Nat
    BY <1>1, <1>5, PropertyPlace
  <2>2. a \in Nat /\ fdt_off_dt_struct(m) + e <= a
    <3> HIDE DEF prop
    <3> QED BY <1>1, <2>1
  <2>3. f.m = c
    <3>1. f = [ret |-> 0, m |-> c, p |-> 0]
      BY <1>2, <1>5 DEF NopProperty, Return
    <3> HIDE DEF f, c
    <3> QED BY <3>1
  <2>4. Kept(m, c, e)
    <3>1. c \in Memory
      BY <1>3, <2>3
    <3> HIDE DEF a, n
    <3> QED BY <1>1, <2>2, <3>1, KeptNops
  <2> QED BY <2>3, <2>4 DEF e
<1> QED BY <1>2, <1>4, <1>5

\* fdt_add_subnode_namelen
LEMMA AddSubnodeKept ==
    ASSUME NEW m, Good(m), NEW o \in Nat, NEW name \in [s : Names, namelen : Nat],
           fdt_check_node_offset_(m, o) >= 0
    PROVE  Kept(m, AddSubnode(m, o, name).m, fdt_check_node_offset_(m, o))
<1> DEFINE e     == fdt_check_node_offset_(m, o)
           found == fdt_subnode_offset_namelen(m, o, name)
           at    == AfterProps(Walk(m, fdt_next_tag(m, o).next)).at
           nh    == fdt_off_dt_struct(m) + at
           len   == Words(name.namelen + 1)
           k     == len + 2
           r     == fdt_splice_struct_(m, nh, 0, k)
           n     == Words(NameLen[name.s] + 1)
           cells == [i \in 1 .. len + 2 |->
                        IF i = 1 THEN Num(FDT_BEGIN_NODE)
                        ELSE IF i <= n THEN Name(name.s, 0)
                        ELSE IF i = n + 1 THEN Name(name.s, 1)
                        ELSE IF i = len + 2 THEN Num(FDT_END_NODE)
                        ELSE Num(0)]
           c     == Store(r.m, nh, cells)
           f     == AddSubnode(m, o, name)
<1>1. e \in Nat /\ e <= fdt_check_node_offset_(m, o) /\ e <= fdt_size_dt_struct(m)
  BY CheckNode
<1>2. f.m \in Memory
  BY AddSubnodeEdited, GoodFacts DEF Edited
<1>3. f = IF found >= 0 THEN Return(-FDT_ERR_EXISTS, m)
          ELSE IF found # -FDT_ERR_NOTFOUND THEN Return(found, m)
          ELSE IF r.ret # 0 THEN r
          ELSE Return(at, c)
  BY Zenon DEF AddSubnode
<1>4. fdt_next_tag(m, o).next = e
  BY DEF fdt_check_node_offset_
<1> HIDE DEF e
<1>5. CASE found # -FDT_ERR_NOTFOUND
  <2>1. f.m = m
    <3> HIDE DEF f, found, c, r
    <3> QED BY <1>3, <1>5 DEF Return
  <2> QED BY <1>1, <2>1, KeptSame DEF e
<1>6. CASE found = -FDT_ERR_NOTFOUND
  <2>1. at \in Nat /\ at <= fdt_size_dt_struct(m) /\ e <= at
    <3>1. at \in Nat /\ at <= fdt_size_dt_struct(m)
      BY <1>6, SubnodeNotFound
    <3>2. AfterProps(Walk(m, e)).at >= e /\ AfterProps(Walk(m, e)).at \in Nat
      BY <1>1, WalkStop, GoodReadable
    <3>3. at = AfterProps(Walk(m, e)).at
      BY <1>4
    <3> HIDE DEF at
    <3> QED BY <1>1, <3>1, <3>2, <3>3
  <2>2. /\ nh \in Nat /\ fdt_off_dt_struct(m) + e <= nh /\ k \in Nat
        /\ nh + 0 <= fdt_off_dt_struct(m) + fdt_size_dt_struct(m)
    <3>1. fdt_off_dt_struct(m) \in Nat /\ fdt_size_dt_struct(m) \in Nat /\ len \in Nat
      BY GoodFacts, WordsNat
    <3> HIDE DEF at, len
    <3> QED BY <1>1, <2>1, <3>1
  <2>3. Kept(m, r.m, e)
    <3>1. Kept(m, m, e)
      BY <1>1, KeptSame
    <3> HIDE DEF nh, k
    <3>2. r = fdt_splice_struct_(m, nh, 0, k)
      OBVIOUS
    <3> HIDE DEF r
    <3> QED BY <1>1, <2>2, <3>1, <3>2, KeptSplice
  <2>4. f.m = r.m \/ f.m = c
    <3>1. ~(found >= 0)
      BY <1>6
    <3> HIDE DEF f, found, c, r
    <3> QED BY <1>3, <1>6, <3>1 DEF Return
  <2>5. CASE f.m = r.m
    BY <2>3, <2>5 DEF e
  <2>6. CASE f.m = c
    <3>1. c \in Memory
      BY <1>2, <2>6
    <3>2. Kept(m, c, e)
      <4> HIDE DEF nh, cells, r
      <4> QED BY <1>1, <2>2, <2>3, <3>1, KeptStore
    <3> QED BY <2>6, <3>2 DEF e
  <2> QED BY <2>4, <2>5, <2>6
<1> QED BY <1>5, <1>6

\* A node's name takes a word or more.
LEMMA NodeNext ==
    ASSUME NEW m, Framed(m), NEW x \in Nat, fdt_next_tag(m, x).tag = FDT_BEGIN_NODE
    PROVE  /\ Value(At(m, x)) = FDT_BEGIN_NODE
           /\ NextOf(m, x) \in Nat /\ x + 2 <= NextOf(m, x)
           /\ NextOf(m, x) <= fdt_size_dt_struct(m)
<1> DEFINE nt == fdt_next_tag(m, x)
           e  == StringEnd(m, x + 1)
<1>1. nt.next \in Nat /\ nt.next <= fdt_size_dt_struct(m)
  BY NextTag, FramedFacts
<1>2. e = 0 \/ e \in x + 2 .. MemSize
  BY DEF StringEnd
<1>3. Value(At(m, x)) = FDT_BEGIN_NODE
  BY DEF fdt_next_tag, TagTo, TagEnd
<1>4. nt = IF ~fdt_offset_ptr(m, x, 1)
           THEN [tag |-> FDT_END, next |-> -FDT_ERR_TRUNCATED]
           ELSE IF e = 0 \/ ~fdt_offset_ptr(m, x, e - x)
           THEN [tag |-> FDT_END, next |-> -FDT_ERR_BADSTRUCTURE]
           ELSE [tag |-> FDT_BEGIN_NODE, next |-> e]
  BY <1>3 DEF fdt_next_tag, TagTo, TagEnd
<1>5. nt.tag = FDT_BEGIN_NODE
  OBVIOUS
<1> HIDE DEF nt, e
<1>6. nt.next = e /\ e # 0
  BY <1>4, <1>5
<1>7. x + 2 <= nt.next
  BY <1>2, <1>6
<1> QED BY <1>1, <1>3, <1>7 DEF nt, NextOf

\* A node whose name ends somewhere in the structure block is accepted.
LEMMA NodeAccepted ==
    ASSUME NEW m, Framed(m), NEW x \in Nat, Value(At(m, x)) = FDT_BEGIN_NODE,
           NEW e \in Nat, x + 2 <= e, e <= fdt_size_dt_struct(m), HasNul(At(m, e - 1))
    PROVE  fdt_next_tag(m, x).tag = FDT_BEGIN_NODE
<1> DEFINE K == {f \in Nat : x + 2 <= f /\ f <= e /\ HasNul(At(m, f - 1))}
<1>0. /\ MemSize \in Nat /\ fdt_size_dt_struct(m) \in Nat /\ fdt_size_dt_struct(m) <= MemSize
  BY FramedFacts
<1>1. PICK k \in K : \A j \in K : k <= j
  <2>1. K \subseteq Nat /\ e \in K
    OBVIOUS
  <2> HIDE DEF K
  <2> QED BY <2>1, LeastNatural
<1>2. k \in Nat /\ x + 2 <= k /\ k <= e /\ HasNul(At(m, k - 1))
  OBVIOUS
<1>3. \A i \in x + 1 .. k - 2 : ~HasNul(At(m, i))
  <2> TAKE i \in x + 1 .. k - 2
  <2>1. i + 1 \in Nat /\ x + 2 <= i + 1 /\ i + 1 <= e /\ ~(k <= i + 1) /\ (i + 1) - 1 = i
    BY <1>2
  <2>2. i + 1 \notin K
    BY <1>1, <2>1
  <2> QED BY <2>1, <2>2
<1> HIDE DEF K
<1>4. EndsString(m, x + 1, k) /\ k \in (x + 1) + 1 .. MemSize
  <2>1. k - 1 \in Nat /\ (k - 1) + 1 <= fdt_size_dt_struct(m)
    BY <1>0, <1>2
  <2>2. fdt_offset_ptr(m, k - 1, 1)
    BY <2>1, OffsetPtr
  <2> QED BY <1>0, <1>2, <1>3, <2>2 DEF EndsString
<1> DEFINE s == StringEnd(m, x + 1)
<1>5. s \in (x + 1) + 1 .. MemSize /\ EndsString(m, x + 1, s)
  BY <1>4 DEF StringEnd
<1> HIDE DEF s
<1>6. s \in Nat /\ x + 2 <= s /\ s <= fdt_size_dt_struct(m)
  <2>1. s \in Nat /\ x + 2 <= s /\ s - 1 \in Nat
    BY <1>0, <1>5
  <2>2. (s - 1) + 1 <= fdt_size_dt_struct(m)
    BY <1>5, <2>1, OffsetPtr DEF EndsString
  <2> QED BY <2>1, <2>2
<1>7. fdt_offset_ptr(m, x, 1) /\ fdt_offset_ptr(m, x, s - x) /\ s # 0
  <2>1. s - x \in Nat /\ x + (s - x) <= fdt_size_dt_struct(m)
        /\ x + 1 <= fdt_size_dt_struct(m)
    BY <1>0, <1>6
  <2> QED BY <1>6, <2>1, OffsetPtr
<1>8. fdt_next_tag(m, x) = [tag |-> FDT_BEGIN_NODE, next |-> s]
  BY <1>7 DEF fdt_next_tag, TagTo, TagEnd, s
<1> QED BY <1>8

\* fdt_set_name keeps the tag of the node and what is in front of it, and the
\* node still has a name that ends.
LEMMA SetNameKept ==
    ASSUME NEW m, Good(m), NEW o \in Nat, NEW s \in Names, NEW t \in Nat,
           fdt_check_node_offset_(m, o) >= 0,
           o + 1 + Words(strlen(NameAt(m, o)) + 1) <= fdt_size_dt_struct(m)
    PROVE  LET f == SetName(m, o, s, t)
           IN  Kept(m, f.m, o + 1) /\ fdt_next_tag(f.m, o).tag = FDT_BEGIN_NODE
<1> DEFINE a     == fdt_off_dt_struct(m) + o + 1
           W1    == Words(strlen(NameAt(m, o)) + 1)
           W2    == Words(strlen(s) + 1)
           n     == Words(NameLen[s] + 1)
           r     == fdt_splice_struct_(m, a, W1, W2)
           cells == NameCells(r.m, a, s, t)
           c     == Store(r.m, a, cells)
           f     == SetName(m, o, s, t)
           e     == o + 1
<1>0. /\ fdt_off_dt_struct(m) \in Nat /\ fdt_size_dt_struct(m) \in Nat
      /\ W1 \in Nat /\ e \in Nat /\ o + 1 + W1 <= fdt_size_dt_struct(m)
      /\ e <= fdt_size_dt_struct(m)
  <2>1. strlen(NameAt(m, o)) + 1 \in Nat
    BY NameIsName
  <2>2. W1 \in Nat /\ o + 1 + W1 <= fdt_size_dt_struct(m)
    BY <2>1, WordsNat
  <2> HIDE DEF W1
  <2> QED BY <2>2, GoodFacts
<1>1. W2 \in Nat /\ n \in Nat /\ 1 <= n /\ n <= W2
  <2>1. NameLen[s] \in Nat
    BY NameAssumption, Zenon
  <2> QED BY <2>1 DEF Words, strlen
<1>2. fdt_next_tag(m, o).tag = FDT_BEGIN_NODE
  BY DEF fdt_check_node_offset_
<1>3. Value(At(m, o)) = FDT_BEGIN_NODE
  BY <1>2, NodeNext, GoodFramed
<1>4. Good(f.m)
  BY SetNameEdited DEF Edited
<1>5. f = IF r.ret # 0 THEN r ELSE Return(0, c)
  <2>1. ~(fdt_check_node_offset_(m, o) < 0)
    BY CheckNode
  <2> QED BY <2>1, Zenon DEF SetName
<1>6. a \in Nat /\ a = fdt_off_dt_struct(m) + e /\ fdt_off_dt_struct(m) + e <= a
      /\ fdt_off_dt_struct(m) <= a /\ a + W1 <= fdt_off_dt_struct(m) + fdt_size_dt_struct(m)
  <2> HIDE DEF W1
  <2> QED BY <1>0
<1>7. /\ Kept(m, r.m, e) /\ Good(r.m)
      /\ r.ret = 0 => fdt_size_dt_struct(r.m) = fdt_size_dt_struct(m) + W2 - W1
  <2> HIDE DEF a, W1, W2, e
  <2>1. Kept(m, m, e)
    BY <1>0, KeptSame
  <2>2. Kept(m, r.m, e)
    BY <1>0, <1>1, <1>6, <2>1, KeptSplice
  <2>3. Good(r.m) /\ (r.ret = 0 => fdt_size_dt_struct(r.m) = fdt_size_dt_struct(m) + W2 - W1)
    BY <1>0, <1>1, <1>6, SpliceStruct
  <2> QED BY <2>2, <2>3
<1>8. CASE r.ret # 0
  <2>1. f = r
    BY <1>5, <1>8
  <2>2. f.m = m
    <3> HIDE DEF r, f, a, W1, W2
    <3>1. r.m = m
      BY <1>8 DEF r, fdt_splice_struct_, fdt_splice_, Return
    <3> QED BY <2>1, <3>1
  <2> QED BY <1>0, <1>2, <2>2, KeptSame
<1>9. CASE r.ret = 0
  <2>1. f.m = c
    <3> HIDE DEF f, r, c
    <3> QED BY <1>5, <1>9 DEF Return
  <2>2. c \in Memory /\ Framed(c)
    BY <1>4, <2>1, GoodFramed, GoodFacts
  <2>3. Kept(m, c, e)
    <3> HIDE DEF a, e, cells, r
    <3> QED BY <1>0, <1>6, <1>7, <2>2, KeptStore
  <2>4. Len(cells) = W2
    <3> DEFINE g(i) == IF i < n THEN Name(s, 0)
                       ELSE IF i = n
                       THEN Name(s, IF strlen(s) % 4 # 0 /\ t # 0 THEN 2 ELSE 1)
                       ELSE IF t = 0 /\ r.m[a + i - 1].k = "num" THEN r.m[a + i - 1]
                       ELSE Text
    <3>1. cells = [i \in 1 .. W2 |-> g(i)]
      BY Zenon DEF NameCells
    <3> HIDE DEF cells, g, W2
    <3> QED BY <1>1, <3>1
  <2>5. cells[n] = Name(s, IF strlen(s) % 4 # 0 /\ t # 0 THEN 2 ELSE 1)
    <3>1. n \in 1 .. W2 /\ ~(n < n)
      BY <1>1
    <3> QED BY <3>1 DEF NameCells
  <2>6. HasNul(cells[n])
    <3> DEFINE v == IF strlen(s) % 4 # 0 /\ t # 0 THEN 2 ELSE 1
    <3>1. v \in Nat /\ v > 0
      OBVIOUS
    <3> HIDE DEF v
    <3>2. cells[n] = Name(s, v)
      BY <2>5 DEF v
    <3>3. Name(s, v).k = "name" /\ Name(s, v).n = v
      BY Zenon DEF Name
    <3> HIDE DEF cells, n
    <3> QED BY <3>1, <3>2, <3>3 DEF HasNul
  <2> DEFINE S == fdt_off_dt_struct(m)
  <2>7. /\ \A x \in a .. a + W2 - 1 : c[x] = cells[x - a + 1]
        /\ c[hSizeDtStruct] = r.m[hSizeDtStruct]
    <3>1. DOMAIN r.m = 0 .. MemSize - 1
      BY <1>7, GoodFacts DEF Memory
    <3>2. /\ MemSize \in Nat /\ fdt_size_dt_struct(r.m) \in Nat
          /\ fdt_off_dt_struct(r.m) + fdt_size_dt_struct(r.m) <= MemSize
          /\ fdt_off_dt_struct(r.m) = S /\ 14 <= S
      <4>1. Framed(r.m)
        BY <1>7, GoodFramed
      <4> HIDE DEF r
      <4>2. 14 <= S
        BY <1>0, KeptFacts
      <4> QED BY <1>7, <4>1, <4>2, FramedFacts DEF Kept
    <3>3. fdt_size_dt_struct(r.m) = fdt_size_dt_struct(m) + W2 - W1
      BY <1>7, <1>9
    <3>4. /\ a .. a + W2 - 1 \subseteq 0 .. MemSize - 1
          /\ hSizeDtStruct \in 0 .. MemSize - 1 /\ hSizeDtStruct \notin a .. a + W2 - 1
      <4> HIDE DEF a, W2, W1, r, e
      <4>1. a + W2 <= MemSize /\ 14 <= a
        BY <1>0, <1>1, <1>6, <3>2, <3>3 DEF e
      <4> QED BY <1>1, <1>6, <3>2, <4>1
    <3> HIDE DEF a, W2, cells, r
    <3> QED BY <2>4, <3>1, <3>4 DEF Store
  <2>8. fdt_size_dt_struct(c) = fdt_size_dt_struct(m) + W2 - W1
    <3>1. fdt_size_dt_struct(c) = fdt_size_dt_struct(r.m)
      <4> HIDE DEF c, r
      <4> QED BY <2>7 DEF fdt_size_dt_struct
    <3> QED BY <1>7, <1>9, <3>1
  <2>9. Value(At(c, o)) = FDT_BEGIN_NODE
    <3>1. S + o \in S .. S + e - 1
      BY <1>0
    <3> HIDE DEF c, e
    <3>2. c[S + o] = m[S + o] /\ fdt_off_dt_struct(c) = S
      BY <2>3, <3>1 DEF Kept
    <3> QED BY <1>3, <3>2 DEF At
  <2> DEFINE g == o + 1 + n
  <2>10. HasNul(At(c, g - 1)) /\ g \in Nat /\ o + 2 <= g /\ g <= fdt_size_dt_struct(c)
    <3> HIDE DEF n, W1, W2
    <3> DEFINE y == S + (g - 1)
    <3>1. g \in Nat /\ o + 2 <= g
      BY <1>0, <1>1
    <3>2. g <= fdt_size_dt_struct(c)
      <4> HIDE DEF c
      <4> QED BY <1>0, <1>1, <2>8
    <3>3. y \in a .. a + W2 - 1 /\ y - a + 1 = n
      BY <1>0, <1>1
    <3> HIDE DEF c, a, e, cells, y
    <3>4. c[y] = cells[n]
      <4>1. c[y] = cells[y - a + 1]
        BY <2>7, <3>3
      <4> HIDE DEF g
      <4> QED BY <3>3, <4>1
    <3>5. fdt_off_dt_struct(c) = S
      BY <2>3 DEF Kept
    <3>6. At(c, g - 1) = cells[n]
      BY <3>4, <3>5 DEF At, y
    <3> HIDE DEF g
    <3> QED BY <2>6, <3>1, <3>2, <3>6
  <2>11. fdt_next_tag(c, o).tag = FDT_BEGIN_NODE
    <3> HIDE DEF c, g
    <3> QED BY <2>2, <2>9, <2>10, NodeAccepted
  <2> QED BY <2>1, <2>3, <2>11
<1> QED BY <1>8, <1>9

\* Kept words are words of the structure block.
LEMMA KeptWords ==
    ASSUME NEW m, Good(m), NEW m2, NEW e \in Nat, Kept(m, m2, e), NEW n \in Nat, n <= e
    PROVE  /\ SameWords(m, 0, m2, 0, n)
           /\ \A i \in 0 .. n - 1 : At(m2, i) = At(m, i)
<1>1. fdt_off_dt_struct(m) \in Nat
  BY GoodFacts
<1>2. ASSUME NEW i \in 0 .. n - 1 PROVE At(m2, i) = At(m, i)
  <2>1. fdt_off_dt_struct(m) + i \in fdt_off_dt_struct(m) .. fdt_off_dt_struct(m) + e - 1
    BY <1>1
  <2> QED BY <2>1 DEF Kept, At
<1>3. \A i \in 0 .. n - 1 : 0 + i = i
  OBVIOUS
<1> QED BY <1>2, <1>3 DEF SameWords

\* A node with its name kept is the same node.
LEMMA SameNode ==
    ASSUME NEW m, Good(m), NEW m2, Good(m2), NEW x \in Nat,
           fdt_check_node_offset_(m, x) >= 0,
           Kept(m, m2, fdt_check_node_offset_(m, x))
    PROVE  /\ fdt_next_tag(m2, x).tag = FDT_BEGIN_NODE
           /\ fdt_check_node_offset_(m2, x) = fdt_check_node_offset_(m, x)
<1> DEFINE e == fdt_check_node_offset_(m, x)
           n == e - x
<1>1. /\ fdt_next_tag(m, x).tag = FDT_BEGIN_NODE /\ e = fdt_next_tag(m, x).next
  BY DEF fdt_check_node_offset_
<1>2. e \in Nat /\ x < e
  BY CheckNode
<1>3. n \in Nat /\ x + n = e
  BY <1>2
<1>4. SameWords(m, x, m2, x, n)
  <2> SUFFICES ASSUME NEW i \in 0 .. n - 1 PROVE At(m2, x + i) = At(m, x + i)
    BY DEF SameWords
  <2> HIDE DEF e
  <2>1. x + i \in 0 .. e - 1 /\ e <= e
    BY <1>2
  <2> QED BY <1>2, <2>1, KeptWords DEF e
<1>5. Framed(m) /\ Framed(m2) /\ e <= fdt_size_dt_struct(m2)
  BY GoodFramed DEF Kept
<1>6. fdt_next_tag(m2, x).tag = FDT_BEGIN_NODE /\ fdt_next_tag(m2, x).next = e
  <2> HIDE DEF e, n
  <2> QED BY <1>1, <1>3, <1>4, <1>5, NextTagShift
<1> QED BY <1>6 DEF fdt_check_node_offset_

\* The nodes up to number n are where they were, with the names they had.
SamePlaces(m, m2, n, named) ==
    LET w  == Walk(m, 0)
        w2 == Walk(m2, 0)
    IN  \A t \in Nodes(w) : NodeNo(w, t) <= n =>
          /\ NodeNo(w2, t) = NodeNo(w, t)
          /\ named => NameAt(m2, t) = NameAt(m, t)

\* An edit of the contents of a node leaves it and those before it there.
LEMMA ContentsEdited ==
    ASSUME NEW m, Good(m), NEW m2, Good(m2), NEW o \in Nodes(Walk(m, 0)),
           Kept(m, m2, fdt_check_node_offset_(m, o)), NEW named
    PROVE  SamePlaces(m, m2, NodeNo(Walk(m, 0), o), named)
<1> DEFINE e == fdt_check_node_offset_(m, o)
<1>0. MemSize \in Nat /\ 0 \in 0 .. MemSize /\ Framed(m) /\ Framed(m2)
  BY MemAssumption, GoodFramed
<1>1. ASSUME NEW t \in Nodes(Walk(m, 0))
      PROVE  t \in Nat /\ fdt_next_tag(m, t).tag = FDT_BEGIN_NODE
  BY <1>0, TagOffsetsUnfold, NodesOfWalk
<1>2. o \in Nat /\ e \in Nat /\ o + 2 <= e
  BY <1>0, <1>1, NodeNext DEF fdt_check_node_offset_, NextOf
<1>3. fdt_next_tag(m2, o).tag = FDT_BEGIN_NODE
  <2>1. fdt_check_node_offset_(m, o) >= 0
    BY <1>2
  <2> QED BY <1>2, <2>1, SameNode
<1>4. SameWords(m, 0, m2, 0, o) /\ \A i \in 0 .. e - 1 : At(m2, i) = At(m, i)
  <2> HIDE DEF e
  <2>1. o <= e /\ e <= e
    BY <1>2
  <2> QED BY <1>2, <2>1, KeptWords DEF e
<1>5. o <= fdt_size_dt_struct(m2)
  <2>1. e <= fdt_size_dt_struct(m2) /\ fdt_size_dt_struct(m2) \in Nat
    BY <1>0, FramedFacts DEF Kept
  <2> HIDE DEF e
  <2> QED BY <1>2, <2>1
<1>6. ASSUME NEW t \in Nodes(Walk(m, 0)), NodeNo(Walk(m, 0), t) <= NodeNo(Walk(m, 0), o)
      PROVE  /\ NodeNo(Walk(m2, 0), t) = NodeNo(Walk(m, 0), t)
             /\ NameAt(m2, t) = NameAt(m, t)
  <2>1. t <= o /\ NodeNo(Walk(m2, 0), t) = NodeNo(Walk(m, 0), t)
    BY <1>0, <1>3, <1>4, <1>5, <1>6, SameNumbers
  <2>2. t + 1 \in 0 .. e - 1
    <3> HIDE DEF e
    <3> QED BY <1>1, <1>2, <2>1
  <2>3. At(m2, t + 1) = At(m, t + 1)
    BY <1>4, <2>2
  <2> QED BY <2>1, <2>3 DEF NameAt
<1> QED BY <1>6 DEF SamePlaces

\* An edit of its name leaves it and those before it there.
LEMMA NameEdited ==
    ASSUME NEW m, Good(m), NEW m2, Good(m2), NEW o \in Nodes(Walk(m, 0)),
           Kept(m, m2, o + 1), fdt_next_tag(m2, o).tag = FDT_BEGIN_NODE
    PROVE  SamePlaces(m, m2, NodeNo(Walk(m, 0), o), FALSE)
<1>0. MemSize \in Nat /\ 0 \in 0 .. MemSize /\ Framed(m) /\ Framed(m2)
  BY MemAssumption, GoodFramed
<1>1. o \in Nat
  BY <1>0, TagOffsetsUnfold, NodesOfWalk
<1>2. SameWords(m, 0, m2, 0, o)
  <2>1. o + 1 \in Nat /\ o <= o + 1
    BY <1>1
  <2> QED BY <1>1, <2>1, KeptWords
<1>3. o <= fdt_size_dt_struct(m2)
  BY <1>0, <1>1, FramedFacts DEF Kept
<1>4. ASSUME NEW t \in Nodes(Walk(m, 0)), NodeNo(Walk(m, 0), t) <= NodeNo(Walk(m, 0), o)
      PROVE  NodeNo(Walk(m2, 0), t) = NodeNo(Walk(m, 0), t)
  BY <1>0, <1>2, <1>3, <1>4, SameNumbers
<1> QED BY <1>4 DEF SamePlaces

\* The version that the read-write functions leave is all that has changed.
LEMMA DowngradedKept ==
    ASSUME NEW m, Good(m), NEW e \in Nat, e <= fdt_size_dt_struct(m)
    PROVE  Kept(m, Downgraded(m), e)
<1>1. fdt_off_dt_struct(m) \in Nat /\ 14 <= fdt_off_dt_struct(m) /\ MemSize \in Nat
      /\ fdt_off_dt_struct(m) + e <= MemSize
  BY KeptFacts
<1> DEFINE d == Set(m, hVersion, 17)
<1>2. d \in Memory /\ \A a \in 0 .. MemSize - 1 : a # hVersion => d[a] = m[a]
  BY SetMemory, GoodFacts
<1> HIDE DEF d
<1>3. Kept(m, d, e)
  <2>1. d[2] = m[2] /\ d[9] = m[9]
    BY <1>1, <1>2
  <2>2. fdt_off_dt_struct(d) = fdt_off_dt_struct(m) /\ fdt_size_dt_struct(d) = fdt_size_dt_struct(m)
    BY <2>1 DEF fdt_off_dt_struct, fdt_size_dt_struct
  <2>3. \A a \in fdt_off_dt_struct(m) .. fdt_off_dt_struct(m) + e - 1 : d[a] = m[a]
    BY <1>1, <1>2
  <2> QED BY <1>2, <2>2, <2>3 DEF Kept
<1> QED BY <1>3, KeptSame DEF Downgraded, d

-----------------------------------------------------------------------------
(* Trees.                                                                  *)

Tag(m, x) == fdt_next_tag(m, x).tag

\* The name of the node at x, with its terminator, is all of the item.
Named(m, x) ==
    /\ At(m, x + 1).k = "name"
    /\ NextOf(m, x) = x + 1 + Words(NameLen[At(m, x + 1).s] + 1)

\* The item at x and the next one: H is the depth in front of an offset, A has
\* the offsets at which a property may stand, S the offsets of items.
Nested(m, S, H, A, x) ==
    /\ Tag(m, x) = FDT_END => NextOf(m, x) = fdt_size_dt_struct(m) /\ H[x] = 0
    /\ Tag(m, x) # FDT_END => NextOf(m, x) \in S
    /\ Tag(m, x) = FDT_BEGIN_NODE => H[NextOf(m, x)] = H[x] + 1 /\ Named(m, x)
    /\ Tag(m, x) = FDT_END_NODE => H[x] = H[NextOf(m, x)] + 1 /\ NextOf(m, x) \notin A
    /\ Tag(m, x) = FDT_PROP =>
         /\ H[NextOf(m, x)] = H[x] /\ x \in A
         /\ Value(At(m, x + 2)) < fdt_size_dt_strings(m)
    /\ Tag(m, x) = FDT_NOP =>
         H[NextOf(m, x)] = H[x] /\ (NextOf(m, x) \in A => x \in A)

\* The items of S are a tree.
Tree(m, S, H, A) ==
    /\ H \in [Nat -> Nat] /\ H[0] = 0 /\ 0 \notin A /\ 0 \in S
    /\ \A x \in S : Nested(m, S, H, A, x)

\* Every string of the strings block is a name.
StringsNamed(m) ==
    \A i \in 0 .. fdt_size_dt_strings(m) - 1 :
        /\ m[fdt_off_dt_strings(m) + i].k = "str"
        /\ m[fdt_off_dt_strings(m) + i].s # ""

\* What every call preserves.
Sound(m) == StringsNamed(m) /\ \E H, A : Tree(m, TagOffsets(m, 0), H, A)

\* The kinds of items.
LEMMA TagKinds ==
    ASSUME NEW m, NEW x
    PROVE  Tag(m, x) \in {FDT_BEGIN_NODE, FDT_END_NODE, FDT_PROP, FDT_NOP, FDT_END}
<1> DEFINE v == Value(At(m, x))
<1>1. CASE v \in {FDT_BEGIN_NODE, FDT_END_NODE, FDT_PROP, FDT_NOP, FDT_END}
  <2> HIDE DEF v
  <2>1. fdt_next_tag(m, x).tag \in {FDT_END, v}
    BY DEF fdt_next_tag, TagTo, v
  <2> QED BY <1>1, <2>1 DEF Tag
<1>2. CASE v \notin {FDT_BEGIN_NODE, FDT_END_NODE, FDT_PROP, FDT_NOP, FDT_END}
  <2> HIDE DEF v
  <2>1. TagEnd(m, x, v) = 0
    BY <1>2 DEF TagEnd
  <2>2. fdt_next_tag(m, x).tag = FDT_END
    BY <2>1 DEF fdt_next_tag, TagTo, v
  <2> QED BY <2>2 DEF Tag
<1> QED BY <1>1, <1>2

\* Items that nest are all there is: the walk stays among them.
LEMMA TreeIntro ==
    ASSUME NEW m, Framed(m), NEW S, NEW H, NEW A, Tree(m, S, H, A)
    PROVE  Tree(m, TagOffsets(m, 0), H, A)
<1> DEFINE T == TagOffsets(m, 0)
<1>0. 0 \in 0 .. MemSize /\ MemSize \in Nat
  BY MemAssumption
<1>1. 0 \in T /\ IsChain(m, 0)
  BY <1>0, TagOffsetsUnfold, WalkIsChain
<1>2. ASSUME NEW x \in S, Leads(m, x) PROVE NextOf(m, x) \in S
  BY <1>2 DEF Tree, Nested, Tag, Leads
<1>3. 0 \in S
  BY DEF Tree
<1>4. T \subseteq S
  BY <1>0, <1>2, <1>3, WalkInduction
<1>5. ASSUME NEW x \in T PROVE Nested(m, T, H, A, x)
  <2>1. Nested(m, S, H, A, x)
    BY <1>4 DEF Tree
  <2>2. Tag(m, x) # FDT_END => NextOf(m, x) \in T
    BY <1>1 DEF IsChain, Tag, Leads
  <2> HIDE DEF T
  <2> QED BY <2>1, <2>2 DEF Nested
<1> HIDE DEF T
<1> QED BY <1>1, <1>5 DEF Tree, T

-----------------------------------------------------------------------------
(* Splices between items.                                                  *)

\* The words from p to q of the structure block have become the words from p to
\* q2, those in front and behind are the same.
Spliced(m, m2, p, q, q2) ==
    /\ fdt_size_dt_struct(m2) - q2 = fdt_size_dt_struct(m) - q
    /\ SameWords(m, 0, m2, 0, p)
    /\ SameWords(m, q, m2, q2, fdt_size_dt_struct(m) - q)
    /\ fdt_size_dt_strings(m) <= fdt_size_dt_strings(m2)
    /\ StringsNamed(m) => StringsNamed(m2)

\* An item is the same wherever its words are.
LEMMA ItemShift ==
    ASSUME NEW m, Framed(m), NEW m2, Framed(m2), NEW x \in Nat, NEW x2 \in Nat,
           NEW n \in Nat, x + n = NextOf(m, x), x2 + n <= fdt_size_dt_struct(m2),
           SameWords(m, x, m2, x2, n)
    PROVE  /\ Tag(m2, x2) = Tag(m, x) /\ NextOf(m2, x2) = x2 + n
           /\ Tag(m, x) = FDT_BEGIN_NODE /\ Named(m, x) => Named(m2, x2)
           /\ Tag(m, x) = FDT_PROP => At(m2, x2 + 2) = At(m, x + 2)
<1>1. Tag(m2, x2) = Tag(m, x) /\ NextOf(m2, x2) = x2 + n
  BY NextTagShift DEF Tag, NextOf
<1>2. ASSUME Tag(m, x) = FDT_BEGIN_NODE, Named(m, x)
      PROVE  Named(m2, x2)
  <2>1. x + 2 <= NextOf(m, x)
    BY <1>2, NodeNext DEF Tag
  <2>2. 1 \in 0 .. n - 1
    BY <2>1
  <2>3. At(m2, x2 + 1) = At(m, x + 1)
    BY <2>2 DEF SameWords
  <2> DEFINE k == Words(NameLen[At(m, x + 1).s] + 1)
  <2>4. x + n = x + 1 + k /\ At(m, x + 1).k = "name"
    BY <1>2 DEF Named
  <2>5. k \in Nat
    <3>1. x + 1 \in 0 .. MemSize /\ At(m, x + 1) \in Cell
      <4>1. /\ MemSize \in Nat /\ fdt_off_dt_struct(m) \in Nat /\ m \in Memory
            /\ fdt_size_dt_struct(m) \in Nat
            /\ fdt_off_dt_struct(m) + fdt_size_dt_struct(m) <= MemSize
        BY FramedFacts
      <4>2. NextOf(m, x) <= fdt_size_dt_struct(m)
        BY <1>2, NodeNext DEF Tag
      <4> QED BY <2>1, <4>1, <4>2 DEF At, Memory
    <3>2. NameLen[At(m, x + 1).s] \in Nat
      BY <3>1, NameAssumption DEF Cell
    <3>3. NameLen[At(m, x + 1).s] + 1 \in Nat
      BY <3>2
    <3> QED BY <3>3, WordsNat
  <2> HIDE DEF k
  <2>6. NextOf(m2, x2) = x2 + 1 + k
    BY <1>1, <2>4, <2>5
  <2> QED BY <2>3, <2>4, <2>6 DEF Named, k
<1>3. ASSUME Tag(m, x) = FDT_PROP
      PROVE  At(m2, x2 + 2) = At(m, x + 2)
  <2>1. x + 3 <= NextOf(m, x)
    <3>1. Framed(m) => Readable(m)
      BY DEF Framed
    <3>2. PropLen(m, x) \in Nat /\ NextOf(m, x) = x + 3 + Words(PropLen(m, x))
      BY <1>3, <3>1, NextTag DEF Tag, NextOf
    <3>3. Words(PropLen(m, x)) \in Nat
      BY <3>2, WordsNat
    <3> QED BY <3>2, <3>3
  <2>2. 2 \in 0 .. n - 1
    BY <2>1
  <2> QED BY <2>2 DEF SameWords
<1> QED BY <1>1, <1>2, <1>3

\* The offset of the name of a property is a number.
LEMMA PropNameNat ==
    ASSUME NEW m, Framed(m), NEW x \in Nat, Tag(m, x) = FDT_PROP
    PROVE  /\ Value(At(m, x + 2)) \in Nat /\ PropLen(m, x) \in Nat
           /\ Words(PropLen(m, x)) \in Nat
           /\ NextOf(m, x) = x + 3 + Words(PropLen(m, x))
           /\ NextOf(m, x) <= fdt_size_dt_struct(m)
<1>1. /\ Readable(m) /\ m \in Memory /\ MemSize \in Nat /\ fdt_off_dt_struct(m) \in Nat
      /\ fdt_off_dt_struct(m) + fdt_size_dt_struct(m) <= MemSize
      /\ fdt_size_dt_struct(m) \in Nat
  BY FramedFacts
<1>2. /\ PropLen(m, x) \in Nat /\ NextOf(m, x) = x + 3 + Words(PropLen(m, x))
      /\ NextOf(m, x) <= fdt_size_dt_struct(m)
  BY <1>1, NextTag DEF Tag, NextOf
<1>3. Words(PropLen(m, x)) \in Nat
  BY <1>2, WordsNat
<1>4. fdt_off_dt_struct(m) + (x + 2) \in 0 .. MemSize - 1
  BY <1>1, <1>2, <1>3
<1>5. At(m, x + 2) \in Cell
  BY <1>1, <1>4 DEF At, Memory
<1> QED BY <1>2, <1>3, <1>5, CellFacts

\* The items in front of the words that are replaced.
LEMMA ItemsInFront ==
    ASSUME NEW m, Framed(m), NEW m2, Framed(m2), NEW p \in TagOffsets(m, 0), NEW q, NEW q2,
           Spliced(m, m2, p, q, q2), p <= fdt_size_dt_struct(m2),
           NEW x \in TagOffsets(m, 0), x < p
    PROVE  /\ x \in Nat /\ NextOf(m, x) \in TagOffsets(m, 0)
           /\ NextOf(m, x) \in Nat /\ x < NextOf(m, x) /\ NextOf(m, x) <= p
           /\ Tag(m, x) # FDT_END
           /\ Tag(m2, x) = Tag(m, x) /\ NextOf(m2, x) = NextOf(m, x)
           /\ Tag(m, x) = FDT_BEGIN_NODE /\ Named(m, x) => Named(m2, x)
           /\ Tag(m, x) = FDT_PROP => At(m2, x + 2) = At(m, x + 2)
<1>0. 0 \in 0 .. MemSize
  BY MemAssumption
<1>1. IsChain(m, 0) /\ TagOffsets(m, 0) \subseteq 0 .. MemSize
  BY <1>0, WalkIsChain, TagOffsetsUnfold
<1>2. x \in Nat /\ p \in Nat
  BY <1>1
<1>3. Leads(m, x) /\ NextOf(m, x) <= p /\ NextOf(m, x) \in TagOffsets(m, 0)
  BY <1>1, Zenon DEF IsChain
<1>4. NextOf(m, x) \in Nat /\ x < NextOf(m, x)
  BY <1>2, <1>3, LeadsOn
<1> DEFINE n == NextOf(m, x) - x
<1>5. n \in Nat /\ x + n = NextOf(m, x) /\ x + n <= fdt_size_dt_struct(m2)
  <2>1. fdt_size_dt_struct(m2) \in Nat
    BY FramedFacts
  <2> QED BY <1>2, <1>3, <1>4, <2>1
<1>6. SameWords(m, x, m2, x, n)
  <2>1. \A i \in 0 .. p - 1 : At(m2, 0 + i) = At(m, 0 + i)
    BY DEF Spliced, SameWords
  <2> SUFFICES ASSUME NEW i \in 0 .. n - 1 PROVE At(m2, x + i) = At(m, x + i)
    BY DEF SameWords
  <2>2. x + i \in 0 .. p - 1 /\ 0 + (x + i) = x + i
    BY <1>2, <1>3, <1>4
  <2> HIDE DEF n
  <2> QED BY <2>1, <2>2
<1> HIDE DEF n
<1> QED BY <1>2, <1>3, <1>4, <1>5, <1>6, ItemShift DEF Leads, Tag

\* The items behind them.
LEMMA ItemsBehind ==
    ASSUME NEW m, Framed(m), NEW m2, Framed(m2), NEW p, NEW q \in Nat, NEW q2 \in Nat,
           Spliced(m, m2, p, q, q2), NEW x \in Nat, q <= x, NEW x2, x2 = x - q + q2,
           NextOf(m, x) \in Nat
    PROVE  /\ x2 \in Nat /\ x < NextOf(m, x)
           /\ Tag(m2, x2) = Tag(m, x) /\ NextOf(m2, x2) = NextOf(m, x) - q + q2
           /\ Tag(m, x) = FDT_BEGIN_NODE /\ Named(m, x) => Named(m2, x2)
           /\ Tag(m, x) = FDT_PROP => At(m2, x2 + 2) = At(m, x + 2)
<1>1. x2 \in Nat
  OBVIOUS
<1>2. x < NextOf(m, x) /\ NextOf(m, x) <= fdt_size_dt_struct(m)
  <2>1. Readable(m)
    BY DEF Framed
  <2> QED BY <2>1, NextTag DEF NextOf
<1>3. fdt_size_dt_struct(m) \in Nat /\ fdt_size_dt_struct(m2) \in Nat
  BY FramedFacts
<1> DEFINE n == NextOf(m, x) - x
<1>4. n \in Nat /\ x + n = NextOf(m, x) /\ x2 + n = NextOf(m, x) - q + q2
  BY <1>2
<1>5. x2 + n <= fdt_size_dt_struct(m2)
  BY <1>2, <1>3, <1>4 DEF Spliced
<1>6. SameWords(m, x, m2, x2, n)
  <2> DEFINE k == fdt_size_dt_struct(m) - q
  <2>1. \A i \in 0 .. k - 1 : At(m2, q2 + i) = At(m, q + i)
    BY DEF Spliced, SameWords
  <2> SUFFICES ASSUME NEW i \in 0 .. n - 1 PROVE At(m2, x2 + i) = At(m, x + i)
    BY DEF SameWords
  <2> DEFINE j == x - q + i
  <2>2. j \in 0 .. k - 1 /\ q2 + j = x2 + i /\ q + j = x + i
    BY <1>2, <1>3
  <2> HIDE DEF n, k, j
  <2>3. At(m2, q2 + j) = At(m, q + j)
    BY <2>1, <2>2
  <2> QED BY <2>2, <2>3
<1> HIDE DEF n
<1> QED BY <1>1, <1>2, <1>4, <1>5, <1>6, ItemShift

\* The items of M, with depths G and places B for properties, take the place of
\* the items from p to q of the tree of m; they end at q2.
Replaced(m, m2, H, A, p, q, q2, M, G, B) ==
    /\ p \in TagOffsets(m, 0) /\ q \in TagOffsets(m, 0) /\ p <= q
    /\ q2 \in Nat /\ p <= q2
    /\ M \subseteq p .. q2 - 1 /\ p \in M \cup {q2}
    /\ G \in [Nat -> Nat] /\ G[p] = H[p] /\ G[q2] = H[q]
    /\ p \in B => p \in A
    /\ q \in A /\ Tag(m, q) \in {FDT_PROP, FDT_NOP} => q2 \in B
    /\ \A x \in M : Tag(m2, x) # FDT_END /\ Nested(m2, M \cup {q2}, G, B, x)

\* A blob in which a stretch of items has been replaced by items that nest, from
\* the same depth to the same depth, is a tree.
LEMMA SplicedTree ==
    ASSUME NEW m, Framed(m), NEW m2, Framed(m2),
           NEW H, NEW A, Tree(m, TagOffsets(m, 0), H, A),
           NEW p, NEW q, NEW q2, Spliced(m, m2, p, q, q2),
           NEW M, NEW G, NEW B, Replaced(m, m2, H, A, p, q, q2, M, G, B)
    PROVE  \E H2, A2 : Tree(m2, TagOffsets(m2, 0), H2, A2)
<1>a. /\ p \in TagOffsets(m, 0) /\ q \in TagOffsets(m, 0) /\ p <= q
      /\ q2 \in Nat /\ p <= q2
      /\ M \subseteq p .. q2 - 1 /\ p \in M \cup {q2}
      /\ G \in [Nat -> Nat] /\ G[p] = H[p] /\ G[q2] = H[q]
      /\ p \in B => p \in A
      /\ q \in A /\ Tag(m, q) \in {FDT_PROP, FDT_NOP} => q2 \in B
      /\ \A x \in M : Tag(m2, x) # FDT_END /\ Nested(m2, M \cup {q2}, G, B, x)
  BY DEF Replaced
<1> USE <1>a
<1> DEFINE T  == TagOffsets(m, 0)
           After == {x \in Nat : q2 <= x /\ x - q2 + q \in T}
           S2 == {x \in T : x < p} \cup M \cup After
           H2 == [x \in Nat |-> IF x < p THEN H[x] ELSE IF x <= q2 THEN G[x] ELSE H[x - q2 + q]]
           A2 == {x \in Nat : \/ x < p /\ x \in A
                              \/ p <= x /\ x <= q2 /\ x \in B
                              \/ q2 < x /\ x - q2 + q \in A}
<1>0. 0 \in 0 .. MemSize /\ MemSize \in Nat
  BY MemAssumption
<1>1. IsChain(m, 0) /\ T \subseteq 0 .. MemSize /\ 0 \in T
  BY <1>0, WalkIsChain, TagOffsetsUnfold
<1>2. p \in Nat /\ q \in Nat /\ \A x \in T : x \in Nat
  BY <1>1
<1>3. /\ H \in [Nat -> Nat] /\ H[0] = 0 /\ 0 \notin A /\ \A x \in T : Nested(m, T, H, A, x)
  BY DEF Tree
<1>4. \A x \in T : NextOf(m, x) \in Nat /\ (Tag(m, x) = FDT_END => NextOf(m, x) = fdt_size_dt_struct(m))
  <2> SUFFICES ASSUME NEW x \in T PROVE NextOf(m, x) \in Nat /\ (Tag(m, x) = FDT_END => NextOf(m, x) = fdt_size_dt_struct(m))
    OBVIOUS
  <2>1. CASE Tag(m, x) = FDT_END
    <3>1. fdt_size_dt_struct(m) \in Nat
      BY FramedFacts
    <3> QED BY <1>3, <2>1, <3>1 DEF Nested
  <2>2. CASE Tag(m, x) # FDT_END
    BY <1>2, <2>2, LeadsOn DEF Leads, Tag
  <2> QED BY <2>1, <2>2
<1>5. fdt_size_dt_struct(m) \in Nat /\ fdt_size_dt_struct(m2) \in Nat /\ p <= fdt_size_dt_struct(m2)
  <2>1. fdt_size_dt_struct(m) \in Nat /\ fdt_size_dt_struct(m2) \in Nat
    BY FramedFacts
  <2>2. q < NextOf(m, q) /\ NextOf(m, q) <= fdt_size_dt_struct(m)
    <3>1. Readable(m)
      BY DEF Framed
    <3> QED BY <1>2, <1>4, <3>1, NextTag DEF NextOf
  <2> QED BY <1>2, <1>4, <2>1, <2>2 DEF Spliced
<1>6. fdt_size_dt_struct(m2) = fdt_size_dt_struct(m) - q + q2 /\ fdt_size_dt_strings(m) <= fdt_size_dt_strings(m2)
  BY <1>2, <1>5 DEF Spliced
<1>7. /\ fdt_size_dt_strings(m) \in Nat /\ fdt_size_dt_strings(m2) \in Nat
  BY HeaderNat, FramedFacts
<1> HIDE DEF T
<1>8. H2 \in [Nat -> Nat]
  <2> SUFFICES ASSUME NEW x \in Nat PROVE (IF x < p THEN H[x] ELSE IF x <= q2 THEN G[x] ELSE H[x - q2 + q]) \in Nat
    OBVIOUS
  <2>1. x > q2 => x - q2 + q \in Nat
    BY <1>2
  <2> QED BY <1>2, <1>3, <2>1
<1>9. /\ \A x \in Nat : x < p => H2[x] = H[x] /\ (x \in A2 <=> x \in A)
      /\ \A x \in Nat : p <= x /\ x <= q2 => H2[x] = G[x] /\ (x \in A2 <=> x \in B)
      /\ \A x \in Nat : q2 < x => H2[x] = H[x - q2 + q] /\ (x \in A2 <=> x - q2 + q \in A)
  BY <1>2
<1>10. /\ H2[p] = H[p] /\ (p \in A2 => p \in A)
       /\ H2[q2] = H[q] /\ (q \in A /\ Tag(m, q) \in {FDT_PROP, FDT_NOP} => q2 \in A2)
  BY <1>2, <1>9
<1>11. H2[0] = 0 /\ 0 \notin A2 /\ 0 \in S2
  <2>1. q2 \in S2 /\ p \in S2
    <3>1. q2 - q2 + q = q
      BY <1>2
    <3>2. q2 \in After
      BY <3>1 DEF T
    <3> HIDE DEF After
    <3> QED BY <3>2
  <2>2. CASE p = 0
    BY <1>3, <1>10, <2>1, <2>2
  <2>3. CASE 0 < p
    <3>1. 0 \in {x \in T : x < p}
      BY <1>1, <2>3
    <3> QED BY <1>3, <1>9, <2>3, <3>1
  <2> QED BY <1>2, <2>2, <2>3
<1>12. q2 \in S2 /\ p \in S2
  <2>1. q2 - q2 + q = q
    BY <1>2
  <2>2. q2 \in After
    BY <2>1 DEF T
  <2> HIDE DEF After
  <2> QED BY <2>2
<1> HIDE DEF H2, A2
<1>13. ASSUME NEW x \in T, x < p PROVE Nested(m2, S2, H2, A2, x)
  <2>1. /\ x \in Nat /\ NextOf(m, x) \in T
        /\ NextOf(m, x) \in Nat /\ x < NextOf(m, x) /\ NextOf(m, x) <= p
        /\ Tag(m, x) # FDT_END
        /\ Tag(m2, x) = Tag(m, x) /\ NextOf(m2, x) = NextOf(m, x)
        /\ Tag(m, x) = FDT_BEGIN_NODE /\ Named(m, x) => Named(m2, x)
        /\ Tag(m, x) = FDT_PROP => At(m2, x + 2) = At(m, x + 2)
    BY <1>5, <1>13, ItemsInFront DEF T
  <2> DEFINE n == NextOf(m, x)
  <2>2. n \in S2
    BY <1>12, <2>1
  <2> HIDE DEF S2
  <2>3. H2[n] = H[n] /\ (n \in A2 => n \in A)
    BY <1>2, <1>9, <1>10, <2>1
  <2>4. H2[x] = H[x] /\ (x \in A2 <=> x \in A)
    BY <1>9, <1>13, <2>1
  <2>5. Nested(m, T, H, A, x)
    BY <1>3
  <2>6. Tag(m, x) = FDT_PROP => Value(At(m2, x + 2)) < fdt_size_dt_strings(m2)
    <3>1. Tag(m, x) = FDT_PROP => Value(At(m, x + 2)) < fdt_size_dt_strings(m)
      BY <2>5 DEF Nested
    <3> SUFFICES ASSUME Tag(m, x) = FDT_PROP PROVE Value(At(m2, x + 2)) < fdt_size_dt_strings(m2)
      OBVIOUS
    <3> DEFINE v == Value(At(m, x + 2))
    <3>2. Value(At(m2, x + 2)) = v /\ v < fdt_size_dt_strings(m)
      BY <2>1, <3>1
    <3>3. v \in Int
      BY <2>1, PropNameNat
    <3> HIDE DEF v
    <3> QED BY <1>6, <1>7, <3>2, <3>3
  <2> QED BY <2>1, <2>2, <2>3, <2>4, <2>5, <2>6 DEF Nested
<1>14. ASSUME NEW x \in M PROVE Nested(m2, S2, H2, A2, x)
  <2>1. Tag(m2, x) # FDT_END /\ Nested(m2, M \cup {q2}, G, B, x)
    OBVIOUS
  <2> DEFINE n == NextOf(m2, x)
  <2>2. n \in M \cup {q2}
    BY <2>1 DEF Nested
  <2>3. n \in S2
    BY <1>12, <2>2
  <2> HIDE DEF S2, n
  <2>4. x \in Nat /\ p <= x /\ x <= q2 /\ n \in Nat /\ p <= n /\ n <= q2
    <3>1. x \in p .. q2 - 1 /\ (n \in p .. q2 - 1 \/ n = q2)
      BY <2>2
    <3> QED BY <1>2, <3>1
  <2>5. H2[n] = G[n] /\ (n \in A2 <=> n \in B) /\ H2[x] = G[x] /\ (x \in A2 <=> x \in B)
    BY <1>9, <2>4
  <2> QED BY <2>1, <2>3, <2>5 DEF Nested, n
<1>15. ASSUME NEW x2 \in After PROVE Nested(m2, S2, H2, A2, x2)
  <2> DEFINE x == x2 - q2 + q
             n == NextOf(m, x)
             n2 == NextOf(m2, x2)
  <2>1. x \in T /\ x \in Nat /\ q <= x /\ x2 = x - q + q2 /\ x2 \in Nat /\ q2 <= x2
    BY <1>2
  <2>2. n \in Nat
    BY <1>4, <2>1
  <2> HIDE DEF x
  <2>3. /\ x < n
        /\ Tag(m2, x2) = Tag(m, x) /\ n2 = n - q + q2
        /\ Tag(m, x) = FDT_BEGIN_NODE /\ Named(m, x) => Named(m2, x2)
        /\ Tag(m, x) = FDT_PROP => At(m2, x2 + 2) = At(m, x + 2)
    <3> HIDE DEF S2, After
    <3>1. NextOf(m, x) \in Nat
      BY <2>2
    <3> QED BY <1>2, <2>1, <3>1, ItemsBehind
  <2>4. Nested(m, T, H, A, x)
    BY <1>3, <2>1
  <2>5. Tag(m, x) # FDT_END => n2 \in S2
    <3> SUFFICES ASSUME Tag(m, x) # FDT_END PROVE n2 \in After
      OBVIOUS
    <3>1. n \in T
      BY <2>4 DEF Nested
    <3> HIDE DEF n, n2
    <3>2. n2 \in Nat /\ q2 <= n2 /\ n2 - q2 + q = n
      BY <1>2, <2>1, <2>2, <2>3
    <3> QED BY <3>1, <3>2
  <2> HIDE DEF S2, n, n2
  <2>6. H2[n2] = H[n] /\ (n2 \in A2 <=> n \in A)
    <3>1. n2 \in Nat /\ q2 < n2 /\ n2 - q2 + q = n
      BY <1>2, <2>1, <2>2, <2>3
    <3> QED BY <1>9, <3>1
  <2>7. H2[x2] = H[x] /\ (x \in A /\ Tag(m, x) \in {FDT_PROP, FDT_NOP} => x2 \in A2)
    <3>1. CASE x2 = q2
      <4>1. x = q
        BY <1>2, <2>1, <3>1
      <4> QED BY <1>10, <3>1, <4>1
    <3>2. CASE q2 < x2
      <4>1. x2 - q2 + q = x
        BY <1>2, <2>1
      <4> QED BY <1>9, <2>1, <3>2, <4>1
    <3> QED BY <2>1, <3>1, <3>2
  <2>8. Tag(m, x) = FDT_END => n2 = fdt_size_dt_struct(m2)
    BY <1>4, <1>5, <1>6, <1>2, <2>1, <2>3 DEF n
  <2>9. Tag(m, x) = FDT_PROP => Value(At(m2, x2 + 2)) < fdt_size_dt_strings(m2)
    <3>1. Tag(m, x) = FDT_PROP => Value(At(m, x + 2)) < fdt_size_dt_strings(m)
      BY <2>4 DEF Nested
    <3> SUFFICES ASSUME Tag(m, x) = FDT_PROP PROVE Value(At(m2, x2 + 2)) < fdt_size_dt_strings(m2)
      OBVIOUS
    <3> DEFINE v == Value(At(m, x + 2))
    <3>2. Value(At(m2, x2 + 2)) = v /\ v < fdt_size_dt_strings(m)
      BY <2>3, <3>1
    <3>3. v \in Int
      BY <2>1, PropNameNat
    <3> HIDE DEF v
    <3> QED BY <1>6, <1>7, <3>2, <3>3
  <2> QED BY <2>3, <2>4, <2>5, <2>6, <2>7, <2>8, <2>9 DEF Nested, n, n2
<1>16. Tree(m2, S2, H2, A2)
  <2>1. \A x \in S2 : Nested(m2, S2, H2, A2, x)
    BY <1>13, <1>14, <1>15
  <2> HIDE DEF S2
  <2> QED BY <1>8, <1>11, <2>1 DEF Tree
<1> QED BY <1>16, TreeIntro

-----------------------------------------------------------------------------
(* The structure block behind a splice.                                    *)

\* What is behind address p + oldlen has moved to p + newlen.
Shifted(m, m2, p, oldlen, newlen) ==
    /\ m2 \in Memory
    /\ \A a \in HeaderSize .. MemSize - 1 : a < p + newlen => m2[a] = m[a]
    /\ \A a \in HeaderSize .. MemSize - 1 :
         p + newlen <= a /\ a < fdt_data_size_(m) - oldlen + newlen =>
             m2[a] = m[a - newlen + oldlen]
    /\ fdt_data_size_(m) - oldlen + newlen <= fdt_totalsize(m)
    /\ fdt_size_dt_struct(m2) = fdt_size_dt_struct(m) + newlen - oldlen
    /\ fdt_off_dt_strings(m2) = fdt_off_dt_strings(m) + newlen - oldlen
    /\ fdt_size_dt_strings(m2) = fdt_size_dt_strings(m)

\* A splice of the structure block moves what is behind it, or does nothing.
LEMMA SpliceShifts ==
    ASSUME NEW m, Good(m), NEW p \in Nat, NEW oldlen \in Nat, NEW newlen \in Nat,
           fdt_off_dt_struct(m) <= p,
           p + oldlen <= fdt_off_dt_struct(m) + fdt_size_dt_struct(m)
    PROVE  LET r == fdt_splice_struct_(m, p, oldlen, newlen)
           IN  /\ r.ret # 0 => r.m = m
               /\ r.ret = 0 => Shifted(m, r.m, p, oldlen, newlen)
<1> DEFINE end == fdt_data_size_(m)
           s   == fdt_splice_(m, p, oldlen, newlen)
           r   == fdt_splice_struct_(m, p, oldlen, newlen)
           m0  == Move(m, p + newlen, p + oldlen, end - p - oldlen)
           m1  == Set(m0, hSizeDtStruct, fdt_size_dt_struct(m0) + (newlen - oldlen))
           m2  == Set(m1, hOffDtStrings, fdt_off_dt_strings(m1) + (newlen - oldlen))
<1>0. /\ m \in Memory /\ MemSize \in Nat /\ MemSize >= 10
      /\ fdt_totalsize(m) \in Nat /\ fdt_off_dt_struct(m) \in Nat
      /\ fdt_off_dt_strings(m) \in Nat /\ fdt_off_mem_rsvmap(m) \in Nat
      /\ fdt_size_dt_struct(m) \in Nat /\ fdt_size_dt_strings(m) \in Nat
      /\ 14 <= fdt_off_dt_struct(m)
      /\ fdt_off_dt_struct(m) + fdt_size_dt_struct(m) <= fdt_off_dt_strings(m)
      /\ end = fdt_off_dt_strings(m) + fdt_size_dt_strings(m)
      /\ end <= fdt_totalsize(m) /\ fdt_totalsize(m) <= MemSize
  BY GoodFacts, MemAssumption DEF fdt_data_size_
<1>1. CASE s.ret # 0
  <2>1. s.m = m
    BY <1>1 DEF fdt_splice_, Return
  <2>2. r = s
    BY <1>1 DEF fdt_splice_struct_
  <2> QED BY <1>1, <2>1, <2>2
<1>2. CASE s.ret = 0
  <2>1. end - oldlen + newlen <= fdt_totalsize(m) /\ s = [ret |-> 0, m |-> m0, p |-> 0]
    BY <1>0, <1>2 DEF fdt_splice_, Return
  <2>2. r = [ret |-> 0, m |-> m2, p |-> 0]
    BY <1>2, <2>1 DEF fdt_splice_struct_, Return
  <2>3. /\ m0 \in Memory
        /\ \A a \in 0 .. MemSize - 1 : a < p + newlen => m0[a] = m[a]
        /\ \A a \in 0 .. MemSize - 1 :
              p + newlen <= a /\ a < end - oldlen + newlen => m0[a] = m[a - newlen + oldlen]
    <3> DEFINE n == end - p - oldlen
               dst == p + newlen
               src == p + oldlen
    <3>1. /\ n \in Int /\ dst \in Nat /\ src \in Nat /\ src + n <= MemSize /\ m \in Memory
          /\ dst + n = end - oldlen + newlen
      BY <1>0
    <3>2. m0 = Move(m, dst, src, n)
      OBVIOUS
    <3>3. \A a \in 0 .. MemSize - 1 : src + a - dst = a - newlen + oldlen
      BY <1>0
    <3> HIDE DEF m0, n, dst, src
    <3>4. /\ m0 \in Memory
          /\ \A a \in 0 .. MemSize - 1 : a < dst \/ a >= dst + n => m0[a] = m[a]
          /\ \A a \in 0 .. MemSize - 1 : a >= dst /\ a < dst + n => m0[a] = m[src + a - dst]
      <4>1. /\ Move(m, dst, src, n) \in Memory
            /\ \A a \in 0 .. MemSize - 1 :
                 a < dst \/ a >= dst + n => Move(m, dst, src, n)[a] = m[a]
            /\ \A a \in 0 .. MemSize - 1 :
                 a >= dst /\ a < dst + n => Move(m, dst, src, n)[a] = m[src + a - dst]
        BY <3>1, MoveMemory
      <4> QED BY <3>2, <4>1
    <3>5. \A a \in 0 .. MemSize - 1 : a < p + newlen => m0[a] = m[a]
      BY <3>4 DEF dst
    <3>6. ASSUME NEW a \in 0 .. MemSize - 1, p + newlen <= a, a < end - oldlen + newlen
          PROVE  m0[a] = m[a - newlen + oldlen]
      <4>1. a >= dst /\ a < dst + n
        BY <3>1, <3>6 DEF dst
      <4>2. m0[a] = m[src + a - dst]
        BY <3>4, <4>1
      <4> QED BY <3>3, <4>2
    <3> QED BY <3>4, <3>5, <3>6
  <2>4. \A h \in 0 .. 9 : m0[h] = m[h]
    <3> HIDE DEF m0
    <3> QED BY <1>0, <2>3
  <2>5. /\ fdt_size_dt_struct(m0) = fdt_size_dt_struct(m)
        /\ fdt_off_dt_strings(m0) = fdt_off_dt_strings(m)
    BY <2>4 DEF fdt_size_dt_struct, fdt_off_dt_strings
  <2> DEFINE size == fdt_size_dt_struct(m) + (newlen - oldlen)
             offs == fdt_off_dt_strings(m) + (newlen - oldlen)
  <2>6. size \in Nat /\ offs \in Nat
    BY <1>0
  <2>7. /\ m1 \in Memory /\ m1[hSizeDtStruct] = Num(size)
        /\ \A a \in 0 .. MemSize - 1 : a # hSizeDtStruct => m1[a] = m0[a]
    <3> HIDE DEF m0, size
    <3> QED BY <1>0, <2>3, <2>5, <2>6, SetMemory DEF size
  <2>8. fdt_off_dt_strings(m1) = fdt_off_dt_strings(m)
    <3> HIDE DEF m1, m0
    <3> QED BY <1>0, <2>4, <2>7 DEF fdt_off_dt_strings
  <2>9. /\ m2 \in Memory /\ m2[hOffDtStrings] = Num(offs) /\ m2[hSizeDtStruct] = Num(size)
        /\ \A a \in 0 .. MemSize - 1 :
                a \notin {hSizeDtStruct, hOffDtStrings} => m2[a] = m0[a]
    <3> HIDE DEF m1, m0, offs, size
    <3> QED BY <1>0, <2>6, <2>7, <2>8, SetMemory DEF offs
  <2> HIDE DEF m2, m1, m0, size, offs
  <2>10. /\ fdt_size_dt_struct(m2) = size /\ fdt_off_dt_strings(m2) = offs
         /\ fdt_size_dt_strings(m2) = fdt_size_dt_strings(m)
    BY <1>0, <2>4, <2>6, <2>9, CellFacts
    DEF fdt_size_dt_struct, fdt_off_dt_strings, fdt_size_dt_strings
  <2>11. \A a \in HeaderSize .. MemSize - 1 : m2[a] = m0[a]
    BY <1>0, <2>9
  <2> HIDE DEF end
  <2>12. Shifted(m, m2, p, oldlen, newlen)
    <3>1. \A a \in HeaderSize .. MemSize - 1 : a < p + newlen => m2[a] = m[a]
      BY <1>0, <2>3, <2>11
    <3>2. \A a \in HeaderSize .. MemSize - 1 :
            p + newlen <= a /\ a < end - oldlen + newlen => m2[a] = m[a - newlen + oldlen]
      BY <1>0, <2>3, <2>11
    <3>3. /\ fdt_size_dt_struct(m2) = fdt_size_dt_struct(m) + newlen - oldlen
          /\ fdt_off_dt_strings(m2) = fdt_off_dt_strings(m) + newlen - oldlen
      BY <1>0, <2>10 DEF size, offs
    <3> QED BY <2>1, <2>9, <2>10, <3>1, <3>2, <3>3 DEF Shifted, end
  <2> QED BY <2>2, <2>12
<1> QED BY <1>1, <1>2

\* The structure block with a stretch of words replaced.
LEMMA SpliceSpliced ==
    ASSUME NEW m, Good(m), NEW x \in Nat, NEW oldlen \in Nat, NEW newlen \in Nat,
           x + oldlen <= fdt_size_dt_struct(m),
           NEW p, p = fdt_off_dt_struct(m) + x
    PROVE  LET r == fdt_splice_struct_(m, p, oldlen, newlen)
           IN  /\ r.ret # 0 => r.m = m
               /\ Good(r.m) /\ r.ret \in Int
               /\ fdt_off_dt_struct(r.m) = fdt_off_dt_struct(m)
               /\ r.ret = 0 => Spliced(m, r.m, x, x + oldlen, x + newlen)
<1> DEFINE r == fdt_splice_struct_(m, p, oldlen, newlen)
           m2 == r.m
           S0 == fdt_off_dt_struct(m)
           n  == fdt_size_dt_struct(m) - (x + oldlen)
<1>0. /\ m \in Memory /\ MemSize \in Nat /\ MemSize >= 10
      /\ fdt_totalsize(m) \in Nat /\ S0 \in Nat
      /\ fdt_off_dt_strings(m) \in Nat /\ fdt_off_mem_rsvmap(m) \in Nat
      /\ fdt_size_dt_struct(m) \in Nat /\ fdt_size_dt_strings(m) \in Nat
      /\ 14 <= S0
      /\ S0 + fdt_size_dt_struct(m) <= fdt_off_dt_strings(m)
      /\ fdt_data_size_(m) = fdt_off_dt_strings(m) + fdt_size_dt_strings(m)
      /\ fdt_data_size_(m) <= fdt_totalsize(m) /\ fdt_totalsize(m) <= MemSize
  BY GoodFacts, MemAssumption DEF fdt_data_size_
<1>1. p \in Nat /\ S0 <= p /\ p + oldlen <= S0 + fdt_size_dt_struct(m)
  BY <1>0
<1>2. Good(m2) /\ r.ret \in Int /\ fdt_off_dt_struct(m2) = S0
  BY <1>1, SpliceStruct
<1>3. r.ret # 0 => m2 = m
  BY <1>1, SpliceShifts
<1>4. ASSUME r.ret = 0 PROVE Spliced(m, m2, x, x + oldlen, x + newlen)
  <2>1. Shifted(m, m2, p, oldlen, newlen)
    BY <1>1, <1>4, SpliceShifts
  <2> HIDE DEF m2, S0
  <2>2. /\ \A a \in 10 .. MemSize - 1 : a < p + newlen => m2[a] = m[a]
        /\ \A a \in 10 .. MemSize - 1 :
             p + newlen <= a /\ a < fdt_data_size_(m) - oldlen + newlen =>
                 m2[a] = m[a - newlen + oldlen]
        /\ fdt_data_size_(m) - oldlen + newlen <= fdt_totalsize(m)
        /\ fdt_size_dt_struct(m2) = fdt_size_dt_struct(m) + newlen - oldlen
        /\ fdt_off_dt_strings(m2) = fdt_off_dt_strings(m) + newlen - oldlen
        /\ fdt_size_dt_strings(m2) = fdt_size_dt_strings(m)
    BY <2>1 DEF Shifted
  <2>3. SameWords(m, 0, m2, 0, x)
    <3> SUFFICES ASSUME NEW i \in 0 .. x - 1 PROVE At(m2, 0 + i) = At(m, 0 + i)
      BY DEF SameWords
    <3> DEFINE a == S0 + (0 + i)
    <3>1. a \in 10 .. MemSize - 1 /\ a < p + newlen
      BY <1>0 DEF S0
    <3> HIDE DEF a
    <3>2. m2[a] = m[a]
      BY <2>2, <3>1
    <3> QED BY <1>2, <3>2 DEF At, a, S0
  <2>4. SameWords(m, x + oldlen, m2, x + newlen, n)
    <3> SUFFICES ASSUME NEW i \in 0 .. n - 1
                 PROVE  At(m2, x + newlen + i) = At(m, x + oldlen + i)
      BY DEF SameWords
    <3> DEFINE a == S0 + (x + newlen + i)
               b == S0 + (x + oldlen + i)
    <3>1. /\ a \in 10 .. MemSize - 1 /\ p + newlen <= a
          /\ a < fdt_data_size_(m) - oldlen + newlen /\ a - newlen + oldlen = b
      BY <1>0, <2>2 DEF S0
    <3> HIDE DEF a, b
    <3>2. m2[a] = m[b]
      BY <2>2, <3>1
    <3> QED BY <1>2, <3>2 DEF At, a, b, S0
  <2>5. StringsNamed(m) => StringsNamed(m2)
    <3> SUFFICES ASSUME StringsNamed(m), NEW i \in 0 .. fdt_size_dt_strings(m) - 1
                 PROVE  /\ m2[fdt_off_dt_strings(m2) + i].k = "str"
                        /\ m2[fdt_off_dt_strings(m2) + i].s # ""
      BY <2>2 DEF StringsNamed
    <3> DEFINE a == fdt_off_dt_strings(m2) + i
               b == fdt_off_dt_strings(m) + i
    <3>1. /\ a \in 10 .. MemSize - 1 /\ p + newlen <= a
          /\ a < fdt_data_size_(m) - oldlen + newlen /\ a - newlen + oldlen = b
      BY <1>0, <2>2 DEF S0
    <3> HIDE DEF a, b
    <3>2. m2[a] = m[b]
      BY <2>2, <3>1
    <3>3. m[b].k = "str" /\ m[b].s # ""
      BY DEF StringsNamed, b
    <3> QED BY <3>2, <3>3 DEF a
  <2>6. fdt_size_dt_struct(m2) - (x + newlen) = fdt_size_dt_struct(m) - (x + oldlen)
    BY <1>0, <2>2
  <2> QED BY <1>0, <2>2, <2>3, <2>4, <2>5, <2>6 DEF Spliced
<1> QED BY <1>2, <1>3, <1>4

\* The words between p and q2 may be written afterwards.
LEMMA MiddleWritten ==
    ASSUME NEW m, Good(m), NEW b, Good(b), fdt_off_dt_struct(b) = fdt_off_dt_struct(m),
           NEW p \in Nat, NEW p1 \in Nat, NEW q \in Nat, NEW q2 \in Nat, p <= p1, p1 <= q2,
           q <= fdt_size_dt_struct(m),
           Spliced(m, b, p1, q, q2),
           NEW m2 \in Memory,
           \A a \in 0 .. MemSize - 1 :
               a < fdt_off_dt_struct(m) + p \/ a >= fdt_off_dt_struct(m) + q2 => m2[a] = b[a]
    PROVE  Good(m2) /\ fdt_off_dt_struct(m2) = fdt_off_dt_struct(m) /\ Spliced(m, m2, p, q, q2)
<1> DEFINE S0 == fdt_off_dt_struct(m)
           S1 == fdt_size_dt_struct(b)
           n  == fdt_size_dt_struct(m) - q
<1>0. /\ m2 \in Memory /\ MemSize \in Nat /\ b \in Memory
      /\ fdt_totalsize(b) \in Nat /\ S0 \in Nat /\ S1 \in Nat
      /\ fdt_off_dt_strings(b) \in Nat /\ fdt_size_dt_strings(b) \in Nat
      /\ fdt_size_dt_struct(m) \in Nat
      /\ 14 <= S0
      /\ S0 + S1 <= fdt_off_dt_strings(b)
      /\ fdt_off_dt_strings(b) + fdt_size_dt_strings(b) <= fdt_totalsize(b)
      /\ fdt_totalsize(b) <= MemSize /\ fdt_off_dt_struct(b) = S0
  BY GoodFacts
<1> HIDE DEF S0
<1>1. S1 - q2 = n
  BY DEF Spliced
<1> HIDE DEF S1
<1>2. q2 <= S1
  BY <1>0, <1>1
<1>3. \A a \in 0 .. MemSize - 1 : a < S0 + p \/ a >= S0 + q2 => m2[a] = b[a]
  BY DEF S0
<1>4. Good(m2) /\ SameBlocks(b, m2)
  <2>1. \A a \in 0 .. MemSize - 1 : a < S0 \/ a >= fdt_totalsize(b) => m2[a] = b[a]
    BY <1>0, <1>2, <1>3
  <2> QED BY <1>0, <2>1, StructWritten
<1>5. fdt_size_dt_strings(m2) = fdt_size_dt_strings(b)
  <2>1. m2[8] = b[8]
    BY <1>0, <1>3
  <2> QED BY <2>1 DEF fdt_size_dt_strings
<1>6. SameWords(m, 0, m2, 0, p)
  <2> SUFFICES ASSUME NEW i \in 0 .. p - 1 PROVE At(m2, 0 + i) = At(m, 0 + i)
    BY DEF SameWords
  <2> DEFINE a == S0 + (0 + i)
  <2>1. a \in 0 .. MemSize - 1 /\ a < S0 + p
    BY <1>0, <1>2
  <2>2. At(b, 0 + i) = At(m, 0 + i)
    <3>1. i \in 0 .. p1 - 1
      OBVIOUS
    <3> QED BY <3>1 DEF Spliced, SameWords
  <2>3. m2[a] = b[a]
    <3> HIDE DEF a
    <3> QED BY <1>3, <2>1
  <2> QED BY <1>0, <1>4, <2>2, <2>3 DEF At, SameBlocks
<1>7. SameWords(m, q, m2, q2, n)
  <2> SUFFICES ASSUME NEW i \in 0 .. n - 1 PROVE At(m2, q2 + i) = At(m, q + i)
    BY DEF SameWords
  <2> DEFINE a == S0 + (q2 + i)
  <2>1. a \in 0 .. MemSize - 1 /\ a >= S0 + q2
    BY <1>0, <1>1, <1>2
  <2>2. At(b, q2 + i) = At(m, q + i)
    BY DEF Spliced, SameWords
  <2>3. m2[a] = b[a]
    <3> HIDE DEF a
    <3> QED BY <1>3, <2>1
  <2> QED BY <1>0, <1>4, <2>2, <2>3 DEF At, SameBlocks
<1>8. StringsNamed(b) => StringsNamed(m2)
  <2> SUFFICES ASSUME StringsNamed(b), NEW i \in 0 .. fdt_size_dt_strings(b) - 1
               PROVE  /\ m2[fdt_off_dt_strings(m2) + i].k = "str"
                      /\ m2[fdt_off_dt_strings(m2) + i].s # ""
    BY <1>5 DEF StringsNamed
  <2> DEFINE a == fdt_off_dt_strings(b) + i
  <2>1. a \in 0 .. MemSize - 1 /\ a >= S0 + q2
    BY <1>0, <1>2
  <2>2. b[a].k = "str" /\ b[a].s # ""
    BY DEF StringsNamed
  <2> HIDE DEF a
  <2>3. m2[a] = b[a]
    BY <1>3, <2>1
  <2> QED BY <1>4, <2>2, <2>3 DEF SameBlocks, a
<1>9. fdt_size_dt_struct(m2) - q2 = fdt_size_dt_struct(m) - q
  BY <1>1, <1>4 DEF SameBlocks, S1
<1>10. fdt_size_dt_strings(m) <= fdt_size_dt_strings(m2) /\ (StringsNamed(m) => StringsNamed(m2))
  BY <1>5, <1>8 DEF Spliced
<1> QED BY <1>0, <1>4, <1>6, <1>7, <1>9, <1>10 DEF Spliced, SameBlocks

\* What a splice at offset x of the structure block makes of m.
SplicedAt(m, r, x, oldlen, newlen) ==
    /\ r.ret # 0 => r.m = m
    /\ Good(r.m) /\ r.ret \in Int
    /\ fdt_off_dt_struct(r.m) = fdt_off_dt_struct(m)
    /\ r.ret = 0 => Spliced(m, r.m, x, x + oldlen, x + newlen)

\* fdt_splice_struct_ does just that.
LEMMA SpliceAt ==
    ASSUME NEW m, Good(m), NEW x, x \in Nat, NEW oldlen, oldlen \in Nat,
           NEW newlen, newlen \in Nat, x + oldlen <= fdt_size_dt_struct(m)
    PROVE  SplicedAt(m, fdt_splice_struct_(m, fdt_off_dt_struct(m) + x, oldlen, newlen),
                     x, oldlen, newlen)
<1> DEFINE p == fdt_off_dt_struct(m) + x
           r == fdt_splice_struct_(m, p, oldlen, newlen)
<1>1. p = fdt_off_dt_struct(m) + x
  OBVIOUS
<1> HIDE DEF p
<1>2. /\ r.ret # 0 => r.m = m
      /\ Good(r.m) /\ r.ret \in Int
      /\ fdt_off_dt_struct(r.m) = fdt_off_dt_struct(m)
      /\ r.ret = 0 => Spliced(m, r.m, x, x + oldlen, x + newlen)
  BY <1>1, SpliceSpliced
<1> QED BY <1>2 DEF p, SplicedAt

\* m2 is b but for the words from p to q2 of the structure block.
WrittenIn(m, b, m2, p, q2) ==
    /\ m2 \in Memory
    /\ \A a \in 0 .. MemSize - 1 :
         a < fdt_off_dt_struct(m) + p \/ a >= fdt_off_dt_struct(m) + q2 => m2[a] = b[a]

\* What is written after a splice stays between the items.
LEMMA WrittenSpliced ==
    ASSUME NEW m, Good(m), NEW b, Good(b), fdt_off_dt_struct(b) = fdt_off_dt_struct(m),
           NEW p, p \in Nat, NEW p1, p1 \in Nat, NEW q, q \in Nat, NEW q2, q2 \in Nat,
           p <= p1, p1 <= q2, q <= fdt_size_dt_struct(m),
           Spliced(m, b, p1, q, q2), NEW m2, WrittenIn(m, b, m2, p, q2)
    PROVE  Good(m2) /\ fdt_off_dt_struct(m2) = fdt_off_dt_struct(m) /\ Spliced(m, m2, p, q, q2)
<1>1. m2 \in Memory
  BY DEF WrittenIn
<1>2. \A a \in 0 .. MemSize - 1 :
         a < fdt_off_dt_struct(m) + p \/ a >= fdt_off_dt_struct(m) + q2 => m2[a] = b[a]
  BY DEF WrittenIn
<1> QED BY <1>1, <1>2, MiddleWritten

-----------------------------------------------------------------------------
(* Depths.                                                                 *)

\* A walk is the items at its offsets.
LEMMA WalkItem ==
    ASSUME NEW m, NEW o
    PROVE  /\ \A t \in TagOffsets(m, o) : Item(m, t) \in Walk(m, o)
           /\ \A x \in Walk(m, o) : x.at \in TagOffsets(m, o) /\ x = Item(m, x.at)
           /\ \A t : /\ Item(m, t).at = t /\ Item(m, t).tag = Tag(m, t)
                     /\ Item(m, t).next = NextOf(m, t)
<1>1. \A t : /\ Item(m, t).at = t /\ Item(m, t).tag = Tag(m, t)
             /\ Item(m, t).next = NextOf(m, t)
  BY Zenon DEF Item, Tag, NextOf
<1>2. \A t \in TagOffsets(m, o) : Item(m, t) \in Walk(m, o)
  BY Zenon DEF Walk
<1>3. ASSUME NEW x \in Walk(m, o) PROVE x.at \in TagOffsets(m, o) /\ x = Item(m, x.at)
  <2>1. PICK t \in TagOffsets(m, o) : x = Item(m, t)
    BY Zenon DEF Walk
  <2>2. x.at = t
    BY <1>1, <2>1, Zenon
  <2> QED BY <2>1, <2>2, Zenon
<1> QED BY <1>1, <1>2, <1>3, Zenon

\* The items with a tag of the walk from o, up to offset x.
Counted(m, o, tag, x) == {y \in Tagged(Walk(m, o), {tag}) : y.at <= x}

\* An item is counted by its offset and its tag.
LEMMA CountedItem ==
    ASSUME NEW m, NEW o, NEW tag, NEW x, NEW y
    PROVE  y \in Counted(m, o, tag, x) <=>
             \E t \in TagOffsets(m, o) : Tag(m, t) = tag /\ t <= x /\ y = Item(m, t)
<1>1. ASSUME y \in Counted(m, o, tag, x)
      PROVE  \E t \in TagOffsets(m, o) : Tag(m, t) = tag /\ t <= x /\ y = Item(m, t)
  <2>1. y \in Walk(m, o) /\ y.tag = tag /\ y.at <= x
    BY <1>1, Zenon DEF Counted, Tagged
  <2>2. y.at \in TagOffsets(m, o) /\ y = Item(m, y.at) /\ Item(m, y.at).tag = Tag(m, y.at)
    BY <2>1, WalkItem, Zenon
  <2>3. Tag(m, y.at) = tag
    BY <2>1, <2>2, Zenon
  <2> QED BY <2>1, <2>2, <2>3, Zenon
<1>2. ASSUME NEW t \in TagOffsets(m, o), Tag(m, t) = tag, t <= x, y = Item(m, t)
      PROVE  y \in Counted(m, o, tag, x)
  <2>1. y \in Walk(m, o) /\ y.at = t /\ y.tag = tag
    BY <1>2, WalkItem, Zenon
  <2> QED BY <1>2, <2>1 DEF Counted, Tagged
<1> QED BY <1>1, <1>2, Zenon

\* The count at the first item.
LEMMA CountFirst ==
    ASSUME NEW m, Framed(m), NEW o \in 0 .. MemSize, NEW tag
    PROVE  /\ IsFiniteSet(Counted(m, o, tag, o))
           /\ Cardinality(Counted(m, o, tag, o)) = IF Tag(m, o) = tag THEN 1 ELSE 0
<1>1. o \in TagOffsets(m, o) /\ TagOffsets(m, o) \subseteq o .. MemSize
  BY TagOffsetsUnfold
<1>2. \A t \in TagOffsets(m, o) : t <= o <=> t = o
  <2>1. o \in Nat /\ MemSize \in Nat
    BY MemAssumption
  <2> QED BY <1>1, <2>1
<1>3. CASE Tag(m, o) = tag
  <2>1. ASSUME NEW y PROVE y \in Counted(m, o, tag, o) <=> y = Item(m, o)
    <3>1. y \in Counted(m, o, tag, o) <=>
            \E t \in TagOffsets(m, o) : Tag(m, t) = tag /\ t <= o /\ y = Item(m, t)
      BY CountedItem
    <3> QED BY <1>1, <1>2, <1>3, <3>1
  <2>2. Counted(m, o, tag, o) = {Item(m, o)}
    BY <2>1, Zenon
  <2> QED BY <1>3, <2>2, FS_Singleton
<1>4. CASE Tag(m, o) # tag
  <2>1. ASSUME NEW y PROVE y \notin Counted(m, o, tag, o)
    <3>1. y \in Counted(m, o, tag, o) <=>
            \E t \in TagOffsets(m, o) : Tag(m, t) = tag /\ t <= o /\ y = Item(m, t)
      BY CountedItem
    <3> QED BY <1>1, <1>2, <1>4, <3>1
  <2>2. Counted(m, o, tag, o) = {}
    BY <2>1, Zenon
  <2> QED BY <1>4, <2>2, FS_EmptySet
<1> QED BY <1>3, <1>4

\* The count at the next item.
LEMMA CountNext ==
    ASSUME NEW m, Framed(m), NEW o \in 0 .. MemSize, NEW tag,
           NEW x \in TagOffsets(m, o), Leads(m, x),
           IsFiniteSet(Counted(m, o, tag, x)), NEW n, n = NextOf(m, x)
    PROVE  /\ IsFiniteSet(Counted(m, o, tag, n))
           /\ Cardinality(Counted(m, o, tag, x)) \in Nat
           /\ Cardinality(Counted(m, o, tag, n)) =
                Cardinality(Counted(m, o, tag, x)) + IF Tag(m, n) = tag THEN 1 ELSE 0
<1> DEFINE T == TagOffsets(m, o)
<1>1. T \subseteq o .. MemSize /\ IsChain(m, o) /\ MemSize \in Nat /\ o \in Nat
  BY TagOffsetsUnfold, WalkIsChain, MemAssumption
<1>2. x \in Nat /\ \A t \in T : t \in Nat
  BY <1>1
<1>3. n \in T /\ x < n /\ n \in Nat
  BY <1>1, <1>2, LeadsOn DEF IsChain
<1>4. \A t \in T : t <= n <=> t <= x \/ t = n
  <2> SUFFICES ASSUME NEW t \in T PROVE t <= n <=> t <= x \/ t = n
    OBVIOUS
  <2>1. x < t => n <= t
    BY <1>1, Zenon DEF IsChain
  <2> HIDE DEF T
  <2> QED BY <1>2, <1>3, <2>1
<1>5. Cardinality(Counted(m, o, tag, x)) \in Nat
  BY FS_CardinalityType
<1>6. CASE Tag(m, n) = tag
  <2>1. ASSUME NEW y
        PROVE  y \in Counted(m, o, tag, n) <=> y \in Counted(m, o, tag, x) \/ y = Item(m, n)
    <3>1. y \in Counted(m, o, tag, n) <=>
            \E t \in TagOffsets(m, o) : Tag(m, t) = tag /\ t <= n /\ y = Item(m, t)
      BY CountedItem
    <3>2. y \in Counted(m, o, tag, x) <=>
            \E t \in TagOffsets(m, o) : Tag(m, t) = tag /\ t <= x /\ y = Item(m, t)
      BY CountedItem
    <3> QED BY <1>3, <1>4, <1>6, <3>1, <3>2
  <2>2. Counted(m, o, tag, n) = Counted(m, o, tag, x) \cup {Item(m, n)}
    BY <2>1, Zenon
  <2>3. Item(m, n) \notin Counted(m, o, tag, x)
    <3> SUFFICES ASSUME NEW t \in T, t <= x, Item(m, n) = Item(m, t) PROVE FALSE
      BY CountedItem
    <3>1. n = t
      <4>1. Item(m, n).at = n /\ Item(m, t).at = t
        BY WalkItem
      <4> QED BY <4>1
    <3> HIDE DEF T
    <3> QED BY <1>2, <1>3, <3>1
  <2> QED BY <1>5, <1>6, <2>2, <2>3, FS_AddElement
<1>7. CASE Tag(m, n) # tag
  <2>1. ASSUME NEW y
        PROVE  y \in Counted(m, o, tag, n) <=> y \in Counted(m, o, tag, x)
    <3>1. y \in Counted(m, o, tag, n) <=>
            \E t \in TagOffsets(m, o) : Tag(m, t) = tag /\ t <= n /\ y = Item(m, t)
      BY CountedItem
    <3>2. y \in Counted(m, o, tag, x) <=>
            \E t \in TagOffsets(m, o) : Tag(m, t) = tag /\ t <= x /\ y = Item(m, t)
      BY CountedItem
    <3> QED BY <1>3, <1>4, <1>7, <3>1, <3>2
  <2>2. Counted(m, o, tag, n) = Counted(m, o, tag, x)
    BY <2>1, Zenon
  <2> QED BY <1>5, <1>7, <2>2
<1> QED BY <1>6, <1>7

\* The depth behind the item at x.
Behind(m, H, x) == IF Leads(m, x) THEN H[NextOf(m, x)] ELSE H[x]

\* The depth that fdt_next_node counts is the depth of the tree.
LEMMA TreeDepth ==
    ASSUME NEW m, Framed(m), NEW H, NEW A, Tree(m, TagOffsets(m, 0), H, A),
           NEW o \in TagOffsets(m, 0), NEW x \in TagOffsets(m, o)
    PROVE  Depth(Walk(m, o), Item(m, x)) = Behind(m, H, x) - H[o]
<1> DEFINE T == TagOffsets(m, 0)
           C(tag, t) == Cardinality(Counted(m, o, tag, t))
           P == {t \in TagOffsets(m, o) :
                   /\ \A tag \in {1, 2} : IsFiniteSet(Counted(m, o, tag, t))
                   /\ \A tag \in {1, 2} : C(tag, t) \in Nat
                   /\ C(1, t) - C(2, t) = Behind(m, H, t) - H[o]}
<1>0. 0 \in 0 .. MemSize /\ MemSize \in Nat
  BY MemAssumption
<1>1. o \in 0 .. MemSize /\ IsChain(m, 0) /\ T \subseteq 0 .. MemSize
  BY <1>0, TagOffsetsUnfold, WalkIsChain
<1>2. TagOffsets(m, o) \subseteq T
  BY <1>1 DEF IsChain
<1>3. H \in [Nat -> Nat] /\ \A t \in T : Nested(m, T, H, A, t)
  BY DEF Tree
<1>4. \A t \in T : /\ t \in Nat /\ H[t] \in Nat /\ Behind(m, H, t) \in Nat
                   /\ Tag(m, t) = 1 => Behind(m, H, t) = H[t] + 1
                   /\ Tag(m, t) = 2 => Behind(m, H, t) = H[t] - 1
                   /\ Tag(m, t) \notin {1, 2} => Behind(m, H, t) = H[t]
  <2> SUFFICES ASSUME NEW t \in T
               PROVE  /\ t \in Nat /\ H[t] \in Nat /\ Behind(m, H, t) \in Nat
                      /\ Tag(m, t) = 1 => Behind(m, H, t) = H[t] + 1
                      /\ Tag(m, t) = 2 => Behind(m, H, t) = H[t] - 1
                      /\ Tag(m, t) \notin {1, 2} => Behind(m, H, t) = H[t]
    OBVIOUS
  <2>1. t \in Nat
    BY <1>1
  <2>2. Leads(m, t) <=> Tag(m, t) # 9
    BY DEF Leads, Tag
  <2>3. Leads(m, t) => NextOf(m, t) \in Nat
    BY <2>1, LeadsOn
  <2>4. Tag(m, t) \in {1, 2, 3, 4, 9}
    BY TagKinds
  <2>5. Nested(m, T, H, A, t)
    BY <1>3
  <2> HIDE DEF T
  <2> QED BY <1>3, <2>1, <2>2, <2>3, <2>4, <2>5 DEF Behind, Nested
<1>5. o \in P
  <2>1. o \in TagOffsets(m, o)
    BY <1>1, TagOffsetsUnfold
  <2>2. \A tag \in {1, 2} : IsFiniteSet(Counted(m, o, tag, o)) /\ C(tag, o) = IF Tag(m, o) = tag THEN 1 ELSE 0
    BY <1>1, CountFirst
  <2> HIDE DEF C, T
  <2> QED BY <1>4, <2>1, <2>2 DEF T
<1>6. ASSUME NEW t \in TagOffsets(m, o), t \in P, Leads(m, t)
      PROVE  NextOf(m, t) \in P
  <2> DEFINE n == NextOf(m, t)
  <2>1. n \in TagOffsets(m, o)
    BY <1>1, <1>6, WalkIsChain DEF IsChain
  <2>2. \A tag \in {1, 2} : /\ IsFiniteSet(Counted(m, o, tag, n)) /\ C(tag, t) \in Nat
                            /\ C(tag, n) = C(tag, t) + IF Tag(m, n) = tag THEN 1 ELSE 0
    <3> SUFFICES ASSUME NEW tag \in {1, 2}
                 PROVE  /\ IsFiniteSet(Counted(m, o, tag, n)) /\ C(tag, t) \in Nat
                        /\ C(tag, n) = C(tag, t) + IF Tag(m, n) = tag THEN 1 ELSE 0
      OBVIOUS
    <3>1. IsFiniteSet(Counted(m, o, tag, t))
      BY <1>6
    <3> QED BY <1>1, <1>6, <3>1, CountNext
  <2>3. C(1, t) - C(2, t) = Behind(m, H, t) - H[o] /\ Behind(m, H, t) = H[n]
    BY <1>6 DEF Behind
  <2>4. n \in T /\ o \in T
    BY <1>2, <2>1
  <2> HIDE DEF C, n, T
  <2>5. C(1, n) - C(2, n) = Behind(m, H, n) - H[o]
    BY <1>4, <2>2, <2>3, <2>4
  <2>6. \A tag \in {1, 2} : C(tag, n) \in Nat
    BY <2>2
  <2> QED BY <2>1, <2>2, <2>5, <2>6 DEF n
<1>7. x \in P
  <2> HIDE DEF P
  <2>1. TagOffsets(m, o) \subseteq P
    BY <1>1, <1>5, <1>6, WalkInduction
  <2> QED BY <2>1
<1>8. Depth(Walk(m, o), Item(m, x)) = C(1, x) - C(2, x)
  <2>1. Item(m, x).at = x
    BY WalkItem, Zenon
  <2> QED BY <2>1 DEF Depth, Counted
<1> QED BY <1>7, <1>8

-----------------------------------------------------------------------------
(* Trees are well-formed.                                                  *)

\* The last item of a walk is the one that does not lead on.
LEMMA LastOfWalk ==
    ASSUME NEW m, Framed(m), NEW o \in 0 .. MemSize
    PROVE  \E l \in TagOffsets(m, o) :
             /\ Last(Walk(m, o)) = Item(m, l) /\ ~Leads(m, l)
             /\ \A t \in TagOffsets(m, o) : t <= l
<1> DEFINE T == TagOffsets(m, o)
           w == Walk(m, o)
           Latest(x) == \A y \in w : x.at >= y.at
<1>1. T \subseteq o .. MemSize /\ IsChain(m, o) /\ MemSize \in Nat /\ o \in Nat /\ o \in T
  BY TagOffsetsUnfold, WalkIsChain, MemAssumption
<1>2. \A t \in T : t \in 0 .. MemSize
  <2> HIDE DEF T
  <2> QED BY <1>1
<1>3. PICK k \in T : \A t \in T : t <= k
  <2>1. T # {} /\ \A t \in T : t \in 0 .. MemSize
    BY <1>1, <1>2
  <2> HIDE DEF T
  <2> QED BY <1>1, <2>1, GreatestNatural
<1>4. Item(m, k) \in w /\ Latest(Item(m, k))
  <2>1. Item(m, k) \in w /\ Item(m, k).at = k
    BY WalkItem
  <2>2. \A y \in w : y.at \in T
    BY WalkItem
  <2> HIDE DEF T, w
  <2>3. \A y \in w : y.at <= k
    BY <1>3, <2>2
  <2> QED BY <1>2, <1>3, <2>1, <2>2, <2>3
<1>5. Last(w) \in w /\ Latest(Last(w))
  <2> HIDE DEF w
  <2> QED BY <1>4, Zenon DEF Last
<1> DEFINE l == Last(w).at
<1>6. l \in T /\ Last(w) = Item(m, l)
  BY <1>5, WalkItem
<1>7. \A t \in T : t <= l
  <2> SUFFICES ASSUME NEW t \in T PROVE t <= l
    OBVIOUS
  <2>1. Item(m, t) \in w /\ Item(m, t).at = t
    BY WalkItem
  <2>2. l >= t
    BY <1>5, <2>1
  <2>3. l \in Nat /\ t \in Nat
    BY <1>2, <1>6
  <2> QED BY <2>2, <2>3
<1>8. ~Leads(m, l)
  <2> SUFFICES ASSUME Leads(m, l) PROVE FALSE
    OBVIOUS
  <2> HIDE DEF l, T
  <2>1. l \in Nat
    BY <1>2, <1>6
  <2>2. NextOf(m, l) \in T
    BY <1>1, <1>6 DEF IsChain, T
  <2>3. NextOf(m, l) \in Nat /\ l < NextOf(m, l)
    BY <2>1, LeadsOn
  <2> QED BY <1>7, <2>1, <2>2, <2>3
<1> QED BY <1>6, <1>7, <1>8

\* The properties of the node at o reach the item at x.
Reaches(m, o, x) ==
    /\ o \in TagOffsets(m, 0) /\ Tag(m, o) = FDT_BEGIN_NODE /\ o < x
    /\ \A y \in TagOffsets(m, 0) : o < y /\ y < x => Tag(m, y) \in {FDT_PROP, FDT_NOP}

\* Where a property may stand, there is a node that it belongs to.
LEMMA TreeOwner ==
    ASSUME NEW m, Framed(m), NEW H, NEW A, Tree(m, TagOffsets(m, 0), H, A),
           NEW x \in TagOffsets(m, 0), x \in A
    PROVE  \E o : Reaches(m, o, x)
<1> DEFINE T == TagOffsets(m, 0)
           P == {t \in T : t \in A => \E o : Reaches(m, o, t)}
<1>0. 0 \in 0 .. MemSize /\ MemSize \in Nat
  BY MemAssumption
<1>1. T \subseteq 0 .. MemSize /\ IsChain(m, 0) /\ 0 \in T
  BY <1>0, TagOffsetsUnfold, WalkIsChain
<1>2. \A t \in T : t \in Nat
  BY <1>1
<1>3. 0 \in P
  BY <1>1 DEF Tree
<1>4. ASSUME NEW t \in T, t \in P, Leads(m, t) PROVE NextOf(m, t) \in P
  <2> DEFINE n == NextOf(m, t)
  <2>1. n \in T
    BY <1>1, <1>4 DEF IsChain
  <2> SUFFICES ASSUME n \in A PROVE \E o : Reaches(m, o, n)
    BY <2>1
  <2>2. \A y \in T : y < n => y < t \/ y = t
    <3> SUFFICES ASSUME NEW y \in T, y < n PROVE y < t \/ y = t
      OBVIOUS
    <3>1. t < y => n <= y
      BY <1>1, Zenon DEF IsChain
    <3>2. y \in Nat /\ t \in Nat /\ n \in Nat
      BY <1>2, <2>1
    <3> HIDE DEF n
    <3> QED BY <3>1, <3>2
  <2>3. t < n /\ t \in Nat /\ n \in Nat
    BY <1>2, <1>4, LeadsOn
  <2>4. Nested(m, T, H, A, t) /\ Tag(m, t) # FDT_END
    BY <1>4 DEF Tree, Leads, Tag
  <2>5. Tag(m, t) \in {1, 2, 3, 4, 9}
    BY TagKinds
  <2>6. CASE Tag(m, t) = FDT_BEGIN_NODE
    <3>1. \A y \in T : ~(t < y /\ y < n)
      BY <1>2, <2>2
    <3> QED BY <2>3, <2>6, <3>1 DEF Reaches
  <2>7. CASE Tag(m, t) \in {FDT_PROP, FDT_NOP}
    <3>1. t \in A
      BY <2>4, <2>7 DEF Nested
    <3>2. PICK o : Reaches(m, o, t)
      BY <1>4, <3>1
    <3>3. o \in T /\ Tag(m, o) = FDT_BEGIN_NODE /\ o < t
          /\ \A y \in T : o < y /\ y < t => Tag(m, y) \in {FDT_PROP, FDT_NOP}
      BY <3>2 DEF Reaches
    <3>4. o < n
      BY <1>2, <2>3, <3>3
    <3>5. \A y \in T : o < y /\ y < n => Tag(m, y) \in {FDT_PROP, FDT_NOP}
      BY <2>2, <2>7, <3>3
    <3> HIDE DEF n
    <3> QED BY <3>3, <3>4, <3>5 DEF Reaches
  <2>8. Tag(m, t) # FDT_END_NODE
    BY <2>4 DEF Nested
  <2> QED BY <2>4, <2>5, <2>6, <2>7, <2>8
<1>5. T \subseteq P
  <2> HIDE DEF P
  <2> QED BY <1>0, <1>3, <1>4, WalkInduction
<1> QED BY <1>5

\* The strings block is in the reach of a 16-bit offset: fdt_string() is given
\* an int, and the model has its sign bit at 32768.
StringsReach == MemSize <= 32768

\* A name in the strings block is read as it is.
LEMMA StringRead ==
    ASSUME NEW m, Good(m), StringsNamed(m), StringsReach,
           NEW v \in 0 .. fdt_size_dt_strings(m) - 1
    PROVE  fdt_string(m, v) # ""
<1>1. /\ m \in Memory /\ fdt_off_dt_strings(m) \in Nat /\ fdt_size_dt_strings(m) \in Nat
      /\ MemSize \in Nat /\ fdt_totalsize(m) \in Nat
      /\ fdt_off_dt_strings(m) + fdt_size_dt_strings(m) <= MemSize
  <2>1. /\ fdt_off_dt_strings(m) + fdt_size_dt_strings(m) <= fdt_totalsize(m)
        /\ fdt_totalsize(m) <= BufSize /\ BufSize <= MemSize
        /\ m \in Memory /\ fdt_off_dt_strings(m) \in Nat /\ fdt_size_dt_strings(m) \in Nat
        /\ MemSize \in Nat /\ BufSize \in Nat /\ fdt_totalsize(m) \in Nat
    BY GoodFacts
  <2> QED BY <2>1
<1>2. AsInt(v) = v
  BY <1>1 DEF AsInt, StringsReach
<1> DEFINE a == fdt_off_dt_strings(m) + v
<1>3. a \in 0 .. MemSize - 1 /\ v \in 0 .. fdt_size_dt_strings(m) - 1
  BY <1>1
<1>4. m[fdt_off_dt_strings(m) + v].k = "str" /\ m[fdt_off_dt_strings(m) + v].s # ""
  BY DEF StringsNamed
<1>5. a \in DOMAIN m
  <2> HIDE DEF a
  <2> QED BY <1>1, <1>3 DEF Memory
<1>6. m[a].k = "str" /\ m[a].s # ""
  BY <1>4
<1>7. fdt_string(m, v) = IF a \in DOMAIN m /\ m[a].k = "str" THEN m[a].s ELSE ""
  <2> SUFFICES fdt_string(m, v) = IF fdt_off_dt_strings(m) + v \in DOMAIN m /\ m[fdt_off_dt_strings(m) + v].k = "str"
                                  THEN m[fdt_off_dt_strings(m) + v].s ELSE ""
    BY DEF a
  <2> QED BY <1>2 DEF fdt_string
<1> HIDE DEF a
<1> QED BY <1>5, <1>6, <1>7

\* What every call preserves makes the blob well-formed.
LEMMA SoundWellFormed ==
    ASSUME Good(mem), Sound(mem), StringsReach
    PROVE  WellFormed
<1> DEFINE T == TagOffsets(mem, 0)
           w == Walk(mem, 0)
<1>0. 0 \in 0 .. MemSize /\ Framed(mem) /\ Good(mem) /\ StringsNamed(mem)
  BY MemAssumption, GoodFramed DEF Sound
<1>1. PICK H, A : Tree(mem, T, H, A)
  BY DEF Sound
<1>2. /\ H \in [Nat -> Nat] /\ H[0] = 0 /\ 0 \in T
      /\ \A x \in T : Nested(mem, T, H, A, x) /\ x \in Nat
  <2>1. T \subseteq 0 .. MemSize
    BY <1>0, TagOffsetsUnfold
  <2>2. \A x \in T : x \in Nat
    BY <2>1
  <2> QED BY <1>1, <2>2 DEF Tree
<1>3. PICK l \in T : /\ Last(w) = Item(mem, l) /\ ~Leads(mem, l)
                     /\ \A t \in T : t <= l
  BY <1>0, LastOfWalk
<1>4. NextOf(mem, l) = fdt_size_dt_struct(mem) /\ H[l] = 0
  BY <1>2, <1>3 DEF Nested, Leads, Tag
<1>5. Last(w).next = fdt_size_dt_struct(mem) /\ fdt_size_dt_struct(mem) \in Nat
  <2>1. Item(mem, l).next = NextOf(mem, l)
    BY WalkItem
  <2> QED BY <1>0, <1>3, <1>4, <2>1, GoodFacts
<1>6. Depth(w, Last(w)) = 0
  <2>1. Depth(w, Item(mem, l)) = Behind(mem, H, l) - H[0]
    BY <1>0, <1>1, <1>2, TreeDepth
  <2>2. Behind(mem, H, l) = H[l]
    BY <1>3 DEF Behind
  <2> QED BY <1>2, <1>3, <1>4, <2>1, <2>2
<1>7. Closes(w) = {}
  <2> SUFFICES ASSUME NEW x \in Closes(w) PROVE FALSE
    OBVIOUS
  <2>1. x \in w /\ Depth(w, x) < 0
    BY DEF Closes, Tagged
  <2>2. x.at \in T /\ x = Item(mem, x.at)
    BY <2>1, WalkItem
  <2> DEFINE t == x.at
  <2>3. Depth(w, Item(mem, t)) = Behind(mem, H, t) - H[0]
    BY <1>0, <1>1, <1>2, <2>2, TreeDepth
  <2>4. Behind(mem, H, t) \in Nat
    <3>1. t \in Nat /\ (Leads(mem, t) => NextOf(mem, t) \in Nat)
      BY <1>0, <1>2, <2>2, LeadsOn
    <3> QED BY <1>2, <3>1 DEF Behind
  <2> HIDE DEF t
  <2>5. Depth(w, x) \in Nat
    BY <1>2, <2>2, <2>3, <2>4 DEF t
  <2> QED BY <2>1, <2>5
<1>8. ASSUME NEW x \in Tagged(w, {FDT_PROP})
      PROVE  /\ \E o \in Nodes(w) : x \in PropsOf(w, o)
             /\ Value(At(mem, x.at + 2)) < fdt_size_dt_strings(mem)
             /\ PropName(mem, x.at) # ""
  <2> DEFINE t == x.at
  <2>1. x \in w /\ x.tag = FDT_PROP
    BY DEF Tagged
  <2>2. t \in T /\ x = Item(mem, t) /\ Tag(mem, t) = FDT_PROP
    BY <2>1, WalkItem
  <2>3. Nested(mem, T, H, A, t) /\ t \in Nat
    BY <1>2, <2>2
  <2>4. t \in A /\ Value(At(mem, t + 2)) < fdt_size_dt_strings(mem)
    BY <2>2, <2>3 DEF Nested
  <2>5. Value(At(mem, t + 2)) \in Nat
    BY <1>0, <2>2, <2>3, PropNameNat
  <2>6. PropName(mem, t) # ""
    <3> DEFINE v == Value(At(mem, t + 2))
    <3>0. fdt_size_dt_strings(mem) \in Nat
      BY <1>0, GoodFacts
    <3>1. v \in 0 .. fdt_size_dt_strings(mem) - 1
      <4>1. v \in Nat /\ v < fdt_size_dt_strings(mem)
        BY <2>4, <2>5
      <4> HIDE DEF v
      <4> QED BY <3>0, <4>1
    <3> HIDE DEF v
    <3>2. fdt_string(mem, v) # ""
      BY <1>0, <3>1, StringRead
    <3> QED BY <3>2 DEF PropName, v
  <2>7. PICK o : Reaches(mem, o, t)
    BY <1>0, <1>1, <2>2, <2>4, TreeOwner
  <2>8. o \in Nodes(w)
    BY <2>7, NodesOfWalk DEF Reaches, Tag
  <2>9. x \in PropsOf(w, o)
    <3>1. x.at > o
      BY <1>2, <2>2, <2>7 DEF Reaches
    <3>2. ASSUME NEW y \in w, o < y.at, y.at < x.at PROVE y.tag \in {FDT_PROP, FDT_NOP}
      <4>1. y.at \in T /\ y = Item(mem, y.at) /\ Item(mem, y.at).tag = Tag(mem, y.at)
        BY WalkItem
      <4>2. y.tag = Tag(mem, y.at)
        BY <4>1
      <4> QED BY <2>7, <3>2, <4>1, <4>2 DEF Reaches
    <3> QED BY <3>1, <3>2, Zenon DEF PropsOf
  <2> QED BY <2>4, <2>6, <2>8, <2>9, Zenon
<1>9. \A x \in Tagged(w, {FDT_PROP}) :
         /\ \E o \in Nodes(w) : x \in PropsOf(w, o)
         /\ Value(At(mem, x.at + 2)) < fdt_size_dt_strings(mem)
         /\ PropName(mem, x.at) # ""
  BY <1>8, Zenon
<1>10. Last(w).next >= 0
  BY <1>5
<1> QED BY <1>5, <1>6, <1>7, <1>9, <1>10, Zenon DEF WellFormed

-----------------------------------------------------------------------------
(* The items that calls find.                                              *)

\* An offset that fdt_check_node_offset_ accepts is that of a node, and what
\* is in the node is behind it.
LEMMA NodeItem ==
    ASSUME NEW m, Framed(m), NEW o \in TagOffsets(m, 0), fdt_check_node_offset_(m, o) >= 0
    PROVE  LET next == fdt_check_node_offset_(m, o)
           IN  /\ o \in Nat /\ Tag(m, o) = FDT_BEGIN_NODE /\ next = NextOf(m, o)
               /\ next \in TagOffsets(m, 0) /\ next \in Nat /\ o < next
               /\ TagOffsets(m, next) = {y \in TagOffsets(m, 0) : next <= y}
<1> DEFINE T == TagOffsets(m, 0)
           next == fdt_check_node_offset_(m, o)
<1>0. 0 \in 0 .. MemSize /\ MemSize \in Nat
  BY MemAssumption
<1>1. IsChain(m, 0) /\ T \subseteq 0 .. MemSize
  BY <1>0, WalkIsChain, TagOffsetsUnfold
<1>2. o \in Nat
  BY <1>1
<1>3. Tag(m, o) = FDT_BEGIN_NODE /\ next = NextOf(m, o)
  BY DEF fdt_check_node_offset_, Tag, NextOf
<1>4. Leads(m, o)
  BY <1>3 DEF Leads, Tag
<1>5. NextOf(m, o) \in T /\ NextOf(m, o) \in Nat /\ o < NextOf(m, o)
  BY <1>0, <1>1, <1>2, <1>4, LeadsOn DEF IsChain
<1>6. TagOffsets(m, NextOf(m, o)) = {y \in T : NextOf(m, o) <= y}
  BY <1>1, <1>5 DEF IsChain
<1> QED BY <1>2, <1>3, <1>5, <1>6

\* A property that is found is an item of the blob.
LEMMA PropertyItem ==
    ASSUME NEW m, Good(m), NEW o \in TagOffsets(m, 0), NEW name,
           NEW prop, prop = fdt_get_property(m, o, name), prop >= 0
    PROVE  /\ prop \in TagOffsets(m, 0) /\ prop \in Nat /\ Tag(m, prop) = FDT_PROP
           /\ NextOf(m, prop) \in TagOffsets(m, 0)
           /\ PropLen(m, prop) \in Nat /\ Words(PropLen(m, prop)) \in Nat
           /\ NextOf(m, prop) = prop + 3 + Words(PropLen(m, prop))
           /\ NextOf(m, prop) <= fdt_size_dt_struct(m)
<1> DEFINE T == TagOffsets(m, 0)
           next == fdt_check_node_offset_(m, o)
           w    == Walk(m, next)
           stop == AfterProps(w)
           hits == {x \in Tagged(w, {FDT_PROP}) :
                        /\ x.at < stop.at
                        /\ fdt_string(m, Value(At(m, x.at + 2))) = name}
<1>0. 0 \in 0 .. MemSize /\ MemSize \in Nat /\ Framed(m)
  BY MemAssumption, GoodFramed
<1>1. IsChain(m, 0) /\ T \subseteq 0 .. MemSize
  BY <1>0, WalkIsChain, TagOffsetsUnfold
<1>2. next >= 0 /\ o \in Nat
  BY <1>1, PropertyBehind
<1>3. next \in T /\ next \in Nat /\ TagOffsets(m, next) \subseteq T
  BY <1>0, <1>2, NodeItem
<1>4. fdt_get_property(m, o, name) =
        IF hits # {} THEN First(hits).at
        ELSE IF stop.tag # FDT_END THEN -FDT_ERR_NOTFOUND
        ELSE IF stop.next >= 0 THEN -FDT_ERR_BADSTRUCTURE
        ELSE stop.next
  BY <1>2, <1>3 DEF fdt_get_property, PropertyIn
<1>5. stop.next \in Int
  BY <1>3, WalkStop, GoodReadable
<1>6. hits # {}
  <2> HIDE DEF hits, stop
  <2> QED BY <1>4, <1>5
<1>7. hits \subseteq w /\ \A x \in hits : x.tag = FDT_PROP
  BY DEF Tagged
<1>8. First(hits) \in hits
  <2> HIDE DEF hits, next
  <2> QED BY <1>3, <1>6, <1>7, WalkFirst
<1>9. prop = First(hits).at /\ First(hits) \in w /\ First(hits).tag = FDT_PROP
  <2> HIDE DEF hits, stop
  <2> QED BY <1>4, <1>6, <1>7, <1>8
<1> HIDE DEF hits, stop
<1>10. prop \in TagOffsets(m, next) /\ First(hits) = Item(m, prop)
  BY <1>9, WalkItem
<1>11. Tag(m, prop) = FDT_PROP
  <2>1. Item(m, prop).tag = Tag(m, prop)
    BY WalkItem
  <2> QED BY <1>9, <1>10, <2>1
<1>12. prop \in T /\ prop \in Nat
  BY <1>1, <1>3, <1>10
<1>13. NextOf(m, prop) \in T
  BY <1>1, <1>11, <1>12 DEF IsChain, Leads, Tag
<1> QED BY <1>0, <1>11, <1>12, <1>13, PropNameNat

\* The item behind a node is as deep as the node, and no property.
LEMMA EndItem ==
    ASSUME NEW m, Good(m), NEW H, NEW A, Tree(m, TagOffsets(m, 0), H, A),
           NEW o \in TagOffsets(m, 0),
           NEW end, end = fdt_node_end_offset_(m, o), end >= 0
    PROVE  /\ o \in Nat /\ end \in TagOffsets(m, 0) /\ end \in Nat /\ o < end
           /\ H[end] = H[o] /\ end \notin A /\ end <= fdt_size_dt_struct(m)
<1> DEFINE T == TagOffsets(m, 0)
           next == fdt_check_node_offset_(m, o)
           w    == Walk(m, next)
           W    == TagOffsets(m, next)
           c    == First(Closes(w))
<1>0. 0 \in 0 .. MemSize /\ MemSize \in Nat /\ Framed(m)
  BY MemAssumption, GoodFramed
<1>1. IsChain(m, 0) /\ T \subseteq 0 .. MemSize
  BY <1>0, WalkIsChain, TagOffsetsUnfold
<1>2. o \in Nat /\ end \in Int /\ o < end /\ end <= fdt_size_dt_struct(m)
  <2>1. o \in Nat
    BY <1>1
  <2> QED BY <2>1, NodeEnd
<1>3. next >= 0
  <2> SUFFICES ASSUME ~(next >= 0) PROVE FALSE
    OBVIOUS
  <2>1. next \in Int
    BY <1>2, CheckNode
  <2>2. end = next
    BY <2>1 DEF fdt_node_end_offset_
  <2> HIDE DEF next
  <2> QED BY <2>1, <2>2
<1>4. /\ Tag(m, o) = FDT_BEGIN_NODE /\ next = NextOf(m, o) /\ next \in T /\ next \in Nat
      /\ W = {y \in T : next <= y}
  BY <1>3, GoodFramed, NodeItem
<1>5. Closes(w) # {}
  <2> SUFFICES ASSUME Closes(w) = {} PROVE FALSE
    OBVIOUS
  <2>1. end = EndError(w)
    BY <1>3, <1>4 DEF fdt_node_end_offset_, EndOfNode
  <2>2. EndError(w) \in Int /\ EndError(w) < 0
    BY <1>4, EndErrorNegative
  <2> QED BY <2>1, <2>2
<1>6. /\ Closes(w) \subseteq w
      /\ \A x \in Closes(w) : x.tag = FDT_END_NODE /\ Depth(w, x) < 0
  BY DEF Closes, Tagged
<1>7. c \in Closes(w) /\ \A y \in Closes(w) : c.at <= y.at
  <2>1. \A x \in Closes(w) : x.at \in Nat
    <3>1. \A x \in Closes(w) : x.at \in W
      BY <1>6, WalkItem
    <3> QED BY <1>1, <1>4, <3>1
  <2> DEFINE S == Closes(w)
  <2>2. S # {} /\ \A x \in S : x.at \in Nat
    BY <1>5, <2>1
  <2> HIDE DEF S
  <2>3. First(S) \in S /\ \A y \in S : First(S).at <= y.at
    BY <2>2, FirstItem
  <2> QED BY <2>3 DEF S
<1>8. end = c.next
  <2>1. ~(next < 0)
    BY <1>4
  <2> QED BY <1>5, <2>1, Zenon DEF fdt_node_end_offset_, EndOfNode
<1> DEFINE t == c.at
<1>9. t \in W /\ c = Item(m, t) /\ Tag(m, t) = FDT_END_NODE /\ end = NextOf(m, t)
  <2>1. t \in W /\ c = Item(m, t)
    BY <1>6, <1>7, WalkItem
  <2>2. Item(m, t).tag = Tag(m, t) /\ Item(m, t).next = NextOf(m, t)
    BY WalkItem
  <2> QED BY <1>6, <1>7, <1>8, <2>1, <2>2
<1>10. t \in T /\ t \in Nat /\ end \in T /\ end \in Nat
  <2>1. t \in T
    BY <1>4, <1>9
  <2>2. end \in T
    BY <1>1, <1>9, <2>1 DEF IsChain, Leads, Tag
  <2> QED BY <1>1, <2>1, <2>2
<1>11. /\ H \in [Nat -> Nat] /\ \A x \in T : Nested(m, T, H, A, x)
  BY DEF Tree
<1>12. H[next] = H[o] + 1 /\ H[t] = H[end] + 1 /\ end \notin A
  <2>1. Nested(m, T, H, A, o) /\ Nested(m, T, H, A, t)
    BY <1>10, <1>11
  <2>2. H[next] = H[o] + 1
    BY <1>4, <2>1 DEF Nested
  <2>3. H[t] = H[end] + 1 /\ end \notin A
    BY <1>9, <2>1 DEF Nested
  <2> QED BY <2>2, <2>3
<1>13. \A x \in W : Leads(m, x) => Depth(w, Item(m, x)) = H[NextOf(m, x)] - H[next]
  <2>1. \A x \in W : Depth(w, Item(m, x)) = Behind(m, H, x) - H[next]
    BY <1>0, <1>4, TreeDepth
  <2> QED BY <2>1 DEF Behind
<1>14. H[end] - H[next] < 0
  <2>1. Leads(m, t)
    BY <1>9 DEF Leads, Tag
  <2>2. Depth(w, c) < 0
    BY <1>6, <1>7
  <2> QED BY <1>9, <1>13, <2>1, <2>2
<1> DEFINE P == {x \in T : x <= t => H[x] >= H[next]}
<1> HIDE DEF c, t
<1>15. W \subseteq P
  <2>1. next \in P
    BY <1>4, <1>11 DEF P
  <2>2. ASSUME NEW x \in W, x \in P, Leads(m, x) PROVE NextOf(m, x) \in P
    <3> DEFINE n == NextOf(m, x)
    <3>1. x \in T /\ x \in Nat
      BY <1>1, <2>2
    <3>2. n \in T /\ n \in Nat /\ x < n
      BY <1>0, <1>1, <2>2, <3>1, LeadsOn DEF IsChain
    <3> SUFFICES ASSUME n <= t PROVE H[n] >= H[next]
      BY <3>2
    <3>3. x < t /\ H[x] >= H[next]
      BY <1>10, <2>2, <3>1, <3>2
    <3>4. Nested(m, T, H, A, x)
      BY <1>11, <3>1
    <3>5. Tag(m, x) \in {1, 2, 3, 4, 9} /\ Tag(m, x) # 9
      BY <2>2, TagKinds DEF Leads, Tag
    <3>6. H[x] \in Nat /\ H[n] \in Nat /\ H[next] \in Nat
      BY <1>4, <1>11, <3>1, <3>2
    <3>7. CASE Tag(m, x) = FDT_END_NODE
      <4> SUFFICES ASSUME ~(H[n] >= H[next]) PROVE FALSE
        OBVIOUS
      <4>1. Depth(w, Item(m, x)) = H[n] - H[next]
        BY <1>13, <2>2
      <4>2. Depth(w, Item(m, x)) < 0
        BY <3>6, <4>1
      <4>3. Item(m, x) \in w /\ Item(m, x).tag = FDT_END_NODE /\ Item(m, x).at = x
        BY <3>7, WalkItem
      <4>4. Item(m, x) \in Closes(w)
        BY <4>2, <4>3 DEF Closes, Tagged
      <4>5. t <= x
        BY <1>7, <4>3, <4>4 DEF t
      <4> QED BY <1>10, <3>1, <3>3, <4>5
    <3>8. CASE Tag(m, x) = FDT_BEGIN_NODE
      <4>1. H[n] = H[x] + 1
        BY <3>4, <3>8 DEF Nested
      <4> HIDE DEF n, next
      <4> QED BY <3>3, <3>6, <4>1
    <3>9. CASE Tag(m, x) \in {FDT_PROP, FDT_NOP}
      <4>1. H[n] = H[x]
        BY <3>4, <3>9 DEF Nested
      <4> QED BY <3>3, <4>1
    <3> QED BY <3>5, <3>7, <3>8, <3>9
  <2>3. next \in 0 .. MemSize
    BY <1>1, <1>4
  <2> HIDE DEF P, next
  <2> QED BY <1>0, <2>1, <2>2, <2>3, WalkInduction
<1>16. H[t] >= H[next]
  BY <1>9, <1>10, <1>15
<1>17. H[end] \in Nat /\ H[next] \in Nat /\ H[o] \in Nat /\ H[t] \in Nat
  BY <1>2, <1>4, <1>10, <1>11
<1>18. H[end] = H[o]
  <2> HIDE DEF next
  <2> QED BY <1>12, <1>14, <1>16, <1>17
<1> QED BY <1>2, <1>10, <1>12, <1>18

\* A subnode goes in front of an item that is no property.
LEMMA SubnodeItem ==
    ASSUME NEW m, Good(m), NEW o \in TagOffsets(m, 0), NEW name,
           fdt_subnode_offset_namelen(m, o, name) = -FDT_ERR_NOTFOUND,
           NEW at, at = AfterProps(Walk(m, fdt_next_tag(m, o).next)).at
    PROVE  /\ at \in TagOffsets(m, 0) /\ at \in Nat /\ at <= fdt_size_dt_struct(m)
           /\ Tag(m, at) \notin {FDT_PROP, FDT_NOP}
<1> DEFINE T == TagOffsets(m, 0)
           next == fdt_check_node_offset_(m, o)
           w    == Walk(m, next)
           a    == AfterProps(w)
<1>0. 0 \in 0 .. MemSize /\ MemSize \in Nat /\ Framed(m)
  BY MemAssumption, GoodFramed
<1>1. IsChain(m, 0) /\ T \subseteq 0 .. MemSize
  BY <1>0, WalkIsChain, TagOffsetsUnfold
<1>2. o \in Nat
  BY <1>1
<1>3. next >= 0
  <2> SUFFICES ASSUME ~(next >= 0) PROVE FALSE
    OBVIOUS
  <2>1. next = -FDT_ERR_BADOFFSET
    BY <1>2, NextTag, GoodReadable DEF fdt_check_node_offset_
  <2>2. fdt_check_header(m) = 0
    BY GoodFacts DEF Good, InOrder, fdt_check_header
  <2>3. fdt_subnode_offset_namelen(m, o, name) = next
    BY <2>1, <2>2 DEF fdt_subnode_offset_namelen
  <2> QED BY <2>1, <2>3
<1>4. /\ Tag(m, o) = FDT_BEGIN_NODE /\ next = NextOf(m, o) /\ next \in T /\ next \in Nat
      /\ TagOffsets(m, next) = {y \in T : next <= y}
  BY <1>3, GoodFramed, NodeItem
<1>5. at = a.at
  BY <1>4 DEF NextOf
<1>6. a \in w /\ a.at \in Nat /\ (a.tag \notin {FDT_PROP, FDT_NOP} \/ a = Last(w))
  <2> DEFINE S == {x \in w : x.tag \notin {FDT_PROP, FDT_NOP}} \cup {Last(w)}
  <2>1. Last(w) \in w /\ a \in w /\ a.at \in Nat
    BY <1>4, WalkStop, GoodReadable
  <2>2. S # {} /\ S \subseteq w
    BY <2>1
  <2>3. First(S) \in S
    <3> HIDE DEF S, next
    <3> QED BY <1>4, <2>2, WalkFirst
  <2>4. a \in S
    BY <2>3 DEF AfterProps
  <2> QED BY <2>1, <2>4
<1>7. at \in TagOffsets(m, next) /\ a = Item(m, at)
  BY <1>5, <1>6, WalkItem
<1>8. Item(m, at).tag = Tag(m, at)
  BY WalkItem
<1>9. PICK l : Last(w) = Item(m, l) /\ ~Leads(m, l)
  <2>1. next \in 0 .. MemSize
    BY <1>1, <1>4
  <2> HIDE DEF next
  <2> QED BY <1>0, <2>1, LastOfWalk
<1>10. Tag(m, at) \notin {FDT_PROP, FDT_NOP}
  <2>1. CASE a.tag \notin {FDT_PROP, FDT_NOP}
    BY <1>7, <1>8, <2>1
  <2>2. CASE a = Last(w)
    <3>1. Item(m, l).tag = Tag(m, l)
      BY WalkItem
    <3>2. Tag(m, l) = FDT_END
      BY <1>9 DEF Leads, Tag
    <3> QED BY <1>7, <1>8, <1>9, <2>2, <3>1, <3>2
  <2> QED BY <1>6, <2>1, <2>2
<1>11. at <= fdt_size_dt_struct(m)
  BY <1>2, SubnodeNotFound
<1> QED BY <1>4, <1>5, <1>6, <1>7, <1>10, <1>11

\* Where the contents of a node begin, a property may stand.
LEMMA OpenNode ==
    ASSUME NEW m, Framed(m), NEW H, NEW A, Tree(m, TagOffsets(m, 0), H, A),
           NEW o \in TagOffsets(m, 0), Tag(m, o) = FDT_BEGIN_NODE
    PROVE  Tree(m, TagOffsets(m, 0), H, A \cup {NextOf(m, o)})
<1> DEFINE T == TagOffsets(m, 0)
           n == NextOf(m, o)
           A2 == A \cup {n}
<1>0. 0 \in 0 .. MemSize /\ MemSize \in Nat
  BY MemAssumption
<1>1. IsChain(m, 0) /\ T \subseteq 0 .. MemSize
  BY <1>0, WalkIsChain, TagOffsetsUnfold
<1>2. o \in Nat /\ Leads(m, o)
  BY <1>1 DEF Leads, Tag
<1>3. n \in Nat /\ o < n
  BY <1>2, LeadsOn
<1>4. /\ H \in [Nat -> Nat] /\ H[0] = 0 /\ 0 \notin A /\ 0 \in T
      /\ \A x \in T : Nested(m, T, H, A, x)
  BY DEF Tree
<1>5. ASSUME NEW x \in T, Leads(m, x), NextOf(m, x) = n PROVE x = o
  <2>1. x \in Nat /\ x < n
    BY <1>1, <1>5, LeadsOn
  <2>2. x < o => NextOf(m, x) <= o
    BY <1>1, Zenon DEF IsChain
  <2>3. o < x => n <= x
    BY <1>1, Zenon DEF IsChain
  <2> HIDE DEF n
  <2> QED BY <1>2, <1>3, <1>5, <2>1, <2>2, <2>3
<1>6. ASSUME NEW x \in T PROVE Nested(m, T, H, A2, x)
  <2>1. Nested(m, T, H, A, x)
    BY <1>4
  <2>2. Tag(m, x) \in {FDT_END_NODE, FDT_NOP} => NextOf(m, x) # n
    BY <1>5 DEF Leads, Tag
  <2>3. A \subseteq A2 /\ \A y : y # n => (y \in A2 <=> y \in A)
    OBVIOUS
  <2> HIDE DEF A2, n, T
  <2> QED BY <2>1, <2>2, <2>3 DEF Nested
<1>7. 0 \notin A2
  <2> HIDE DEF n
  <2>1. n # 0
    BY <1>2, <1>3
  <2> QED BY <1>4, <2>1
<1> QED BY <1>4, <1>6, <1>7 DEF Tree

-----------------------------------------------------------------------------
(* Edits of a tree.                                                        *)

\* An edit that leaves the items of a tree makes a sound blob of a sound one.
LEMMA SoundSpliced ==
    ASSUME NEW m, Good(m), StringsNamed(m), NEW m2, Good(m2),
           NEW H, NEW A, Tree(m, TagOffsets(m, 0), H, A),
           NEW p, NEW q, NEW q2, Spliced(m, m2, p, q, q2),
           NEW M, NEW G, NEW B, Replaced(m, m2, H, A, p, q, q2, M, G, B)
    PROVE  Sound(m2)
<1>1. Framed(m) /\ Framed(m2)
  BY GoodFramed
<1>2. \E H2, A2 : Tree(m2, TagOffsets(m2, 0), H2, A2)
  BY <1>1, SplicedTree
<1>3. StringsNamed(m2)
  BY DEF Spliced
<1> QED BY <1>2, <1>3 DEF Sound

\* Nothing changes.
LEMMA SplicedSelf ==
    ASSUME NEW m, Good(m), NEW x \in Nat
    PROVE  Spliced(m, m, x, x, x)
BY GoodFacts DEF Spliced, SameWords

\* A blob whose structure block stays as it is stays sound.
LEMMA SoundSame ==
    ASSUME NEW m, Good(m), Sound(m), NEW m2, Good(m2), Spliced(m, m2, 0, 0, 0)
    PROVE  Sound(m2)
<1>1. StringsNamed(m)
  BY DEF Sound
<1>2. PICK H, A : Tree(m, TagOffsets(m, 0), H, A)
  BY DEF Sound
<1>3. H \in [Nat -> Nat] /\ 0 \notin A /\ 0 \in TagOffsets(m, 0)
  BY <1>2 DEF Tree
<1>4. Replaced(m, m2, H, A, 0, 0, 0, {}, H, A)
  BY <1>3 DEF Replaced
<1> QED BY <1>1, <1>2, <1>4, SoundSpliced

\* An item of one word.
LEMMA WordItem ==
    ASSUME NEW m, Framed(m), NEW x \in Nat, NEW tag \in {FDT_NOP, FDT_END_NODE, FDT_END},
           Value(At(m, x)) = tag, x + 1 <= fdt_size_dt_struct(m)
    PROVE  Tag(m, x) = tag /\ NextOf(m, x) = x + 1
<1>1. fdt_offset_ptr(m, x, 1)
  BY OffsetPtr
<1>2. TagEnd(m, x, tag) = x + 1
  BY DEF TagEnd
<1>3. fdt_offset_ptr(m, x, (x + 1) - x)
  BY <1>1
<1>4. TagTo(m, x, tag, x + 1) = [tag |-> tag, next |-> x + 1]
  BY <1>3 DEF TagTo
<1>5. fdt_next_tag(m, x) = [tag |-> tag, next |-> x + 1]
  BY <1>1, <1>2, <1>4 DEF fdt_next_tag
<1> QED BY <1>5 DEF Tag, NextOf

\* A property.
LEMMA PropItem ==
    ASSUME NEW m, Framed(m), NEW x \in Nat, NEW len \in Nat,
           Value(At(m, x)) = FDT_PROP, Value(At(m, x + 1)) = len,
           x + 3 + Words(len) <= fdt_size_dt_struct(m)
    PROVE  Tag(m, x) = FDT_PROP /\ NextOf(m, x) = x + 3 + Words(len)
<1>1. Words(len) \in Nat /\ fdt_size_dt_struct(m) \in Nat
  BY WordsNat, FramedFacts
<1> DEFINE n == 3 + Words(len)
<1>2. n \in Nat /\ x + n <= fdt_size_dt_struct(m) /\ n >= 3
  BY <1>1
<1>3. fdt_offset_ptr(m, x, 1) /\ fdt_offset_ptr(m, x + 1, 1) /\ fdt_offset_ptr(m, x, n)
  <2>1. x + 1 <= fdt_size_dt_struct(m) /\ (x + 1) + 1 <= fdt_size_dt_struct(m) /\ x + 1 \in Nat
    BY <1>1, <1>2
  <2>2. fdt_offset_ptr(m, x + 1, 1)
    BY <1>1, <2>1, OffsetPtr
  <2> HIDE DEF n
  <2> QED BY <1>1, <1>2, <2>1, <2>2, OffsetPtr
<1>4. TagEnd(m, x, FDT_PROP) = x + n
  BY <1>1, <1>3 DEF TagEnd
<1>5. TagTo(m, x, FDT_PROP, x + n) = [tag |-> FDT_PROP, next |-> x + n]
  <2> HIDE DEF n
  <2>1. (x + n) - x = n /\ x + n # 0
    BY <1>2
  <2> QED BY <1>3, <2>1 DEF TagTo
<1>6. fdt_next_tag(m, x) = [tag |-> FDT_PROP, next |-> x + n]
  <2> HIDE DEF n
  <2> QED BY <1>3, <1>4, <1>5 DEF fdt_next_tag
<1> QED BY <1>1, <1>6 DEF Tag, NextOf

\* A node whose name is in the words behind its tag.
LEMMA NameItem ==
    ASSUME NEW m, Framed(m), NEW x, x \in Nat, NEW n, n \in Nat, n >= 1,
           Value(At(m, x)) = FDT_BEGIN_NODE, x + 1 + n <= fdt_size_dt_struct(m),
           HasNul(At(m, x + n)), \A i \in 1 .. n - 1 : ~HasNul(At(m, x + i))
    PROVE  Tag(m, x) = FDT_BEGIN_NODE /\ NextOf(m, x) = x + 1 + n
<1> DEFINE o == x + 1
           e == x + 1 + n
<1>0. /\ MemSize \in Nat /\ fdt_size_dt_struct(m) \in Nat /\ fdt_size_dt_struct(m) <= MemSize
  BY FramedFacts
<1>1. /\ o \in Nat /\ e \in Nat /\ e \in o + 1 .. MemSize /\ e - 1 = x + n /\ e - 1 \in Nat
      /\ (e - 1) + 1 <= fdt_size_dt_struct(m) /\ e - x \in Nat
      /\ x + (e - x) <= fdt_size_dt_struct(m) /\ x + 1 <= fdt_size_dt_struct(m)
  BY <1>0
<1>2. \A i \in o .. e - 2 : ~HasNul(At(m, i))
  <2> TAKE i \in o .. e - 2
  <2>1. i - x \in 1 .. n - 1 /\ x + (i - x) = i
    BY <1>0
  <2> QED BY <2>1
<1>3. EndsString(m, o, e)
  <2>1. fdt_offset_ptr(m, e - 1, 1)
    <3> HIDE DEF e
    <3> QED BY <1>0, <1>1, OffsetPtr
  <2> QED BY <1>1, <1>2, <2>1 DEF EndsString
<1>4. ASSUME NEW f \in o + 1 .. MemSize, EndsString(m, o, f)
      PROVE  f = e
  <2> HIDE DEF e, o
  <2>1. CASE f < e
    <3>1. f - 1 \in o .. e - 2
      BY <1>0, <1>1, <2>1
    <3> QED BY <1>2, <1>4, <3>1 DEF EndsString
  <2>2. CASE e < f
    <3>1. e - 1 \in o .. f - 2
      BY <1>0, <1>1, <2>2
    <3> QED BY <1>3, <1>4, <3>1 DEF EndsString
  <2> QED BY <1>0, <1>1, <2>1, <2>2
<1> HIDE DEF e, o
<1>5. StringEnd(m, o) = e
  BY <1>1, <1>3, <1>4 DEF StringEnd
<1>6. fdt_offset_ptr(m, x, 1) /\ fdt_offset_ptr(m, x, e - x)
  BY <1>0, <1>1, OffsetPtr
<1>7. TagEnd(m, x, FDT_BEGIN_NODE) = e /\ e # 0
  <2>1. StringEnd(m, x + 1) = e
    BY <1>5 DEF o
  <2> QED BY <1>1, <2>1 DEF TagEnd
<1>8. fdt_next_tag(m, x) = [tag |-> FDT_BEGIN_NODE, next |-> e]
  BY <1>6, <1>7 DEF fdt_next_tag, TagTo
<1> QED BY <1>8 DEF Tag, NextOf, e

\* The words of a name.
NameSize(s) == Words(NameLen[s] + 1)

\* There is at least the one with the terminator.
LEMMA NameSizeNat ==
    ASSUME NEW s, s \in Names
    PROVE  NameSize(s) \in Nat /\ NameSize(s) >= 1
<1>1. NameLen[s] \in Nat
  BY NameAssumption
<1> QED BY <1>1 DEF NameSize, Words

NamePiece(c, s) == c.k = "name" /\ c.s = s

\* The words that a name is written in.
LEMMA NameCellFacts ==
    ASSUME NEW s
    PROVE  /\ \A e : NamePiece(Name(s, e), s)
           /\ ~HasNul(Name(s, 0)) /\ HasNul(Name(s, 1)) /\ HasNul(Name(s, 2))
<1>1. \A e : NamePiece(Name(s, e), s)
  BY Zenon DEF Name, NamePiece
<1>2. \A e : Name(s, e).k = "name" /\ Name(s, e).n = e
  BY DEF Name
<1> QED BY <1>1, <1>2 DEF HasNul

\* The cells of a name.
CellsOfName(s, e) ==
    [i \in 1 .. NameSize(s) |-> IF i < NameSize(s) THEN Name(s, 0) ELSE Name(s, e)]

\* A name that needs as many words with the length that strlen() returns as it
\* takes.
NameFits(s) == Words(strlen(s) + 1) = NameSize(s)

\* The words that the copy of such a name leaves.
LEMMA NameCopied ==
    ASSUME NEW b, NEW a, NEW s, s \in Names, NEW t, NameFits(s)
    PROVE  \E e \in {1, 2} : NameCells(b, a, s, t) = CellsOfName(s, e)
<1> DEFINE k == NameSize(s)
           e == IF strlen(s) % 4 # 0 /\ t # 0 THEN 2 ELSE 1
           c(i) == IF i < k THEN Name(s, 0)
                   ELSE IF i = k THEN Name(s, e)
                   ELSE IF t = 0 /\ b[a + i - 1].k = "num" THEN b[a + i - 1]
                   ELSE Text
           d(i) == IF i < k THEN Name(s, 0) ELSE Name(s, e)
<1>1. k \in Nat
  BY NameSizeNat
<1>2. NameCells(b, a, s, t) = [i \in 1 .. k |-> c(i)]
  BY Zenon DEF NameCells, NameSize, NameFits
<1>3. CellsOfName(s, e) = [i \in 1 .. k |-> d(i)]
  BY Zenon DEF CellsOfName
<1>4. \A i \in 1 .. k : c(i) = d(i)
  <2> TAKE i \in 1 .. k
  <2> HIDE DEF k, e
  <2>1. i < k \/ i = k
    BY <1>1
  <2>2. CASE i < k
    BY <2>2
  <2>3. CASE i = k
    <3>1. ~(i < k)
      BY <1>1, <2>3
    <3> QED BY <2>3, <3>1
  <2> QED BY <2>1, <2>2, <2>3
<1>5. [i \in 1 .. k |-> c(i)] = [i \in 1 .. k |-> d(i)]
  <2> HIDE DEF c, d, k
  <2> QED BY <1>4
<1>6. e \in {1, 2}
  OBVIOUS
<1> HIDE DEF e, c, d, k
<1> QED BY <1>2, <1>3, <1>5, <1>6

\* There is a property with len bytes at p.
PropertyAt(m, p, len) ==
    p \in TagOffsets(m, 0) /\ Tag(m, p) = FDT_PROP /\ PropLen(m, p) = len

\* One property takes the place of the items from p to q.
LEMMA PropertyPlaced ==
    ASSUME NEW m, Good(m), StringsNamed(m), NEW m2, Good(m2),
           NEW H, NEW A, Tree(m, TagOffsets(m, 0), H, A),
           NEW p \in TagOffsets(m, 0), NEW q \in TagOffsets(m, 0), p <= q,
           p \in A, H[q] = H[p], NEW len \in Nat, NEW q2, q2 = p + 3 + Words(len),
           Spliced(m, m2, p, q, q2),
           Value(At(m2, p)) = FDT_PROP, Value(At(m2, p + 1)) = len,
           Value(At(m2, p + 2)) < fdt_size_dt_strings(m2)
    PROVE  Sound(m2) /\ PropertyAt(m2, p, len)
<1> DEFINE T == TagOffsets(m, 0)
           M == {p}
           G == [x \in Nat |-> H[p]]
           B == {p, q2}
<1>0. 0 \in 0 .. MemSize /\ MemSize \in Nat /\ Framed(m)
  BY MemAssumption, GoodFramed
<1>1. T \subseteq 0 .. MemSize /\ IsChain(m, 0)
  BY <1>0, TagOffsetsUnfold, WalkIsChain
<1>2. /\ p \in Nat /\ q \in Nat /\ q2 \in Nat /\ p < q2 /\ p <= q2
  BY <1>1, WordsNat
<1>3. H[p] \in Nat /\ G \in [Nat -> Nat] /\ G[p] = H[p] /\ G[q2] = H[q]
  <2>1. H \in [Nat -> Nat]
    BY DEF Tree
  <2>2. H[p] \in Nat
    BY <1>2, <2>1
  <2> QED BY <1>2, <2>2
<1>4. M \subseteq p .. q2 - 1 /\ p \in M \cup {q2}
  BY <1>2
<1>5. p \in B => p \in A
  OBVIOUS
<1>6. q2 \in B
  OBVIOUS
<1>7. q2 <= fdt_size_dt_struct(m2)
  <2>1. q <= fdt_size_dt_struct(m)
    <3>1. Nested(m, T, H, A, q)
      BY DEF Tree
    <3>2. Tag(m, q) = FDT_END => NextOf(m, q) = fdt_size_dt_struct(m)
      BY <3>1 DEF Nested
    <3>3. fdt_size_dt_struct(m) \in Nat
      BY GoodFacts
    <3>4. NextOf(m, q) \in Nat => q < NextOf(m, q) /\ NextOf(m, q) <= fdt_size_dt_struct(m)
      BY <1>2, NextTag, GoodReadable DEF NextOf
    <3>5. Tag(m, q) # FDT_END => NextOf(m, q) \in Nat
      BY <1>2, NextTag, GoodReadable DEF NextOf, Tag
    <3> QED BY <1>2, <3>2, <3>3, <3>4, <3>5
  <2>2. fdt_size_dt_struct(m2) - q2 = fdt_size_dt_struct(m) - q
    BY DEF Spliced
  <2>3. fdt_size_dt_struct(m) \in Nat /\ fdt_size_dt_struct(m2) \in Nat
    BY GoodFacts
  <2> QED BY <1>2, <2>1, <2>2, <2>3
<1>8. Tag(m2, p) = FDT_PROP /\ NextOf(m2, p) = q2
  BY <1>2, <1>7, GoodFramed, PropItem
<1>9. Nested(m2, M \cup {q2}, G, B, p)
  <2>1. G[p] = G[q2] /\ p \in B /\ q2 \in M \cup {q2}
    BY <1>2, <1>3
  <2> HIDE DEF G, B, M
  <2> QED BY <1>8, <2>1 DEF Nested
<1>10. \A x \in M : Tag(m2, x) # FDT_END /\ Nested(m2, M \cup {q2}, G, B, x)
  BY <1>8, <1>9
<1> HIDE DEF M, G, B, T
<1>11. q \in A /\ Tag(m, q) \in {FDT_PROP, FDT_NOP} => q2 \in B
  BY <1>6
<1>12. Replaced(m, m2, H, A, p, q, q2, M, G, B)
  BY <1>2, <1>3, <1>4, <1>5, <1>10, <1>11 DEF T, Replaced
<1>13. Sound(m2)
  BY <1>12, SoundSpliced
<1>14. p \in TagOffsets(m2, 0)
  <2>1. p <= fdt_size_dt_struct(m2)
    <3>1. fdt_size_dt_struct(m2) \in Nat
      BY GoodFacts
    <3> QED BY <1>2, <1>7, <3>1
  <2>2. SameWords(m, 0, m2, 0, p) /\ Framed(m2)
    BY GoodFramed DEF Spliced
  <2> QED BY <1>0, <2>1, <2>2, SamePrefix
<1> QED BY <1>8, <1>13, <1>14 DEF PropertyAt, PropLen

-----------------------------------------------------------------------------
(* Values and properties.                                                  *)

\* The tag of an item is its first word.
LEMMA TagWord ==
    ASSUME NEW m, NEW x, Tag(m, x) # FDT_END
    PROVE  Value(At(m, x)) = Tag(m, x)
<1> DEFINE v == Value(At(m, x))
<1>1. fdt_next_tag(m, x).tag \in {FDT_END, v}
  <2> HIDE DEF v
  <2> QED BY DEF fdt_next_tag, TagTo, v
<1> QED BY <1>1 DEF Tag

\* The word at an offset of the structure block.
LEMMA WordKept ==
    ASSUME NEW m, NEW b, NEW p1 \in Nat, SameWords(m, 0, b, 0, p1), NEW i \in 0 .. p1 - 1
    PROVE  At(b, i) = At(m, i)
<1>1. At(b, 0 + i) = At(m, 0 + i)
  BY DEF SameWords
<1> QED BY <1>1

\* Where a property at p with a value of len bytes ends.
PropEnd(p, len) == p + 3 + Words(len)

\* m2 is b but for the length and the value of the property at p.
Revalued(m, b, m2, p, len) ==
    /\ m2 \in Memory
    /\ \A a \in 0 .. MemSize - 1 :
         (\/ a < fdt_off_dt_struct(m) + p + 1
          \/ a = fdt_off_dt_struct(m) + p + 2
          \/ a >= fdt_off_dt_struct(m) + PropEnd(p, len)) => m2[a] = b[a]
    /\ Value(m2[fdt_off_dt_struct(m) + p + 1]) = len

\* A property whose value is replaced leaves the blob sound: what is written is
\* the length and the value, and what is behind the value moves.
LEMMA ValueWritten ==
    ASSUME NEW m, Good(m), Sound(m), NEW p, p \in TagOffsets(m, 0), Tag(m, p) = FDT_PROP,
           NEW b, Good(b), fdt_off_dt_struct(b) = fdt_off_dt_struct(m),
           NEW len, len \in Nat, NEW p1, p1 \in Nat, p + 3 <= p1, p1 <= PropEnd(p, len),
           Spliced(m, b, p1, NextOf(m, p), PropEnd(p, len)),
           NEW m2, Revalued(m, b, m2, p, len)
    PROVE  /\ Good(m2) /\ Sound(m2) /\ PropertyAt(m2, p, len)
           /\ fdt_off_dt_struct(m2) = fdt_off_dt_struct(m)
<1> DEFINE T  == TagOffsets(m, 0)
           S0 == fdt_off_dt_struct(m)
           q  == NextOf(m, p)
           q2 == PropEnd(p, len)
<1>z. q2 = p + 3 + Words(len)
  BY DEF PropEnd
<1>y. p1 <= q2 /\ Spliced(m, b, p1, q, q2)
  OBVIOUS
<1>a. /\ m2 \in Memory
      /\ \A a \in 0 .. MemSize - 1 :
            a < S0 + p + 1 \/ a = S0 + p + 2 \/ a >= S0 + q2 => m2[a] = b[a]
      /\ Value(m2[S0 + p + 1]) = len
      /\ Good(b) /\ fdt_off_dt_struct(b) = S0
  BY DEF Revalued
<1> HIDE DEF q2
<1>0. 0 \in 0 .. MemSize /\ MemSize \in Nat /\ Framed(m)
  BY MemAssumption, GoodFramed
<1>1. T \subseteq 0 .. MemSize /\ IsChain(m, 0)
  BY <1>0, TagOffsetsUnfold, WalkIsChain
<1>2. /\ p \in Nat /\ Words(len) \in Nat /\ q2 \in Nat /\ S0 \in Nat
      /\ fdt_size_dt_struct(m) \in Nat /\ S0 + fdt_size_dt_struct(m) <= MemSize
  <2>1. p \in Nat
    BY <1>1
  <2> QED BY <1>z, <1>0, <2>1, WordsNat, GoodFacts, FramedFacts
<1>3. q \in T /\ q \in Nat /\ p + 3 <= q /\ q <= fdt_size_dt_struct(m)
  <2>1. q \in T
    BY <1>1 DEF IsChain, Leads, Tag
  <2>2. q = p + 3 + Words(PropLen(m, p)) /\ Words(PropLen(m, p)) \in Nat
        /\ q <= fdt_size_dt_struct(m)
    BY <1>0, <1>2, PropNameNat
  <2> QED BY <1>1, <1>2, <2>1, <2>2
<1>4. /\ Good(m2) /\ fdt_off_dt_struct(m2) = S0 /\ Spliced(m, m2, p, q, q2)
  <2>1. WrittenIn(m, b, m2, p, q2)
    BY <1>a, <1>2 DEF WrittenIn
  <2>2. p <= p1
    BY <1>2
  <2> HIDE DEF q, S0
  <2>3. fdt_off_dt_struct(b) = fdt_off_dt_struct(m)
    BY DEF S0
  <2>4. Good(m2) /\ fdt_off_dt_struct(m2) = fdt_off_dt_struct(m) /\ Spliced(m, m2, p, q, q2)
    BY <1>y, <1>a, <1>2, <1>3, <2>1, <2>2, <2>3, WrittenSpliced
  <2> QED BY <2>4 DEF S0
<1>5. PICK H, A : Tree(m, T, H, A)
  BY DEF Sound
<1>6. StringsNamed(m)
  BY DEF Sound
<1>7. p \in A /\ H[q] = H[p] /\ Value(At(m, p + 2)) < fdt_size_dt_strings(m)
  <2>1. Nested(m, T, H, A, p)
    BY <1>5 DEF Tree
  <2> QED BY <2>1 DEF Nested
<1>8. At(m2, p) = At(m, p) /\ At(m2, p + 2) = At(m, p + 2) /\ Value(At(m2, p + 1)) = len
  <2>1. S0 + p \in 0 .. MemSize - 1 /\ S0 + p + 2 \in 0 .. MemSize - 1
    BY <1>0, <1>2, <1>3
  <2>2. m2[S0 + p] = b[S0 + p] /\ m2[S0 + p + 2] = b[S0 + p + 2]
    BY <1>a, <1>2, <2>1
  <2>3. p \in 0 .. p1 - 1 /\ p + 2 \in 0 .. p1 - 1
    BY <1>2
  <2>4. At(b, p) = At(m, p) /\ At(b, p + 2) = At(m, p + 2)
    BY <1>a, <2>3, WordKept DEF Spliced
  <2>5. S0 + (p + 1) = S0 + p + 1 /\ S0 + (p + 2) = S0 + p + 2
    BY <1>2
  <2>6. At(m2, p) = m2[S0 + p] /\ At(m2, p + 2) = m2[S0 + p + 2]
        /\ At(m2, p + 1) = m2[S0 + p + 1]
        /\ At(b, p) = b[S0 + p] /\ At(b, p + 2) = b[S0 + p + 2]
    BY <1>a, <1>4, <2>5 DEF At
  <2> QED BY <1>a, <2>2, <2>4, <2>6
<1>9. Value(At(m2, p)) = FDT_PROP
  BY <1>8, TagWord
<1>10. Value(At(m2, p + 2)) < fdt_size_dt_strings(m2)
  <2>1. fdt_size_dt_strings(m) <= fdt_size_dt_strings(m2)
    BY <1>4 DEF Spliced
  <2>2. fdt_size_dt_strings(m) \in Nat /\ fdt_size_dt_strings(m2) \in Nat
    BY <1>4, GoodFacts
  <2>3. Value(At(m, p + 2)) \in Nat
    BY <1>0, <1>2, PropNameNat
  <2> QED BY <1>7, <1>8, <2>1, <2>2, <2>3
<1>11. p <= q
  BY <1>2, <1>3
<1> QED BY <1>z, <1>3, <1>4, <1>5, <1>6, <1>7, <1>8, <1>9, <1>10, <1>11, PropertyPlaced

\* A property that is added behind the tag of its node leaves the blob sound.
LEMMA PropertyAdded ==
    ASSUME NEW m, Good(m), Sound(m), NEW o, o \in TagOffsets(m, 0), Tag(m, o) = FDT_BEGIN_NODE,
           NEW b, Good(b), fdt_off_dt_struct(b) = fdt_off_dt_struct(m),
           NEW len, len \in Nat, NEW q, q = NextOf(m, o), Spliced(m, b, q, q, PropEnd(q, len)),
           NEW m2, WrittenIn(m, b, m2, q, PropEnd(q, len)),
           NEW S0, S0 = fdt_off_dt_struct(m),
           Value(m2[S0 + q]) = FDT_PROP, Value(m2[S0 + q + 1]) = len,
           Value(m2[S0 + q + 2]) < fdt_size_dt_strings(m)
    PROVE  /\ Good(m2) /\ Sound(m2) /\ PropertyAt(m2, q, len)
           /\ fdt_off_dt_struct(m2) = fdt_off_dt_struct(m)
<1> DEFINE T  == TagOffsets(m, 0)
           q2 == PropEnd(q, len)
<1>z. q2 = q + 3 + Words(len) /\ WrittenIn(m, b, m2, q, q2) /\ Spliced(m, b, q, q, q2)
  BY DEF PropEnd
<1> HIDE DEF q2
<1>0. 0 \in 0 .. MemSize /\ MemSize \in Nat /\ Framed(m)
  BY MemAssumption, GoodFramed
<1>1. T \subseteq 0 .. MemSize /\ IsChain(m, 0)
  BY <1>0, TagOffsetsUnfold, WalkIsChain
<1>2. /\ o \in Nat /\ Words(len) \in Nat /\ S0 \in Nat
      /\ fdt_size_dt_struct(m) \in Nat
  BY <1>0, <1>1, WordsNat, GoodFacts
<1>3. q \in T /\ q \in Nat /\ q <= fdt_size_dt_struct(m)
  <2>1. q \in T
    BY <1>1 DEF IsChain, Leads, Tag
  <2> QED BY <1>0, <1>2, <2>1, NodeNext DEF Tag
<1>4. q2 \in Nat /\ q <= q2
  BY <1>z, <1>2, <1>3
<1>5. /\ Good(m2) /\ fdt_off_dt_struct(m2) = S0 /\ Spliced(m, m2, q, q, q2)
  <2>1. q <= q
    BY <1>3
  <2> QED BY <1>z, <1>3, <1>4, <2>1, WrittenSpliced
<1>6. PICK H, A : Tree(m, T, H, A)
  BY DEF Sound
<1> DEFINE A2 == A \cup {q}
<1>7. Tree(m, T, H, A2) /\ q \in A2
  BY <1>0, <1>6, OpenNode
<1>8. StringsNamed(m)
  BY DEF Sound
<1>9. /\ Value(At(m2, q)) = FDT_PROP /\ Value(At(m2, q + 1)) = len
      /\ Value(At(m2, q + 2)) < fdt_size_dt_strings(m2)
  <2>1. S0 + (q + 1) = S0 + q + 1 /\ S0 + (q + 2) = S0 + q + 2
    BY <1>2, <1>3
  <2>2. At(m2, q) = m2[S0 + q] /\ At(m2, q + 1) = m2[S0 + q + 1]
        /\ At(m2, q + 2) = m2[S0 + q + 2]
    BY <1>5, <2>1 DEF At
  <2>3. fdt_size_dt_strings(m) <= fdt_size_dt_strings(m2)
    BY <1>5 DEF Spliced
  <2>4. fdt_size_dt_strings(m) \in Nat /\ fdt_size_dt_strings(m2) \in Nat
    BY <1>5, GoodFacts
  <2>5. Value(m2[S0 + q + 2]) \in Nat
    <3>1. q2 <= fdt_size_dt_struct(m2) /\ fdt_size_dt_struct(m2) \in Nat
          /\ S0 + fdt_size_dt_struct(m2) <= MemSize
      <4>1. fdt_size_dt_struct(m2) - q2 = fdt_size_dt_struct(m) - q
        BY <1>5 DEF Spliced
      <4>2. Framed(m2)
        BY <1>5, GoodFramed
      <4>3. fdt_size_dt_struct(m2) \in Nat /\ S0 + fdt_size_dt_struct(m2) <= MemSize
        BY <1>5, <4>2, FramedFacts
      <4> QED BY <1>2, <1>3, <1>4, <4>1, <4>3
    <3>2. S0 + q + 2 \in 0 .. MemSize - 1
      BY <1>z, <1>0, <1>2, <1>3, <1>4, <3>1
    <3>3. m2[S0 + q + 2] \in Cell
      BY <1>z, <3>2 DEF Memory, WrittenIn
    <3> QED BY <3>3, CellFacts
  <2> QED BY <2>2, <2>3, <2>4, <2>5
<1>10. q <= q /\ H[q] = H[q]
  BY <1>3
<1> HIDE DEF A2
<1> QED BY <1>z, <1>3, <1>5, <1>7, <1>8, <1>9, <1>10, PropertyPlaced

\* Removing a property.
LEMMA DelPropSound ==
    ASSUME NEW m, Good(m), Sound(m), NEW o \in TagOffsets(m, 0), NEW name
    PROVE  Sound(DelProp(m, o, name).m)
<1> DEFINE p == fdt_get_property(m, o, name)
           n == 3 + Words(PropLen(m, p))
           a == fdt_off_dt_struct(m) + p
           z == 0
           f == fdt_splice_struct_(m, a, n, z)
<1>0. 0 \in 0 .. MemSize /\ MemSize \in Nat /\ Framed(m)
  BY MemAssumption, GoodFramed
<1>1. TagOffsets(m, 0) \subseteq 0 .. MemSize
  BY <1>0, TagOffsetsUnfold
<1>2. o \in Nat /\ p \in Int
  <2>1. o \in Nat
    BY <1>1
  <2> QED BY <2>1, GetProperty
<1>3. CASE p < 0
  BY <1>2, <1>3 DEF DelProp, Return
<1>4. CASE p >= 0
  <2>1. DelProp(m, o, name) = f
    BY <1>2, <1>4 DEF DelProp
  <2>2. /\ p \in TagOffsets(m, 0) /\ p \in Nat /\ Tag(m, p) = FDT_PROP
        /\ NextOf(m, p) \in TagOffsets(m, 0) /\ Words(PropLen(m, p)) \in Nat
        /\ NextOf(m, p) = p + 3 + Words(PropLen(m, p))
        /\ NextOf(m, p) <= fdt_size_dt_struct(m)
    <3> HIDE DEF p
    <3> QED BY <1>4, PropertyItem DEF p
  <2> HIDE DEF p
  <2>3. n \in Nat /\ p + n = NextOf(m, p) /\ z \in Nat /\ p + z = p
    BY <2>2
  <2> HIDE DEF n, z
  <2>4. p + n <= fdt_size_dt_struct(m)
    BY <2>2, <2>3
  <2> HIDE DEF a
  <2>5. a = fdt_off_dt_struct(m) + p
    BY DEF a
  <2>6. SplicedAt(m, f, p, n, z)
    BY <2>2, <2>3, <2>4, <2>5, SpliceAt
  <2> DEFINE m2 == f.m
             q  == NextOf(m, p)
  <2>7. CASE f.ret = 0
    <3>1. Spliced(m, m2, p, q, p) /\ Good(m2)
      BY <2>3, <2>6, <2>7 DEF SplicedAt
    <3>2. PICK H, A : Tree(m, TagOffsets(m, 0), H, A)
      BY DEF Sound
    <3>3. StringsNamed(m)
      BY DEF Sound
    <3>4. p \in A /\ H[q] = H[p] /\ H \in [Nat -> Nat]
      <4>1. Nested(m, TagOffsets(m, 0), H, A, p) /\ H \in [Nat -> Nat]
        BY <2>2, <3>2 DEF Tree
      <4> QED BY <2>2, <4>1 DEF Nested
    <3>5. p <= q /\ q \in TagOffsets(m, 0) /\ p <= p
      BY <2>2
    <3> HIDE DEF m2, q
    <3>6. Replaced(m, m2, H, A, p, q, p, {}, H, {p})
      BY <2>2, <3>4, <3>5 DEF Replaced
    <3>7. Sound(m2)
      BY <3>1, <3>2, <3>3, <3>6, SoundSpliced
    <3> QED BY <2>1, <3>7 DEF m2
  <2>8. CASE f.ret # 0
    BY <2>1, <2>6, <2>8 DEF SplicedAt
  <2> QED BY <2>7, <2>8
<1> QED BY <1>2, <1>3, <1>4

=============================================================================
