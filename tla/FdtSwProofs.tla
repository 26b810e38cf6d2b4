----------------------------- MODULE FdtSwProofs -----------------------------
(***************************************************************************)
(* Writing a blob from front to back keeps its blocks apart and stays      *)
(* inside the buffer, and what fdt_finish() leaves is in the order that    *)
(* the read-write functions rely on: for every size of buffers, names,     *)
(* values and trees.  And a search finds each property, while the tree is  *)
(* being written and after fdt_finish() has moved the names.               *)
(***************************************************************************)
EXTENDS FdtSw, FdtRwLemmas

\* A blob under construction.  The reservation list is a sequence of whole
\* entries, and has its end before the structure block begins; there are no
\* strings before there is a node, which fdt_add_reservemap_entry relies on.
SwGood(m) ==
    /\ m \in Memory
    /\ fdt_magic(m) = FDT_SW_MAGIC
    /\ fdt_version(m) = 17
    /\ fdt_last_comp_version(m) = 16
    /\ Apart(m)
    /\ fdt_off_dt_struct(m) + fdt_size_dt_struct(m)
            <= fdt_totalsize(m) - fdt_size_dt_strings(m)
    /\ \E k \in Nat : fdt_off_dt_struct(m) = SwHeadSize + RsvSize * k
    /\ fdt_size_dt_struct(m) > 0 => RsvDone(m)
    /\ fdt_size_dt_struct(m) = 0 => fdt_size_dt_strings(m) = 0

\* What fdt_create makes of a buffer with room for the header, but not for the
\* words that its alignment adds.  No reservation fits, so that no node is begun.
SwSmall(m) ==
    /\ m \in Memory
    /\ fdt_magic(m) = FDT_SW_MAGIC
    /\ fdt_version(m) = 17
    /\ fdt_last_comp_version(m) = 16
    /\ Apart(m)
    /\ Bare(m)
    /\ fdt_totalsize(m) < SwHeadSize
    /\ fdt_off_dt_strings(m) = fdt_totalsize(m)

\* What a call on such a blob promises.
Held(m, r) ==
    /\ r.ret \in Int
    /\ SwGood(r.m)
    /\ Within(m, r.m)
    /\ fdt_totalsize(r.m) = fdt_totalsize(m)

-----------------------------------------------------------------------------
(* Blobs under construction.                                               *)

USE DEF FDT_BEGIN_NODE, FDT_END_NODE, FDT_PROP, FDT_NOP, FDT_END,
        FDT_ERR_NOTFOUND, FDT_ERR_EXISTS, FDT_ERR_NOSPACE, FDT_ERR_BADOFFSET,
        FDT_ERR_BADSTATE, FDT_ERR_TRUNCATED, FDT_ERR_BADMAGIC, FDT_ERR_BADVERSION,
        FDT_ERR_BADSTRUCTURE, FDT_ERR_BADLAYOUT, FDT_MAGIC, FDT_SW_MAGIC,
        HeaderSize, RsvSize, PropSize, hMagic, hTotalsize, hOffDtStruct,
        hOffDtStrings, hOffMemRsvmap, hVersion, hLastCompVersion, hBootCpuidPhys,
        hSizeDtStrings, hSizeDtStruct

\* The aligned header takes 48 bytes.
LEMMA SwHead == SwHeadSize = 12
  BY DEF SwHeadSize

\* What a blob under construction looks like.
LEMMA SwFacts ==
    ASSUME NEW m, SwGood(m)
    PROVE  /\ m \in Memory /\ DOMAIN m = 0 .. MemSize - 1
           /\ MemSize \in Nat /\ MemSize >= 10 /\ BufSize \in Nat /\ BufSize <= MemSize
           /\ fdt_totalsize(m) \in Nat /\ fdt_off_dt_struct(m) \in Nat
           /\ fdt_size_dt_struct(m) \in Nat /\ fdt_size_dt_strings(m) \in Nat
           /\ fdt_off_mem_rsvmap(m) = 12 /\ fdt_off_dt_struct(m) >= 12
           /\ fdt_off_dt_struct(m) + fdt_size_dt_struct(m)
                    <= fdt_totalsize(m) - fdt_size_dt_strings(m)
           /\ fdt_totalsize(m) <= BufSize /\ fdt_totalsize(m) <= MemSize
           /\ fdt_version(m) = 17
<1>1. /\ MemSize \in Nat /\ MemSize >= 10 /\ BufSize \in Nat /\ BufSize <= MemSize
  BY MemAssumption, BufAssumption
<1>2. m \in Memory
  BY DEF SwGood
<1>3. /\ fdt_off_mem_rsvmap(m) = 12 /\ fdt_off_dt_struct(m) >= 12
      /\ fdt_off_dt_struct(m) + fdt_size_dt_struct(m)
                    <= fdt_totalsize(m) - fdt_size_dt_strings(m)
      /\ fdt_totalsize(m) <= BufSize /\ fdt_version(m) = 17
  BY SwHead DEF SwGood, Apart
<1>4. /\ fdt_totalsize(m) \in Nat /\ fdt_off_dt_struct(m) \in Nat
      /\ fdt_size_dt_struct(m) \in Nat /\ fdt_size_dt_strings(m) \in Nat
  BY <1>2, HeaderNat
<1>5. DOMAIN m = 0 .. MemSize - 1
  BY <1>2 DEF Memory
<1> QED BY <1>1, <1>2, <1>3, <1>4, <1>5

\* A list of reservations that has its end holds an entry.
LEMMA RsvDoneEntry ==
    ASSUME NEW m, SwGood(m), RsvDone(m)
    PROVE  fdt_off_dt_struct(m) >= 16
<1>1. PICK k \in Nat : fdt_off_dt_struct(m) = 12 + 4 * k
  BY SwHead DEF SwGood
<1>2. fdt_off_dt_struct(m) > 12
  BY SwHead DEF RsvDone
<1> QED BY <1>1, <1>2

\* A blob stays good when nothing in front of its structure block changes but
\* the sizes of the two blocks, and these still fit.
LEMMA SwKept ==
    ASSUME NEW m, SwGood(m), NEW m2 \in Memory,
           m2[hSizeDtStrings].k = "num", m2[hSizeDtStruct].k = "num",
           \A a \in 0 .. MemSize - 1 :
                /\ a < fdt_off_dt_struct(m) \/ a >= fdt_totalsize(m)
                /\ a \notin {hSizeDtStrings, hSizeDtStruct}
                => m2[a] = m[a],
           fdt_off_dt_struct(m) + fdt_size_dt_struct(m2)
                <= fdt_totalsize(m) - fdt_size_dt_strings(m2),
           fdt_size_dt_struct(m2) > 0 => RsvDone(m),
           fdt_size_dt_struct(m2) = 0 => fdt_size_dt_strings(m2) = 0
    PROVE  /\ SwGood(m2) /\ Within(m, m2)
           /\ fdt_totalsize(m2) = fdt_totalsize(m)
           /\ fdt_off_dt_struct(m2) = fdt_off_dt_struct(m)
           /\ RsvDone(m2) <=> RsvDone(m)
<1> DEFINE S == fdt_off_dt_struct(m)
<1>0. /\ MemSize \in Nat /\ MemSize >= 10
      /\ fdt_totalsize(m) \in Nat /\ S \in Nat
      /\ fdt_size_dt_struct(m) \in Nat /\ fdt_size_dt_strings(m) \in Nat
      /\ fdt_size_dt_struct(m2) \in Nat /\ fdt_size_dt_strings(m2) \in Nat
      /\ S >= 12 /\ S <= fdt_totalsize(m) /\ fdt_totalsize(m) <= MemSize
  <2>1. /\ MemSize \in Nat /\ MemSize >= 10 /\ fdt_totalsize(m) \in Nat /\ S \in Nat
        /\ fdt_size_dt_struct(m) \in Nat /\ fdt_size_dt_strings(m) \in Nat
        /\ S >= 12 /\ fdt_totalsize(m) <= MemSize
        /\ S + fdt_size_dt_struct(m) <= fdt_totalsize(m) - fdt_size_dt_strings(m)
    BY SwFacts
  <2>2. fdt_size_dt_struct(m2) \in Nat /\ fdt_size_dt_strings(m2) \in Nat
    BY HeaderNat
  <2> QED BY <2>1, <2>2
<1>1. \A a \in 0 .. 7 : m2[a] = m[a]
  BY <1>0
<1>2. /\ fdt_magic(m2) = fdt_magic(m) /\ fdt_version(m2) = fdt_version(m)
      /\ fdt_last_comp_version(m2) = fdt_last_comp_version(m)
      /\ fdt_totalsize(m2) = fdt_totalsize(m)
      /\ fdt_off_mem_rsvmap(m2) = fdt_off_mem_rsvmap(m)
      /\ fdt_off_dt_struct(m2) = S
  BY <1>1 DEF fdt_magic, fdt_version, fdt_last_comp_version, fdt_totalsize,
              fdt_off_mem_rsvmap, fdt_off_dt_struct
<1>3. \A h \in 0 .. HeaderSize - 1 : m2[h].k = "num"
  <2>1. \A h \in 0 .. 9 : m[h].k = "num"
    BY DEF SwGood, Apart
  <2> QED BY <1>1, <2>1
<1>4. RsvDone(m2) <=> RsvDone(m)
  <2>1. CASE S > 12
    <3>1. PICK k \in Nat : S = 12 + 4 * k
      BY SwHead DEF SwGood
    <3>2. S - 2 \in 0 .. MemSize - 1 /\ S - 1 \in 0 .. MemSize - 1
          /\ S - 2 > 9 /\ S - 1 > 9 /\ S - 2 < S /\ S - 1 < S
      BY <1>0, <2>1, <3>1
    <3>3. m2[S - 2] = m[S - 2] /\ m2[S - 1] = m[S - 1]
      BY <3>2
    <3> QED BY <1>2, <3>3 DEF RsvDone
  <2>2. CASE ~(S > 12)
    BY <1>2, <2>2, SwHead DEF RsvDone
  <2> QED BY <2>1, <2>2
<1>5. Within(m, m2)
  BY <1>0 DEF Within
<1>6. Apart(m2)
  BY <1>0, <1>2, <1>3 DEF Apart, SwGood
<1> QED BY <1>2, <1>4, <1>5, <1>6 DEF SwGood

\* One function after the other.
LEMMA HeldTwice ==
    ASSUME NEW m, NEW r, NEW r2, Held(m, r), Held(r.m, r2)
    PROVE  Held(m, r2)
<1>1. \A a \in 0 .. MemSize - 1 : a >= fdt_totalsize(m) => r2.m[a] = m[a]
  BY DEF Held, Within
<1> QED BY <1>1 DEF Held, Within

\* The sizes of the blocks, the place of the structure block and the end of the
\* list of reservations are the same.
SwSame(m, m2) ==
    /\ fdt_off_dt_struct(m2) = fdt_off_dt_struct(m)
    /\ fdt_size_dt_struct(m2) = fdt_size_dt_struct(m)
    /\ fdt_size_dt_strings(m2) = fdt_size_dt_strings(m)
    /\ RsvDone(m2) <=> RsvDone(m)

\* Writing anything between the start of the structure block and the end of
\* the buffer leaves the blob good.
LEMMA SwWritten ==
    ASSUME NEW m, SwGood(m), NEW m2 \in Memory,
           \A a \in 0 .. MemSize - 1 :
                a < fdt_off_dt_struct(m) \/ a >= fdt_totalsize(m) => m2[a] = m[a]
    PROVE  /\ SwGood(m2) /\ Within(m, m2)
           /\ fdt_totalsize(m2) = fdt_totalsize(m)
           /\ SwSame(m, m2)
<1>0. /\ MemSize \in Nat /\ MemSize >= 10
      /\ fdt_off_dt_struct(m) \in Nat /\ fdt_off_dt_struct(m) >= 12
      /\ fdt_off_dt_struct(m) + fdt_size_dt_struct(m)
                <= fdt_totalsize(m) - fdt_size_dt_strings(m)
  BY SwFacts
<1>1. m2[8] = m[8] /\ m2[9] = m[9]
  BY <1>0
<1>2. /\ fdt_size_dt_struct(m2) = fdt_size_dt_struct(m)
      /\ fdt_size_dt_strings(m2) = fdt_size_dt_strings(m)
  BY <1>1 DEF fdt_size_dt_struct, fdt_size_dt_strings
<1>3. m2[8].k = "num" /\ m2[9].k = "num"
  BY <1>1 DEF SwGood, Apart
<1>4. /\ fdt_size_dt_struct(m2) > 0 => RsvDone(m)
      /\ fdt_size_dt_struct(m2) = 0 => fdt_size_dt_strings(m2) = 0
  BY <1>2 DEF SwGood
<1>5. /\ SwGood(m2) /\ Within(m, m2)
      /\ fdt_totalsize(m2) = fdt_totalsize(m)
      /\ fdt_off_dt_struct(m2) = fdt_off_dt_struct(m)
      /\ RsvDone(m2) <=> RsvDone(m)
  BY <1>0, <1>2, <1>3, <1>4, SwKept
<1> QED BY <1>2, <1>5 DEF SwSame

-----------------------------------------------------------------------------
(* Space and what is put into it.                                          *)

\* Space is taken behind the structure block, in front of the strings block.
LEMMA GrabSpace ==
    ASSUME NEW m, SwGood(m), RsvDone(m), NEW len \in Nat
    PROVE  LET r == fdt_grab_space_(m, len)
           IN  /\ Held(m, r)
               /\ r.ret < 0 => r.m = m
               /\ r.ret >= 0 =>
                    /\ r.ret = fdt_off_dt_struct(m) + fdt_size_dt_struct(m)
                    /\ r.ret + len <= fdt_totalsize(m) - fdt_size_dt_strings(m)
                    /\ fdt_off_dt_struct(r.m) = fdt_off_dt_struct(m)
                    /\ fdt_size_dt_struct(r.m) = fdt_size_dt_struct(m) + len
                    /\ fdt_size_dt_strings(r.m) = fdt_size_dt_strings(m)
                    /\ RsvDone(r.m)
<1> DEFINE ss == fdt_size_dt_struct(m)
           gs == fdt_size_dt_strings(m)
           S  == fdt_off_dt_struct(m)
           T  == fdt_totalsize(m)
           m2 == Set(m, hSizeDtStruct, ss + len)
           r  == fdt_grab_space_(m, len)
<1>0. /\ m \in Memory /\ MemSize \in Nat /\ MemSize >= 10
      /\ T \in Nat /\ S \in Nat /\ ss \in Nat /\ gs \in Nat
      /\ S >= 12 /\ S + ss <= T - gs /\ T <= MemSize
  BY SwFacts
<1>1. CASE ss + len > T - S - gs
  <2>1. r = [ret |-> -FDT_ERR_NOSPACE, m |-> m, p |-> 0]
    <3>1. T - S - gs >= 0
      <4> HIDE DEF S, T, ss, gs
      <4> QED BY <1>0
    <3> QED BY <1>1, <3>1 DEF fdt_grab_space_, Return
  <2> HIDE DEF r
  <2>2. r.ret = -3 /\ r.m = m
    BY <2>1
  <2>3. Held(m, r) /\ r.ret < 0 /\ r.m = m
    BY <2>2 DEF Held, Within
  <2> QED BY <2>2, <2>3 DEF r
<1>2. CASE ~(ss + len > T - S - gs)
  <2>1. r = [ret |-> S + ss, m |-> m2, p |-> 0]
    BY <1>2 DEF fdt_grab_space_, Return
  <2>2. /\ m2 \in Memory /\ m2[9] = Num(ss + len)
        /\ \A a \in 0 .. MemSize - 1 : a # 9 => m2[a] = m[a]
    <3>1. ss + len \in Nat /\ 9 \in 0 .. MemSize - 1
      BY <1>0
    <3> HIDE DEF ss
    <3> QED BY <1>0, <3>1, SetMemory
  <2> HIDE DEF m2, r
  <2>3. r.ret = S + ss /\ r.m = m2
    BY <2>1
  <2>4. fdt_size_dt_struct(m2) = ss + len /\ m2[9].k = "num"
    BY <1>0, <2>2, CellFacts DEF fdt_size_dt_struct
  <2>5. m2[8] = m[8] /\ m[8].k = "num"
    BY <1>0, <2>2 DEF SwGood, Apart
  <2>6. fdt_size_dt_strings(m2) = gs
    BY <2>5 DEF fdt_size_dt_strings
  <2>7. S + fdt_size_dt_struct(m2) <= T - fdt_size_dt_strings(m2)
    <3> HIDE DEF S, T, ss, gs
    <3> QED BY <1>0, <1>2, <2>4, <2>6
  <2>8. /\ SwGood(m2) /\ Within(m, m2) /\ fdt_totalsize(m2) = T
        /\ fdt_off_dt_struct(m2) = S /\ RsvDone(m2)
    <3>1. fdt_size_dt_struct(m2) = 0 => fdt_size_dt_strings(m2) = 0
      BY <1>0, <2>4, <2>6 DEF SwGood
    <3> QED BY <1>0, <2>2, <2>4, <2>5, <2>7, <3>1, SwKept
  <2>9. Held(m, r)
    BY <1>0, <2>3, <2>8 DEF Held
  <2>10. r.ret + len <= T - gs
    <3> HIDE DEF S, T, ss, gs
    <3> QED BY <1>0, <1>2, <2>3
  <2>11. ~(r.ret < 0)
    <3> HIDE DEF S, T, ss, gs
    <3> QED BY <1>0, <2>3
  <2> QED BY <2>3, <2>4, <2>6, <2>8, <2>9, <2>10, <2>11 DEF r
<1> QED BY <1>1, <1>2

\* Storing a sequence of cells writes these and nothing else.
LEMMA StoreMemory ==
    ASSUME NEW m \in Memory, NEW a \in Nat, NEW n \in Nat,
           NEW cells \in [1 .. n -> Cell], Len(cells) = n
    PROVE  /\ Store(m, a, cells) \in Memory
           /\ \A x \in 0 .. MemSize - 1 :
                x < a \/ x >= a + n => Store(m, a, cells)[x] = m[x]
           /\ \A i \in 1 .. n : a + i - 1 < MemSize =>
                Store(m, a, cells)[a + i - 1] = cells[i]
<1> DEFINE m2 == Store(m, a, cells)
<1>0. MemSize \in Nat /\ DOMAIN m = 0 .. MemSize - 1
  BY MemAssumption DEF Memory
<1>1. \A x \in 0 .. MemSize - 1 :
        m2[x] = IF x \in a .. a + n - 1 THEN cells[x - a + 1] ELSE m[x]
  BY <1>0 DEF Store
<1>2. \A x \in 0 .. MemSize - 1 : m2[x] \in Cell
  <2> TAKE x \in 0 .. MemSize - 1
  <2>1. x \in a .. a + n - 1 => x - a + 1 \in 1 .. n
    OBVIOUS
  <2>2. m[x] \in Cell
    BY DEF Memory
  <2> HIDE DEF m2
  <2> QED BY <1>1, <2>1, <2>2
<1>3. m2 \in Memory
  BY <1>0, <1>2 DEF Store, Memory
<1> HIDE DEF m2
<1>4. \A i \in 1 .. n : a + i - 1 < MemSize => m2[a + i - 1] = cells[i]
  <2> SUFFICES ASSUME NEW i \in 1 .. n, a + i - 1 < MemSize
               PROVE  m2[a + i - 1] = cells[i]
    OBVIOUS
  <2>1. /\ a + i - 1 \in 0 .. MemSize - 1 /\ a + i - 1 \in a .. a + n - 1
        /\ (a + i - 1) - a + 1 = i
    BY <1>0
  <2> QED BY <1>1, <2>1
<1>5. \A x \in 0 .. MemSize - 1 : x < a \/ x >= a + n => m2[x] = m[x]
  BY <1>0, <1>1
<1> QED BY <1>3, <1>4, <1>5 DEF m2

\* Cells put into space that has been grabbed.
LEMMA WrittenKept ==
    ASSUME NEW m, SwGood(m), RsvDone(m), NEW n \in Nat,
           NEW cells \in [1 .. n -> Cell], Len(cells) = n
    PROVE  LET r == fdt_grab_space_(m, n)
               w == Written(r, cells)
           IN  /\ Held(m, w)
               /\ w.ret = 0 \/ w.ret = r.ret
               /\ r.ret >= 0 =>
                    /\ fdt_off_dt_struct(w.m) = fdt_off_dt_struct(m)
                    /\ fdt_size_dt_struct(w.m) = fdt_size_dt_struct(m) + n
                    /\ fdt_size_dt_strings(w.m) = fdt_size_dt_strings(m)
                    /\ RsvDone(w.m)
                    /\ w.ret = 0
               /\ r.ret < 0 => w = r
<1> DEFINE r  == fdt_grab_space_(m, n)
           w  == Written(r, cells)
           m2 == Store(r.m, r.ret, cells)
<1>0. /\ Held(m, r)
      /\ r.ret >= 0 =>
            /\ r.ret = fdt_off_dt_struct(m) + fdt_size_dt_struct(m)
            /\ r.ret + n <= fdt_totalsize(m) - fdt_size_dt_strings(m)
            /\ fdt_off_dt_struct(r.m) = fdt_off_dt_struct(m)
            /\ fdt_size_dt_struct(r.m) = fdt_size_dt_struct(m) + n
            /\ fdt_size_dt_strings(r.m) = fdt_size_dt_strings(m)
            /\ RsvDone(r.m)
  BY GrabSpace
<1>1. w = IF r.ret < 0 THEN r ELSE [ret |-> 0, m |-> m2, p |-> 0]
  BY Zenon DEF Written, Return
<1> HIDE DEF r, w, m2
<1>2. CASE r.ret < 0
  BY <1>0, <1>1, <1>2 DEF Held, r, w
<1>3. CASE r.ret >= 0
  <2>0. ~(r.ret < 0)
    BY <1>0, <1>3 DEF Held
  <2>1. w.ret = 0 /\ w.m = m2
    BY <1>1, <2>0
  <2>2. /\ r.m \in Memory /\ r.ret \in Nat /\ SwGood(r.m)
        /\ MemSize \in Nat /\ fdt_totalsize(m) \in Nat /\ fdt_off_dt_struct(m) \in Nat
        /\ fdt_size_dt_strings(m) \in Nat /\ fdt_size_dt_struct(m) \in Nat
        /\ fdt_totalsize(r.m) = fdt_totalsize(m)
    <3>1. SwGood(r.m) /\ r.ret \in Int /\ fdt_totalsize(r.m) = fdt_totalsize(m)
      BY <1>0 DEF Held
    <3>2. r.m \in Memory
      BY <3>1 DEF SwGood
    <3>3. /\ MemSize \in Nat /\ fdt_totalsize(m) \in Nat /\ fdt_off_dt_struct(m) \in Nat
          /\ fdt_size_dt_strings(m) \in Nat /\ fdt_size_dt_struct(m) \in Nat
      BY SwFacts
    <3> QED BY <1>3, <3>1, <3>2, <3>3
  <2>3. /\ m2 \in Memory
        /\ \A x \in 0 .. MemSize - 1 : x < r.ret \/ x >= r.ret + n => m2[x] = r.m[x]
    <3> DEFINE b == r.m
               a == r.ret
    <3>1. b \in Memory /\ a \in Nat
      BY <2>2
    <3>2. m2 = Store(b, a, cells)
      BY DEF m2
    <3> HIDE DEF a, b
    <3>3. /\ m2 \in Memory
          /\ \A x \in 0 .. MemSize - 1 : x < a \/ x >= a + n => m2[x] = b[x]
      BY <3>1, <3>2, StoreMemory
    <3> QED BY <3>3 DEF a, b
  <2>4. \A x \in 0 .. MemSize - 1 :
            x < fdt_off_dt_struct(r.m) \/ x >= fdt_totalsize(r.m) => m2[x] = r.m[x]
    BY <1>0, <1>3, <2>2, <2>3
  <2>5. /\ SwGood(m2) /\ Within(r.m, m2) /\ fdt_totalsize(m2) = fdt_totalsize(r.m)
        /\ SwSame(r.m, m2)
    BY <2>2, <2>3, <2>4, SwWritten
  <2>6. Held(r.m, w)
    BY <2>1, <2>5 DEF Held
  <2>7. Held(m, w)
    BY <1>0, <2>6, HeldTwice
  <2> QED BY <1>0, <1>3, <2>0, <2>1, <2>5, <2>7 DEF SwSame, r, w
<1>4. r.ret < 0 \/ r.ret >= 0
  BY <1>0 DEF Held
<1> QED BY <1>2, <1>3, <1>4

-----------------------------------------------------------------------------
(* Nodes and properties.                                                   *)

\* Sequences of cells.
LEMMA Cells ==
    /\ \A c \in Cell : <<c>> \in [1 .. 1 -> Cell] /\ Len(<<c>>) = 1
    /\ \A c, d, e \in Cell : <<c, d, e>> \in [1 .. 3 -> Cell] /\ Len(<<c, d, e>>) = 3
    /\ \A c, d, e, f \in Cell :
            <<c, d, e, f>> \in [1 .. 4 -> Cell] /\ Len(<<c, d, e, f>>) = 4
  OBVIOUS

\* One cell in front of others.
LEMMA InFront ==
    ASSUME NEW n \in Nat, NEW c \in [1 .. n -> Cell], Len(c) = n, NEW d \in Cell
    PROVE  /\ <<d>> \o c \in [1 .. n + 1 -> Cell]
           /\ Len(<<d>> \o c) = n + 1
<1>1. c \in Seq(Cell) /\ <<d>> \in Seq(Cell) /\ Len(<<d>>) = 1
  OBVIOUS
<1> DEFINE e == <<d>> \o c
<1>2. e \in Seq(Cell) /\ Len(e) = n + 1
  BY <1>1
<1> HIDE DEF e
<1>3. e \in [1 .. n + 1 -> Cell]
  BY <1>2
<1> QED BY <1>2, <1>3 DEF e

\* The words of a name are cells.
LEMMA NameCellsFit ==
    ASSUME NEW m \in Memory, NEW a \in Nat, NEW s \in Names, NEW t \in Nat,
           a + Words(strlen(s) + 1) <= MemSize
    PROVE  /\ Words(strlen(s) + 1) \in Nat
           /\ NameCells(m, a, s, t) \in [1 .. Words(strlen(s) + 1) -> Cell]
           /\ Len(NameCells(m, a, s, t)) = Words(strlen(s) + 1)
<1> DEFINE W == Words(strlen(s) + 1)
           n == Words(NameLen[s] + 1)
           c(i) == IF i < n THEN Name(s, 0)
                   ELSE IF i = n
                   THEN Name(s, IF strlen(s) % 4 # 0 /\ t # 0 THEN 2 ELSE 1)
                   ELSE IF t = 0 /\ m[a + i - 1].k = "num" THEN m[a + i - 1]
                   ELSE Text
           cells == NameCells(m, a, s, t)
<1>0. W \in Nat
  BY StrlenNat, WordsNat
<1>1. cells = [i \in 1 .. W |-> c(i)]
  BY Zenon DEF NameCells
<1>2. \A i \in 1 .. W : c(i) \in Cell
  <2> TAKE i \in 1 .. W
  <2>1. a + i - 1 \in 0 .. MemSize - 1
    <3>1. a + W <= MemSize
      OBVIOUS
    <3> HIDE DEF W
    <3> QED BY <1>0, <3>1, MemAssumption
  <2>2. m[a + i - 1] \in Cell
    BY <2>1 DEF Memory
  <2>3. Name(s, 0) \in Cell /\ Name(s, 1) \in Cell /\ Name(s, 2) \in Cell /\ Text \in Cell
    BY CellFacts
  <2> HIDE DEF W, n
  <2> QED BY <2>2, <2>3
<1> HIDE DEF cells, W, c
<1>3. cells \in [1 .. W -> Cell]
  BY <1>1, <1>2
<1>4. cells \in Seq(Cell) /\ DOMAIN cells = 1 .. W
  BY <1>0, <1>3
<1>5. Len(cells) = W
  BY <1>0, <1>4
<1> QED BY <1>0, <1>3, <1>5 DEF cells, W

\* fdt_end_node keeps the blocks apart.
LEMMA EndNodeKept ==
    ASSUME NEW m, SwGood(m), RsvDone(m)
    PROVE  /\ Held(m, EndNode(m))
           /\ EndNode(m).ret = 0 =>
                /\ RsvDone(EndNode(m).m)
                /\ fdt_size_dt_struct(EndNode(m).m) > 0
<1> DEFINE cells == <<Num(FDT_END_NODE)>>
           r == fdt_grab_space_(m, 1)
           w == Written(r, cells)
<1>1. cells \in [1 .. 1 -> Cell] /\ Len(cells) = 1
  BY Cells, CellFacts
<1> HIDE DEF cells
<1>2. /\ Held(m, w)
      /\ r.ret >= 0 =>
            /\ RsvDone(w.m)
            /\ fdt_size_dt_struct(w.m) = fdt_size_dt_struct(m) + 1
      /\ r.ret < 0 => w = r
  BY <1>1, WrittenKept
<1>3. EndNode(m) = w
  BY DEF EndNode, cells
<1>4. r.ret \in Int
  BY GrabSpace DEF Held
<1>5. fdt_size_dt_struct(m) \in Nat
  BY SwFacts
<1> HIDE DEF w, r
<1>6. w.ret = 0 => r.ret >= 0
  BY <1>2, <1>4
<1> QED BY <1>2, <1>3, <1>5, <1>6

\* fdt_begin_node keeps the blocks apart, whatever the length of the name.
LEMMA BeginNodeKept ==
    ASSUME NEW m, SwGood(m), RsvDone(m), NEW s \in Names, NEW t \in Nat
    PROVE  /\ Held(m, BeginNode(m, s, t))
           /\ BeginNode(m, s, t).ret = 0 =>
                /\ RsvDone(BeginNode(m, s, t).m)
                /\ fdt_size_dt_struct(BeginNode(m, s, t).m) > 0
<1> DEFINE W == Words(strlen(s) + 1)
           r == fdt_grab_space_(m, 1 + W)
           names == NameCells(r.m, r.ret + 1, s, t)
           cells == <<Num(FDT_BEGIN_NODE)>> \o names
           w == Written(r, cells)
           f == BeginNode(m, s, t)
<1>0. W \in Nat
  BY StrlenNat, WordsNat
<1>1. f = IF r.ret < 0 THEN r ELSE w
  BY Zenon DEF BeginNode
<1>2. /\ Held(m, r)
      /\ r.ret >= 0 =>
            /\ r.ret = fdt_off_dt_struct(m) + fdt_size_dt_struct(m)
            /\ r.ret + (1 + W) <= fdt_totalsize(m) - fdt_size_dt_strings(m)
  <2>1. 1 + W \in Nat
    BY <1>0
  <2> HIDE DEF W
  <2> QED BY <2>1, GrabSpace
<1>3. CASE r.ret < 0
  <2>1. f = r
    <3> HIDE DEF f, r, w
    <3> QED BY <1>1, <1>3
  <2>2. Held(m, f) /\ f.ret # 0
    <3> HIDE DEF f, r
    <3> QED BY <1>2, <1>3, <2>1 DEF Held
  <2> QED BY <2>2
<1>4. CASE r.ret >= 0
  <2>1. r.m \in Memory /\ r.ret \in Int
    BY <1>2 DEF Held, SwGood
  <2>2. /\ r.ret + 1 \in Nat /\ r.ret + 1 + W <= MemSize
        /\ fdt_size_dt_struct(m) \in Nat
    <3>1. /\ fdt_totalsize(m) \in Nat /\ fdt_size_dt_strings(m) \in Nat
          /\ fdt_totalsize(m) <= MemSize /\ MemSize \in Nat
          /\ fdt_size_dt_struct(m) \in Nat
      BY SwFacts
    <3> HIDE DEF r, W
    <3> QED BY <1>0, <1>2, <1>4, <2>1, <3>1
  <2>3. names \in [1 .. W -> Cell] /\ Len(names) = W
    <3> DEFINE b == r.m
               a == r.ret + 1
    <3>1. b \in Memory /\ a \in Nat /\ a + W <= MemSize
      BY <2>1, <2>2
    <3>2. names = NameCells(b, a, s, t)
      OBVIOUS
    <3> HIDE DEF names, a, b
    <3> QED BY <3>1, <3>2, NameCellsFit
  <2>4. cells \in [1 .. 1 + W -> Cell] /\ Len(cells) = 1 + W
    <3>1. Num(FDT_BEGIN_NODE) \in Cell
      BY CellFacts
    <3> HIDE DEF names, W
    <3>2. /\ cells \in [1 .. W + 1 -> Cell] /\ Len(cells) = W + 1
      BY <1>0, <2>3, <3>1, InFront
    <3>3. W + 1 = 1 + W
      BY <1>0
    <3> QED BY <3>2, <3>3
  <2>5. /\ Held(m, w)
        /\ fdt_size_dt_struct(w.m) = fdt_size_dt_struct(m) + (1 + W)
        /\ RsvDone(w.m)
    <3>1. 1 + W \in Nat
      BY <1>0
    <3> HIDE DEF cells, W
    <3> QED BY <1>4, <2>4, <3>1, WrittenKept
  <2>6. f = w
    <3>1. ~(r.ret < 0)
      <4> HIDE DEF r
      <4> QED BY <1>4, <2>1
    <3> HIDE DEF f, r, w
    <3> QED BY <1>1, <3>1
  <2> HIDE DEF f, w, W
  <2>7. fdt_size_dt_struct(f.m) > 0
    BY <1>0, <2>2, <2>5, <2>6
  <2> QED BY <2>5, <2>6, <2>7 DEF f
<1>5. r.ret < 0 \/ r.ret >= 0
  BY <1>2 DEF Held
<1> QED BY <1>3, <1>4, <1>5

\* There is a lowest among the strings that are taken for a name.
LEMMA FoundLowest ==
    ASSUME NEW m, SwGood(m), NEW s, NEW t, FoundStrings(m, s, t) # {}
    PROVE  Min(FoundStrings(m, s, t)) \in FoundStrings(m, s, t)
<1> DEFINE F  == FoundStrings(m, s, t)
           gs == fdt_size_dt_strings(m)
           U  == {i + gs : i \in F}
<1>0. gs \in Nat
  BY SwFacts
<1>1. F \subseteq -gs .. -1 /\ F # {}
  BY DEF FoundStrings
<1> HIDE DEF F, gs
<1>2. U \subseteq Nat /\ U # {}
  <2>1. \A i \in F : i + gs \in Nat
    <3> TAKE i \in F
    <3>1. i \in Int /\ -gs <= i
      BY <1>0, <1>1
    <3> QED BY <1>0, <3>1
  <2>2. PICK i \in F : TRUE
    BY <1>1
  <2> QED BY <2>1, <2>2
<1>3. PICK u \in U : \A v \in U : u <= v
  <2> HIDE DEF U
  <2> QED BY <1>2, LeastNatural
<1>4. PICK x \in F : x + gs = u
  BY <1>3
<1>5. \A y \in F : x <= y
  <2> TAKE y \in F
  <2>1. y + gs \in U
    OBVIOUS
  <2>2. x + gs <= y + gs
    BY <1>3, <1>4, <2>1
  <2> QED BY <1>0, <1>1, <2>2
<1>6. Min(F) \in F
  BY <1>5 DEF Min
<1> QED BY <1>6 DEF F

\* It has a negative offset.
LEMMA FoundNegative ==
    ASSUME NEW m, SwGood(m), NEW s, NEW t, FoundStrings(m, s, t) # {}
    PROVE  Min(FoundStrings(m, s, t)) \in Int /\ Min(FoundStrings(m, s, t)) < 0
<1>1. fdt_size_dt_strings(m) \in Nat
  BY SwFacts
<1>2. Min(FoundStrings(m, s, t)) \in -fdt_size_dt_strings(m) .. -1
  BY FoundLowest DEF FoundStrings
<1> QED BY <1>1, <1>2

\* A string is added below the others, above the structure block.
LEMMA SwFindAddStringKept ==
    ASSUME NEW m, SwGood(m), fdt_size_dt_struct(m) > 0, NEW s \in Names, NEW t \in Nat
    PROVE  LET r == SwFindAddString(m, s, t)
           IN  /\ Held(m, r)
               /\ RsvDone(r.m) <=> RsvDone(m)
               /\ fdt_off_dt_struct(r.m) = fdt_off_dt_struct(m)
               /\ fdt_size_dt_struct(r.m) = fdt_size_dt_struct(m)
<1> DEFINE F  == FoundStrings(m, s, t)
           gs == fdt_size_dt_strings(m)
           ss == fdt_size_dt_struct(m)
           S  == fdt_off_dt_struct(m)
           T  == fdt_totalsize(m)
           offset == -gs - 1
           m1 == [m EXCEPT ![T + offset] = Str(s, t)]
           m2 == Set(m1, hSizeDtStrings, gs + 1)
           r  == SwFindAddString(m, s, t)
<1>0. /\ m \in Memory /\ MemSize \in Nat /\ MemSize >= 10
      /\ T \in Nat /\ S \in Nat /\ ss \in Nat /\ gs \in Nat
      /\ S >= 12 /\ S + ss <= T - gs /\ T <= MemSize
  BY SwFacts
<1>1. r = IF F # {} THEN Return(Min(F), m)
          ELSE IF T + offset < S + ss THEN Return(0, m)
          ELSE Return(offset, m2)
  BY Zenon DEF SwFindAddString
<1>2. CASE F # {}
  <2>1. r = [ret |-> Min(F), m |-> m, p |-> 0]
    <3> HIDE DEF r, F, m2
    <3> QED BY <1>1, <1>2 DEF Return
  <2>2. Min(F) \in Int
    BY <1>2, FoundNegative
  <2> HIDE DEF r, F
  <2>3. r.ret \in Int /\ r.m = m
    BY <2>1, <2>2
  <2>4. Held(m, r)
    BY <2>3 DEF Held, Within
  <2> QED BY <2>3, <2>4 DEF r
<1>3. CASE F = {} /\ T + offset < S + ss
  <2>1. r = [ret |-> 0, m |-> m, p |-> 0]
    <3> HIDE DEF r, F, m2, T, S, ss, offset
    <3> QED BY <1>1, <1>3 DEF Return
  <2> HIDE DEF r
  <2>3. r.ret \in Int /\ r.m = m
    BY <2>1
  <2>4. Held(m, r)
    BY <2>3 DEF Held, Within
  <2> QED BY <2>3, <2>4 DEF r
<1>4. CASE F = {} /\ ~(T + offset < S + ss)
  <2>1. r = [ret |-> offset, m |-> m2, p |-> 0]
    <3> HIDE DEF r, F, m2, T, S, ss, offset
    <3> QED BY <1>1, <1>4 DEF Return
  <2>2. /\ offset \in Int /\ T + offset \in 0 .. MemSize - 1 /\ T + offset >= S + ss
        /\ T + offset >= 10 /\ T + offset < T /\ gs + 1 \in Nat
        /\ T - (gs + 1) = T + offset
    <3> HIDE DEF T, S, ss, gs
    <3> QED BY <1>0, <1>4
  <2>3. r.ret \in Int /\ r.m = m2
    <3> HIDE DEF r, m2, offset
    <3> QED BY <2>1, <2>2
  <2>4. /\ m1 \in Memory
        /\ \A a \in 0 .. MemSize - 1 : a # T + offset => m1[a] = m[a]
    <3>1. Str(s, t) \in Cell
      BY CellFacts
    <3> HIDE DEF T, offset
    <3> QED BY <1>0, <2>2, <3>1 DEF Memory
  <2>5. /\ m2 \in Memory /\ m2[8] = Num(gs + 1)
        /\ \A a \in 0 .. MemSize - 1 : a # 8 => m2[a] = m1[a]
    <3> HIDE DEF m1, gs
    <3> QED BY <1>0, <2>2, <2>4, SetMemory
  <2> HIDE DEF m1, m2, r, offset
  <2>6. fdt_size_dt_strings(m2) = gs + 1 /\ m2[8].k = "num"
    BY <2>2, <2>5, CellFacts DEF fdt_size_dt_strings
  <2>7. m2[9] = m[9] /\ m[9].k = "num"
    <3>1. m[9].k = "num"
      BY DEF SwGood, Apart
    <3>2. 9 \in 0 .. MemSize - 1 /\ 9 # T + offset
      <4> HIDE DEF T
      <4> QED BY <1>0, <2>2
    <3> HIDE DEF T
    <3> QED BY <2>4, <2>5, <3>1, <3>2
  <2>8. fdt_size_dt_struct(m2) = ss
    BY <2>7 DEF fdt_size_dt_struct
  <2>9. S + fdt_size_dt_struct(m2) <= T - fdt_size_dt_strings(m2)
    <3> HIDE DEF S, T, ss, gs
    <3> QED BY <1>0, <2>2, <2>6, <2>8
  <2>10. fdt_size_dt_struct(m2) > 0 /\ RsvDone(m)
    BY <2>8 DEF SwGood
  <2>11. \A a \in 0 .. MemSize - 1 :
            (a < S \/ a >= T) /\ a \notin {8, 9} => m2[a] = m[a]
    <3> HIDE DEF S, T, ss, gs
    <3> QED BY <1>0, <2>2, <2>4, <2>5
  <2>12. /\ SwGood(m2) /\ Within(m, m2) /\ fdt_totalsize(m2) = T
         /\ fdt_off_dt_struct(m2) = S /\ (RsvDone(m2) <=> RsvDone(m))
    BY <1>0, <2>5, <2>6, <2>7, <2>9, <2>10, <2>11, SwKept
  <2>13. Held(m, r)
    BY <2>3, <2>12 DEF Held
  <2> QED BY <2>3, <2>8, <2>12, <2>13 DEF r
<1> QED BY <1>2, <1>3, <1>4

\* Offsets of names are stored as natural numbers.
LEMMA UnsignedNat == \A i \in Int : Unsigned(i) \in Nat
  BY DEF Unsigned

\* fdt_property keeps the blocks apart, at whichever of its two steps it fails.
LEMMA PropertyKept ==
    ASSUME NEW m, SwGood(m), fdt_size_dt_struct(m) > 0, NEW s \in Names, NEW t \in Nat,
           NEW val \in Seq(Byte)
    PROVE  Held(m, Property(m, s, t, val))
<1> DEFINE name == SwFindAddString(m, s, t)
           W    == Words(Len(val))
           r    == fdt_grab_space_(name.m, PropSize + W)
           prop == <<Num(FDT_PROP), Num(Len(val)), Num(Unsigned(name.ret))>>
           m1   == Store(r.m, r.ret, prop)
           m2   == CopyBytes(m1, r.ret + PropSize, 0, val)
           f    == Property(m, s, t, val)
<1>0. Held(m, name) /\ RsvDone(name.m) /\ SwGood(name.m) /\ name.ret \in Int
  <2>1. RsvDone(m)
    BY DEF SwGood
  <2> QED BY <2>1, SwFindAddStringKept DEF Held
<1>1. f = IF name.ret = 0 THEN Return(-FDT_ERR_NOSPACE, name.m)
          ELSE IF r.ret < 0 THEN r
          ELSE Return(0, m2)
  BY Zenon DEF Property
<1>2. Len(val) \in Nat /\ W \in Nat
  BY WordsNat
<1> HIDE DEF name
<1>3. /\ Held(name.m, r)
      /\ r.ret >= 0 =>
            /\ r.ret = fdt_off_dt_struct(name.m) + fdt_size_dt_struct(name.m)
            /\ r.ret + (PropSize + W) <= fdt_totalsize(name.m) - fdt_size_dt_strings(name.m)
            /\ fdt_off_dt_struct(r.m) = fdt_off_dt_struct(name.m)
  <2>1. PropSize + W \in Nat
    BY <1>2
  <2> HIDE DEF W
  <2> QED BY <1>0, <2>1, GrabSpace
<1> HIDE DEF r, W
<1>4. CASE name.ret = 0
  <2>1. f = [ret |-> -FDT_ERR_NOSPACE, m |-> name.m, p |-> 0]
    <3> HIDE DEF f, m2
    <3> QED BY <1>1, <1>4 DEF Return
  <2> HIDE DEF f
  <2>2. f.ret \in Int /\ f.m = name.m
    BY <2>1
  <2>3. Held(m, f)
    BY <1>0, <2>2 DEF Held
  <2> QED BY <2>3 DEF f
<1>5. CASE name.ret # 0 /\ r.ret < 0
  <2>1. f = r
    <3> HIDE DEF f, m2
    <3> QED BY <1>1, <1>5
  <2> QED BY <1>0, <1>3, <2>1, HeldTwice
<1>6. CASE name.ret # 0 /\ r.ret >= 0
  <2>0. SwGood(r.m) /\ r.ret \in Int
    BY <1>3 DEF Held
  <2>1. f = [ret |-> 0, m |-> m2, p |-> 0]
    <3>1. ~(r.ret < 0)
      BY <1>6, <2>0
    <3> HIDE DEF f, m2
    <3> QED BY <1>1, <1>6, <3>1 DEF Return
  <2>2. f.ret = 0 /\ f.m = m2
    <3> HIDE DEF f, m2
    <3> QED BY <2>1
  <2>3. prop \in [1 .. 3 -> Cell] /\ Len(prop) = 3
    BY <1>0, <1>2, Cells, CellFacts, UnsignedNat
  <2> DEFINE b == r.m
             a == r.ret
             Sr == fdt_off_dt_struct(b)
             Tr == fdt_totalsize(b)
  <2>4. /\ b \in Memory /\ a \in Nat /\ a >= Sr /\ a + 3 + W <= Tr /\ Tr <= MemSize
        /\ Sr \in Nat /\ Tr \in Nat /\ MemSize \in Nat /\ SwGood(b)
    <3>1. /\ fdt_size_dt_struct(name.m) \in Nat /\ fdt_size_dt_strings(name.m) \in Nat
          /\ fdt_totalsize(name.m) \in Nat /\ fdt_off_dt_struct(name.m) \in Nat
      BY <1>0, SwFacts
    <3>2. /\ b \in Memory /\ MemSize \in Nat /\ Sr \in Nat /\ Tr \in Nat /\ Tr <= MemSize
      BY <2>0, SwFacts
    <3>3. Tr = fdt_totalsize(name.m) /\ Sr = fdt_off_dt_struct(name.m)
      BY <1>3, <1>6 DEF Held
    <3> HIDE DEF Sr, Tr
    <3> QED BY SMTT(30), <1>2, <1>3, <1>6, <2>0, <3>1, <3>2, <3>3
  <2>5. m1 = Store(b, a, prop) /\ m2 = CopyBytes(m1, a + 3, 0, val)
    OBVIOUS
  <2> HIDE DEF m1, m2, prop, a, b
  <2>6. /\ m1 \in Memory
        /\ \A x \in 0 .. MemSize - 1 : x < a \/ x >= a + 3 => m1[x] = b[x]
    <3> DEFINE n == 3
    <3>1. n \in Nat /\ prop \in [1 .. n -> Cell] /\ Len(prop) = n
      BY <2>3
    <3> HIDE DEF n
    <3>2. /\ m1 \in Memory
          /\ \A x \in 0 .. MemSize - 1 : x < a \/ x >= a + n => m1[x] = b[x]
      BY <2>4, <2>5, <3>1, StoreMemory
    <3> QED BY <3>2 DEF n
  <2>7. /\ m2 \in Memory
        /\ \A x \in 0 .. MemSize - 1 : x < a + 3 \/ x >= a + 3 + W => m2[x] = m1[x]
    <3>1. a + 3 \in Nat /\ 0 \in Nat /\ 0 + Len(val) = Len(val)
      BY <1>2, <2>4
    <3>2. /\ CopyBytes(m1, a + 3, 0, val) \in Memory
          /\ \A x \in 0 .. MemSize - 1 :
                x < a + 3 \/ x >= a + 3 + Words(0 + Len(val)) =>
                    CopyBytes(m1, a + 3, 0, val)[x] = m1[x]
      BY <2>6, <3>1, CopyMemory
    <3> QED BY <2>5, <3>1, <3>2 DEF W
  <2>8. \A x \in 0 .. MemSize - 1 : x < Sr \/ x >= Tr => m2[x] = b[x]
    <3> HIDE DEF Sr, Tr
    <3> QED BY <1>2, <2>4, <2>6, <2>7
  <2>9. SwGood(m2) /\ Within(b, m2) /\ fdt_totalsize(m2) = Tr
    BY <2>4, <2>7, <2>8, SwWritten
  <2>10. Held(b, f)
    <3> HIDE DEF f
    <3> QED BY <2>2, <2>9 DEF Held
  <2>11. Held(name.m, f)
    <3> HIDE DEF f
    <3> QED BY <1>3, <2>10, HeldTwice DEF b
  <2> QED BY <1>0, <2>11, HeldTwice
<1>7. r.ret < 0 \/ r.ret >= 0
  BY <1>3 DEF Held
<1> QED BY <1>4, <1>5, <1>6, <1>7

-----------------------------------------------------------------------------
(* The beginning: the header and the reservations.                         *)

\* A reservation goes in front of the structure block as long as that is empty.
LEMMA ReserveKept ==
    ASSUME NEW m, SwGood(m), NEW rsv \in [address : Nat, size : Nat]
    PROVE  LET r == AddReservemapEntry(m, rsv)
           IN  /\ Held(m, r)
               /\ r.ret = 0 /\ rsv.size = 0 => RsvDone(r.m)
               /\ r.ret # 0 => r.m = m
               /\ r.ret = 0 => /\ fdt_size_dt_struct(r.m) = 0
                               /\ fdt_off_dt_strings(r.m) = fdt_off_dt_strings(m)
<1> DEFINE S  == fdt_off_dt_struct(m)
           T  == fdt_totalsize(m)
           ss == fdt_size_dt_struct(m)
           cells == <<Num(0), Num(rsv.address), Num(0), Num(rsv.size)>>
           m1 == Store(m, S, cells)
           m2 == Set(m1, hOffDtStruct, S + RsvSize)
           r  == AddReservemapEntry(m, rsv)
<1>0. /\ m \in Memory /\ MemSize \in Nat /\ MemSize >= 10
      /\ T \in Nat /\ S \in Nat /\ ss \in Nat
      /\ S >= 12 /\ T <= MemSize
  BY SwFacts
<1>1. r = IF ss # 0 THEN Return(-FDT_ERR_BADSTATE, m)
          ELSE IF S + RsvSize > T THEN Return(-FDT_ERR_NOSPACE, m)
          ELSE Return(0, m2)
  BY Zenon DEF AddReservemapEntry
<1>2. CASE ss # 0 \/ S + RsvSize > T
  <2>1. r = [ret |-> -FDT_ERR_BADSTATE, m |-> m, p |-> 0]
        \/ r = [ret |-> -FDT_ERR_NOSPACE, m |-> m, p |-> 0]
    <3> HIDE DEF r, m2, S, T, ss
    <3> QED BY <1>1, <1>2 DEF Return
  <2> HIDE DEF r
  <2>2. r.ret \in Int /\ r.ret # 0 /\ r.m = m
    BY <2>1
  <2>3. Held(m, r)
    BY <2>2 DEF Held, Within
  <2> QED BY <2>2, <2>3 DEF r
<1>3. CASE ss = 0 /\ ~(S + RsvSize > T)
  <2>1. r = [ret |-> 0, m |-> m2, p |-> 0]
    <3> HIDE DEF r, m2, S, T, ss
    <3> QED BY <1>1, <1>3 DEF Return
  <2>2. r.ret = 0 /\ r.m = m2
    <3> HIDE DEF r, m2
    <3> QED BY <2>1
  <2>3. /\ rsv.address \in Nat /\ rsv.size \in Nat
        /\ cells \in [1 .. 4 -> Cell] /\ Len(cells) = 4
        /\ cells[3] = Num(0) /\ cells[4] = Num(rsv.size)
    BY CellFacts, Cells
  <2>4. S + 4 <= T /\ S + 4 \in Nat
    <3> HIDE DEF S, T
    <3> QED BY <1>0, <1>3
  <2>5. /\ m1 \in Memory
        /\ \A x \in 0 .. MemSize - 1 : x < S \/ x >= S + 4 => m1[x] = m[x]
        /\ m1[S + 2] = Num(0) /\ m1[S + 3] = Num(rsv.size)
    <3> DEFINE n == 4
    <3>1. n \in Nat /\ cells \in [1 .. n -> Cell] /\ Len(cells) = n
      BY <2>3
    <3> HIDE DEF n, cells
    <3>2. m1 = Store(m, S, cells)
      OBVIOUS
    <3> HIDE DEF m1, S
    <3>3. /\ m1 \in Memory
          /\ \A x \in 0 .. MemSize - 1 : x < S \/ x >= S + n => m1[x] = m[x]
          /\ \A i \in 1 .. n : S + i - 1 < MemSize => m1[S + i - 1] = cells[i]
      <4>1. /\ Store(m, S, cells) \in Memory
            /\ \A x \in 0 .. MemSize - 1 :
                    x < S \/ x >= S + n => Store(m, S, cells)[x] = m[x]
            /\ \A i \in 1 .. n : S + i - 1 < MemSize =>
                    Store(m, S, cells)[S + i - 1] = cells[i]
        <5> DEFINE a == S
                   c == Store(m, a, cells)
        <5>1. m \in Memory /\ a \in Nat /\ n \in Nat
              /\ cells \in [1 .. n -> Cell] /\ Len(cells) = n
          BY <1>0, <3>1
        <5> HIDE DEF a, S, m1, m2, r
        <5>2. c \in Memory
          BY <5>1, StoreMemory
        <5>3. \A x \in 0 .. MemSize - 1 : x < a \/ x >= a + n => c[x] = m[x]
          BY <5>1, StoreMemory
        <5>4. \A i \in 1 .. n : a + i - 1 < MemSize => c[a + i - 1] = cells[i]
          BY ZenonT(30), <5>1, StoreMemory
        <5> HIDE DEF c
        <5> QED BY <5>2, <5>3, <5>4, Zenon DEF a, c
      <4> QED BY <3>2, <4>1, Zenon
    <3>4. /\ 3 \in 1 .. n /\ S + 3 - 1 < MemSize /\ S + 3 - 1 = S + 2
          /\ 4 \in 1 .. n /\ S + 4 - 1 < MemSize /\ S + 4 - 1 = S + 3
      <4> HIDE DEF T
      <4> QED BY <1>0, <2>4 DEF n
    <3>5. m1[S + 2] = cells[3] /\ m1[S + 3] = cells[4]
      BY <3>3, <3>4
    <3> QED BY <2>3, <3>3, <3>5 DEF n
  <2>6. /\ m2 \in Memory /\ m2[2] = Num(S + 4)
        /\ \A a \in 0 .. MemSize - 1 : a # 2 => m2[a] = m1[a]
    <3> HIDE DEF m1, S
    <3> QED BY <1>0, <2>4, <2>5, SetMemory
  <2> HIDE DEF m1, m2, r
  <2>7. \A a \in 0 .. MemSize - 1 : a # 2 /\ (a < S \/ a >= S + 4) => m2[a] = m[a]
    BY <2>5, <2>6
  <2>8. \A h \in 0 .. 9 : h # 2 => m2[h] = m[h]
    <3> HIDE DEF S
    <3> QED BY <1>0, <2>7
  <2>9. /\ fdt_magic(m2) = fdt_magic(m) /\ fdt_version(m2) = fdt_version(m)
        /\ fdt_last_comp_version(m2) = fdt_last_comp_version(m)
        /\ fdt_totalsize(m2) = T
        /\ fdt_off_mem_rsvmap(m2) = fdt_off_mem_rsvmap(m)
        /\ fdt_size_dt_struct(m2) = 0
        /\ fdt_size_dt_strings(m2) = fdt_size_dt_strings(m)
    BY <1>3, <2>8
    DEF fdt_magic, fdt_version, fdt_last_comp_version, fdt_totalsize,
        fdt_off_mem_rsvmap, fdt_size_dt_struct, fdt_size_dt_strings
  <2>10. fdt_off_dt_struct(m2) = S + 4 /\ m2[2].k = "num"
    BY <2>4, <2>6, CellFacts DEF fdt_off_dt_struct
  <2>11. fdt_size_dt_strings(m) = 0
    BY <1>3 DEF SwGood
  <2>12. \A h \in 0 .. HeaderSize - 1 : m2[h].k = "num"
    <3>1. \A h \in 0 .. 9 : m[h].k = "num"
      BY DEF SwGood, Apart
    <3> QED BY <2>8, <2>10, <3>1
  <2>13. Apart(m2)
    <3>1. T <= BufSize
      BY SwFacts
    <3>2. fdt_off_mem_rsvmap(m) = 12
      BY SwFacts
    <3> HIDE DEF S, T
    <3> QED BY <1>0, <2>4, <2>9, <2>10, <2>11, <2>12, <3>1, <3>2, SwHead DEF Apart
  <2>14. \E k \in Nat : fdt_off_dt_struct(m2) = SwHeadSize + RsvSize * k
    <3>1. PICK k \in Nat : S = 12 + 4 * k
      BY SwHead DEF SwGood
    <3>2. k + 1 \in Nat /\ S + 4 = SwHeadSize + RsvSize * (k + 1)
      <4> HIDE DEF S
      <4> QED BY <3>1, SwHead
    <3> QED BY <2>10, <3>2
  <2>15. SwGood(m2)
    <3>1. fdt_off_dt_struct(m2) + fdt_size_dt_struct(m2)
                <= fdt_totalsize(m2) - fdt_size_dt_strings(m2)
      <4> HIDE DEF S, T
      <4> QED BY <1>0, <2>4, <2>9, <2>10, <2>11
    <3>2. fdt_magic(m2) = FDT_SW_MAGIC /\ fdt_version(m2) = 17
          /\ fdt_last_comp_version(m2) = 16 /\ fdt_size_dt_struct(m2) = 0
          /\ fdt_size_dt_strings(m2) = 0
      BY <2>9, <2>11 DEF SwGood
    <3> QED BY <2>6, <2>13, <2>14, <3>1, <3>2 DEF SwGood
  <2>16. Within(m, m2)
    <3>1. \A a \in 0 .. MemSize - 1 : a >= T => a # 2 /\ a >= S + 4
      <4> HIDE DEF S, T
      <4> QED BY <1>0, <2>4
    <3> QED BY <2>7, <3>1 DEF Within
  <2>17. rsv.size = 0 => RsvDone(m2)
    <3> SUFFICES ASSUME rsv.size = 0 PROVE RsvDone(m2)
      OBVIOUS
    <3>1. /\ S + 4 > 12 /\ S + 4 - 2 = S + 2 /\ S + 4 - 1 = S + 3
          /\ S + 2 \in 0 .. MemSize - 1 /\ S + 3 \in 0 .. MemSize - 1
          /\ S + 2 # 2 /\ S + 3 # 2
      <4> HIDE DEF S, T
      <4> QED BY <1>0, <2>4
    <3>2. m2[S + 2] = Num(0) /\ m2[S + 3] = Num(0)
      BY <2>5, <2>6, <3>1
    <3>3. Value(Num(0)) = 0
      BY CellFacts
    <3> HIDE DEF S
    <3>4. /\ fdt_off_dt_struct(m2) - 2 = S + 2 /\ fdt_off_dt_struct(m2) - 1 = S + 3
          /\ fdt_off_dt_struct(m2) > 12
      BY <1>0, <2>10, <3>1
    <3> QED BY <3>2, <3>3, <3>4, SwHead DEF RsvDone
  <2>18. Held(m, r)
    BY <2>2, <2>9, <2>15, <2>16 DEF Held
  <2>19. fdt_off_dt_strings(m2) = fdt_off_dt_strings(m)
    BY <2>8 DEF fdt_off_dt_strings
  <2> QED BY <2>2, <2>9, <2>17, <2>18, <2>19 DEF r
<1> QED BY <1>2, <1>3

\* fdt_create makes a blob out of any memory.
LEMMA CreateKept ==
    ASSUME NEW m \in Memory, NEW bufsize \in 0 .. BufSize
    PROVE  LET r == Create(m, bufsize)
           IN  /\ r.ret \in Int
               /\ r.ret # 0 => r.m = m
               /\ r.ret = 0 =>
                    /\ IF bufsize < SwHeadSize THEN SwSmall(r.m) ELSE SwGood(r.m)
                    /\ fdt_totalsize(r.m) = bufsize
                    /\ fdt_size_dt_struct(r.m) = 0 /\ fdt_off_dt_strings(r.m) = bufsize
                    /\ \A a \in 0 .. MemSize - 1 : a >= bufsize => r.m[a] = m[a]
<1> DEFINE zeros == [a \in DOMAIN m |-> IF a < bufsize THEN Num(0) ELSE m[a]]
           m2 == Set(Set(Set(Set(Set(Set(Set(zeros, hMagic, FDT_SW_MAGIC), hVersion, 17),
                      hLastCompVersion, 16), hTotalsize, bufsize),
                      hOffMemRsvmap, SwHeadSize), hOffDtStruct, SwHeadSize),
                      hOffDtStrings, bufsize)
           r  == Create(m, bufsize)
<1>0. /\ MemSize \in Nat /\ MemSize >= 10 /\ DOMAIN m = 0 .. MemSize - 1
      /\ bufsize \in Nat /\ bufsize <= BufSize /\ BufSize \in Nat /\ BufSize <= MemSize
  BY MemAssumption, BufAssumption DEF Memory
<1>1. r = IF bufsize < HeaderSize THEN Return(-FDT_ERR_NOSPACE, m) ELSE Return(0, m2)
  BY Zenon DEF Create
<1>2. CASE bufsize < HeaderSize
  <2>1. r = [ret |-> -FDT_ERR_NOSPACE, m |-> m, p |-> 0]
    <3> HIDE DEF r, m2
    <3> QED BY <1>1, <1>2 DEF Return
  <2> HIDE DEF r
  <2>2. r.ret \in Int /\ r.ret # 0 /\ r.m = m
    BY <2>1
  <2> QED BY <2>2 DEF r
<1>3. CASE ~(bufsize < HeaderSize)
  <2>1. r = [ret |-> 0, m |-> m2, p |-> 0]
    <3> HIDE DEF r, m2
    <3> QED BY <1>1, <1>3 DEF Return
  <2>2. r.ret = 0 /\ r.m = m2
    <3> HIDE DEF r, m2
    <3> QED BY <2>1
  <2>3. /\ zeros \in Memory
        /\ \A a \in 0 .. MemSize - 1 : a >= bufsize => zeros[a] = m[a]
        /\ \A a \in 0 .. MemSize - 1 : a < bufsize => zeros[a] = Num(0)
    <3>1. Num(0) \in Cell
      BY CellFacts
    <3> QED BY <1>0, <3>1 DEF Memory
  <2> HIDE DEF zeros
  <2>4. /\ m2 \in Memory
        /\ m2[0] = Num(78) /\ m2[1] = Num(bufsize) /\ m2[2] = Num(12)
        /\ m2[3] = Num(bufsize) /\ m2[4] = Num(12) /\ m2[5] = Num(17)
        /\ m2[6] = Num(16)
        /\ \A a \in 0 .. MemSize - 1 : a > 6 => m2[a] = zeros[a]
    <3> DEFINE A1 == Set(zeros, hMagic, FDT_SW_MAGIC)
               A2 == Set(A1, hVersion, 17)
               A3 == Set(A2, hLastCompVersion, 16)
               A4 == Set(A3, hTotalsize, bufsize)
               A5 == Set(A4, hOffMemRsvmap, SwHeadSize)
               A6 == Set(A5, hOffDtStruct, SwHeadSize)
               A7 == Set(A6, hOffDtStrings, bufsize)
    <3>1. /\ A1 \in Memory /\ A1[0] = Num(78)
          /\ \A b \in 0 .. MemSize - 1 : b # 0 => A1[b] = zeros[b]
      BY <1>0, <2>3, SetMemory
    <3> HIDE DEF A1
    <3>2. /\ A2 \in Memory /\ A2[5] = Num(17)
          /\ \A b \in 0 .. MemSize - 1 : b # 5 => A2[b] = A1[b]
      BY <1>0, <3>1, SetMemory
    <3> HIDE DEF A2
    <3>3. /\ A3 \in Memory /\ A3[6] = Num(16)
          /\ \A b \in 0 .. MemSize - 1 : b # 6 => A3[b] = A2[b]
      BY <1>0, <3>2, SetMemory
    <3> HIDE DEF A3
    <3>4. /\ A4 \in Memory /\ A4[1] = Num(bufsize)
          /\ \A b \in 0 .. MemSize - 1 : b # 1 => A4[b] = A3[b]
      BY <1>0, <3>3, SetMemory
    <3> HIDE DEF A4
    <3>5. /\ A5 \in Memory /\ A5[4] = Num(12)
          /\ \A b \in 0 .. MemSize - 1 : b # 4 => A5[b] = A4[b]
      BY <1>0, <3>4, SetMemory, SwHead
    <3> HIDE DEF A5
    <3>6. /\ A6 \in Memory /\ A6[2] = Num(12)
          /\ \A b \in 0 .. MemSize - 1 : b # 2 => A6[b] = A5[b]
      BY <1>0, <3>5, SetMemory, SwHead
    <3> HIDE DEF A6
    <3>7. /\ A7 \in Memory /\ A7[3] = Num(bufsize)
          /\ \A b \in 0 .. MemSize - 1 : b # 3 => A7[b] = A6[b]
      BY <1>0, <3>6, SetMemory
    <3>8. m2 = A7
      BY DEF A1, A2, A3, A4, A5, A6
    <3> HIDE DEF A7, m2
    <3>9. \A h \in 0 .. 9 : h \in 0 .. MemSize - 1
      BY <1>0
    <3>10. /\ A7[6] = A3[6] /\ A7[5] = A2[5] /\ A7[4] = A5[4] /\ A7[2] = A6[2]
           /\ A7[1] = A4[1] /\ A7[0] = A1[0]
      BY <3>2, <3>3, <3>4, <3>5, <3>6, <3>7, <3>9
    <3>11. \A a \in 0 .. MemSize - 1 : a > 6 => A7[a] = zeros[a]
      BY <3>1, <3>2, <3>3, <3>4, <3>5, <3>6, <3>7
    <3> QED BY <3>1, <3>2, <3>3, <3>4, <3>5, <3>6, <3>7, <3>8, <3>10, <3>11
  <2> HIDE DEF m2, r
  <2>5. m2[7] = Num(0) /\ m2[8] = Num(0) /\ m2[9] = Num(0)
    BY <1>0, <1>3, <2>3, <2>4
  <2>6. /\ fdt_magic(m2) = 78 /\ fdt_totalsize(m2) = bufsize
        /\ fdt_off_dt_struct(m2) = 12 /\ fdt_off_mem_rsvmap(m2) = 12
        /\ fdt_version(m2) = 17 /\ fdt_last_comp_version(m2) = 16
        /\ fdt_size_dt_strings(m2) = 0 /\ fdt_size_dt_struct(m2) = 0
    BY <1>0, <2>4, <2>5, CellFacts
    DEF fdt_magic, fdt_version, fdt_last_comp_version, fdt_totalsize,
        fdt_off_mem_rsvmap, fdt_off_dt_struct, fdt_size_dt_struct, fdt_size_dt_strings
  <2>7. \A h \in 0 .. HeaderSize - 1 : m2[h].k = "num"
    <3>1. \A x \in Nat : Num(x).k = "num"
      BY CellFacts
    <3> QED BY SMTT(30), <1>0, <2>4, <2>5, <3>1
  <2>12. fdt_off_dt_strings(m2) = bufsize
    BY <1>0, <2>4, CellFacts DEF fdt_off_dt_strings
  <2>8. Apart(m2) /\ Bare(m2)
    BY <1>0, <1>3, <2>6, <2>7, SwHead DEF Apart, Bare
  <2>9. \E k \in Nat : fdt_off_dt_struct(m2) = SwHeadSize + RsvSize * k
    BY <2>6, SwHead
  <2>10. IF bufsize < SwHeadSize THEN SwSmall(m2) ELSE SwGood(m2)
    <3>1. CASE bufsize < SwHeadSize
      BY <2>4, <2>6, <2>8, <2>12, <3>1 DEF SwSmall
    <3>2. CASE ~(bufsize < SwHeadSize)
      <4>1. 12 <= bufsize
        BY <1>0, <3>2, SwHead
      <4> QED BY <2>4, <2>6, <2>8, <2>9, <3>2, <4>1 DEF SwGood
    <3> QED BY <3>1, <3>2
  <2>11. \A a \in 0 .. MemSize - 1 : a >= bufsize => m2[a] = m[a]
    BY <1>0, <1>3, <2>3, <2>4
  <2> QED BY <2>2, <2>6, <2>10, <2>11, <2>12 DEF r
<1> QED BY <1>2, <1>3

-----------------------------------------------------------------------------
(* Another buffer.                                                         *)

\* memmove between any two places of a larger memory.
LEMMA MoveCells ==
    ASSUME NEW D, D \subseteq Int, NEW f \in [D -> Cell],
           NEW dst \in Int, NEW src \in Int, NEW n \in Nat,
           src .. src + n - 1 \subseteq D
    PROVE  Move(f, dst, src, n) \in [D -> Cell]
<1>1. \A a \in D : a \in dst .. dst + n - 1 => src + a - dst \in D
  <2> SUFFICES ASSUME NEW a \in D, a \in dst .. dst + n - 1
               PROVE  src + a - dst \in D
    OBVIOUS
  <2>1. src + a - dst \in src .. src + n - 1
    OBVIOUS
  <2> QED BY <2>1
<1> QED BY <1>1 DEF Move

\* What it leaves at an address.
LEMMA MovedCell ==
    ASSUME NEW f, NEW a \in DOMAIN f, a \in Int,
           NEW dst \in Int, NEW src \in Int, NEW n \in Nat
    PROVE  /\ a < dst \/ a >= dst + n => Move(f, dst, src, n)[a] = f[a]
           /\ a >= dst /\ a < dst + n => Move(f, dst, src, n)[a] = f[src + a - dst]
<1>1. Move(f, dst, src, n)[a] =
            IF a \in dst .. dst + n - 1 THEN f[src + a - dst] ELSE f[a]
  BY DEF Move
<1> QED BY <1>1

\* fdt_resize moves the head and the tail of a blob without nodes, or leaves
\* a blob with nodes where it is.  A new buffer has room for the aligned header.
LEMMA BufferResized ==
    ASSUME NEW m, SwGood(m) \/ SwSmall(m), NEW shift \in -MemSize .. MemSize,
           NEW bufsize \in 0 .. BufSize,
           \/ fdt_size_dt_struct(m) = 0
           \/ bufsize >= fdt_off_dt_struct(m) + fdt_size_dt_struct(m)
                         + fdt_size_dt_strings(m)
    PROVE  LET r == Resize(m, shift, bufsize)
           IN  /\ r.ret \in Int
               /\ r.ret # 0 => r.m = m
               /\ r.ret = 0 =>
                    /\ SwGood(r.m)
                    /\ fdt_totalsize(r.m) = bufsize /\ fdt_off_dt_strings(r.m) = bufsize
                    /\ fdt_off_dt_struct(r.m) = fdt_off_dt_struct(m)
                    /\ fdt_size_dt_struct(r.m) = fdt_size_dt_struct(m)
                    /\ fdt_size_dt_strings(r.m) = fdt_size_dt_strings(m)
<1> DEFINE S   == fdt_off_dt_struct(m)
           gs  == fdt_size_dt_strings(m)
           ss  == fdt_size_dt_struct(m)
           T   == fdt_totalsize(m)
           D   == -MemSize .. 2 * MemSize
           old == T - gs
           new == shift + bufsize - gs
           X   == Around(m)
           moved == IF shift <= 0
                    THEN Move(Move(X, shift, 0, S), new, old, gs)
                    ELSE Move(Move(X, new, old, gs), shift, 0, S)
           buf == [a \in DOMAIN m |-> moved[a + shift]]
           m1  == Set(buf, hOffDtStrings, bufsize)
           m2  == Set(m1, hTotalsize, bufsize)
           r   == Resize(m, shift, bufsize)
<1>b. /\ m \in Memory /\ DOMAIN m = 0 .. MemSize - 1
      /\ MemSize \in Nat /\ MemSize >= 10 /\ BufSize \in Nat /\ BufSize <= MemSize
      /\ T \in Nat /\ S \in Nat /\ ss \in Nat /\ gs \in Nat
      /\ fdt_off_mem_rsvmap(m) = 12 /\ S >= 12 /\ gs <= T /\ T <= MemSize
      /\ shift \in Int /\ -MemSize <= shift /\ shift <= MemSize
      /\ bufsize \in Nat /\ bufsize <= BufSize
      /\ \E k \in Nat : S = SwHeadSize + RsvSize * k
      /\ ss > 0 => RsvDone(m)
      /\ ss = 0 => gs = 0
      /\ RsvDone(m) => S >= 16
      /\ \A h \in 0 .. 9 : m[h].k = "num"
      /\ fdt_magic(m) = 78 /\ fdt_version(m) = 17 /\ fdt_last_comp_version(m) = 16
  <2>1. MemSize \in Nat /\ MemSize >= 10 /\ BufSize \in Nat /\ BufSize <= MemSize
    BY MemAssumption, BufAssumption
  <2>2. /\ shift \in Int /\ -MemSize <= shift /\ shift <= MemSize
        /\ bufsize \in Nat /\ bufsize <= BufSize
    BY <2>1
  <2>3. CASE SwGood(m)
    <3>1. /\ m \in Memory /\ DOMAIN m = 0 .. MemSize - 1
          /\ T \in Nat /\ S \in Nat /\ ss \in Nat /\ gs \in Nat
          /\ fdt_off_mem_rsvmap(m) = 12 /\ S >= 12 /\ T <= MemSize /\ S + ss <= T - gs
      BY <2>3, SwFacts
    <3>2. gs <= T
      <4> HIDE DEF S, ss, gs, T
      <4> QED BY <3>1
    <3>3. RsvDone(m) => S >= 16
      BY <2>3, RsvDoneEntry
    <3>4. /\ \E k \in Nat : S = SwHeadSize + RsvSize * k
          /\ ss > 0 => RsvDone(m)
          /\ ss = 0 => gs = 0
          /\ \A h \in 0 .. 9 : m[h].k = "num"
          /\ fdt_magic(m) = 78 /\ fdt_version(m) = 17 /\ fdt_last_comp_version(m) = 16
      BY <2>3 DEF SwGood, Apart
    <3> HIDE DEF S, ss, gs, T
    <3> QED BY <2>1, <2>2, <3>1, <3>2, <3>3, <3>4
  <2>4. CASE SwSmall(m)
    <3>1. /\ m \in Memory /\ DOMAIN m = 0 .. MemSize - 1
          /\ T \in Nat /\ S = 12 /\ ss = 0 /\ gs = 0
          /\ fdt_off_mem_rsvmap(m) = 12 /\ T <= BufSize
      BY <2>4, SwHead, HeaderNat DEF SwSmall, Apart, Bare, Memory
    <3>2. ~RsvDone(m)
      BY <2>1, <3>1, SwHead DEF RsvDone
    <3>3. S = SwHeadSize + RsvSize * 0
      <4> HIDE DEF S
      <4> QED BY <3>1, SwHead
    <3>4. /\ \A h \in 0 .. 9 : m[h].k = "num"
          /\ fdt_magic(m) = 78 /\ fdt_version(m) = 17 /\ fdt_last_comp_version(m) = 16
      BY <2>4 DEF SwSmall, Apart
    <3> HIDE DEF S, ss, gs, T
    <3> QED BY <2>1, <2>2, <3>1, <3>2, <3>3, <3>4
  <2> QED BY <2>3, <2>4
<1>0. /\ m \in Memory /\ DOMAIN m = 0 .. MemSize - 1
      /\ MemSize \in Nat /\ MemSize >= 10 /\ BufSize \in Nat /\ BufSize <= MemSize
      /\ T \in Nat /\ S \in Nat /\ ss \in Nat /\ gs \in Nat
      /\ fdt_off_mem_rsvmap(m) = 12 /\ S >= 12 /\ gs <= T /\ T <= MemSize
      /\ shift \in Int /\ -MemSize <= shift /\ shift <= MemSize
      /\ bufsize \in Nat /\ bufsize <= BufSize
  BY <1>b
<1>1. r = IF S + gs > bufsize THEN Return(-FDT_ERR_NOSPACE, m) ELSE Return(0, m2)
  BY Zenon DEF Resize
<1>2. CASE S + gs > bufsize
  <2>1. r = [ret |-> -FDT_ERR_NOSPACE, m |-> m, p |-> 0]
    <3> HIDE DEF r, m2, S, gs
    <3> QED BY <1>1, <1>2 DEF Return
  <2> HIDE DEF r
  <2>2. r.ret \in Int /\ r.ret # 0 /\ r.m = m
    BY <2>1
  <2> QED BY <2>2 DEF r
<1>3. CASE ~(S + gs > bufsize)
  <2>1. r = [ret |-> 0, m |-> m2, p |-> 0]
    <3> HIDE DEF r, m2, S, gs
    <3> QED BY <1>1, <1>3 DEF Return
  <2>2. r.ret = 0 /\ r.m = m2
    <3> HIDE DEF r, m2
    <3> QED BY <2>1
  <2>3. /\ D \subseteq Int /\ X \in [D -> Cell]
        /\ \A a \in 0 .. MemSize - 1 : X[a] = m[a]
    <3>1. D \subseteq Int
      BY <1>0
    <3>2. Text \in Cell
      BY CellFacts
    <3>3. \A a \in 0 .. MemSize - 1 : m[a] \in Cell /\ a \in D
      BY <1>0 DEF Memory
    <3>4. X = [a \in D |-> IF a \in DOMAIN m THEN m[a] ELSE Text]
      BY DEF Around
    <3> HIDE DEF X, D
    <3> QED BY <1>0, <3>1, <3>2, <3>3, <3>4
  <2>4. /\ S + gs <= bufsize /\ S <= bufsize /\ S <= MemSize /\ old \in Nat /\ new \in Int
        /\ old + gs = T /\ shift + S <= new /\ new + gs = shift + bufsize
    <3> HIDE DEF S, T, gs, ss
    <3> QED BY <1>0, <1>3
  <2>5. 0 .. 0 + S - 1 \subseteq D /\ old .. old + gs - 1 \subseteq D
    <3> HIDE DEF S, T, gs, ss, old
    <3> QED BY <1>0, <2>4
  <2>6. /\ moved \in [D -> Cell]
        /\ \A a \in 0 .. S - 1 : moved[a + shift] = m[a]
    <3>0. \A a \in 0 .. S - 1 : /\ a + shift \in D /\ a \in D /\ a \in 0 .. MemSize - 1
                                /\ a + shift >= shift /\ a + shift < shift + S
                                /\ a + shift < new /\ 0 + (a + shift) - shift = a
      <4> HIDE DEF S, T, gs, ss, old, new
      <4> QED BY <1>0, <2>4
    <3>1. CASE shift <= 0
      <4> DEFINE z == 0
                 Y == Move(X, shift, z, S)
                 Z == Move(Y, new, old, gs)
      <4>0. /\ D \subseteq Int /\ X \in [D -> Cell] /\ shift \in Int /\ z \in Int
            /\ S \in Nat /\ z .. z + S - 1 \subseteq D
            /\ new \in Int /\ old \in Int /\ gs \in Nat /\ old .. old + gs - 1 \subseteq D
            /\ z = 0
        <5> HIDE DEF X, D, S, T, gs, ss, old, new, Y
        <5> QED BY <1>0, <2>3, <2>4, <2>5
      <4>3. moved = Z
        BY <3>1 DEF Y
      <4> HIDE DEF X, D, S, T, gs, ss, old, new, z, moved
      <4>1a. Y \in [D -> Cell]
        BY <4>0, MoveCells
      <4>1. \A a \in D : a >= shift /\ a < shift + S => Y[a] = X[0 + a - shift]
        <5> TAKE a \in D
        <5>1. a >= shift /\ a < shift + S => Y[a] = X[z + a - shift]
          <6>1. a \in DOMAIN X /\ a \in Int
            BY <4>0
          <6>2. shift \in Int /\ z \in Int /\ S \in Nat
            BY <4>0
          <6> HIDE DEF moved, Z
          <6> QED BY <6>1, <6>2, MovedCell
        <5> QED BY <4>0, <5>1
      <4> HIDE DEF Y
      <4>2a. Z \in [D -> Cell]
        BY <4>0, <4>1a, MoveCells
      <4>2b. \A a \in D : a < new \/ a >= new + gs => Z[a] = Y[a]
        <5> TAKE a \in D
        <5>1. a \in DOMAIN Y /\ a \in Int
          BY <4>0, <4>1a
        <5> QED BY <4>0, <5>1, MovedCell
      <4>2. /\ Z \in [D -> Cell]
            /\ \A a \in D : a < new \/ a >= new + gs => Z[a] = Y[a]
        BY <4>2a, <4>2b
      <4> HIDE DEF Z, moved
      <4>4. \A a \in 0 .. S - 1 : moved[a + shift] = m[a]
        <5> SUFFICES ASSUME NEW a \in 0 .. S - 1 PROVE moved[a + shift] = m[a]
          OBVIOUS
        <5>1. Z[a + shift] = Y[a + shift]
          BY <3>0, <4>2
        <5>2. Y[a + shift] = X[a]
          BY <3>0, <4>1
        <5> QED BY <2>3, <3>0, <4>3, <5>1, <5>2
      <4> QED BY <4>2, <4>3, <4>4
    <3>2. CASE ~(shift <= 0)
      <4> DEFINE z == 0
                 Y == Move(X, new, old, gs)
                 Z == Move(Y, shift, z, S)
      <4>0. \A a \in 0 .. S - 1 : a < new
        <5> HIDE DEF S, T, gs, ss, old, new
        <5> QED BY <1>0, <2>4, <3>2
      <4>3. moved = Z
        BY <3>2 DEF Y
      <4>5. /\ D \subseteq Int /\ X \in [D -> Cell] /\ shift \in Int /\ z \in Int
            /\ S \in Nat /\ z .. z + S - 1 \subseteq D
            /\ new \in Int /\ old \in Int /\ gs \in Nat /\ old .. old + gs - 1 \subseteq D
            /\ z = 0
        <5> HIDE DEF X, D, S, T, gs, ss, old, new, Y
        <5> QED BY <1>0, <2>3, <2>4, <2>5
      <4> HIDE DEF X, D, S, T, gs, ss, old, new, z, moved
      <4>1a. Y \in [D -> Cell]
        BY <4>5, MoveCells
      <4>1. /\ Y \in [D -> Cell]
            /\ \A a \in D : a < new \/ a >= new + gs => Y[a] = X[a]
        <5>1. \A a \in D : a < new \/ a >= new + gs => Y[a] = X[a]
          <6> TAKE a \in D
          <6>1. a \in DOMAIN X /\ a \in Int
            BY <4>5
          <6> QED BY <4>5, <6>1, MovedCell
        <5> QED BY <4>1a, <5>1
      <4> HIDE DEF Y
      <4>2a. Z \in [D -> Cell]
        BY <4>5, <4>1a, MoveCells
      <4>2. /\ Z \in [D -> Cell]
            /\ \A a \in D : a >= shift /\ a < shift + S => Z[a] = Y[0 + a - shift]
        <5>1. \A a \in D : a >= shift /\ a < shift + S => Z[a] = Y[0 + a - shift]
          <6> TAKE a \in D
          <6>1. a >= shift /\ a < shift + S => Z[a] = Y[z + a - shift]
            <7>1. a \in DOMAIN Y /\ a \in Int
              BY <4>5, <4>1a
            <7> QED BY <4>5, <7>1, MovedCell
          <6> QED BY <4>5, <6>1
        <5> QED BY <4>2a, <5>1
      <4> HIDE DEF Z, moved
      <4>4. \A a \in 0 .. S - 1 : moved[a + shift] = m[a]
        <5> SUFFICES ASSUME NEW a \in 0 .. S - 1 PROVE moved[a + shift] = m[a]
          OBVIOUS
        <5>1. Z[a + shift] = Y[a]
          BY <3>0, <4>2
        <5>2. Y[a] = X[a]
          BY <3>0, <4>0, <4>1
        <5> QED BY <2>3, <3>0, <4>3, <5>1, <5>2
      <4> QED BY <4>2, <4>3, <4>4
    <3> QED BY <3>1, <3>2
  <2>7. /\ buf \in Memory
        /\ \A a \in 0 .. S - 1 : buf[a] = m[a]
    <3>1. \A a \in 0 .. MemSize - 1 : a + shift \in D
      BY <1>0
    <3>2. \A a \in 0 .. S - 1 : a \in 0 .. MemSize - 1
      <4> HIDE DEF S, T, gs, ss
      <4> QED BY <1>0, <2>4
    <3> HIDE DEF moved, D, S
    <3> QED BY <1>0, <2>6, <3>1, <3>2 DEF Memory
  <2> HIDE DEF buf, moved, X, D
  <2>8. /\ m1 \in Memory /\ m1[3] = Num(bufsize)
        /\ \A a \in 0 .. MemSize - 1 : a # 3 => m1[a] = buf[a]
    BY <1>0, <2>7, SetMemory
  <2> HIDE DEF m1
  <2>9. /\ m2 \in Memory /\ m2[1] = Num(bufsize)
        /\ \A a \in 0 .. MemSize - 1 : a # 1 => m2[a] = m1[a]
    BY SMTT(30), <1>0, <2>8, SetMemory
  <2> HIDE DEF m2, r
  <2>10. \A a \in 0 .. S - 1 : a \notin {1, 3} => m2[a] = m[a]
    <3>1. \A a \in 0 .. S - 1 : a \in 0 .. MemSize - 1
      <4> HIDE DEF S, T, gs, ss
      <4> QED BY <1>0, <2>4
    <3> HIDE DEF S
    <3> QED BY <2>7, <2>8, <2>9, <3>1
  <2>11. \A h \in 0 .. 9 : h \notin {1, 3} => m2[h] = m[h]
    <3> HIDE DEF S
    <3> QED BY <1>0, <2>10
  <2>12. m2[3] = Num(bufsize)
    BY <1>0, <2>8, <2>9
  <2>13. /\ fdt_magic(m2) = fdt_magic(m) /\ fdt_version(m2) = fdt_version(m)
         /\ fdt_last_comp_version(m2) = fdt_last_comp_version(m)
         /\ fdt_off_mem_rsvmap(m2) = fdt_off_mem_rsvmap(m)
         /\ fdt_off_dt_struct(m2) = S
         /\ fdt_size_dt_struct(m2) = ss /\ fdt_size_dt_strings(m2) = gs
    BY <2>11
    DEF fdt_magic, fdt_version, fdt_last_comp_version, fdt_off_mem_rsvmap,
        fdt_off_dt_struct, fdt_size_dt_struct, fdt_size_dt_strings
  <2>14. fdt_totalsize(m2) = bufsize /\ fdt_off_dt_strings(m2) = bufsize
    BY <1>0, <2>9, <2>12, CellFacts DEF fdt_totalsize, fdt_off_dt_strings
  <2>15. \A h \in 0 .. HeaderSize - 1 : m2[h].k = "num"
    <3>1. \A h \in 0 .. 9 : m[h].k = "num"
      BY <1>b
    <3>2. Num(bufsize).k = "num"
      BY <1>0, CellFacts
    <3> QED BY <2>9, <2>11, <2>12, <3>1, <3>2
  <2>16. S + ss <= bufsize - gs
    <3> HIDE DEF S, ss, gs
    <3>1. ss = 0 \/ bufsize >= S + ss + gs
      BY DEF S, ss, gs
    <3> QED BY <1>0, <2>4, <3>1
  <2>17. Apart(m2)
    <3>1. fdt_off_mem_rsvmap(m2) = SwHeadSize /\ S >= SwHeadSize
      BY <1>0, <2>13, SwHead
    <3>2. 10 <= bufsize /\ bufsize <= BufSize
      <4> HIDE DEF S, ss, gs, old, new
      <4> QED BY <1>0, <2>4
    <3> HIDE DEF S, ss, gs
    <3> QED BY <2>13, <2>14, <2>15, <2>16, <3>1, <3>2 DEF Apart
  <2>18. RsvDone(m) => RsvDone(m2)
    <3> SUFFICES ASSUME RsvDone(m) PROVE RsvDone(m2)
      OBVIOUS
    <3>1. S >= 16
      BY <1>b
    <3>2. Value(m[S - 2]) = 0 /\ Value(m[S - 1]) = 0
      BY DEF RsvDone
    <3>3. m2[S - 2] = m[S - 2] /\ m2[S - 1] = m[S - 1]
      <4> HIDE DEF S
      <4>1. S - 2 \in 0 .. S - 1 /\ S - 1 \in 0 .. S - 1 /\ S - 2 \notin {1, 3} /\ S - 1 \notin {1, 3}
        BY <1>0, <3>1
      <4> QED BY <2>10, <4>1
    <3>4. S > 12
      <4> HIDE DEF S
      <4> QED BY <1>0, <3>1
    <3> HIDE DEF S
    <3> QED BY <2>13, <3>2, <3>3, <3>4, SwHead DEF RsvDone
  <2>19. SwGood(m2)
    <3> HIDE DEF S, ss, gs
    <3> QED BY <1>b, <2>9, <2>13, <2>14, <2>16, <2>17, <2>18 DEF SwGood
  <2> QED BY <2>2, <2>13, <2>14, <2>19 DEF r
<1> QED BY <1>2, <1>3

-----------------------------------------------------------------------------
(* The end: fdt_finish.                                                    *)

\* The place of the strings block is not looked at before the tree is finished.
LEMMA SetOffStrings ==
    ASSUME NEW m, SwGood(m), NEW x \in Nat
    PROVE  LET m2 == Set(m, hOffDtStrings, x)
           IN  /\ SwGood(m2) /\ Within(m, m2)
               /\ fdt_totalsize(m2) = fdt_totalsize(m) /\ SwSame(m, m2)
               /\ fdt_off_dt_strings(m2) = x
<1> DEFINE m2 == Set(m, hOffDtStrings, x)
<1>0. /\ m \in Memory /\ MemSize \in Nat /\ MemSize >= 10
      /\ fdt_off_dt_struct(m) \in Nat /\ fdt_off_dt_struct(m) >= 12
      /\ fdt_totalsize(m) \in Nat /\ fdt_totalsize(m) <= MemSize
      /\ fdt_off_dt_struct(m) + fdt_size_dt_struct(m)
            <= fdt_totalsize(m) - fdt_size_dt_strings(m)
      /\ fdt_size_dt_struct(m) \in Nat /\ fdt_size_dt_strings(m) \in Nat
  BY SwFacts
<1>1. /\ m2 \in Memory /\ m2[3] = Num(x)
      /\ \A a \in 0 .. MemSize - 1 : a # 3 => m2[a] = m[a]
  BY <1>0, SetMemory
<1> HIDE DEF m2
<1>2. \A h \in 0 .. 9 : h # 3 => m2[h] = m[h]
  BY <1>0, <1>1
<1>3. /\ fdt_magic(m2) = fdt_magic(m) /\ fdt_version(m2) = fdt_version(m)
      /\ fdt_last_comp_version(m2) = fdt_last_comp_version(m)
      /\ fdt_totalsize(m2) = fdt_totalsize(m)
      /\ fdt_off_mem_rsvmap(m2) = fdt_off_mem_rsvmap(m)
      /\ fdt_off_dt_struct(m2) = fdt_off_dt_struct(m)
      /\ fdt_size_dt_struct(m2) = fdt_size_dt_struct(m)
      /\ fdt_size_dt_strings(m2) = fdt_size_dt_strings(m)
  BY <1>2 DEF fdt_magic, fdt_version, fdt_last_comp_version, fdt_totalsize,
              fdt_off_mem_rsvmap, fdt_off_dt_struct, fdt_size_dt_struct,
              fdt_size_dt_strings
<1>4. fdt_off_dt_strings(m2) = x
  BY <1>1, CellFacts DEF fdt_off_dt_strings
<1>5. \A h \in 0 .. HeaderSize - 1 : m2[h].k = "num"
  <2>1. \A h \in 0 .. 9 : m[h].k = "num"
    BY DEF SwGood, Apart
  <2> QED BY <1>1, <1>2, <2>1, CellFacts
<1>6. RsvDone(m2) <=> RsvDone(m)
  <2>1. CASE fdt_off_dt_struct(m) > 12
    <3>1. PICK k \in Nat : fdt_off_dt_struct(m) = 12 + 4 * k
      BY SwHead DEF SwGood
    <3>2. /\ fdt_off_dt_struct(m) - 2 \in 0 .. MemSize - 1
          /\ fdt_off_dt_struct(m) - 1 \in 0 .. MemSize - 1
          /\ fdt_off_dt_struct(m) - 2 # 3 /\ fdt_off_dt_struct(m) - 1 # 3
      BY <1>0, <2>1, <3>1
    <3>3. /\ m2[fdt_off_dt_struct(m) - 2] = m[fdt_off_dt_struct(m) - 2]
          /\ m2[fdt_off_dt_struct(m) - 1] = m[fdt_off_dt_struct(m) - 1]
      BY <1>1, <3>2
    <3> QED BY <1>3, <3>3 DEF RsvDone
  <2>2. CASE ~(fdt_off_dt_struct(m) > 12)
    BY <1>3, <2>2, SwHead DEF RsvDone
  <2> QED BY <2>1, <2>2
<1>7. Apart(m2)
  BY <1>3, <1>5 DEF Apart, Bare, SwGood
<1>8. SwGood(m2)
  BY <1>1, <1>3, <1>6, <1>7 DEF SwGood
<1>9. Within(m, m2)
  BY <1>0, <1>1 DEF Within
<1> QED BY <1>3, <1>4, <1>6, <1>8, <1>9 DEF SwSame, m2

\* The names of properties are rewritten inside the structure block.
LEMMA RelocatedKept ==
    ASSUME NEW m, SwGood(m)
    PROVE  LET m2 == Relocated(m, Walk(m, 0))
           IN  /\ SwGood(m2) /\ Within(m, m2)
               /\ fdt_totalsize(m2) = fdt_totalsize(m) /\ SwSame(m, m2)
               /\ fdt_off_dt_strings(m2) = fdt_off_dt_strings(m)
<1> DEFINE w  == Walk(m, 0)
           S  == fdt_off_dt_struct(m)
           ss == fdt_size_dt_struct(m)
           gs == fdt_size_dt_strings(m)
           T  == fdt_totalsize(m)
           P  == {x.at : x \in Tagged(w, {FDT_PROP})}
           m2 == Relocated(m, w)
<1>0. /\ m \in Memory /\ DOMAIN m = 0 .. MemSize - 1 /\ MemSize \in Nat
      /\ S \in Nat /\ ss \in Nat /\ gs \in Nat /\ T \in Nat /\ S >= 12
      /\ S + ss <= T - gs /\ T <= MemSize
  BY SwFacts
<1>1. Readable(m)
  BY <1>0, SwFacts DEF Readable
<1>2. \A p \in P : p \in Nat /\ p + 3 <= ss
  <2> SUFFICES ASSUME NEW x \in w, x.tag = FDT_PROP
               PROVE  x.at \in Nat /\ x.at + 3 <= ss
    BY DEF Tagged
  <2> DEFINE at == x.at
             n  == fdt_next_tag(m, at).next
             W  == Words(PropLen(m, at))
  <2>1. at \in Nat /\ fdt_next_tag(m, at).tag = FDT_PROP
    BY WalkItems, <1>0
  <2> HIDE DEF at
  <2>2. /\ n \in Nat /\ n <= ss /\ PropLen(m, at) \in Nat /\ n = at + 3 + W
    BY <1>1, <2>1, NextTag
  <2>3. W \in Nat
    BY <2>2, WordsNat
  <2> HIDE DEF n, W, ss
  <2>4. at + 3 <= ss
    BY <1>0, <2>1, <2>2, <2>3
  <2> QED BY <2>1, <2>4 DEF at
<1>3. \A a \in 0 .. MemSize - 1 :
        m2[a] = IF a - S - 2 \in P
                THEN Num(Unsigned(AsInt(Value(m[a])) + gs)) ELSE m[a]
  BY <1>0 DEF Relocated
<1>4. m2 = [a \in 0 .. MemSize - 1 |-> m2[a]]
  BY <1>0 DEF Relocated
<1> HIDE DEF m2, P
<1>5. \A a \in 0 .. MemSize - 1 : m2[a] \in Cell
  <2> TAKE a \in 0 .. MemSize - 1
  <2>1. m[a] \in Cell
    BY <1>0 DEF Memory
  <2>2. AsInt(Value(m[a])) \in Int
    <3>1. Value(m[a]) \in Nat
      BY <2>1, CellFacts
    <3> QED BY <3>1 DEF AsInt
  <2>3. AsInt(Value(m[a])) + gs \in Int
    <3> HIDE DEF gs
    <3> QED BY <1>0, <2>2
  <2>4. Num(Unsigned(AsInt(Value(m[a])) + gs)) \in Cell
    BY <2>3, UnsignedNat, CellFacts
  <2> QED BY <1>3, <2>1, <2>4
<1>6. m2 \in Memory
  BY <1>4, <1>5 DEF Memory
<1>7. \A a \in 0 .. MemSize - 1 : a < S \/ a >= T => m2[a] = m[a]
  <2> SUFFICES ASSUME NEW a \in 0 .. MemSize - 1, a < S \/ a >= T
               PROVE  a - S - 2 \notin P
    BY <1>3
  <2> SUFFICES ASSUME a - S - 2 \in P
               PROVE  FALSE
    OBVIOUS
  <2>1. a - S - 2 \in Nat /\ a - S - 2 + 3 <= ss
    BY <1>2
  <2> HIDE DEF S, T, ss, gs
  <2> QED BY <1>0, <2>1
<1>8. /\ SwGood(m2) /\ Within(m, m2)
      /\ fdt_totalsize(m2) = fdt_totalsize(m) /\ SwSame(m, m2)
  BY <1>6, <1>7, SwWritten
<1>9. fdt_off_dt_strings(m2) = fdt_off_dt_strings(m)
  <2>1. m2[3] = m[3]
    BY <1>0, <1>7
  <2> QED BY <2>1 DEF fdt_off_dt_strings
<1> QED BY <1>8, <1>9 DEF m2

\* A list of whole reservations whose last one is empty has an end in front of
\* the structure block.
LEMMA RsvListEnds ==
    ASSUME NEW m, SwGood(m), RsvDone(m)
    PROVE  \E n \in Nat : /\ SwHeadSize + RsvSize * (n + 1) <= fdt_off_dt_struct(m)
                          /\ IsNumMemRsv(m, n)
<1> DEFINE S == fdt_off_dt_struct(m)
           E == {i \in Nat : IsLastRsv(m, i)}
<1>1. PICK k \in Nat : S = 12 + 4 * k
  BY SwHead DEF SwGood
<1>2. S \in Nat /\ S >= 16 /\ fdt_off_mem_rsvmap(m) = 12
  BY SwFacts, RsvDoneEntry
<1>3. Value(m[S - 2]) = 0 /\ Value(m[S - 1]) = 0
  BY DEF RsvDone
<1> HIDE DEF S
<1>4. k - 1 \in Nat
  BY <1>1, <1>2
<1>5. k - 1 \in E
  <2>1. 12 + 4 * (k - 1) + 2 = S - 2 /\ 12 + 4 * (k - 1) + 3 = S - 1
    BY <1>1
  <2>2. IsLastRsv(m, k - 1)
    BY <1>2, <1>3, <2>1 DEF IsLastRsv
  <2> QED BY <1>4, <2>2
<1>6. PICK n \in E : \A i \in E : n <= i
  <2>1. E \subseteq Nat /\ E # {}
    BY <1>5
  <2> HIDE DEF E
  <2> QED BY <2>1, LeastNatural
<1>7. n \in Nat /\ IsLastRsv(m, n) /\ n <= k - 1
  BY <1>5, <1>6
<1>8. \A i \in 0 .. n - 1 : ~IsLastRsv(m, i)
  BY <1>6, <1>7
<1>9. 12 + 4 * (n + 1) <= S
  BY <1>1, <1>7
<1>10. IsNumMemRsv(m, n)
  BY <1>7, <1>8 DEF IsNumMemRsv
<1> QED BY <1>7, <1>9, <1>10, SwHead DEF S

\* The two fields that fdt_finish sets last make a finished blob of one whose
\* strings follow its nodes.
LEMMA FinishedGood ==
    ASSUME NEW m, SwGood(m), RsvDone(m),
           fdt_off_dt_strings(m) = fdt_off_dt_struct(m) + fdt_size_dt_struct(m)
    PROVE  LET new == fdt_off_dt_strings(m) + fdt_size_dt_strings(m)
               m2  == Set(Set(m, hTotalsize, new), hMagic, FDT_MAGIC)
           IN  /\ Good(m2) /\ Within(m, m2)
               /\ fdt_totalsize(m2) = new /\ new <= fdt_totalsize(m)
<1> DEFINE S   == fdt_off_dt_struct(m)
           ss  == fdt_size_dt_struct(m)
           gs  == fdt_size_dt_strings(m)
           T   == fdt_totalsize(m)
           new == fdt_off_dt_strings(m) + gs
           m1  == Set(m, hTotalsize, new)
           m2  == Set(m1, hMagic, FDT_MAGIC)
<1>0. /\ m \in Memory /\ MemSize \in Nat /\ MemSize >= 10 /\ BufSize \in Nat
      /\ S \in Nat /\ ss \in Nat /\ gs \in Nat /\ T \in Nat /\ S >= 12
      /\ S + ss <= T - gs /\ T <= MemSize /\ T <= BufSize
      /\ fdt_off_mem_rsvmap(m) = 12 /\ fdt_version(m) = 17
  BY SwFacts
<1>1. new \in Nat /\ new <= T /\ new = S + ss + gs /\ new >= 10
  <2>1. fdt_off_dt_strings(m) = S + ss
    OBVIOUS
  <2> HIDE DEF S, ss, gs, T
  <2> QED BY <1>0, <2>1
<1>2. /\ m1 \in Memory /\ m1[1] = Num(new)
      /\ \A a \in 0 .. MemSize - 1 : a # 1 => m1[a] = m[a]
  <2> HIDE DEF new
  <2> QED BY <1>0, <1>1, SetMemory
<1> HIDE DEF m1
<1>3. /\ m2 \in Memory /\ m2[0] = Num(77)
      /\ \A a \in 0 .. MemSize - 1 : a # 0 => m2[a] = m1[a]
  BY <1>0, <1>2, SetMemory
<1> HIDE DEF m2
<1>4. m2[1] = Num(new) /\ \A a \in 0 .. MemSize - 1 : a > 1 => m2[a] = m[a]
  <2> HIDE DEF new
  <2> QED BY <1>0, <1>2, <1>3
<1>5. \A h \in 2 .. 9 : m2[h] = m[h]
  BY <1>0, <1>4
<1>6. /\ fdt_version(m2) = 17 /\ fdt_last_comp_version(m2) = 16
      /\ fdt_off_mem_rsvmap(m2) = 12 /\ fdt_off_dt_struct(m2) = S
      /\ fdt_size_dt_struct(m2) = ss /\ fdt_size_dt_strings(m2) = gs
      /\ fdt_off_dt_strings(m2) = S + ss
  <2>1. fdt_last_comp_version(m) = 16
    BY DEF SwGood
  <2> QED BY <1>0, <1>5, <2>1
    DEF fdt_version, fdt_last_comp_version, fdt_off_mem_rsvmap, fdt_off_dt_struct,
        fdt_size_dt_struct, fdt_size_dt_strings, fdt_off_dt_strings
<1>7. fdt_totalsize(m2) = new /\ fdt_magic(m2) = 77
  <2> HIDE DEF new
  <2> QED BY <1>1, <1>3, <1>4, CellFacts DEF fdt_totalsize, fdt_magic
<1>8. \A h \in 0 .. HeaderSize - 1 : m2[h].k = "num"
  <2>1. \A h \in 0 .. 9 : m[h].k = "num"
    BY DEF SwGood, Apart
  <2>2. Num(new).k = "num" /\ Num(77).k = "num"
    <3> HIDE DEF new
    <3> QED BY <1>1, CellFacts
  <2> HIDE DEF new
  <2> QED BY <1>3, <1>4, <1>5, <2>1, <2>2
<1>9. GoodHeader(m2)
  <2> HIDE DEF new, T
  <2> QED BY <1>0, <1>1, <1>6, <1>7, <1>8 DEF GoodHeader
<1>10. PICK n \in Nat : 12 + 4 * (n + 1) <= S /\ IsNumMemRsv(m, n)
  BY RsvListEnds, SwHead
<1>11. n \in 0 .. MemSize
  <2> HIDE DEF S, T, ss, gs
  <2> QED BY <1>0, <1>10
<1>12. ~fdt_blocks_misordered_(m2, RsvSize * (n + 1), fdt_size_dt_struct(m2))
  <2> HIDE DEF new, S, ss, gs, T
  <2> QED BY <1>0, <1>1, <1>6, <1>7, <1>10 DEF fdt_blocks_misordered_
<1>13. IsNumMemRsv(m2, n)
  <2>1. \A i \in 0 .. n : IsLastRsv(m2, i) <=> IsLastRsv(m, i)
    <3> TAKE i \in 0 .. n
    <3>1. /\ 12 + 4 * i + 2 \in 0 .. MemSize - 1 /\ 12 + 4 * i + 2 > 1
          /\ 12 + 4 * i + 3 \in 0 .. MemSize - 1 /\ 12 + 4 * i + 3 > 1
      <4> HIDE DEF S, T, ss, gs
      <4> QED BY <1>0, <1>10
    <3>2. m2[12 + 4 * i + 2] = m[12 + 4 * i + 2] /\ m2[12 + 4 * i + 3] = m[12 + 4 * i + 3]
      BY <1>4, <3>1
    <3> QED BY <1>0, <1>6, <3>2 DEF IsLastRsv
  <2> QED BY <1>10, <2>1 DEF IsNumMemRsv
<1>14. Good(m2)
  BY <1>3, <1>9, <1>11, <1>12, <1>13, GoodIntro
<1>15. Within(m, m2)
  <2> SUFFICES ASSUME NEW a \in 0 .. MemSize - 1, a >= T PROVE m2[a] = m[a]
    BY DEF Within
  <2>1. a > 1
    <3> HIDE DEF S, T, ss, gs
    <3> QED BY <1>0
  <2> QED BY <1>4, <2>1
<1>16. new <= fdt_totalsize(m)
  BY <1>1
<1> QED BY <1>7, <1>14, <1>15, <1>16 DEF m1, m2

\* What a call that may finish the blob promises.
Done(m, r) ==
    /\ r.ret \in Int
    /\ IF r.ret = 0 THEN Good(r.m) ELSE SwGood(r.m)
    /\ Within(m, r.m)
    /\ fdt_totalsize(r.m) <= fdt_totalsize(m)

\* fdt_finish leaves a blob in order, or one that is still under construction.
LEMMA FinishKept ==
    ASSUME NEW m, SwGood(m), fdt_size_dt_struct(m) > 0
    PROVE  Done(m, Finish(m))
<1> DEFINE cells == <<Num(FDT_END)>>
           g   == fdt_grab_space_(m, 1)
           r   == Written(g, cells)
           gs  == fdt_size_dt_strings(r.m)
           old == fdt_totalsize(r.m) - gs
           new == fdt_off_dt_struct(r.m) + fdt_size_dt_struct(r.m)
           m0  == Move(r.m, new, old, gs)
           m1  == Set(m0, hOffDtStrings, new)
           w   == Walk(m1, 0)
           m2  == Relocated(m1, w)
           m3  == Set(Set(m2, hTotalsize, new + fdt_size_dt_strings(m2)), hMagic, FDT_MAGIC)
           f   == Finish(m)
<1>1. f = IF r.ret < 0 THEN r
          ELSE IF Last(w).next < 0 THEN Return(Last(w).next, m2)
          ELSE Return(0, m3)
  BY Zenon DEF Finish
<1>2. /\ Held(m, r) /\ r.ret \in Int
      /\ r.ret < 0 \/ (r.ret = 0 /\ RsvDone(r.m))
  <2>1. RsvDone(m)
    BY DEF SwGood
  <2>2. cells \in [1 .. 1 -> Cell] /\ Len(cells) = 1
    BY Cells, CellFacts
  <2> HIDE DEF cells
  <2>3. g.ret \in Int
    BY <2>1, GrabSpace DEF Held
  <2>4. /\ Held(m, r)
        /\ g.ret >= 0 => RsvDone(r.m) /\ r.ret = 0
        /\ g.ret < 0 => r = g
    BY <2>1, <2>2, WrittenKept
  <2> HIDE DEF g, r
  <2> QED BY <2>3, <2>4 DEF Held
<1> DEFINE b == r.m
<1> HIDE DEF r
<1>3. CASE r.ret < 0
  <2>1. f = r
    <3> HIDE DEF f, m2, m3, w
    <3> QED BY <1>1, <1>3
  <2>2. fdt_totalsize(r.m) \in Nat
    BY <1>2, SwFacts DEF Held
  <2>3. r.ret # 0
    BY <1>3
  <2> HIDE DEF f
  <2>4. Done(m, f)
    BY <1>2, <2>1, <2>2, <2>3 DEF Done, Held
  <2> QED BY <2>4 DEF f
<1>4. CASE r.ret = 0
  <2>1. /\ SwGood(b) /\ RsvDone(b) /\ Within(m, b)
        /\ fdt_totalsize(b) = fdt_totalsize(m)
    BY <1>2, <1>4 DEF Held
  <2> HIDE DEF b
  <2>2. /\ b \in Memory /\ MemSize \in Nat
        /\ fdt_totalsize(b) \in Nat /\ fdt_totalsize(b) <= MemSize
        /\ fdt_off_dt_struct(b) \in Nat /\ fdt_size_dt_struct(b) \in Nat
        /\ fdt_size_dt_strings(b) \in Nat
        /\ fdt_off_dt_struct(b) + fdt_size_dt_struct(b)
              <= fdt_totalsize(b) - fdt_size_dt_strings(b)
    BY <2>1, SwFacts
  <2>3. /\ gs = fdt_size_dt_strings(b) /\ old = fdt_totalsize(b) - gs
        /\ new = fdt_off_dt_struct(b) + fdt_size_dt_struct(b)
        /\ m0 = Move(b, new, old, gs)
    BY DEF b
  <2> HIDE DEF m0, m1, m2, m3, w, f, gs, old, new
  <2>4. /\ gs \in Nat /\ old \in Nat /\ new \in Nat /\ old + gs = fdt_totalsize(b)
        /\ new + gs <= fdt_totalsize(b) /\ fdt_off_dt_struct(b) <= new
        /\ old + gs <= MemSize
    BY <2>2, <2>3
  <2>5. /\ m0 \in Memory
        /\ \A a \in 0 .. MemSize - 1 : a < new \/ a >= new + gs => m0[a] = b[a]
    <3>1. b \in Memory /\ new \in Nat /\ old \in Nat /\ gs \in Int /\ old + gs <= MemSize
      BY <2>2, <2>4
    <3>2. m0 \in Memory
      BY <2>3, <3>1, MoveMemory
    <3>3. \A a \in 0 .. MemSize - 1 : a < new \/ a >= new + gs => m0[a] = b[a]
      <4> TAKE a \in 0 .. MemSize - 1
      <4>1. a \in DOMAIN b /\ a \in Int /\ gs \in Nat
        BY <2>4, <3>1 DEF Memory
      <4>2. a < new \/ a >= new + gs => Move(b, new, old, gs)[a] = b[a]
        BY <3>1, <4>1, MovedCell
      <4> QED BY <2>3, <4>2
    <3> QED BY <3>2, <3>3
  <2>6. \A a \in 0 .. MemSize - 1 :
            a < fdt_off_dt_struct(b) \/ a >= fdt_totalsize(b) => m0[a] = b[a]
    BY <2>2, <2>4, <2>5
  <2>7. /\ SwGood(m0) /\ Within(b, m0) /\ fdt_totalsize(m0) = fdt_totalsize(b)
        /\ SwSame(b, m0)
    BY <2>1, <2>5, <2>6, SwWritten
  <2>8. /\ SwGood(m1) /\ Within(m0, m1) /\ fdt_totalsize(m1) = fdt_totalsize(m0)
        /\ SwSame(m0, m1) /\ fdt_off_dt_strings(m1) = new
    BY <2>4, <2>7, SetOffStrings DEF m1
  <2>9. /\ SwGood(m2) /\ Within(m1, m2) /\ fdt_totalsize(m2) = fdt_totalsize(m1)
        /\ SwSame(m1, m2) /\ fdt_off_dt_strings(m2) = fdt_off_dt_strings(m1)
    BY <2>8, RelocatedKept DEF m2, w
  <2>10. fdt_totalsize(m2) = fdt_totalsize(b) /\ Within(b, m2)
    BY <2>7, <2>8, <2>9 DEF Within
  <2>11. fdt_totalsize(m2) = fdt_totalsize(m) /\ Within(m, m2)
    BY <2>1, <2>10 DEF Within
  <2>12. Last(w).next \in Int
    <3>1. Readable(m1)
      BY <2>8, SwFacts DEF Readable
    <3>2. Last(w) \in w
      BY <3>1, WalkStop DEF w
    <3>3. Last(w).at \in Nat /\ Last(w).next = fdt_next_tag(m1, Last(w).at).next
      BY <3>2, WalkItems, <2>2 DEF w
    <3> QED BY <3>1, <3>3, NextTag
  <2>13. CASE Last(w).next < 0
    <3>1. f = [ret |-> Last(w).next, m |-> m2, p |-> 0]
      BY <1>1, <1>4, <2>13 DEF Return
    <3>2. f.ret = Last(w).next /\ f.m = m2
      BY <3>1
    <3>3. f.ret \in Int /\ f.ret # 0
      BY <2>12, <2>13, <3>2
    <3>4. fdt_totalsize(f.m) <= fdt_totalsize(m)
      BY <2>2, <2>1, <2>11, <3>2
    <3>5. Done(m, f)
      BY <2>9, <2>11, <3>2, <3>3, <3>4 DEF Done
    <3> QED BY <3>5 DEF f
  <2>14. CASE ~(Last(w).next < 0)
    <3>1. f = [ret |-> 0, m |-> m3, p |-> 0]
      BY <1>1, <1>4, <2>14 DEF Return
    <3>2. f.ret = 0 /\ f.m = m3
      BY <3>1
    <3>3. /\ RsvDone(m2)
          /\ fdt_off_dt_strings(m2) = new
          /\ fdt_off_dt_struct(m2) + fdt_size_dt_struct(m2) = new
      BY <2>1, <2>3, <2>7, <2>8, <2>9 DEF SwSame
    <3>4. /\ Good(m3) /\ Within(m2, m3)
          /\ fdt_totalsize(m3) <= fdt_totalsize(m2)
      <4>1. m3 = Set(Set(m2, hTotalsize, fdt_off_dt_strings(m2) + fdt_size_dt_strings(m2)),
                     hMagic, FDT_MAGIC)
        BY <3>3 DEF m3
      <4> QED BY <2>9, <3>3, <4>1, FinishedGood
    <3>5. Within(m, m3)
      BY <2>11, <3>4 DEF Within
    <3>6. Done(m, f)
      BY <2>11, <3>2, <3>4, <3>5 DEF Done
    <3> QED BY <3>6 DEF f
  <2> QED BY <2>13, <2>14 DEF f
<1> QED BY <1>2, <1>3, <1>4

-----------------------------------------------------------------------------
(* fdt_create_empty_tree.                                                  *)

\* One of its steps: a blob under construction in the buffer's n words, or an
\* error that has left such a blob or the memory as it was.
Building(m, n, r) ==
    /\ r.ret \in Int
    /\ \A a \in 0 .. MemSize - 1 : a >= n => r.m[a] = m[a]
    /\ \/ SwGood(r.m) /\ fdt_totalsize(r.m) <= n
       \/ r.ret # 0 /\ r.m = m

\* The next step after one that has returned 0.
LEMMA BuildingThen ==
    ASSUME NEW m, NEW n \in Nat, NEW r, Building(m, n, r), NEW r2,
           r.ret = 0 => Held(r.m, r2)
    PROVE  Building(m, n, Then(r, r2)) /\ (Then(r, r2).ret = 0 => r.ret = 0 /\ r2.ret = 0)
<1>1. CASE r.ret # 0
  BY <1>1 DEF Then
<1>2. CASE r.ret = 0
  <2>1. SwGood(r.m) /\ fdt_totalsize(r.m) <= n /\ Held(r.m, r2)
    BY <1>2 DEF Building
  <2>2. SwGood(r2.m) /\ fdt_totalsize(r2.m) = fdt_totalsize(r.m) /\ r2.ret \in Int
    BY <2>1 DEF Held
  <2>3. fdt_totalsize(r.m) \in Nat /\ MemSize \in Nat
    BY <2>1, SwFacts
  <2>4. \A a \in 0 .. MemSize - 1 : a >= n => r2.m[a] = m[a]
    <3> SUFFICES ASSUME NEW a \in 0 .. MemSize - 1, a >= n PROVE r2.m[a] = m[a]
      OBVIOUS
    <3>1. a >= fdt_totalsize(r.m)
      BY <2>1, <2>3
    <3> QED BY <2>1, <3>1 DEF Held, Within, Building
  <2>5. Then(r, r2) = r2
    BY <1>2 DEF Then
  <2> QED BY <1>2, <2>1, <2>2, <2>4, <2>5 DEF Building
<1> QED BY <1>1, <1>2

\* A buffer with room for the header alone gets no reservations.
LEMMA SmallReserved ==
    ASSUME NEW m, SwSmall(m), NEW rsv
    PROVE  AddReservemapEntry(m, rsv) = Return(-FDT_ERR_NOSPACE, m)
<1>1. fdt_totalsize(m) \in Nat
  BY HeaderNat DEF SwSmall
<1>2. /\ fdt_off_dt_struct(m) = 12 /\ fdt_size_dt_struct(m) = 0
      /\ fdt_totalsize(m) < 12
  BY SwHead DEF SwSmall, Bare
<1>3. fdt_off_dt_struct(m) + RsvSize > fdt_totalsize(m)
  BY <1>1, <1>2
<1> QED BY <1>2, <1>3 DEF AddReservemapEntry

\* It has no node.
LEMMA SmallEmpty ==
    ASSUME NEW m, SwSmall(m)
    PROVE  /\ fdt_size_dt_struct(m) = 0 /\ ~(fdt_size_dt_struct(m) > 0)
           /\ ~RsvDone(m)
  BY SwHead DEF SwSmall, Bare, RsvDone

\* fdt_create_empty_tree makes no tree in it.
LEMMA EmptyTreeSmall ==
    ASSUME NEW m \in Memory, NEW bufsize \in 0 .. BufSize, bufsize < SwHeadSize
    PROVE  LET r == EmptyTree(m, bufsize)
           IN  /\ r.ret \in Int /\ r.ret # 0
               /\ r.m = m \/ SwSmall(r.m)
               /\ \A a \in 0 .. MemSize - 1 : a >= bufsize => r.m[a] = m[a]
<1> DEFINE r1 == Create(m, bufsize)
           r2 == Then(r1, FinishReservemap(r1.m))
           r3 == Then(r2, BeginNode(r2.m, "", 0))
           r4 == Then(r3, EndNode(r3.m))
           r5 == Then(r4, Finish(r4.m))
           f  == Then(r5, OpenInto(r5.m, bufsize))
<1>0. EmptyTree(m, bufsize) = f
  BY Zenon DEF EmptyTree
<1>1. /\ r1.ret \in Int
      /\ r1.ret # 0 => r1.m = m
      /\ r1.ret = 0 =>
            /\ SwSmall(r1.m)
            /\ \A a \in 0 .. MemSize - 1 : a >= bufsize => r1.m[a] = m[a]
  BY CreateKept
<1> HIDE DEF r1
<1>2. r2.ret \in Int /\ r2.ret # 0 /\ r2.m = r1.m
  <2>1. CASE r1.ret # 0
    BY <1>1, <2>1 DEF Then
  <2>2. CASE r1.ret = 0
    <3>1. FinishReservemap(r1.m) = Return(-FDT_ERR_NOSPACE, r1.m)
      BY <1>1, <2>2, SmallReserved DEF FinishReservemap
    <3> DEFINE q == FinishReservemap(r1.m)
    <3>2. q.ret = -3 /\ q.m = r1.m
      BY <3>1 DEF Return
    <3>3. r2 = q
      BY <2>2 DEF Then
    <3> HIDE DEF q, r2
    <3> QED BY <3>2, <3>3
  <2> QED BY <2>1, <2>2
<1> HIDE DEF r2
<1>3. r3 = r2
  BY <1>2 DEF Then
<1> HIDE DEF r3
<1>4. r4 = r2
  BY <1>2, <1>3 DEF Then
<1> HIDE DEF r4
<1>5. r5 = r2
  BY <1>2, <1>4 DEF Then
<1> HIDE DEF r5
<1>6. f = r2
  BY <1>2, <1>5 DEF Then
<1> HIDE DEF f
<1> QED BY <1>0, <1>1, <1>2, <1>6

\* fdt_create_empty_tree leaves a blob in order, or reports an error, and writes
\* nothing behind the buffer.
LEMMA EmptyTreeBuilt ==
    ASSUME NEW m \in Memory, NEW bufsize \in 0 .. BufSize, ~(bufsize < SwHeadSize)
    PROVE  LET r == EmptyTree(m, bufsize)
           IN  /\ r.ret \in Int
               /\ Good(r.m) \/ SwGood(r.m) \/ (r.ret # 0 /\ r.m = m)
               /\ \A a \in 0 .. MemSize - 1 : a >= bufsize => r.m[a] = m[a]
<1> DEFINE rsv == [address |-> 0, size |-> 0]
           r1 == Create(m, bufsize)
           r2 == Then(r1, FinishReservemap(r1.m))
           r3 == Then(r2, BeginNode(r2.m, "", 0))
           r4 == Then(r3, EndNode(r3.m))
           r5 == Then(r4, Finish(r4.m))
           f  == Then(r5, OpenInto(r5.m, bufsize))
<1>0. EmptyTree(m, bufsize) = f
  BY Zenon DEF EmptyTree
<1>1. bufsize \in Nat /\ MemSize \in Nat
  BY BufAssumption, MemAssumption
<1>2. Building(m, bufsize, r1)
  <2>1. /\ r1.ret \in Int
        /\ r1.ret # 0 => r1.m = m
        /\ r1.ret = 0 =>
                /\ SwGood(r1.m)
                /\ fdt_totalsize(r1.m) = bufsize
                /\ \A a \in 0 .. MemSize - 1 : a >= bufsize => r1.m[a] = m[a]
    BY CreateKept
  <2> HIDE DEF r1
  <2> QED BY <1>1, <2>1 DEF Building
<1> HIDE DEF r1
<1>3. /\ Building(m, bufsize, r2)
      /\ r2.ret = 0 => RsvDone(r2.m)
  <2> DEFINE q == FinishReservemap(r1.m)
  <2>1. r1.ret = 0 => Held(r1.m, q) /\ (q.ret = 0 => RsvDone(q.m))
    <3> SUFFICES ASSUME r1.ret = 0
                 PROVE  Held(r1.m, q) /\ (q.ret = 0 => RsvDone(q.m))
      OBVIOUS
    <3>1. SwGood(r1.m)
      BY <1>2 DEF Building
    <3>2. rsv \in [address : Nat, size : Nat] /\ rsv.size = 0
      OBVIOUS
    <3>3. q = AddReservemapEntry(r1.m, rsv)
      BY DEF FinishReservemap
    <3> HIDE DEF rsv, q
    <3> QED BY <3>1, <3>2, <3>3, ReserveKept
  <2> HIDE DEF q
  <2>2. r2 = Then(r1, q)
    BY DEF q
  <2> HIDE DEF r2
  <2>3. Building(m, bufsize, r2) /\ (r2.ret = 0 => r1.ret = 0 /\ q.ret = 0)
    BY <1>1, <1>2, <2>1, <2>2, BuildingThen
  <2>4. r2.ret = 0 => r2 = q
    BY <2>2, <2>3 DEF Then
  <2> QED BY <2>1, <2>3, <2>4
<1> HIDE DEF r2
<1>4. /\ Building(m, bufsize, r3)
      /\ r3.ret = 0 => RsvDone(r3.m)
  <2> DEFINE q == BeginNode(r2.m, "", 0)
  <2>1. r2.ret = 0 => Held(r2.m, q) /\ (q.ret = 0 => RsvDone(q.m))
    <3> SUFFICES ASSUME r2.ret = 0
                 PROVE  Held(r2.m, q) /\ (q.ret = 0 => RsvDone(q.m))
      OBVIOUS
    <3>1. SwGood(r2.m) /\ RsvDone(r2.m)
      BY <1>3 DEF Building
    <3>2. "" \in Names /\ 0 \in Nat
      BY NameAssumption
    <3> QED BY <3>1, <3>2, BeginNodeKept
  <2> HIDE DEF q
  <2>2. r3 = Then(r2, q)
    BY DEF q
  <2> HIDE DEF r3
  <2>3. Building(m, bufsize, r3) /\ (r3.ret = 0 => r2.ret = 0 /\ q.ret = 0)
    BY <1>1, <1>3, <2>1, <2>2, BuildingThen
  <2>4. r3.ret = 0 => r3 = q
    BY <2>2, <2>3 DEF Then
  <2> QED BY <2>1, <2>3, <2>4
<1> HIDE DEF r3
<1>5. /\ Building(m, bufsize, r4)
      /\ r4.ret = 0 => fdt_size_dt_struct(r4.m) > 0
  <2> DEFINE q == EndNode(r3.m)
  <2>1. r3.ret = 0 => Held(r3.m, q) /\ (q.ret = 0 => fdt_size_dt_struct(q.m) > 0)
    <3> SUFFICES ASSUME r3.ret = 0
                 PROVE  Held(r3.m, q) /\ (q.ret = 0 => fdt_size_dt_struct(q.m) > 0)
      OBVIOUS
    <3>1. SwGood(r3.m) /\ RsvDone(r3.m)
      BY <1>4 DEF Building
    <3> QED BY <3>1, EndNodeKept
  <2> HIDE DEF q
  <2>2. r4 = Then(r3, q)
    BY DEF q
  <2> HIDE DEF r4
  <2>3. Building(m, bufsize, r4) /\ (r4.ret = 0 => r3.ret = 0 /\ q.ret = 0)
    BY <1>1, <1>4, <2>1, <2>2, BuildingThen
  <2>4. r4.ret = 0 => r4 = q
    BY <2>2, <2>3 DEF Then
  <2> QED BY <2>1, <2>3, <2>4
<1> HIDE DEF r4
<1>6. /\ r5.ret \in Int
      /\ \A a \in 0 .. MemSize - 1 : a >= bufsize => r5.m[a] = m[a]
      /\ r5.ret # 0 => SwGood(r5.m) \/ r5.m = m
      /\ r5.ret = 0 => Good(r5.m) /\ fdt_totalsize(r5.m) <= bufsize
  <2>1. CASE r4.ret # 0
    <3>1. r5 = r4
      BY <2>1 DEF Then
    <3> QED BY <1>5, <2>1, <3>1 DEF Building
  <2>2. CASE r4.ret = 0
    <3> DEFINE q == Finish(r4.m)
    <3>1. r5 = q
      BY <2>2 DEF Then
    <3>2. SwGood(r4.m) /\ fdt_totalsize(r4.m) <= bufsize
      BY <1>5, <2>2 DEF Building
    <3>3. Done(r4.m, q)
      BY <1>5, <2>2, <3>2, FinishKept
    <3> HIDE DEF q, r5
    <3>4. fdt_totalsize(r4.m) \in Nat
      BY <3>2, SwFacts
    <3>5. q.ret = 0 => fdt_totalsize(q.m) <= bufsize
      <4> SUFFICES ASSUME q.ret = 0 PROVE fdt_totalsize(q.m) <= bufsize
        OBVIOUS
      <4>1. fdt_totalsize(q.m) \in Nat /\ fdt_totalsize(q.m) <= fdt_totalsize(r4.m)
        BY <3>3, GoodFacts DEF Done
      <4> QED BY <1>1, <3>2, <3>4, <4>1
    <3>6. \A a \in 0 .. MemSize - 1 : a >= bufsize => q.m[a] = m[a]
      <4> SUFFICES ASSUME NEW a \in 0 .. MemSize - 1, a >= bufsize PROVE q.m[a] = m[a]
        OBVIOUS
      <4>1. a >= fdt_totalsize(r4.m)
        BY <1>1, <3>2, <3>4
      <4>2. q.m[a] = r4.m[a]
        BY <3>3, <4>1 DEF Done, Within
      <4> QED BY <1>5, <4>2 DEF Building
    <3> QED BY <3>1, <3>3, <3>5, <3>6 DEF Done
  <2> QED BY <2>1, <2>2
<1> HIDE DEF r5
<1>7. CASE r5.ret # 0
  <2>1. f = r5
    BY <1>7 DEF Then
  <2> QED BY <1>0, <1>6, <1>7, <2>1
<1>8. CASE r5.ret = 0
  <2> DEFINE q == OpenInto(r5.m, bufsize)
  <2>1. f = q
    BY <1>8 DEF Then
  <2>2. Good(r5.m) /\ fdt_totalsize(r5.m) <= bufsize
    BY <1>6, <1>8
  <2>3. q.ret \in Int /\ Good(q.m) /\ Within(r5.m, q.m)
    BY <2>2, OpenIntoGood
  <2>4. fdt_totalsize(r5.m) \in Nat
    BY <2>2, GoodFacts
  <2> HIDE DEF q, f
  <2>5. \A a \in 0 .. MemSize - 1 : a >= bufsize => q.m[a] = m[a]
    <3> SUFFICES ASSUME NEW a \in 0 .. MemSize - 1, a >= bufsize PROVE q.m[a] = m[a]
      OBVIOUS
    <3>1. a >= fdt_totalsize(r5.m)
      BY <1>1, <2>2, <2>4
    <3>2. q.m[a] = r5.m[a]
      BY <2>3, <3>1 DEF Within
    <3> QED BY <1>6, <3>2
  <2> QED BY <1>0, <2>1, <2>3, <2>5
<1> QED BY <1>7, <1>8

\* For every buffer.
LEMMA EmptyTreeKept ==
    ASSUME NEW m \in Memory, NEW bufsize \in 0 .. BufSize
    PROVE  LET r == EmptyTree(m, bufsize)
           IN  /\ r.ret \in Int
               /\ Good(r.m) \/ SwGood(r.m) \/ SwSmall(r.m) \/ (r.ret # 0 /\ r.m = m)
               /\ \A a \in 0 .. MemSize - 1 : a >= bufsize => r.m[a] = m[a]
<1> DEFINE r == EmptyTree(m, bufsize)
<1>1. CASE bufsize < SwHeadSize
  <2>1. /\ r.ret \in Int /\ r.ret # 0
        /\ r.m = m \/ SwSmall(r.m)
        /\ \A a \in 0 .. MemSize - 1 : a >= bufsize => r.m[a] = m[a]
    BY <1>1, EmptyTreeSmall
  <2> HIDE DEF r
  <2> QED BY <2>1 DEF r
<1>2. CASE ~(bufsize < SwHeadSize)
  <2>1. /\ r.ret \in Int
        /\ Good(r.m) \/ SwGood(r.m) \/ (r.ret # 0 /\ r.m = m)
        /\ \A a \in 0 .. MemSize - 1 : a >= bufsize => r.m[a] = m[a]
    BY <1>2, EmptyTreeBuilt
  <2> HIDE DEF r
  <2> QED BY <2>1 DEF r
<1> QED BY <1>1, <1>2

-----------------------------------------------------------------------------
(* The steps.                                                              *)

\* A node that is still open takes space.
LEMMA OpenNodeHasSpace ==
    ASSUME NEW m, SwGood(m) \/ SwSmall(m), OpenNodes(Walk(m, 0)) > 0
    PROVE  fdt_size_dt_struct(m) > 0
<1> DEFINE w == Walk(m, 0)
<1>1. fdt_size_dt_struct(m) \in Nat /\ Readable(m) /\ MemSize \in Nat
  <2>1. CASE SwGood(m)
    BY <2>1, SwFacts DEF Readable
  <2>2. CASE SwSmall(m)
    <3>1. /\ m \in Memory /\ fdt_version(m) = 17 /\ fdt_totalsize(m) <= BufSize
          /\ fdt_totalsize(m) \in Nat /\ fdt_size_dt_struct(m) \in Nat
      BY <2>2, HeaderNat DEF SwSmall, Apart
    <3> QED BY <3>1, MemAssumption, BufAssumption DEF Readable
  <2> QED BY <2>1, <2>2
<1>2. SUFFICES ASSUME fdt_size_dt_struct(m) = 0
               PROVE  FALSE
  BY <1>1
<1>3. ASSUME NEW x \in w
      PROVE  x.tag = FDT_END
  <2> DEFINE at == x.at
             nt == fdt_next_tag(m, at)
  <2>1. at \in Nat /\ x.tag = nt.tag
    BY <1>1, WalkItems
  <2> HIDE DEF at
  <2>2. /\ nt.tag # FDT_END => nt.next \in Nat
        /\ nt.next \in Nat => at < nt.next /\ nt.next <= fdt_size_dt_struct(m)
    BY <1>1, <2>1, NextTag
  <2> HIDE DEF nt
  <2>3. ~(nt.next \in Nat)
    BY <1>2, <2>1, <2>2
  <2> QED BY <2>1, <2>2, <2>3
<1>4. Tagged(w, {FDT_BEGIN_NODE}) = {} /\ Tagged(w, {FDT_END_NODE}) = {}
  BY <1>3 DEF Tagged
<1>5. Depth(w, Last(w)) = Cardinality({}) - Cardinality({})
  <2> DEFINE N(A) == {y \in A : y.at <= Last(w).at}
  <2>1. Depth(w, Last(w)) = Cardinality(N(Tagged(w, {FDT_BEGIN_NODE})))
                            - Cardinality(N(Tagged(w, {FDT_END_NODE})))
    BY Zenon DEF Depth
  <2>2. N({}) = {}
    OBVIOUS
  <2> HIDE DEF N, w
  <2> QED BY <1>4, <2>1, <2>2
<1>6. Depth(w, Last(w)) = 0
  BY <1>5, FS_EmptySet
<1> QED BY <1>6 DEF OpenNodes

\* The larger of two numbers.
LEMMA MaxOfTwo ==
    ASSUME NEW x \in Int, NEW y \in Int
    PROVE  Max({x, y}) \in Int /\ Max({x, y}) >= x /\ Max({x, y}) >= y
<1>1. \E z \in {x, y} : \A u \in {x, y} : z >= u
  OBVIOUS
<1> QED BY <1>1 DEF Max

\* The invariant: a blob under construction, a finished one, or none so far,
\* which no call but the first can change.
SwInv ==
    \/ SwGood(mem)
    \/ SwSmall(mem)
    \/ Good(mem)
    \/ /\ mem \in Memory
       /\ fdt_magic(mem) \notin {FDT_MAGIC, FDT_SW_MAGIC}
       /\ call.op = "none" \/ ret # 0

\* Nothing behind the end of the buffer changes.
SwInside ==
    call'.op # "resize" =>
        \A a \in DOMAIN mem :
            a >= (IF call'.op \in {"create", "create_empty_tree"} THEN call'.n
                  ELSE Max({fdt_totalsize(mem), fdt_totalsize(mem')}))
            => mem'[a] = mem[a]

\* What the invariant says of the memory.
LEMMA SwInvFacts ==
    ASSUME SwInv
    PROVE  /\ mem \in Memory /\ DOMAIN mem = 0 .. MemSize - 1
           /\ Unfinished => SwGood(mem) \/ SwSmall(mem)
           /\ fdt_magic(mem) = FDT_MAGIC => Good(mem)
<1>1. SwGood(mem) \/ SwSmall(mem) => fdt_magic(mem) = FDT_SW_MAGIC /\ mem \in Memory
  BY DEF SwGood, SwSmall
<1>2. Good(mem) => fdt_magic(mem) = FDT_MAGIC /\ mem \in Memory
  BY DEF Good, InOrder
<1>3. mem \in Memory
  BY <1>1, <1>2 DEF SwInv
<1>4. DOMAIN mem = 0 .. MemSize - 1
  BY <1>3 DEF Memory
<1> QED BY <1>1, <1>2, <1>3, <1>4 DEF SwInv, Unfinished

\* A step that writes below the end of the buffer only.
LEMMA WithinInside ==
    ASSUME mem \in Memory, mem' \in Memory, Within(mem, mem'),
           call'.op \notin {"create", "create_empty_tree"}
    PROVE  SwInside
<1>1. /\ fdt_totalsize(mem) \in Int /\ fdt_totalsize(mem') \in Int
      /\ DOMAIN mem = 0 .. MemSize - 1 /\ MemSize \in Nat
  BY HeaderNat, MemAssumption DEF Memory
<1>2. /\ Max({fdt_totalsize(mem), fdt_totalsize(mem')}) \in Int
      /\ Max({fdt_totalsize(mem), fdt_totalsize(mem')}) >= fdt_totalsize(mem)
  BY <1>1, MaxOfTwo
<1> QED BY <1>1, <1>2 DEF SwInside, Within

\* A call on the blob that the header check refuses, or that does r.
LEMMA SwCallSafe ==
    ASSUME SwInv, NEW c, NEW r,
           Returns(c, IF ~Unfinished THEN Return(-FDT_ERR_BADMAGIC, mem) ELSE r),
           c.op \notin {"create", "create_empty_tree"},
           Unfinished => /\ SwGood(r.m) \/ SwSmall(r.m) \/ Good(r.m)
                         /\ c.op = "resize" \/ Within(mem, r.m)
    PROVE  SwInv' /\ SwInside
<1>1. CASE ~Unfinished
  <2>1. ret' = -9 /\ mem' = mem /\ call' = c
    BY <1>1 DEF Returns, Return
  <2>2. SwInv'
    <3>1. (SwGood(mem) => SwGood(mem')) /\ (SwSmall(mem) => SwSmall(mem'))
      BY <2>1
    <3>2. Good(mem) => Good(mem')
      BY <2>1
    <3>3. ret' # 0
      BY <2>1
    <3>4. /\ mem \in Memory => mem' \in Memory
          /\ fdt_magic(mem') = fdt_magic(mem)
      BY <2>1
    <3> QED BY <3>1, <3>2, <3>3, <3>4 DEF SwInv
  <2>3. SwInside
    BY <2>1 DEF SwInside
  <2> QED BY <2>2, <2>3
<1>2. CASE Unfinished
  <2>1. mem' = r.m /\ call' = c
    BY <1>2 DEF Returns
  <2>2. SwGood(mem') \/ SwSmall(mem') \/ Good(mem')
    BY <1>2, <2>1
  <2>3. mem \in Memory /\ mem' \in Memory
    BY <2>2, SwInvFacts DEF SwGood, SwSmall, Good
  <2>4. SwInside
    <3>1. CASE c.op = "resize"
      BY <2>1, <3>1 DEF SwInside
    <3>2. CASE c.op # "resize"
      <4>1. Within(mem, mem')
        BY <1>2, <2>1, <3>2
      <4> QED BY <2>1, <2>3, <4>1, WithinInside
    <3> QED BY <3>1, <3>2
  <2> QED BY <2>2, <2>4 DEF SwInv
<1> QED BY <1>1, <1>2

\* fdt_create.
LEMMA CreateStep ==
    ASSUME SwInv, mem \in Memory, fdt_create
    PROVE  SwInv' /\ SwInside
<1>0. DOMAIN mem = 0 .. MemSize - 1
  BY DEF Memory
<1>1. PICK size \in SwSizes :
        Returns(Call("create", 0, None, NoVal, size), Create(mem, size))
  BY DEF fdt_create
<1> DEFINE r == Create(mem, size)
<1>2. /\ mem' = r.m /\ ret' = r.ret /\ call'.op = "create" /\ call'.n = size
  BY <1>1, Zenon DEF Returns, Call
<1>3. size \in 0 .. BufSize
  BY SwAssumption
<1>4. /\ r.ret # 0 => r.m = mem
      /\ r.ret = 0 =>
           /\ SwGood(r.m) \/ SwSmall(r.m)
           /\ \A a \in 0 .. MemSize - 1 : a >= size => r.m[a] = mem[a]
  BY <1>0, <1>3, CreateKept
<1> HIDE DEF r
<1>5. SwInv'
  BY <1>2, <1>4 DEF SwInv
<1>6. SwInside
  BY <1>0, <1>2, <1>4 DEF SwInside
<1> QED BY <1>5, <1>6

\* fdt_create_empty_tree.
LEMMA EmptyTreeStep ==
    ASSUME SwInv, mem \in Memory, fdt_create_empty_tree
    PROVE  SwInv' /\ SwInside
<1>0. DOMAIN mem = 0 .. MemSize - 1
  BY DEF Memory
<1>1. PICK size \in SwSizes :
        Returns(Call("create_empty_tree", 0, None, NoVal, size), EmptyTree(mem, size))
  BY DEF fdt_create_empty_tree
<1> DEFINE r == EmptyTree(mem, size)
<1>2. /\ mem' = r.m /\ ret' = r.ret /\ call'.op = "create_empty_tree" /\ call'.n = size
  BY <1>1, Zenon DEF Returns, Call
<1>3. size \in 0 .. BufSize
  BY SwAssumption
<1>4. /\ Good(r.m) \/ SwGood(r.m) \/ SwSmall(r.m) \/ (r.ret # 0 /\ r.m = mem)
      /\ \A a \in 0 .. MemSize - 1 : a >= size => r.m[a] = mem[a]
  BY <1>0, <1>3, EmptyTreeKept
<1> HIDE DEF r
<1>5. SwInv'
  BY <1>2, <1>4 DEF SwInv
<1>6. SwInside
  BY <1>0, <1>2, <1>4 DEF SwInside
<1> QED BY <1>5, <1>6

\* Every call keeps the blocks apart and stays inside the buffer.
LEMMA SwStep ==
    ASSUME ~AnyResize, ~AnyOrder, SwInv, SwNext
    PROVE  SwInv' /\ SwInside
<1>0. /\ mem \in Memory /\ DOMAIN mem = 0 .. MemSize - 1
      /\ Unfinished => SwGood(mem) \/ SwSmall(mem)
  BY SwInvFacts
<1>1. CASE fdt_create
  BY <1>0, <1>1, CreateStep
<1>2. CASE fdt_create_empty_tree
  BY <1>0, <1>2, EmptyTreeStep
<1>3. CASE OpenFinished
  <2>1. PICK size \in BufSizes :
          Returns(Call("open_into", 0, None, NoVal, size), OpenInto(mem, size))
    BY <1>3 DEF OpenFinished, fdt_open_into
  <2> DEFINE r == OpenInto(mem, size)
  <2>2. mem' = r.m /\ call'.op = "open_into"
    BY <2>1, Zenon DEF Returns, Call
  <2>3. size \in 0 .. BufSize
    BY BufAssumption
  <2>4. Good(mem)
    BY <1>3, SwInvFacts DEF OpenFinished
  <2>5. Good(r.m) /\ Within(mem, r.m)
    BY <2>3, <2>4, OpenIntoGood
  <2> HIDE DEF r
  <2>6. mem' \in Memory
    BY <2>2, <2>5 DEF Good
  <2>7. SwInside
    BY <1>0, <2>2, <2>5, <2>6, WithinInside
  <2> QED BY <2>2, <2>5, <2>7 DEF SwInv
<1>4. CASE fdt_resize
  <2>1. PICK shift \in Shifts, size \in SwSizes :
          /\ Unfinished => MayResize(shift, size)
          /\ SwReturns(Call("resize", 0, None, <<shift>>, size),
                       LAMBDA m : Resize(m, shift, size))
    BY <1>4 DEF fdt_resize
  <2> DEFINE c == Call("resize", 0, None, <<shift>>, size)
             r == Resize(mem, shift, size)
  <2>2. Returns(c, IF ~Unfinished THEN Return(-FDT_ERR_BADMAGIC, mem) ELSE r)
    BY <2>1 DEF SwReturns
  <2>3. ASSUME Unfinished
        PROVE  SwGood(r.m) \/ SwSmall(r.m)
    <3>1. shift \in -MemSize .. MemSize /\ size \in 0 .. BufSize
      BY SwAssumption
    <3>2. \/ fdt_size_dt_struct(mem) = 0
          \/ size >= fdt_off_dt_struct(mem) + fdt_size_dt_struct(mem)
                     + fdt_size_dt_strings(mem)
      BY <2>1, <2>3 DEF MayResize
    <3>3. (r.ret # 0 => r.m = mem) /\ (r.ret = 0 => SwGood(r.m))
      BY <1>0, <2>3, <3>1, <3>2, BufferResized
    <3> HIDE DEF r
    <3> QED BY <1>0, <2>3, <3>3
  <2>4. c.op = "resize"
    BY Zenon DEF Call
  <2> HIDE DEF c, r
  <2> QED BY <2>2, <2>3, <2>4, SwCallSafe
<1>5. CASE fdt_add_reservemap_entry
  <2>1. PICK rsv \in Rsvs :
          /\ Unfinished => MayReserve
          /\ SwReturns(Call("add_reservemap_entry", 0, None, <<rsv.address, rsv.size>>, 0),
                       LAMBDA m : AddReservemapEntry(m, rsv))
    BY <1>5 DEF fdt_add_reservemap_entry
  <2> DEFINE c == Call("add_reservemap_entry", 0, None, <<rsv.address, rsv.size>>, 0)
             r == AddReservemapEntry(mem, rsv)
  <2>2. Returns(c, IF ~Unfinished THEN Return(-FDT_ERR_BADMAGIC, mem) ELSE r)
    BY <2>1 DEF SwReturns
  <2>3. ASSUME Unfinished
        PROVE  (SwGood(r.m) \/ SwSmall(r.m) \/ Good(r.m)) /\ Within(mem, r.m)
    <3>1. rsv \in [address : Nat, size : Nat]
      BY ArgAssumption
    <3>2. SwGood(mem) => Held(mem, r)
      BY <3>1, ReserveKept
    <3>3. SwSmall(mem) => r.m = mem
      BY <3>1, SmallReserved DEF Return
    <3> HIDE DEF r
    <3>4. SwGood(mem) => SwGood(r.m) /\ Within(mem, r.m)
      BY <3>2 DEF Held
    <3>5. SwSmall(mem) => SwSmall(r.m) /\ Within(mem, r.m)
      BY <3>3 DEF Within
    <3> QED BY <1>0, <2>3, <3>4, <3>5
  <2>4. c.op = "add_reservemap_entry"
    BY Zenon DEF Call
  <2> HIDE DEF c, r
  <2> QED BY <2>2, <2>3, <2>4, SwCallSafe
<1>6. CASE fdt_finish_reservemap
  <2>1. /\ Unfinished => MayReserve
        /\ SwReturns(Call("finish_reservemap", 0, None, NoVal, 0), FinishReservemap)
    BY <1>6 DEF fdt_finish_reservemap
  <2> DEFINE c == Call("finish_reservemap", 0, None, NoVal, 0)
             r == FinishReservemap(mem)
  <2>2. Returns(c, IF ~Unfinished THEN Return(-FDT_ERR_BADMAGIC, mem) ELSE r)
    BY <2>1 DEF SwReturns
  <2>3. ASSUME Unfinished
        PROVE  (SwGood(r.m) \/ SwSmall(r.m) \/ Good(r.m)) /\ Within(mem, r.m)
    <3> DEFINE rsv == [address |-> 0, size |-> 0]
    <3>1. rsv \in [address : Nat, size : Nat] /\ r = AddReservemapEntry(mem, rsv)
      BY DEF FinishReservemap
    <3> HIDE DEF r, rsv
    <3>2. SwGood(mem) => Held(mem, r)
      BY <3>1, ReserveKept
    <3>3. SwSmall(mem) => r.m = mem
      BY <3>1, SmallReserved DEF Return
    <3> HIDE DEF r
    <3>4. SwGood(mem) => SwGood(r.m) /\ Within(mem, r.m)
      BY <3>2 DEF Held
    <3>5. SwSmall(mem) => SwSmall(r.m) /\ Within(mem, r.m)
      BY <3>3 DEF Within
    <3> QED BY <1>0, <2>3, <3>4, <3>5
  <2>4. c.op = "finish_reservemap"
    BY Zenon DEF Call
  <2> HIDE DEF c, r
  <2> QED BY <2>2, <2>3, <2>4, SwCallSafe
<1>7. CASE fdt_begin_node
  <2>1. PICK s \in NodeNames \cup {""}, t \in NameTails :
          /\ Unfinished => MayBegin(s)
          /\ SwReturns(Call("begin_node", 0, s, NoVal, 0),
                       LAMBDA m : BeginNode(m, s, t))
    BY <1>7 DEF fdt_begin_node
  <2> DEFINE c == Call("begin_node", 0, s, NoVal, 0)
             r == BeginNode(mem, s, t)
  <2>2. Returns(c, IF ~Unfinished THEN Return(-FDT_ERR_BADMAGIC, mem) ELSE r)
    BY <2>1 DEF SwReturns
  <2>3. ASSUME Unfinished
        PROVE  (SwGood(r.m) \/ SwSmall(r.m) \/ Good(r.m)) /\ Within(mem, r.m)
    <3>1. s \in Names /\ t \in Nat
      BY ArgAssumption, NameAssumption
    <3>2. RsvDone(mem)
      BY <2>1, <2>3, Zenon DEF MayBegin
    <3>3. Held(mem, r)
      BY <1>0, <2>3, <3>1, <3>2, SmallEmpty, BeginNodeKept
    <3> QED BY <3>3 DEF Held
  <2>4. c.op = "begin_node"
    BY Zenon DEF Call
  <2> HIDE DEF c, r
  <2> QED BY <2>2, <2>3, <2>4, SwCallSafe
<1>8. CASE fdt_property
  <2>1. PICK s \in PropNames, t \in StrTails, v \in Vals :
          /\ Unfinished => MayAddProperty(s)
          /\ SwReturns(Call("property", 0, s, v, 0),
                       LAMBDA m : Property(m, s, t, v))
    BY <1>8 DEF fdt_property
  <2> DEFINE c == Call("property", 0, s, v, 0)
             r == Property(mem, s, t, v)
  <2>2. Returns(c, IF ~Unfinished THEN Return(-FDT_ERR_BADMAGIC, mem) ELSE r)
    BY <2>1 DEF SwReturns
  <2>3. ASSUME Unfinished
        PROVE  (SwGood(r.m) \/ SwSmall(r.m) \/ Good(r.m)) /\ Within(mem, r.m)
    <3>1. s \in Names /\ t \in Nat /\ v \in Seq(Byte)
      BY ArgAssumption
    <3>2. OpenNodes(Walk(mem, 0)) > 0
      BY <2>1, <2>3, Zenon DEF MayAddProperty
    <3>3. fdt_size_dt_struct(mem) > 0
      BY <1>0, <2>3, <3>2, OpenNodeHasSpace
    <3>4. Held(mem, r)
      BY <1>0, <2>3, <3>1, <3>3, SmallEmpty, PropertyKept
    <3> QED BY <3>4 DEF Held
  <2>4. c.op = "property"
    BY Zenon DEF Call
  <2> HIDE DEF c, r
  <2> QED BY <2>2, <2>3, <2>4, SwCallSafe
<1>9. CASE fdt_end_node
  <2>1. /\ Unfinished => MayEnd
        /\ SwReturns(Call("end_node", 0, None, NoVal, 0), EndNode)
    BY <1>9 DEF fdt_end_node
  <2> DEFINE c == Call("end_node", 0, None, NoVal, 0)
             r == EndNode(mem)
  <2>2. Returns(c, IF ~Unfinished THEN Return(-FDT_ERR_BADMAGIC, mem) ELSE r)
    BY <2>1 DEF SwReturns
  <2>3. ASSUME Unfinished
        PROVE  (SwGood(r.m) \/ SwSmall(r.m) \/ Good(r.m)) /\ Within(mem, r.m)
    <3>1. fdt_size_dt_struct(mem) > 0
      BY <1>0, <2>1, <2>3, OpenNodeHasSpace DEF MayEnd
    <3>2. RsvDone(mem)
      BY <1>0, <2>3, <3>1, SmallEmpty DEF SwGood
    <3>3. Held(mem, r)
      BY <1>0, <2>3, <3>1, <3>2, SmallEmpty, EndNodeKept
    <3> QED BY <3>3 DEF Held
  <2>4. c.op = "end_node"
    BY Zenon DEF Call
  <2> HIDE DEF c, r
  <2> QED BY <2>2, <2>3, <2>4, SwCallSafe
<1>10. CASE fdt_finish
  <2>1. /\ Unfinished => MayFinish
        /\ SwReturns(Call("finish", 0, None, NoVal, 0), Finish)
    BY <1>10 DEF fdt_finish
  <2> DEFINE c == Call("finish", 0, None, NoVal, 0)
             r == Finish(mem)
  <2>2. Returns(c, IF ~Unfinished THEN Return(-FDT_ERR_BADMAGIC, mem) ELSE r)
    BY <2>1 DEF SwReturns
  <2>3. ASSUME Unfinished
        PROVE  (SwGood(r.m) \/ SwSmall(r.m) \/ Good(r.m)) /\ Within(mem, r.m)
    <3>1. fdt_size_dt_struct(mem) > 0
      BY <2>1, <2>3 DEF MayFinish
    <3>2. Done(mem, r)
      BY <1>0, <2>3, <3>1, SmallEmpty, FinishKept
    <3> QED BY <3>2 DEF Done
  <2>4. c.op = "finish"
    BY Zenon DEF Call
  <2> HIDE DEF c, r
  <2> QED BY <2>2, <2>3, <2>4, SwCallSafe
<1> QED BY <1>1, <1>2, <1>3, <1>4, <1>5, <1>6, <1>7, <1>8, <1>9, <1>10 DEF SwNext

\* A step that changes nothing.
LEMMA SwStutter ==
    ASSUME SwInv, UNCHANGED vars
    PROVE  SwInv'
  BY DEF SwInv, vars

\* The invariant holds at the start.
LEMMA SwStart == SwInit => SwInv
<1> SUFFICES ASSUME SwInit PROVE SwInv
  OBVIOUS
<1>1. MemSize \in Nat /\ MemSize >= 10
  BY MemAssumption
<1>2. mem \in Memory
  BY CellFacts DEF SwInit, Memory
<1>3. mem[0] = Text /\ Value(Text) = 99
  <2>1. mem[0] = Text
    BY <1>1 DEF SwInit
  <2>2. Text.k = "text" /\ FDT_TEXT = 99
    BY DEF Text, FDT_TEXT
  <2>3. Value(Text) = 99
    BY <2>2 DEF Value
  <2> QED BY <2>1, <2>3
<1>4. fdt_magic(mem) = 99
  BY <1>3 DEF fdt_magic
<1>5. call.op = "none"
  BY Zenon DEF SwInit, Call
<1> QED BY <1>2, <1>4, <1>5 DEF SwInv

\* The blocks of a blob under construction never meet, and a finished blob is in
\* order, its whole reservation list included, whichever calls fail and however
\* small the buffer: unless a buffer with nodes in it is moved or shrunk, or a node
\* is begun while the reservations have no end.
THEOREM SwLayoutKept ==
    ASSUME ~AnyResize, ~AnyOrder
    PROVE  SwSpec => []SwLayout
<1>1. SwInit => SwInv
  BY SwStart
<1>2. SwInv /\ [SwNext]_vars => SwInv'
  BY SwStep, SwStutter
<1>3. SwInv => SwLayout
  <2>1. SwGood(mem) \/ SwSmall(mem) => fdt_magic(mem) = FDT_SW_MAGIC /\ Apart(mem)
    BY DEF SwGood, SwSmall
  <2>2. Good(mem) => fdt_magic(mem) = FDT_MAGIC /\ InOrder(mem)
    BY DEF Good, InOrder
  <2> QED BY <2>1, <2>2 DEF SwInv, SwLayout
<1> QED BY <1>1, <1>2, <1>3, PTL DEF SwSpec

\* No call but fdt_resize writes behind the end of the buffer that fdt_create or
\* fdt_create_empty_tree was given.
THEOREM SwNothingOverrun ==
    ASSUME ~AnyResize, ~AnyOrder
    PROVE  SwSpec => SwNoOverrun
<1>1. SwInit => SwInv
  BY SwStart
<1>2. SwInv /\ [SwNext]_vars => SwInv'
  BY SwStep, SwStutter
<1>3. SwInv /\ [SwNext]_vars => [SwInside]_vars
  BY SwStep
<1> QED BY <1>1, <1>2, <1>3, PTL DEF SwSpec, SwNoOverrun, SwInside

-----------------------------------------------------------------------------
(* Finding properties by their names.                                      *)

\* The item at x is a property of the node at o.
HasProp(m, o, x) == Reaches(m, o, x) /\ x \in TagOffsets(m, 0) /\ Tag(m, x) = FDT_PROP

\* No two properties of a node have the same name.
Distinct(m) ==
    \A o, x, y : HasProp(m, o, x) /\ HasProp(m, o, y) /\ PropName(m, x) = PropName(m, y)
                    => x = y

\* That stays so if no node gets a property and no property another name.
LEMMA DistinctKept ==
    ASSUME NEW m, Distinct(m), NEW m2,
           \A o, x : HasProp(m2, o, x) => HasProp(m, o, x) /\ PropName(m2, x) = PropName(m, x)
    PROVE  Distinct(m2)
<1> SUFFICES ASSUME NEW o, NEW x, NEW y, HasProp(m2, o, x), HasProp(m2, o, y),
                    PropName(m2, x) = PropName(m2, y)
             PROVE  x = y
  BY Zenon DEF Distinct
<1>1. /\ HasProp(m, o, x) /\ HasProp(m, o, y)
      /\ PropName(m2, x) = PropName(m, x) /\ PropName(m2, y) = PropName(m, y)
  BY Zenon
<1> QED BY <1>1, Zenon DEF Distinct

\* The properties of a node are the items that its properties reach.
LEMMA PropsReached ==
    ASSUME NEW m, NEW o \in Nodes(Walk(m, 0)), NEW x \in PropsOf(Walk(m, 0), o)
    PROVE  HasProp(m, o, x.at) /\ x = Item(m, x.at)
<1> DEFINE w == Walk(m, 0)
           T == TagOffsets(m, 0)
<1>1. o \in T /\ Tag(m, o) = FDT_BEGIN_NODE
  BY NodesOfWalk DEF Tag
<1>2. /\ x \in w /\ x.tag = FDT_PROP /\ x.at > o
      /\ \A y \in w : o < y.at /\ y.at < x.at => y.tag \in {FDT_PROP, FDT_NOP}
  BY DEF PropsOf, Tagged
<1>3. x.at \in T /\ x = Item(m, x.at)
  BY <1>2, WalkItem
<1>4. Tag(m, x.at) = FDT_PROP
  <2>1. Item(m, x.at).tag = Tag(m, x.at)
    BY WalkItem
  <2> QED BY <1>2, <1>3, <2>1
<1>5. \A y \in T : o < y /\ y < x.at => Tag(m, y) \in {FDT_PROP, FDT_NOP}
  <2> SUFFICES ASSUME NEW y \in T, o < y, y < x.at PROVE Tag(m, y) \in {FDT_PROP, FDT_NOP}
    OBVIOUS
  <2>1. Item(m, y) \in w /\ Item(m, y).at = y /\ Item(m, y).tag = Tag(m, y)
    BY WalkItem
  <2> QED BY <1>2, <2>1
<1>6. o < x.at
  BY <1>2
<1> HIDE DEF T
<1> QED BY <1>1, <1>3, <1>4, <1>5, <1>6 DEF HasProp, Reaches, T

\* And the other way round.
LEMMA ReachedProps ==
    ASSUME NEW m, NEW o, NEW x, HasProp(m, o, x)
    PROVE  o \in Nodes(Walk(m, 0)) /\ Item(m, x) \in PropsOf(Walk(m, 0), o)
<1> DEFINE w == Walk(m, 0)
           T == TagOffsets(m, 0)
<1>1. /\ o \in T /\ Tag(m, o) = FDT_BEGIN_NODE /\ o < x
      /\ \A y \in T : o < y /\ y < x => Tag(m, y) \in {FDT_PROP, FDT_NOP}
      /\ x \in T /\ Tag(m, x) = FDT_PROP
  BY DEF HasProp, Reaches
<1>2. o \in Nodes(w)
  BY <1>1, NodesOfWalk DEF Tag
<1>3. Item(m, x) \in w /\ Item(m, x).at = x /\ Item(m, x).tag = FDT_PROP
  BY <1>1, WalkItem
<1>4. ASSUME NEW y \in w, o < y.at, y.at < x PROVE y.tag \in {FDT_PROP, FDT_NOP}
  <2>1. y.at \in T /\ y = Item(m, y.at) /\ Item(m, y.at).tag = Tag(m, y.at)
    BY WalkItem
  <2> QED BY <1>1, <1>4, <2>1
<1>5. Item(m, x).at > o
  BY <1>1, <1>3
<1> HIDE DEF w
<1> QED BY <1>2, <1>3, <1>4, <1>5 DEF PropsOf, Tagged, w

\* The library's search finds each property whose name no other property of the
\* node has.
LEMMA SearchFinds ==
    ASSUME NEW m, Framed(m), Distinct(m), NEW o, NEW p, HasProp(m, o, p)
    PROVE  fdt_get_property(m, o, PropName(m, p)) = p
<1> DEFINE T == TagOffsets(m, 0)
           next == fdt_check_node_offset_(m, o)
           w    == Walk(m, next)
           stop == AfterProps(w)
           name == PropName(m, p)
           hits == {x \in Tagged(w, {FDT_PROP}) :
                        /\ x.at < stop.at
                        /\ fdt_string(m, Value(At(m, x.at + 2))) = name}
<1>0. 0 \in 0 .. MemSize /\ MemSize \in Nat /\ Readable(m)
  BY MemAssumption, FramedFacts
<1>1. IsChain(m, 0) /\ T \subseteq 0 .. MemSize
  BY <1>0, WalkIsChain, TagOffsetsUnfold
<1>2. /\ o \in T /\ Tag(m, o) = FDT_BEGIN_NODE /\ o < p
      /\ \A y \in T : o < y /\ y < p => Tag(m, y) \in {FDT_PROP, FDT_NOP}
      /\ p \in T /\ Tag(m, p) = FDT_PROP
  BY DEF HasProp, Reaches
<1>3. o \in Nat /\ p \in Nat
  BY <1>0, <1>1, <1>2
<1>4. next = NextOf(m, o) /\ Leads(m, o)
  BY <1>2 DEF fdt_check_node_offset_, Tag, NextOf, Leads
<1>5. next \in Nat /\ next >= 0
  BY <1>3, <1>4, LeadsOn
<1>6. /\ next \in T /\ o < next
      /\ TagOffsets(m, next) = {y \in T : next <= y}
  BY <1>2, <1>5, NodeItem
<1>7. next <= p
  <2>1. o < p => Leads(m, o) /\ NextOf(m, o) <= p
    BY <1>1, <1>2 DEF IsChain
  <2> QED BY <1>2, <1>4, <2>1
<1>8. fdt_get_property(m, o, name) =
        IF hits # {} THEN First(hits).at
        ELSE IF stop.tag # FDT_END THEN -FDT_ERR_NOTFOUND
        ELSE IF stop.next >= 0 THEN -FDT_ERR_BADSTRUCTURE
        ELSE stop.next
  BY <1>5 DEF fdt_get_property, PropertyIn
<1>9. \A x \in w : /\ x.at \in T /\ next <= x.at /\ x = Item(m, x.at)
                   /\ x.at \in Nat /\ x.tag = Tag(m, x.at)
  <2> SUFFICES ASSUME NEW x \in w
               PROVE  /\ x.at \in T /\ next <= x.at /\ x = Item(m, x.at)
                      /\ x.at \in Nat /\ x.tag = Tag(m, x.at)
    OBVIOUS
  <2>1. x.at \in TagOffsets(m, next) /\ x = Item(m, x.at) /\ Item(m, x.at).tag = Tag(m, x.at)
    BY WalkItem
  <2>2. x.at \in T /\ next <= x.at
    BY <1>6, <2>1
  <2> QED BY <1>1, <2>1, <2>2
\* The search goes past the property.
<1>10. stop \in w /\ stop.at <= Last(w).at /\ Last(w) \in w
  BY <1>0, <1>5, WalkStop
<1>11. stop.tag \notin {FDT_PROP, FDT_NOP}
  <2> DEFINE A == {x \in w : x.tag \notin {FDT_PROP, FDT_NOP}}
  <2>1. PICK l \in TagOffsets(m, next) : Last(w) = Item(m, l) /\ ~Leads(m, l)
    <3>1. next \in 0 .. MemSize
      BY <1>1, <1>6
    <3> QED BY <3>1, LastOfWalk
  <2>2. Last(w).tag = FDT_END
    <3>1. Item(m, l).tag = Tag(m, l)
      BY WalkItem
    <3> QED BY <2>1, <3>1 DEF Leads, Tag
  <2>3. stop \in A \cup {Last(w)}
    <3>1. \A x \in A \cup {Last(w)} : x.at \in Nat
      BY <1>9, <1>10
    <3> HIDE DEF A, w
    <3> QED BY <3>1, FirstItem DEF AfterProps, A
  <2> QED BY <2>2, <2>3
<1>12. \A x \in w : x.at < stop.at => x.tag \in {FDT_PROP, FDT_NOP}
  <2> DEFINE A == {x \in w : x.tag \notin {FDT_PROP, FDT_NOP}}
  <2>1. \A x \in A \cup {Last(w)} : x.at \in Nat
    BY <1>9, <1>10
  <2>2. \A x \in A \cup {Last(w)} : stop.at <= x.at
    <3> HIDE DEF A, w
    <3> QED BY <2>1, FirstItem DEF AfterProps, A
  <2> SUFFICES ASSUME NEW x \in w, x.at < stop.at, x.tag \notin {FDT_PROP, FDT_NOP}
               PROVE  FALSE
    OBVIOUS
  <2>3. stop.at <= x.at /\ x.at \in Nat /\ stop.at \in Nat
    BY <1>9, <1>10, <2>2
  <2> HIDE DEF stop
  <2> QED BY <2>3
<1> HIDE DEF stop
<1>13. p < stop.at
  <2>1. stop.at \in T /\ stop.at \in Nat /\ o < stop.at /\ stop.tag = Tag(m, stop.at)
    BY <1>3, <1>5, <1>6, <1>9, <1>10
  <2>2. ~(stop.at < p)
    BY <1>2, <1>11, <2>1
  <2>3. stop.at # p
    BY <1>2, <1>11, <2>1
  <2> QED BY <1>3, <2>1, <2>2, <2>3
<1>14. Item(m, p) \in hits
  <2>1. p \in TagOffsets(m, next)
    BY <1>2, <1>6, <1>7
  <2>2. Item(m, p) \in w /\ Item(m, p).at = p /\ Item(m, p).tag = FDT_PROP
    BY <1>2, <2>1, WalkItem
  <2> HIDE DEF w
  <2> QED BY <1>13, <2>2 DEF PropName, Tagged
<1>15. \A x \in hits : /\ x \in w /\ x.tag = FDT_PROP /\ x.at < stop.at
                       /\ PropName(m, x.at) = name
  BY DEF Tagged, PropName
<1> HIDE DEF hits, name
<1>16. First(hits) \in hits
  <2>1. \A x \in hits : x.at \in Nat
    BY <1>9, <1>15
  <2> QED BY <1>14, <2>1, FirstItem
<1> DEFINE q == First(hits).at
<1>17. HasProp(m, o, q) /\ PropName(m, q) = name
  <2>1. /\ First(hits) \in w /\ First(hits).tag = FDT_PROP /\ q < stop.at
        /\ PropName(m, q) = name
    BY <1>15, <1>16
  <2>2. q \in T /\ next <= q /\ q \in Nat /\ Tag(m, q) = FDT_PROP
    BY <1>9, <2>1
  <2>3. o < q
    <3> HIDE DEF q, next
    <3> QED BY <1>3, <1>5, <1>6, <2>2
  <2>4. \A y \in T : o < y /\ y < q => Tag(m, y) \in {FDT_PROP, FDT_NOP}
    <3> SUFFICES ASSUME NEW y \in T, o < y, y < q PROVE Tag(m, y) \in {FDT_PROP, FDT_NOP}
      OBVIOUS
    <3>1. next <= y
      <4>1. o < y => NextOf(m, o) <= y
        BY <1>1, <1>2 DEF IsChain
      <4> QED BY <1>4, <4>1
    <3>2. Item(m, y) \in w /\ Item(m, y).at = y /\ Item(m, y).tag = Tag(m, y)
      BY <1>6, <3>1, WalkItem
    <3>3. y < stop.at
      <4>1. y \in Nat /\ stop.at \in Nat
        BY <1>1, <1>9, <1>10
      <4> HIDE DEF q
      <4> QED BY <2>1, <2>2, <4>1
    <3> QED BY <1>12, <3>2, <3>3
  <2> HIDE DEF T, q
  <2> QED BY <1>2, <2>1, <2>2, <2>3, <2>4 DEF HasProp, Reaches, T
<1>18. q = p
  <2> HIDE DEF q
  <2> QED BY <1>17, Zenon DEF Distinct, name
<1> QED BY <1>8, <1>14, <1>18 DEF name

-----------------------------------------------------------------------------
(* Walks that grow at their end.                                           *)

\* A blob whose walk makes the same steps has the same items.
LEMMA SameWalk ==
    ASSUME NEW m, Framed(m), NEW m2, Framed(m2),
           \A x \in TagOffsets(m, 0) : Tag(m2, x) = Tag(m, x) /\ NextOf(m2, x) = NextOf(m, x)
    PROVE  TagOffsets(m2, 0) = TagOffsets(m, 0)
<1> DEFINE T  == TagOffsets(m, 0)
           T2 == TagOffsets(m2, 0)
<1>0. 0 \in 0 .. MemSize
  BY MemAssumption
<1>1. 0 \in T /\ 0 \in T2 /\ IsChain(m, 0) /\ IsChain(m2, 0)
  BY <1>0, TagOffsetsUnfold, WalkIsChain
<1>2. \A x \in T : Leads(m2, x) <=> Leads(m, x)
  BY DEF Leads, Tag
<1>3. T \subseteq T2
  <2>1. \A x \in T : x \in T2 /\ Leads(m, x) => NextOf(m, x) \in T2
    <3>1. \A x \in T2 : Leads(m2, x) => NextOf(m2, x) \in T2
      BY <1>1, Zenon DEF IsChain
    <3> HIDE DEF T2
    <3> QED BY <1>2, <3>1
  <2> HIDE DEF T2
  <2> QED BY <1>0, <1>1, <2>1, WalkInduction
<1>4. T2 \subseteq T
  <2>1. \A x \in T2 : x \in T /\ Leads(m2, x) => NextOf(m2, x) \in T
    <3>1. \A x \in T : Leads(m, x) => NextOf(m, x) \in T
      BY <1>1, Zenon DEF IsChain
    <3> HIDE DEF T2
    <3> QED BY <1>2, <3>1
  <2> HIDE DEF T
  <2> QED BY <1>0, <1>1, <2>1, WalkInduction
<1> QED BY <1>3, <1>4

\* A walk that reaches the end of the structure block ends there, and all items
\* but that end lie within the block.
Ended(m) == Framed(m) /\ fdt_size_dt_struct(m) \in TagOffsets(m, 0)

\* What this says of the items.
LEMMA EndedItems ==
    ASSUME NEW m, Ended(m)
    PROVE  /\ Tag(m, fdt_size_dt_struct(m)) = FDT_END
           /\ ~Leads(m, fdt_size_dt_struct(m))
           /\ fdt_size_dt_struct(m) \in Nat /\ fdt_size_dt_struct(m) <= MemSize
           /\ MemSize \in Nat
           /\ TagOffsets(m, 0) \subseteq 0 .. fdt_size_dt_struct(m)
           /\ \A x \in TagOffsets(m, 0) :
                x # fdt_size_dt_struct(m) =>
                    /\ x < fdt_size_dt_struct(m) /\ Leads(m, x)
                    /\ NextOf(m, x) \in TagOffsets(m, 0)
                    /\ NextOf(m, x) \in Nat /\ x < NextOf(m, x)
                    /\ NextOf(m, x) <= fdt_size_dt_struct(m)
<1> DEFINE T == TagOffsets(m, 0)
           n == fdt_size_dt_struct(m)
<1>0. /\ Framed(m) /\ n \in T /\ 0 \in 0 .. MemSize /\ MemSize \in Nat
      /\ n \in Nat /\ n <= MemSize
  BY MemAssumption, FramedFacts DEF Ended
<1>1. IsChain(m, 0) /\ T \subseteq 0 .. MemSize
  BY <1>0, WalkIsChain, TagOffsetsUnfold
<1>2. Tag(m, n) = FDT_END /\ ~Leads(m, n)
  <2>1. ~fdt_offset_ptr(m, n, 1)
    BY <1>0, OffsetPtr
  <2>2. fdt_next_tag(m, n).tag = FDT_END
    BY <2>1 DEF fdt_next_tag
  <2> QED BY <2>2 DEF Tag, Leads
<1>3. \A x \in T : ~(n < x)
  BY <1>0, <1>1, <1>2 DEF IsChain
<1>4. T \subseteq 0 .. n
  BY <1>0, <1>1, <1>3
<1>5. ASSUME NEW x \in T, x # n
      PROVE  /\ x < n /\ Leads(m, x) /\ NextOf(m, x) \in T
             /\ NextOf(m, x) \in Nat /\ x < NextOf(m, x) /\ NextOf(m, x) <= n
  <2>1. x < n /\ x \in Nat
    BY <1>0, <1>4, <1>5
  <2>2. Leads(m, x) /\ NextOf(m, x) <= n
    BY <1>0, <1>1, <2>1 DEF IsChain
  <2>3. NextOf(m, x) \in T
    BY <1>1, <2>2 DEF IsChain
  <2>4. NextOf(m, x) \in Nat /\ x < NextOf(m, x)
    BY <1>0, <2>1, <2>2, LeadsOn
  <2> QED BY <2>1, <2>2, <2>3, <2>4
<1> QED BY <1>0, <1>2, <1>4, <1>5

\* The structure block has become longer.
Longer(m, m2) ==
    /\ Framed(m2)
    /\ fdt_size_dt_struct(m) <= fdt_size_dt_struct(m2)
    /\ SameWords(m, 0, m2, 0, fdt_size_dt_struct(m))

\* What has been there is still there.
LEMMA LongerItems ==
    ASSUME NEW m, Ended(m), NEW m2, Longer(m, m2)
    PROVE  /\ fdt_size_dt_struct(m) \in TagOffsets(m2, 0)
           /\ \A x \in 0 .. fdt_size_dt_struct(m) :
                x \in TagOffsets(m2, 0) <=> x \in TagOffsets(m, 0)
           /\ \A x \in TagOffsets(m, 0) :
                x # fdt_size_dt_struct(m) =>
                    /\ Tag(m2, x) = Tag(m, x) /\ NextOf(m2, x) = NextOf(m, x)
                    /\ Tag(m, x) = FDT_PROP => At(m2, x + 2) = At(m, x + 2)
<1> DEFINE T == TagOffsets(m, 0)
           n == fdt_size_dt_struct(m)
<1>0. /\ Framed(m) /\ Framed(m2) /\ n \in T /\ n <= fdt_size_dt_struct(m2)
      /\ SameWords(m, 0, m2, 0, n) /\ n \in Nat /\ fdt_size_dt_struct(m2) \in Nat
  BY FramedFacts DEF Ended, Longer
<1>1. /\ n \in TagOffsets(m2, 0)
      /\ \A x \in 0 .. n : x \in TagOffsets(m2, 0) <=> x \in T
  <2> HIDE DEF n
  <2> QED BY <1>0, SamePrefix
<1>2. ASSUME NEW x \in T, x # n
      PROVE  /\ Tag(m2, x) = Tag(m, x) /\ NextOf(m2, x) = NextOf(m, x)
             /\ Tag(m, x) = FDT_PROP => At(m2, x + 2) = At(m, x + 2)
  <2> DEFINE y == NextOf(m, x)
             k == y - x
  <2>1. x \in Nat /\ y \in Nat /\ x < y /\ y <= n
    <3> HIDE DEF T, n, y
    <3> QED BY <1>0, <1>2, EndedItems DEF T, n, y
  <2>2. k \in Nat /\ x + k = y /\ y <= fdt_size_dt_struct(m2)
    BY <1>0, <2>1
  <2>3. SameWords(m, x, m2, x, k)
    <3> SUFFICES ASSUME NEW i \in 0 .. k - 1 PROVE At(m2, x + i) = At(m, x + i)
      BY DEF SameWords
    <3>1. x + i \in 0 .. n - 1 /\ 0 + (x + i) = x + i
      <4> HIDE DEF y, n
      <4> QED BY <1>0, <2>1
    <3> HIDE DEF n, k
    <3> QED BY <1>0, <3>1 DEF SameWords
  <2> HIDE DEF k, n
  <2> QED BY <1>0, <2>1, <2>2, <2>3, ItemShift
<1> QED BY <1>1, <1>2

\* An item that is appended is the last one, and the end is behind it.
LEMMA ItemAppended ==
    ASSUME NEW m, Ended(m), NEW m2, Longer(m, m2),
           Tag(m2, fdt_size_dt_struct(m)) # FDT_END,
           NextOf(m2, fdt_size_dt_struct(m)) = fdt_size_dt_struct(m2)
    PROVE  /\ Ended(m2)
           /\ TagOffsets(m2, 0) = TagOffsets(m, 0) \cup {fdt_size_dt_struct(m2)}
           /\ fdt_size_dt_struct(m) < fdt_size_dt_struct(m2)
<1> DEFINE T  == TagOffsets(m, 0)
           T2 == TagOffsets(m2, 0)
           n  == fdt_size_dt_struct(m)
           n2 == fdt_size_dt_struct(m2)
<1>0. /\ Framed(m2) /\ n \in Nat /\ n2 \in Nat /\ 0 \in 0 .. MemSize
      /\ n \in T
  BY FramedFacts, MemAssumption DEF Ended, Longer
<1>1. n \in T2 /\ \A x \in 0 .. n : x \in T2 <=> x \in T
  BY LongerItems
<1>2. IsChain(m2, 0) /\ T2 \subseteq 0 .. MemSize
  BY <1>0, WalkIsChain, TagOffsetsUnfold
<1>3. Leads(m2, n)
  BY DEF Leads, Tag
<1>4. n2 \in T2
  BY <1>1, <1>2, <1>3 DEF IsChain
<1>5. n < n2
  <2>1. n < NextOf(m2, n)
    BY <1>0, <1>3, LeadsOn
  <2> QED BY <2>1
<1>6. Ended(m2)
  BY <1>0, <1>4 DEF Ended
<1>7. ASSUME NEW x \in T2, n < x PROVE x = n2
  <2>1. n2 <= x
    BY <1>1, <1>2, <1>7 DEF IsChain
  <2>2. x \in 0 .. n2
    BY <1>6, EndedItems
  <2> HIDE DEF n2
  <2> QED BY <1>0, <2>1, <2>2
<1>8. T \subseteq 0 .. n
  BY EndedItems
<1>9. T2 \subseteq T \cup {n2}
  <2> SUFFICES ASSUME NEW x \in T2, x # n2 PROVE x \in T
    OBVIOUS
  <2>1. x \in Nat /\ ~(n < x)
    BY <1>2, <1>7
  <2>2. x \in 0 .. n
    <3> HIDE DEF n
    <3> QED BY <1>0, <2>1
  <2> QED BY <1>1, <2>2
<1>10. T \cup {n2} \subseteq T2
  BY <1>1, <1>4, <1>8
<1> QED BY <1>5, <1>6, <1>9, <1>10

\* The end tag that is appended is the last item.
LEMMA EndAppended ==
    ASSUME NEW m, Ended(m), NEW m2, Longer(m, m2),
           Tag(m2, fdt_size_dt_struct(m)) = FDT_END
    PROVE  TagOffsets(m2, 0) = TagOffsets(m, 0)
<1> DEFINE T  == TagOffsets(m, 0)
           T2 == TagOffsets(m2, 0)
           n  == fdt_size_dt_struct(m)
<1>0. Framed(m2) /\ n \in Nat /\ 0 \in 0 .. MemSize /\ n \in T
  BY FramedFacts, MemAssumption DEF Ended, Longer
<1>1. n \in T2 /\ \A x \in 0 .. n : x \in T2 <=> x \in T
  BY LongerItems
<1>2. IsChain(m2, 0) /\ T2 \subseteq 0 .. MemSize
  BY <1>0, WalkIsChain, TagOffsetsUnfold
<1>3. ~Leads(m2, n)
  BY DEF Leads, Tag
<1>4. \A x \in T2 : ~(n < x)
  BY <1>1, <1>2, <1>3 DEF IsChain
<1>5. T2 \subseteq 0 .. n
  <2> SUFFICES ASSUME NEW x \in T2 PROVE x \in 0 .. n
    OBVIOUS
  <2>1. x \in Nat /\ ~(n < x)
    BY <1>2, <1>4
  <2> HIDE DEF n
  <2> QED BY <1>0, <2>1
<1>6. T \subseteq 0 .. n
  BY EndedItems
<1> QED BY <1>1, <1>5, <1>6

-----------------------------------------------------------------------------
(* Names of properties in a blob under construction.                       *)

\* Where the name of the property at x is, relative to the strings block.
Index(m, x) == AsInt(Value(At(m, x + 2)))

\* A blob under construction in which every property can be found: the walk comes
\* to the end of the structure block, and the names count backwards from the end
\* of the strings block, which is the end of the buffer.
Listed(m) ==
    /\ Ended(m)
    /\ fdt_off_dt_strings(m) = fdt_totalsize(m)
    /\ \A x \in TagOffsets(m, 0) :
         Tag(m, x) = FDT_PROP => Index(m, x) \in -fdt_size_dt_strings(m) .. -1
    /\ Distinct(m)

\* The strings are the same, counted from the end of the buffer.
StringsStay(m, m2) ==
    \A i \in -fdt_size_dt_strings(m) .. -1 :
        m2[fdt_totalsize(m2) + i] = m[fdt_totalsize(m) + i]

\* A blob under construction can be walked.
LEMMA SwFramed ==
    ASSUME NEW m, SwGood(m)
    PROVE  Framed(m)
<1>1. /\ m \in Memory /\ fdt_version(m) = 17
      /\ fdt_totalsize(m) \in Nat /\ fdt_off_dt_struct(m) \in Nat
      /\ fdt_size_dt_struct(m) \in Nat /\ fdt_size_dt_strings(m) \in Nat
      /\ fdt_off_dt_struct(m) + fdt_size_dt_struct(m)
                <= fdt_totalsize(m) - fdt_size_dt_strings(m)
      /\ fdt_totalsize(m) <= MemSize
  BY SwFacts
<1>2. Readable(m)
  BY <1>1 DEF Readable
<1>3. fdt_off_dt_struct(m) + fdt_size_dt_struct(m) <= fdt_totalsize(m)
  BY <1>1
<1> QED BY <1>2, <1>3 DEF Framed

\* The string in a cell.
StringOf(c) == IF c.k = "str" THEN c.s ELSE ""

\* A property whose index is the same has the same name.
LEMMA NameStays ==
    ASSUME NEW m, SwGood(m), fdt_off_dt_strings(m) = fdt_totalsize(m),
           NEW m2, SwGood(m2), fdt_off_dt_strings(m2) = fdt_totalsize(m2),
           fdt_size_dt_strings(m) <= fdt_size_dt_strings(m2), StringsStay(m, m2),
           NEW x, At(m2, x + 2) = At(m, x + 2),
           Index(m, x) \in -fdt_size_dt_strings(m) .. -1
    PROVE  PropName(m2, x) = PropName(m, x) /\ Index(m2, x) = Index(m, x)
<1> DEFINE i  == Index(m, x)
           gs == fdt_size_dt_strings(m)
           Z  == fdt_totalsize(m)
           Z2 == fdt_totalsize(m2)
<1>1. Index(m2, x) = i
  BY DEF Index
<1>2. /\ DOMAIN m = 0 .. MemSize - 1 /\ MemSize \in Nat /\ gs \in Nat
      /\ Z \in Nat /\ Z <= MemSize /\ gs <= Z
  <2>1. /\ fdt_off_dt_struct(m) + fdt_size_dt_struct(m) <= Z - gs
        /\ fdt_off_dt_struct(m) \in Nat /\ fdt_size_dt_struct(m) \in Nat
        /\ Z \in Nat /\ gs \in Nat /\ Z <= MemSize /\ MemSize \in Nat
        /\ DOMAIN m = 0 .. MemSize - 1
    BY SwFacts
  <2> HIDE DEF Z, gs
  <2> QED BY <2>1
<1>3. DOMAIN m2 = 0 .. MemSize - 1 /\ Z2 \in Nat /\ Z2 <= MemSize /\ gs <= Z2
  <2>1. /\ fdt_off_dt_struct(m2) + fdt_size_dt_struct(m2) <= Z2 - fdt_size_dt_strings(m2)
        /\ fdt_off_dt_struct(m2) \in Nat /\ fdt_size_dt_struct(m2) \in Nat
        /\ Z2 \in Nat /\ fdt_size_dt_strings(m2) \in Nat /\ Z2 <= MemSize /\ MemSize \in Nat
        /\ DOMAIN m2 = 0 .. MemSize - 1
    BY SwFacts
  <2>2. gs <= fdt_size_dt_strings(m2)
    OBVIOUS
  <2> HIDE DEF Z2, gs
  <2> QED BY <1>2, <2>1, <2>2
<1>4. i \in -gs .. -1
  OBVIOUS
<1>5. m2[Z2 + i] = m[Z + i]
  BY <1>4 DEF StringsStay
<1> HIDE DEF i, gs, Z, Z2
<1>6. Z + i \in DOMAIN m /\ Z2 + i \in DOMAIN m2
  BY <1>2, <1>3, <1>4
<1>7. PropName(m, x) = StringOf(m[Z + i])
  BY <1>6 DEF PropName, fdt_string, Index, i, Z, StringOf
<1>8. PropName(m2, x) = StringOf(m2[Z2 + i])
  BY <1>1, <1>6 DEF PropName, fdt_string, Index, Z2, StringOf
<1>9. PropName(m2, x) = PropName(m, x)
  BY <1>5, <1>7, <1>8
<1>10. Index(m2, x) = Index(m, x)
  BY <1>1 DEF i
<1> QED BY <1>9, <1>10

\* What the properties of a node reach in a longer blob they have reached before.
LEMMA ReachedBefore ==
    ASSUME NEW m, Ended(m), NEW m2, Longer(m, m2), NEW o, NEW x \in TagOffsets(m, 0),
           Reaches(m2, o, x)
    PROVE  Reaches(m, o, x)
<1> DEFINE T  == TagOffsets(m, 0)
           T2 == TagOffsets(m2, 0)
           n  == fdt_size_dt_struct(m)
<1>1. n \in Nat /\ T \subseteq 0 .. n
  BY EndedItems
<1>2. /\ o \in T2 /\ Tag(m2, o) = FDT_BEGIN_NODE /\ o < x
      /\ \A y \in T2 : o < y /\ y < x => Tag(m2, y) \in {FDT_PROP, FDT_NOP}
  BY DEF Reaches
<1>3. /\ \A y \in 0 .. n : y \in T2 <=> y \in T
      /\ \A y \in T : y # n => Tag(m2, y) = Tag(m, y)
  BY LongerItems
<1>4. o \in Nat
  <2>1. 0 \in 0 .. MemSize /\ Framed(m2) /\ MemSize \in Nat
    BY MemAssumption DEF Longer
  <2>2. T2 \subseteq 0 .. MemSize
    BY <2>1, TagOffsetsUnfold
  <2> QED BY <1>2, <2>1, <2>2
<1>5. x \in Nat /\ x <= n
  BY <1>1
<1> HIDE DEF n, T, T2
<1>6. o \in T /\ o # n
  <2>1. o \in 0 .. n /\ o # n
    BY <1>1, <1>2, <1>4, <1>5
  <2> QED BY <1>2, <1>3, <2>1
<1>7. ASSUME NEW y \in T, o < y, y < x PROVE Tag(m, y) \in {FDT_PROP, FDT_NOP}
  <2>1. y \in 0 .. n /\ y # n
    BY <1>1, <1>5, <1>7
  <2>2. y \in T2 /\ Tag(m2, y) = Tag(m, y)
    BY <1>3, <1>7, <2>1
  <2> QED BY <1>2, <1>7, <2>2
<1>8. Tag(m, o) = FDT_BEGIN_NODE
  BY <1>2, <1>3, <1>6
<1> QED BY <1>2, <1>6, <1>7, <1>8 DEF Reaches, T

\* The blob has got another item at its end, or other strings.
Follows(m, m2) ==
    /\ SwGood(m2) /\ Ended(m2) /\ Longer(m, m2)
    /\ fdt_off_dt_strings(m2) = fdt_totalsize(m2)
    /\ fdt_size_dt_strings(m) <= fdt_size_dt_strings(m2)
    /\ StringsStay(m, m2)
    /\ TagOffsets(m2, 0) \subseteq TagOffsets(m, 0) \cup {fdt_size_dt_struct(m2)}

\* The properties that are not at the new item have been there before.
LEMMA PropertyBefore ==
    ASSUME NEW m, SwGood(m), Listed(m), NEW m2, Follows(m, m2),
           NEW x \in TagOffsets(m2, 0), Tag(m2, x) = FDT_PROP, x # fdt_size_dt_struct(m)
    PROVE  /\ x \in TagOffsets(m, 0) /\ Tag(m, x) = FDT_PROP
           /\ PropName(m2, x) = PropName(m, x) /\ Index(m2, x) = Index(m, x)
           /\ \A o : Reaches(m2, o, x) => HasProp(m, o, x)
<1> DEFINE T  == TagOffsets(m, 0)
           n  == fdt_size_dt_struct(m)
           n2 == fdt_size_dt_struct(m2)
<1>0. /\ Ended(m) /\ fdt_off_dt_strings(m) = fdt_totalsize(m)
      /\ Ended(m2) /\ Longer(m, m2) /\ SwGood(m2)
      /\ fdt_off_dt_strings(m2) = fdt_totalsize(m2)
      /\ fdt_size_dt_strings(m) <= fdt_size_dt_strings(m2) /\ StringsStay(m, m2)
  BY DEF Listed, Follows
<1>1. x # n2
  BY <1>0, EndedItems
<1>2. x \in T
  BY <1>1 DEF Follows
<1>3. /\ Tag(m, x) = FDT_PROP /\ At(m2, x + 2) = At(m, x + 2)
  BY <1>0, <1>2, LongerItems
<1>4. Index(m, x) \in -fdt_size_dt_strings(m) .. -1
  BY <1>2, <1>3 DEF Listed
<1>5. PropName(m2, x) = PropName(m, x) /\ Index(m2, x) = Index(m, x)
  BY <1>0, <1>3, <1>4, NameStays
<1>6. ASSUME NEW o, Reaches(m2, o, x) PROVE HasProp(m, o, x)
  <2>1. Reaches(m, o, x)
    BY <1>0, <1>2, <1>6, ReachedBefore
  <2> QED BY <1>2, <1>3, <2>1 DEF HasProp
<1> QED BY <1>2, <1>3, <1>5, <1>6

\* The new item is no property, or one whose name is new to the node that it
\* belongs to.
NewItem(m, m2) ==
    LET n == fdt_size_dt_struct(m)
    IN  Tag(m2, n) = FDT_PROP =>
             /\ Index(m2, n) \in -fdt_size_dt_strings(m2) .. -1
             /\ \A o, x : Reaches(m, o, n) /\ HasProp(m, o, x) =>
                    PropName(m, x) # PropName(m2, n)

\* With such an item every property can be found.
LEMMA ListedLonger ==
    ASSUME NEW m, SwGood(m), Listed(m), NEW m2, Follows(m, m2), NewItem(m, m2)
    PROVE  Listed(m2)
<1> DEFINE T  == TagOffsets(m, 0)
           T2 == TagOffsets(m2, 0)
           n  == fdt_size_dt_struct(m)
           gs == fdt_size_dt_strings(m)
           gs2 == fdt_size_dt_strings(m2)
<1>0. /\ Ended(m) /\ Ended(m2) /\ Longer(m, m2) /\ Distinct(m) /\ n \in T
      /\ fdt_off_dt_strings(m2) = fdt_totalsize(m2)
  BY DEF Listed, Follows, Ended
<1>1. gs \in Nat /\ gs2 \in Nat /\ gs <= gs2
  <2>1. SwGood(m2) /\ gs <= gs2
    BY DEF Follows
  <2> QED BY <2>1, SwFacts
<1>2. ASSUME NEW x \in T2, Tag(m2, x) = FDT_PROP
      PROVE  Index(m2, x) \in -gs2 .. -1
  <2>1. CASE x = n
    BY <1>2, <2>1 DEF NewItem
  <2>2. CASE x # n
    <3>1. x \in T /\ Tag(m, x) = FDT_PROP /\ Index(m2, x) = Index(m, x)
      BY <1>2, <2>2, PropertyBefore
    <3>2. Index(m2, x) \in -gs .. -1
      BY <3>1 DEF Listed
    <3> HIDE DEF gs, gs2
    <3> QED BY <1>1, <3>2
  <2> QED BY <2>1, <2>2
<1>3. ASSUME NEW o, NEW x, HasProp(m2, o, x), x # n
      PROVE  HasProp(m, o, x) /\ PropName(m2, x) = PropName(m, x)
  <2>1. Reaches(m2, o, x) /\ x \in T2 /\ Tag(m2, x) = FDT_PROP
    BY <1>3 DEF HasProp
  <2> QED BY <1>3, <2>1, PropertyBefore
<1>4. ASSUME NEW o, NEW x, NEW y, HasProp(m2, o, x), HasProp(m2, o, y), x = n, y # n
      PROVE  PropName(m2, x) # PropName(m2, y)
  <2>1. HasProp(m, o, y) /\ PropName(m2, y) = PropName(m, y)
    BY <1>3, <1>4
  <2>2. Reaches(m2, o, n) /\ Tag(m2, n) = FDT_PROP
    BY <1>4 DEF HasProp
  <2>3. Reaches(m, o, n)
    BY <1>0, <2>2, ReachedBefore
  <2>4. PropName(m, y) # PropName(m2, n)
    BY <2>1, <2>2, <2>3 DEF NewItem
  <2> QED BY <1>4, <2>1, <2>4
<1>5. Distinct(m2)
  <2> SUFFICES ASSUME NEW o, NEW x, NEW y, HasProp(m2, o, x), HasProp(m2, o, y),
                      PropName(m2, x) = PropName(m2, y)
               PROVE  x = y
    BY Zenon DEF Distinct
  <2>1. CASE x # n /\ y # n
    <3>1. /\ HasProp(m, o, x) /\ PropName(m2, x) = PropName(m, x)
          /\ HasProp(m, o, y) /\ PropName(m2, y) = PropName(m, y)
      BY <1>3, <2>1
    <3> QED BY <1>0, <3>1, Zenon DEF Distinct
  <2>2. CASE x = n /\ y # n
    BY <1>4, <2>2
  <2>3. CASE x # n /\ y = n
    <3>1. PropName(m2, y) # PropName(m2, x)
      BY <1>4, <2>3
    <3> QED BY <3>1
  <2>4. CASE x = n /\ y = n
    BY <2>4
  <2> QED BY <2>1, <2>2, <2>3, <2>4
<1> QED BY <1>0, <1>2, <1>5 DEF Listed

-----------------------------------------------------------------------------
(* The items that are appended.                                            *)

\* A blob without nodes has no properties to find.
LEMMA ListedEmpty ==
    ASSUME NEW m, SwGood(m), fdt_size_dt_struct(m) = 0,
           fdt_off_dt_strings(m) = fdt_totalsize(m)
    PROVE  Listed(m)
<1> DEFINE T == TagOffsets(m, 0)
<1>0. Framed(m) /\ 0 \in 0 .. MemSize
  BY SwFramed, MemAssumption
<1>1. 0 \in T
  BY <1>0, TagOffsetsUnfold
<1>2. Ended(m)
  BY <1>0, <1>1 DEF Ended
<1>3. T \subseteq {0} /\ Tag(m, 0) = FDT_END
  <2>1. T \subseteq 0 .. 0 /\ Tag(m, 0) = FDT_END
    BY <1>2, EndedItems
  <2> QED BY <2>1
<1>4. \A x \in T : Tag(m, x) # FDT_PROP
  BY <1>3
<1>5. Distinct(m)
  BY <1>4 DEF Distinct, HasProp
<1> QED BY <1>2, <1>4, <1>5 DEF Listed

\* n words have been put behind the structure block.
Appended(m, m2, n) ==
    /\ SwGood(m2)
    /\ fdt_size_dt_struct(m2) = fdt_size_dt_struct(m) + n
    /\ \A a \in 0 .. MemSize - 1 :
        /\ a # hSizeDtStruct
        /\ \/ a < fdt_off_dt_struct(m) + fdt_size_dt_struct(m)
           \/ a >= fdt_off_dt_struct(m) + fdt_size_dt_struct(m) + n
        => m2[a] = m[a]

\* Everything else is the same.
LEMMA AppendedLonger ==
    ASSUME NEW m, SwGood(m), NEW n \in Nat, NEW m2, Appended(m, m2, n)
    PROVE  /\ SwGood(m2) /\ Longer(m, m2) /\ StringsStay(m, m2)
           /\ fdt_size_dt_struct(m2) = fdt_size_dt_struct(m) + n
           /\ fdt_off_dt_struct(m2) = fdt_off_dt_struct(m)
           /\ fdt_totalsize(m2) = fdt_totalsize(m)
           /\ fdt_off_dt_strings(m2) = fdt_off_dt_strings(m)
           /\ fdt_size_dt_strings(m2) = fdt_size_dt_strings(m)
<1> DEFINE S  == fdt_off_dt_struct(m)
           ss == fdt_size_dt_struct(m)
           gs == fdt_size_dt_strings(m)
           Z  == fdt_totalsize(m)
<1>0. /\ MemSize \in Nat /\ MemSize >= 10 /\ Z \in Nat /\ S \in Nat /\ ss \in Nat
      /\ gs \in Nat /\ S >= 12 /\ S + ss <= Z - gs /\ Z <= MemSize
  BY SwFacts
<1>1. /\ SwGood(m2) /\ fdt_size_dt_struct(m2) = ss + n
      /\ \A a \in 0 .. MemSize - 1 :
            a # 9 /\ (a < S + ss \/ a >= S + ss + n) => m2[a] = m[a]
  BY DEF Appended
<1> HIDE DEF S, ss, gs, Z
<1>2. \A a \in {1, 2, 3, 8} : m2[a] = m[a]
  BY <1>0, <1>1
<1>3. /\ fdt_off_dt_struct(m2) = S /\ fdt_totalsize(m2) = Z
      /\ fdt_off_dt_strings(m2) = fdt_off_dt_strings(m)
      /\ fdt_size_dt_strings(m2) = gs
  BY <1>2 DEF fdt_off_dt_struct, fdt_totalsize, fdt_off_dt_strings, fdt_size_dt_strings,
              S, Z, gs
<1>4. S + (ss + n) <= Z - gs
  BY <1>1, <1>3, SwFacts
<1>5. Framed(m2)
  BY <1>1, SwFramed
<1>6. SameWords(m, 0, m2, 0, ss)
  <2> SUFFICES ASSUME NEW i \in 0 .. ss - 1 PROVE At(m2, 0 + i) = At(m, 0 + i)
    BY DEF SameWords
  <2> DEFINE a == S + (0 + i)
  <2>1. a \in 0 .. MemSize - 1 /\ a # 9 /\ a < S + ss
    BY <1>0, <1>4
  <2> HIDE DEF a
  <2>2. m2[a] = m[a]
    BY <1>1, <2>1
  <2> QED BY <1>3, <2>2 DEF At, a, S
<1>7. ss <= ss + n
  BY <1>0
<1>8. Longer(m, m2)
  BY <1>1, <1>5, <1>6, <1>7 DEF Longer, ss
<1>9. StringsStay(m, m2)
  <2> SUFFICES ASSUME NEW i \in -gs .. -1 PROVE m2[Z + i] = m[Z + i]
    BY <1>3 DEF StringsStay, gs, Z
  <2> DEFINE a == Z + i
  <2>1. a \in 0 .. MemSize - 1 /\ a # 9 /\ a >= S + ss + n
    BY <1>0, <1>4
  <2> HIDE DEF a
  <2>2. m2[a] = m[a]
    BY <1>1, <2>1
  <2> QED BY <2>2 DEF a
<1> QED BY <1>1, <1>3, <1>8, <1>9 DEF S, ss, gs, Z

\* If the words are an item, the blob goes on with it.
LEMMA AppendedFollows ==
    ASSUME NEW m, SwGood(m), Listed(m), NEW n \in Nat, NEW m2, Appended(m, m2, n),
           Tag(m2, fdt_size_dt_struct(m)) # FDT_END,
           NextOf(m2, fdt_size_dt_struct(m)) = fdt_size_dt_struct(m) + n
    PROVE  Follows(m, m2)
<1>1. /\ SwGood(m2) /\ Longer(m, m2) /\ StringsStay(m, m2)
      /\ fdt_size_dt_struct(m2) = fdt_size_dt_struct(m) + n
      /\ fdt_totalsize(m2) = fdt_totalsize(m)
      /\ fdt_off_dt_strings(m2) = fdt_off_dt_strings(m)
      /\ fdt_size_dt_strings(m2) = fdt_size_dt_strings(m)
  BY AppendedLonger
<1>2. Ended(m) /\ fdt_off_dt_strings(m) = fdt_totalsize(m)
  BY DEF Listed
<1>3. /\ Ended(m2)
      /\ TagOffsets(m2, 0) = TagOffsets(m, 0) \cup {fdt_size_dt_struct(m2)}
  BY <1>1, <1>2, ItemAppended
<1>4. fdt_size_dt_strings(m) \in Nat
  BY SwFacts
<1>5. fdt_size_dt_strings(m) <= fdt_size_dt_strings(m2)
  BY <1>1, <1>4
<1> QED BY <1>1, <1>2, <1>3, <1>5 DEF Follows

\* Space that is grabbed is appended, and nothing is written to it.
LEMMA GrabbedAppended ==
    ASSUME NEW m, SwGood(m), RsvDone(m), NEW n, n \in Nat,
           NEW r, r = fdt_grab_space_(m, n), r.ret >= 0
    PROVE  /\ Appended(m, r.m, n)
           /\ r.ret = fdt_off_dt_struct(m) + fdt_size_dt_struct(m)
           /\ \A a \in 0 .. MemSize - 1 : a # hSizeDtStruct => r.m[a] = m[a]
<1> DEFINE ss == fdt_size_dt_struct(m)
           S  == fdt_off_dt_struct(m)
           m2 == Set(m, hSizeDtStruct, ss + n)
<1>0. /\ m \in Memory /\ MemSize \in Nat /\ ss \in Nat /\ S \in Nat
  BY SwFacts
<1>1. /\ SwGood(r.m) /\ r.ret = S + ss /\ fdt_size_dt_struct(r.m) = ss + n
  BY GrabSpace DEF Held
<1>2. r = IF /\ fdt_totalsize(m) - S - fdt_size_dt_strings(m) >= 0
             /\ ss + n > fdt_totalsize(m) - S - fdt_size_dt_strings(m)
          THEN [ret |-> -FDT_ERR_NOSPACE, m |-> m, p |-> 0]
          ELSE [ret |-> S + ss, m |-> m2, p |-> 0]
  BY Zenon DEF fdt_grab_space_, Return
<1> HIDE DEF m2
<1>3. r.m = m2
  <2>1. S + ss # -FDT_ERR_NOSPACE
    BY <1>0
  <2> HIDE DEF S, ss
  <2> QED BY <1>1, <1>2, <2>1
<1>4. \A a \in 0 .. MemSize - 1 : a # hSizeDtStruct => r.m[a] = m[a]
  <2>1. ss + n \in Nat
    BY <1>0
  <2>2. \A a \in 0 .. MemSize - 1 : a # 9 => m2[a] = m[a]
    <3> HIDE DEF ss
    <3> QED BY <1>0, <2>1, SetMemory DEF m2
  <2> QED BY <1>3, <2>2
<1>5. Appended(m, r.m, n)
  <2> HIDE DEF ss
  <2> QED BY <1>1, <1>4 DEF Appended, ss
<1> QED BY <1>1, <1>4, <1>5

\* So are the cells that are written to it.
LEMMA WrittenAppended ==
    ASSUME NEW m, SwGood(m), RsvDone(m), NEW n, n \in Nat,
           NEW cells, cells \in [1 .. n -> Cell], Len(cells) = n,
           NEW r, r = fdt_grab_space_(m, n), r.ret >= 0,
           NEW w, w = Written(r, cells)
    PROVE  /\ Appended(m, w.m, n)
           /\ \A i \in 0 .. n - 1 : At(w.m, fdt_size_dt_struct(m) + i) = cells[i + 1]
<1> DEFINE b  == r.m
           a  == r.ret
           m2 == Store(b, a, cells)
           ss == fdt_size_dt_struct(m)
           S  == fdt_off_dt_struct(m)
<1>0. /\ MemSize \in Nat /\ ss \in Nat /\ S \in Nat /\ fdt_totalsize(m) <= MemSize
      /\ fdt_totalsize(m) \in Nat /\ fdt_size_dt_strings(m) \in Nat
  BY SwFacts
<1>1. /\ Appended(m, b, n) /\ a = S + ss
      /\ \A x \in 0 .. MemSize - 1 : x # 9 => b[x] = m[x]
  BY GrabbedAppended
<1>2. /\ SwGood(w.m) /\ fdt_off_dt_struct(w.m) = S
      /\ fdt_size_dt_struct(w.m) = ss + n
  BY WrittenKept DEF Held
<1>3. w.m = m2
  <2>1. w = IF r.ret < 0 THEN r ELSE [ret |-> 0, m |-> m2, p |-> 0]
    BY Zenon DEF Written, Return
  <2>2. ~(r.ret < 0)
    BY <1>0, <1>1
  <2> HIDE DEF m2
  <2> QED BY <2>1, <2>2
<1>4. a \in Nat /\ b \in Memory /\ a + n <= MemSize
  <2>1. b \in Memory
    BY <1>1 DEF Appended, SwGood
  <2>2. a + n <= fdt_totalsize(m) - fdt_size_dt_strings(m)
    BY GrabSpace
  <2> HIDE DEF a, b
  <2> QED BY <1>0, <1>1, <2>1, <2>2
<1>5. /\ \A x \in 0 .. MemSize - 1 : x < a \/ x >= a + n => m2[x] = b[x]
      /\ \A i \in 1 .. n : a + i - 1 < MemSize => m2[a + i - 1] = cells[i]
  <2> HIDE DEF a, b
  <2> QED BY <1>4, StoreMemory
<1> HIDE DEF a, b, m2
<1>6. \A x \in 0 .. MemSize - 1 : x # 9 /\ (x < S + ss \/ x >= S + ss + n) => m2[x] = m[x]
  BY <1>1, <1>5
<1>7. Appended(m, w.m, n)
  BY <1>2, <1>3, <1>6 DEF Appended
<1>8. ASSUME NEW i \in 0 .. n - 1
      PROVE  At(w.m, ss + i) = cells[i + 1]
  <2>1. i + 1 \in 1 .. n /\ a + (i + 1) - 1 < MemSize /\ a + (i + 1) - 1 = S + (ss + i)
    <3> HIDE DEF S, ss
    <3> QED BY <1>0, <1>1, <1>4
  <2>2. m2[a + (i + 1) - 1] = cells[i + 1]
    BY <1>5, <2>1
  <2>3. m2[S + (ss + i)] = cells[i + 1]
    BY <2>1, <2>2
  <2> QED BY <1>2, <1>3, <2>3 DEF At
<1> QED BY <1>7, <1>8

-----------------------------------------------------------------------------
(* Nodes that are appended.                                                *)

\* An item that is no property leaves every property where it can be found.
LEMMA AppendedListed ==
    ASSUME NEW m, SwGood(m), Listed(m), NEW n \in Nat, NEW m2, Appended(m, m2, n),
           Tag(m2, fdt_size_dt_struct(m)) \in {FDT_BEGIN_NODE, FDT_END_NODE},
           NextOf(m2, fdt_size_dt_struct(m)) = fdt_size_dt_struct(m) + n
    PROVE  Listed(m2)
<1>1. Tag(m2, fdt_size_dt_struct(m)) # FDT_END /\ Tag(m2, fdt_size_dt_struct(m)) # FDT_PROP
  OBVIOUS
<1>2. Follows(m, m2)
  BY <1>1, AppendedFollows
<1>3. NewItem(m, m2)
  BY <1>1 DEF NewItem
<1> QED BY <1>2, <1>3, ListedLonger

\* The end of a node does.
LEMMA EndNodeListed ==
    ASSUME NEW m, SwGood(m), Listed(m), RsvDone(m)
    PROVE  Listed(EndNode(m).m)
<1> DEFINE cells == <<Num(FDT_END_NODE)>>
           r  == fdt_grab_space_(m, 1)
           w  == Written(r, cells)
           ss == fdt_size_dt_struct(m)
<1>0. ss \in Nat
  BY SwFacts
<1>1. cells \in [1 .. 1 -> Cell] /\ Len(cells) = 1 /\ cells[1] = Num(FDT_END_NODE)
  BY Cells, CellFacts
<1>2. EndNode(m) = w
  BY DEF EndNode
<1>3. r.ret \in Int /\ (r.ret < 0 => r.m = m)
  BY GrabSpace DEF Held
<1> HIDE DEF cells
<1>4. CASE r.ret < 0
  <2>1. w = r
    BY <1>1, <1>4, WrittenKept
  <2> HIDE DEF w, r
  <2> QED BY <1>2, <1>3, <1>4, <2>1
<1>5. CASE r.ret >= 0
  <2>1. /\ Appended(m, w.m, 1)
        /\ \A i \in 0 .. 1 - 1 : At(w.m, ss + i) = cells[i + 1]
    <3> DEFINE n == 1
    <3>1. n \in Nat /\ cells \in [1 .. n -> Cell] /\ Len(cells) = n /\ r = fdt_grab_space_(m, n)
      BY <1>1
    <3> HIDE DEF n, r, w, ss
    <3>2. w = Written(r, cells)
      BY DEF w
    <3>3. /\ Appended(m, w.m, n)
          /\ \A i \in 0 .. n - 1 : At(w.m, fdt_size_dt_struct(m) + i) = cells[i + 1]
      BY <1>5, <3>1, <3>2, WrittenAppended
    <3> QED BY <3>3 DEF n, ss
  <2> HIDE DEF w, r
  <2>2. Framed(w.m) /\ fdt_size_dt_struct(w.m) = ss + 1
    BY <2>1, SwFramed DEF Appended
  <2>3. Value(At(w.m, ss)) = FDT_END_NODE
    <3>1. At(w.m, ss + 0) = cells[0 + 1]
      BY <2>1
    <3>2. ss + 0 = ss /\ 0 + 1 = 1
      BY <1>0
    <3>3. At(w.m, ss) = Num(FDT_END_NODE)
      BY <1>1, <3>1, <3>2
    <3> QED BY <3>3, CellFacts
  <2>4. Tag(w.m, ss) = FDT_END_NODE /\ NextOf(w.m, ss) = ss + 1
    <3> HIDE DEF ss
    <3> QED BY <1>0, <2>2, <2>3, WordItem
  <2> QED BY <1>2, <2>1, <2>4, AppendedListed
<1> QED BY <1>3, <1>4, <1>5

\* So does the beginning of one whose name leaves nothing behind its terminator.
LEMMA BeginNodeListed ==
    ASSUME NEW m, SwGood(m), Listed(m), RsvDone(m), NEW s, s \in Names, NameFits(s),
           NEW t, t \in Nat
    PROVE  Listed(BeginNode(m, s, t).m)
<1> DEFINE n == NameSize(s)
           r == fdt_grab_space_(m, 1 + n)
           names == NameCells(r.m, r.ret + 1, s, t)
           cells == <<Num(FDT_BEGIN_NODE)>> \o names
           w  == Written(r, cells)
           ss == fdt_size_dt_struct(m)
           f  == BeginNode(m, s, t)
<1>0. ss \in Nat /\ n \in Nat /\ n >= 1 /\ 1 + n \in Nat
  BY SwFacts, NameSizeNat
<1>1. Words(strlen(s) + 1) = n
  BY DEF NameFits
<1>2. f = IF r.ret < 0 THEN r ELSE w
  BY <1>1, Zenon DEF BeginNode
<1>3. r.ret \in Int /\ (r.ret < 0 => r.m = m)
  <2> HIDE DEF n
  <2> QED BY <1>0, GrabSpace DEF Held
<1>4. CASE r.ret < 0
  <2> HIDE DEF f, r, w
  <2> QED BY <1>2, <1>3, <1>4 DEF f
<1>5. CASE r.ret >= 0
  <2>1. f = w
    <3>1. ~(r.ret < 0)
      <4> HIDE DEF r
      <4> QED BY <1>3, <1>5
    <3> HIDE DEF f, r, w
    <3> QED BY <1>2, <3>1
  <2>2. PICK e \in {1, 2} : names = CellsOfName(s, e)
    <3> DEFINE b == r.m
               a == r.ret + 1
    <3>1. \E e \in {1, 2} : NameCells(b, a, s, t) = CellsOfName(s, e)
      <4> HIDE DEF a, b
      <4> QED BY NameCopied
    <3> QED BY <3>1
  <2> HIDE DEF names
  <2>3. /\ names \in [1 .. n -> Cell] /\ Len(names) = n
        /\ \A i \in 1 .. n : names[i] = IF i < n THEN Name(s, 0) ELSE Name(s, e)
    <3>1. Name(s, 0) \in Cell /\ Name(s, e) \in Cell
      <4>1. e \in Nat /\ 0 \in Nat
        OBVIOUS
      <4> QED BY <4>1, CellFacts
    <3>2. names = [i \in 1 .. n |-> IF i < n THEN Name(s, 0) ELSE Name(s, e)]
      BY <2>2 DEF CellsOfName
    <3> HIDE DEF n
    <3> QED BY <1>0, <3>1, <3>2
  <2>4. /\ cells \in [1 .. 1 + n -> Cell] /\ Len(cells) = 1 + n
        /\ cells[1] = Num(FDT_BEGIN_NODE)
        /\ \A i \in 1 .. n : cells[i + 1] = names[i]
    <3>1. Num(FDT_BEGIN_NODE) \in Cell
      BY CellFacts
    <3> DEFINE d == Num(FDT_BEGIN_NODE)
    <3> HIDE DEF n, d
    <3>2. cells = <<d>> \o names
      BY DEF d
    <3>3. cells \in [1 .. n + 1 -> Cell] /\ Len(cells) = n + 1
      BY <1>0, <2>3, <3>1, <3>2, InFront DEF d
    <3>4. n + 1 = 1 + n
      BY <1>0
    <3>5. names \in Seq(Cell) /\ <<d>> \in Seq(Cell)
      BY <1>0, <2>3, <3>1 DEF d
    <3> HIDE DEF cells
    <3>6. cells[1] = d /\ \A i \in 1 .. n : cells[i + 1] = names[i]
      BY <1>0, <2>3, <3>2, <3>5
    <3> QED BY <3>3, <3>4, <3>6 DEF d
  <2> HIDE DEF cells
  <2>5. /\ Appended(m, w.m, 1 + n)
        /\ \A i \in 0 .. n : At(w.m, ss + i) = cells[i + 1]
    <3> DEFINE k == 1 + n
    <3>1. k \in Nat /\ cells \in [1 .. k -> Cell] /\ Len(cells) = k /\ r = fdt_grab_space_(m, k)
      BY <1>0, <2>4
    <3>2. k - 1 = n
      BY <1>0
    <3> HIDE DEF k, r, w, ss, n, f
    <3>3. w = Written(r, cells) /\ SwGood(m) /\ RsvDone(m) /\ r.ret >= 0
      BY <1>5 DEF w
    <3>4. /\ Appended(m, w.m, k)
          /\ \A i \in 0 .. k - 1 : At(w.m, fdt_size_dt_struct(m) + i) = cells[i + 1]
      BY ONLY <3>1, <3>3, WrittenAppended
    <3> QED BY <3>2, <3>4 DEF k, ss
  <2> HIDE DEF w, r, f
  <2>6. Framed(w.m) /\ fdt_size_dt_struct(w.m) = ss + (1 + n)
    BY <2>5, SwFramed DEF Appended
  <2>7. At(w.m, ss) = Num(FDT_BEGIN_NODE)
    <3>1. At(w.m, ss + 0) = cells[0 + 1]
      BY <1>0, <2>5
    <3>2. ss + 0 = ss /\ 0 + 1 = 1
      BY <1>0
    <3> QED BY <2>4, <3>1, <3>2
  <2>8. \A i \in 1 .. n : At(w.m, ss + i) = IF i < n THEN Name(s, 0) ELSE Name(s, e)
    <3> SUFFICES ASSUME NEW i \in 1 .. n
                 PROVE  At(w.m, ss + i) = IF i < n THEN Name(s, 0) ELSE Name(s, e)
      OBVIOUS
    <3>1. i \in 0 .. n
      <4> HIDE DEF n
      <4> QED BY <1>0
    <3>2. At(w.m, ss + i) = cells[i + 1]
      BY <2>5, <3>1
    <3> HIDE DEF n
    <3> QED BY <2>3, <2>4, <3>2
  <2>9. Value(At(w.m, ss)) = FDT_BEGIN_NODE
    BY <2>7, CellFacts
  <2>10. HasNul(At(w.m, ss + n)) /\ \A i \in 1 .. n - 1 : ~HasNul(At(w.m, ss + i))
    <3>1. ~HasNul(Name(s, 0)) /\ HasNul(Name(s, e))
      BY NameCellFacts
    <3> HIDE DEF n, ss
    <3>2. n \in 1 .. n /\ ~(n < n) /\ \A i \in 1 .. n - 1 : i \in 1 .. n /\ i < n
      BY <1>0
    <3>3. At(w.m, ss + n) = Name(s, e) /\ \A i \in 1 .. n - 1 : At(w.m, ss + i) = Name(s, 0)
      BY <2>8, <3>2
    <3> QED BY <3>1, <3>3
  <2>11. Tag(w.m, ss) = FDT_BEGIN_NODE /\ NextOf(w.m, ss) = ss + (1 + n)
    <3> HIDE DEF ss, n
    <3>1. ss + 1 + n = ss + (1 + n)
      BY <1>0
    <3>2. ss + 1 + n <= fdt_size_dt_struct(w.m)
      BY <1>0, <2>6, <3>1
    <3>3. ss \in Nat /\ n \in Nat /\ n >= 1
      BY <1>0
    <3>4. Framed(w.m)
      BY <2>6
    <3>5. Tag(w.m, ss) = FDT_BEGIN_NODE /\ NextOf(w.m, ss) = ss + 1 + n
      BY ONLY ZenonT(30), <2>9, <2>10, <3>2, <3>3, <3>4, NameItem
    <3> QED BY <3>1, <3>5
  <2>12. Listed(w.m)
    BY <1>0, <2>5, <2>11, AppendedListed
  <2> QED BY <2>1, <2>12 DEF f
<1> QED BY <1>3, <1>4, <1>5

-----------------------------------------------------------------------------
(* Properties that are appended.                                           *)

\* A blob with the same structure block, in which the strings have stayed at the
\* end, has the same properties.
LEMMA StringsListed ==
    ASSUME NEW m, SwGood(m), Listed(m), NEW m2, SwGood(m2), Longer(m, m2),
           fdt_size_dt_struct(m2) = fdt_size_dt_struct(m),
           fdt_off_dt_strings(m2) = fdt_totalsize(m2),
           fdt_size_dt_strings(m) <= fdt_size_dt_strings(m2), StringsStay(m, m2)
    PROVE  /\ Listed(m2)
           /\ \A o, x : HasProp(m2, o, x) =>
                HasProp(m, o, x) /\ PropName(m2, x) = PropName(m, x)
           /\ \A o : Reaches(m2, o, fdt_size_dt_struct(m)) =>
                Reaches(m, o, fdt_size_dt_struct(m))
<1> DEFINE T  == TagOffsets(m, 0)
           T2 == TagOffsets(m2, 0)
           n  == fdt_size_dt_struct(m)
<1>1. Ended(m) /\ Framed(m2)
  BY DEF Listed, Longer
<1>2. n \in T2 /\ n \in T
  BY <1>1, LongerItems DEF Ended
<1>3. Ended(m2)
  BY <1>1, <1>2 DEF Ended
<1>4. Tag(m2, n) = FDT_END
  BY <1>3, EndedItems
<1>5. T2 = T
  BY <1>1, <1>4, EndAppended
<1>6. Follows(m, m2)
  BY <1>3, <1>5 DEF Follows
<1>7. NewItem(m, m2)
  BY <1>4 DEF NewItem
<1>8. Listed(m2)
  BY <1>6, <1>7, ListedLonger
<1>9. ASSUME NEW o, NEW x, HasProp(m2, o, x)
      PROVE  HasProp(m, o, x) /\ PropName(m2, x) = PropName(m, x)
  <2>1. Reaches(m2, o, x) /\ x \in T2 /\ Tag(m2, x) = FDT_PROP
    BY <1>9 DEF HasProp
  <2>2. x # n
    BY <1>4, <2>1
  <2> QED BY <1>6, <2>1, <2>2, PropertyBefore
<1>10. ASSUME NEW o, Reaches(m2, o, n) PROVE Reaches(m, o, n)
  BY <1>1, <1>2, <1>10, ReachedBefore
<1> QED BY <1>8, <1>9, <1>10

\* The string that SwFindAddString finds or adds, and what it leaves.
LEMMA StringAdded ==
    ASSUME NEW m, SwGood(m), fdt_size_dt_struct(m) > 0, Listed(m),
           NEW s \in Names, NEW t \in Nat
    PROVE  LET r == SwFindAddString(m, s, t)
           IN  /\ Listed(r.m)
               /\ \A o, x : HasProp(r.m, o, x) =>
                    HasProp(m, o, x) /\ PropName(r.m, x) = PropName(m, x)
               /\ \A o : Reaches(r.m, o, fdt_size_dt_struct(m)) =>
                    Reaches(m, o, fdt_size_dt_struct(m))
               /\ r.ret # 0 =>
                    /\ r.ret \in -fdt_size_dt_strings(r.m) .. -1
                    /\ r.m[fdt_totalsize(r.m) + r.ret] = Str(s, t)
<1> DEFINE F  == FoundStrings(m, s, t)
           gs == fdt_size_dt_strings(m)
           ss == fdt_size_dt_struct(m)
           S  == fdt_off_dt_struct(m)
           Z  == fdt_totalsize(m)
           offset == -gs - 1
           m1 == [m EXCEPT ![Z + offset] = Str(s, t)]
           m2 == Set(m1, hSizeDtStrings, gs + 1)
           r  == SwFindAddString(m, s, t)
<1>0. /\ m \in Memory /\ MemSize \in Nat /\ MemSize >= 10
      /\ Z \in Nat /\ S \in Nat /\ ss \in Nat /\ gs \in Nat
      /\ S >= 12 /\ S + ss <= Z - gs /\ Z <= MemSize
  BY SwFacts
<1>1. r = IF F # {} THEN [ret |-> Min(F), m |-> m, p |-> 0]
          ELSE IF Z + offset < S + ss THEN [ret |-> 0, m |-> m, p |-> 0]
          ELSE [ret |-> offset, m |-> m2, p |-> 0]
  BY Zenon DEF SwFindAddString, Return
<1>2. CASE F # {}
  <2>1. r.ret = Min(F) /\ r.m = m
    <3> HIDE DEF r, F, m2
    <3> QED BY <1>1, <1>2
  <2>2. Min(F) \in F
    BY <1>2, FoundLowest
  <2>3. Min(F) \in -gs .. -1 /\ m[Z + Min(F)] = Str(s, t)
    BY <2>2 DEF FoundStrings
  <2> HIDE DEF r, F, gs, ss, Z
  <2> QED BY <2>1, <2>3 DEF r, gs, ss, Z
<1>3. CASE F = {} /\ Z + offset < S + ss
  <2>1. r.ret = 0 /\ r.m = m
    <3> HIDE DEF r, F, m2, Z, S, ss, offset
    <3> QED BY <1>1, <1>3
  <2> HIDE DEF r, F, gs, ss, Z
  <2> QED BY <2>1 DEF r, ss
<1>4. CASE F = {} /\ ~(Z + offset < S + ss)
  <2> DEFINE y == Z + offset
  <2>1. r.ret = offset /\ r.m = m2
    <3> HIDE DEF r, F, m2, Z, S, ss, offset
    <3> QED BY <1>1, <1>4
  <2>2. /\ offset \in Int /\ y \in 0 .. MemSize - 1 /\ y >= S + ss
        /\ y >= 10 /\ y < Z - gs /\ gs + 1 \in Nat
    <3> HIDE DEF Z, S, ss, gs
    <3> QED BY <1>0, <1>4
  <2>4. /\ m1 \in Memory /\ m1[y] = Str(s, t)
        /\ \A a \in 0 .. MemSize - 1 : a # y => m1[a] = m[a]
    <3>1. Str(s, t) \in Cell
      BY CellFacts
    <3>2. m1 = [m EXCEPT ![y] = Str(s, t)]
      OBVIOUS
    <3> HIDE DEF y, m1
    <3> QED BY <1>0, <2>2, <3>1, <3>2 DEF Memory
  <2>5. /\ m2 \in Memory /\ m2[8] = Num(gs + 1)
        /\ \A a \in 0 .. MemSize - 1 : a # 8 => m2[a] = m1[a]
    <3> HIDE DEF m1, gs
    <3> QED BY <1>0, <2>2, <2>4, SetMemory
  <2> HIDE DEF m1, m2
  <2>6. fdt_size_dt_strings(m2) = gs + 1
    BY <2>2, <2>5, CellFacts DEF fdt_size_dt_strings
  <2>7. \A a \in 0 .. MemSize - 1 : a # 8 /\ a # y => m2[a] = m[a]
    BY <2>4, <2>5
  <2>8. m2[y] = Str(s, t)
    <3> HIDE DEF y
    <3> QED BY <2>2, <2>4, <2>5
  <2> HIDE DEF y
  <2>9. /\ fdt_totalsize(m2) = Z /\ fdt_off_dt_struct(m2) = S
        /\ fdt_size_dt_struct(m2) = ss /\ fdt_off_dt_strings(m2) = fdt_off_dt_strings(m)
    <3>1. m2[1] = m[1] /\ m2[2] = m[2] /\ m2[9] = m[9] /\ m2[3] = m[3]
      BY <1>0, <2>2, <2>7
    <3> QED BY <3>1 DEF fdt_totalsize, fdt_off_dt_struct, fdt_size_dt_struct,
                       fdt_off_dt_strings
  <2>10. SwGood(m2)
    <3>1. SwGood(r.m)
      BY SwFindAddStringKept DEF Held
    <3> HIDE DEF r
    <3> QED BY <2>1, <3>1
  <2>11. Longer(m, m2)
    <3>1. SameWords(m, 0, m2, 0, ss)
      <4> SUFFICES ASSUME NEW i \in 0 .. ss - 1 PROVE At(m2, 0 + i) = At(m, 0 + i)
        BY DEF SameWords
      <4> DEFINE a == S + (0 + i)
      <4> HIDE DEF S, ss, Z, gs
      <4>1. a \in 0 .. MemSize - 1 /\ a # 8 /\ a # y
        BY <1>0, <2>2
      <4> HIDE DEF a
      <4>2. m2[a] = m[a]
        BY <2>7, <4>1
      <4> QED BY <2>9, <4>2 DEF At, a, S
    <3>2. Framed(m2)
      BY <2>10, SwFramed
    <3>3. ss <= ss
      BY <1>0
    <3> QED BY <2>9, <3>1, <3>2, <3>3 DEF Longer
  <2>12. StringsStay(m, m2)
    <3> SUFFICES ASSUME NEW i \in -gs .. -1 PROVE m2[Z + i] = m[Z + i]
      BY <2>9 DEF StringsStay
    <3> DEFINE a == Z + i
    <3> HIDE DEF S, ss, Z, gs
    <3>1. a \in 0 .. MemSize - 1 /\ a # 8 /\ a # y
      BY <1>0, <2>2
    <3> HIDE DEF a
    <3>2. m2[a] = m[a]
      BY <2>7, <3>1
    <3> QED BY <3>2 DEF a
  <2>13. fdt_off_dt_strings(m2) = fdt_totalsize(m2) /\ gs <= fdt_size_dt_strings(m2)
    <3>1. fdt_off_dt_strings(m) = Z
      BY DEF Listed
    <3> HIDE DEF gs, Z
    <3> QED BY <1>0, <2>6, <2>9, <3>1
  <2>14. /\ Listed(m2)
         /\ \A o, x : HasProp(m2, o, x) =>
                HasProp(m, o, x) /\ PropName(m2, x) = PropName(m, x)
         /\ \A o : Reaches(m2, o, ss) => Reaches(m, o, ss)
    BY <2>9, <2>10, <2>11, <2>12, <2>13, StringsListed
  <2>15. offset \in -(gs + 1) .. -1 /\ m2[Z + offset] = Str(s, t)
    <3>1. offset \in -(gs + 1) .. -1
      <4> HIDE DEF gs
      <4> QED BY <1>0
    <3> QED BY <2>8, <3>1 DEF y
  <2>16. r.m = m2 => /\ fdt_size_dt_strings(r.m) = gs + 1 /\ fdt_totalsize(r.m) = Z
    BY <2>6, <2>9
  <2> HIDE DEF r, F, gs, ss, Z, offset
  <2> QED BY <2>1, <2>14, <2>15, <2>16 DEF r, ss
<1> QED BY <1>2, <1>3, <1>4

\* The offset of a name is read as it has been written.
LEMMA IndexRead ==
    ASSUME StringsReach, NEW gs \in Nat, gs <= MemSize, NEW i \in -gs .. -1
    PROVE  AsInt(Unsigned(i)) = i /\ Unsigned(i) \in Nat
<1>1. MemSize \in Nat /\ i \in Int /\ -32768 <= i /\ i < 0
  BY MemAssumption DEF StringsReach
<1>2. i % 65536 = i + 65536
  BY <1>1
<1> QED BY <1>1, <1>2 DEF AsInt, Unsigned

\* A property whose name the strings block holds, and no property of its node
\* has, can be found once its space is written.
LEMMA PropertyPut ==
    ASSUME NEW m, SwGood(m), Listed(m), RsvDone(m), StringsReach,
           NEW s, NEW t, NEW i, i \in -fdt_size_dt_strings(m) .. -1,
           m[fdt_totalsize(m) + i] = Str(s, t),
           \A o, x : Reaches(m, o, fdt_size_dt_struct(m)) /\ HasProp(m, o, x) =>
                PropName(m, x) # s,
           NEW val \in Seq(Byte),
           NEW r, r = fdt_grab_space_(m, PropSize + Words(Len(val))), r.ret >= 0
    PROVE  LET prop == <<Num(FDT_PROP), Num(Len(val)), Num(Unsigned(i))>>
           IN  Listed(CopyBytes(Store(r.m, r.ret, prop), r.ret + PropSize, 0, val))
<1> DEFINE prop == <<Num(FDT_PROP), Num(Len(val)), Num(Unsigned(i))>>
           W  == Words(Len(val))
           b  == r.m
           a  == r.ret
           m1 == Store(b, a, prop)
           m2 == CopyBytes(m1, a + 3, 0, val)
           ss == fdt_size_dt_struct(m)
           S  == fdt_off_dt_struct(m)
           gs == fdt_size_dt_strings(m)
           Z  == fdt_totalsize(m)
           n  == 3 + W
<1>0. /\ MemSize \in Nat /\ ss \in Nat /\ S \in Nat /\ gs \in Nat
      /\ Z \in Nat /\ S >= 12 /\ S + ss <= Z - gs /\ Z <= MemSize /\ gs <= MemSize
  <2>1. /\ MemSize \in Nat /\ ss \in Nat /\ S \in Nat /\ gs \in Nat
        /\ Z \in Nat /\ S >= 12 /\ S + ss <= Z - gs /\ Z <= MemSize
    BY SwFacts
  <2> HIDE DEF ss, S, gs, Z
  <2> QED BY <2>1
<1>1. Len(val) \in Nat /\ W \in Nat /\ n \in Nat
  <2>1. Len(val) \in Nat
    BY SMTT(30)
  <2>2. W \in Nat
    BY <2>1, WordsNat
  <2> HIDE DEF W
  <2> QED BY <2>2
<1>2. AsInt(Unsigned(i)) = i /\ Unsigned(i) \in Nat
  <2> HIDE DEF gs
  <2> QED BY <1>0, IndexRead DEF gs
<1>3. /\ Appended(m, b, n) /\ a = S + ss
      /\ \A x \in 0 .. MemSize - 1 : x # 9 => b[x] = m[x]
  <2>1. r = fdt_grab_space_(m, n)
    OBVIOUS
  <2> HIDE DEF n
  <2> QED BY <1>1, <2>1, GrabbedAppended
<1>4. a + n <= Z - gs
  <2>1. r = fdt_grab_space_(m, n)
    OBVIOUS
  <2> HIDE DEF n
  <2> QED BY <1>1, <2>1, GrabSpace
<1>5. /\ SwGood(b) /\ b \in Memory /\ fdt_size_dt_struct(b) = ss + n
      /\ fdt_off_dt_struct(b) = S /\ fdt_totalsize(b) = Z
  <2> HIDE DEF n, b
  <2>1. SwGood(b) /\ fdt_size_dt_struct(b) = ss + n
    BY <1>3 DEF Appended
  <2>2. fdt_off_dt_struct(b) = S /\ fdt_totalsize(b) = Z
    BY <1>1, <1>3, AppendedLonger
  <2>3. b \in Memory
    BY <2>1, SwFacts
  <2> QED BY <2>1, <2>2, <2>3
<1>6. prop \in [1 .. 3 -> Cell] /\ Len(prop) = 3
  BY <1>1, <1>2, Cells, CellFacts
<1> HIDE DEF a, b, m1, m2, prop, W
<1>7. /\ m1 \in Memory
      /\ \A x \in 0 .. MemSize - 1 : x < a \/ x >= a + 3 => m1[x] = b[x]
      /\ \A j \in 1 .. 3 : a + j - 1 < MemSize => m1[a + j - 1] = prop[j]
  <2> DEFINE k == 3
  <2>1. k \in Nat /\ prop \in [1 .. k -> Cell] /\ Len(prop) = k /\ a \in Nat
    BY <1>0, <1>3, <1>6
  <2> HIDE DEF k
  <2>2. /\ m1 \in Memory
        /\ \A x \in 0 .. MemSize - 1 : x < a \/ x >= a + k => m1[x] = b[x]
        /\ \A j \in 1 .. k : a + j - 1 < MemSize => m1[a + j - 1] = prop[j]
    BY ZenonT(30), <1>5, <2>1, StoreMemory DEF m1
  <2> QED BY <2>2 DEF k
<1>8. /\ m2 \in Memory
      /\ \A x \in 0 .. MemSize - 1 : x < a + 3 \/ x >= a + 3 + W => m2[x] = m1[x]
  <2>1. a + 3 \in Nat /\ 0 \in Nat /\ 0 + Len(val) = Len(val)
    <3> HIDE DEF S, ss, n
    <3> QED BY <1>0, <1>1, <1>3
  <2>2. /\ CopyBytes(m1, a + 3, 0, val) \in Memory
        /\ \A x \in 0 .. MemSize - 1 :
              x < a + 3 \/ x >= a + 3 + Words(0 + Len(val)) =>
                  CopyBytes(m1, a + 3, 0, val)[x] = m1[x]
    BY <1>7, <2>1, CopyMemory
  <2>3. m2 = CopyBytes(m1, a + 3, 0, val) /\ Words(0 + Len(val)) = W
    BY <2>1 DEF m2, W
  <2> QED BY <2>2, <2>3
<1>9. \A x \in 0 .. MemSize - 1 : x < a \/ x >= a + n => m2[x] = b[x]
  <2> HIDE DEF S, ss, gs, Z
  <2> QED BY <1>0, <1>1, <1>3, <1>7, <1>8
<1>10. SwGood(m2) /\ SwSame(b, m2)
  <2>1. \A x \in 0 .. MemSize - 1 :
            x < fdt_off_dt_struct(b) \/ x >= fdt_totalsize(b) => m2[x] = b[x]
    <3> HIDE DEF S, ss, gs, Z, n
    <3> QED BY <1>0, <1>1, <1>3, <1>4, <1>5, <1>9
  <2> QED BY <1>5, <1>8, <2>1, SwWritten
<1>11. Appended(m, m2, n)
  <2>1. fdt_size_dt_struct(m2) = ss + n
    BY <1>5, <1>10 DEF SwSame
  <2>2. \A x \in 0 .. MemSize - 1 : x # 9 /\ (x < S + ss \/ x >= S + ss + n) => m2[x] = m[x]
    <3> HIDE DEF S, ss, n
    <3> QED BY <1>3, <1>9
  <2> HIDE DEF n
  <2> QED BY <1>10, <2>1, <2>2 DEF Appended
<1>12. /\ fdt_off_dt_struct(m2) = S /\ fdt_totalsize(m2) = Z
       /\ fdt_off_dt_strings(m2) = fdt_off_dt_strings(m) /\ fdt_size_dt_strings(m2) = gs
       /\ fdt_size_dt_struct(m2) = ss + n /\ StringsStay(m, m2) /\ SwGood(m2)
  <2> HIDE DEF n
  <2> QED BY <1>1, <1>11, AppendedLonger
<1>13. /\ At(m2, ss) = Num(FDT_PROP) /\ At(m2, ss + 1) = Num(Len(val))
       /\ At(m2, ss + 2) = Num(Unsigned(i))
  <2> DEFINE a1 == a + 1
             a2 == a + 2
  <2>1. /\ a \in 0 .. MemSize - 1 /\ a < a + 3 /\ a = S + ss
        /\ a1 \in 0 .. MemSize - 1 /\ a1 < a + 3 /\ a1 = S + (ss + 1)
        /\ a2 \in 0 .. MemSize - 1 /\ a2 < a + 3 /\ a2 = S + (ss + 2)
        /\ a + 1 - 1 = a /\ a + 2 - 1 = a1 /\ a + 3 - 1 = a2
    <3> HIDE DEF S, ss, gs, Z
    <3> QED BY <1>0, <1>1, <1>3, <1>4
  <2> HIDE DEF a1, a2
  <2>2. m1[a] = prop[1] /\ m1[a1] = prop[2] /\ m1[a2] = prop[3]
    <3>1. 1 \in 1 .. 3 /\ 2 \in 1 .. 3 /\ 3 \in 1 .. 3
      OBVIOUS
    <3>2. a < MemSize /\ a1 < MemSize /\ a2 < MemSize
      <4> HIDE DEF S, ss, gs, Z
      <4> QED BY <1>0, <2>1
    <3> QED BY <1>7, <2>1, <3>1, <3>2
  <2>3. m2[a] = prop[1] /\ m2[a1] = prop[2] /\ m2[a2] = prop[3]
    BY <1>8, <2>1, <2>2
  <2>4. m2[S + ss] = prop[1] /\ m2[S + (ss + 1)] = prop[2] /\ m2[S + (ss + 2)] = prop[3]
    BY <2>1, <2>3
  <2>5. prop[1] = Num(FDT_PROP) /\ prop[2] = Num(Len(val)) /\ prop[3] = Num(Unsigned(i))
    BY DEF prop
  <2> HIDE DEF S, ss
  <2> QED BY <1>12, <2>4, <2>5 DEF At
<1>14. Tag(m2, ss) = FDT_PROP /\ NextOf(m2, ss) = ss + n
  <2>1. Value(At(m2, ss)) = 3 /\ Value(At(m2, ss + 1)) = Len(val)
    BY <1>1, <1>13, CellFacts
  <2>2. ss + 3 + Words(Len(val)) = ss + n
    <3> HIDE DEF ss
    <3> QED BY <1>0, <1>1 DEF W
  <2>3. Framed(m2)
    BY <1>12, SwFramed
  <2>4. ss + n <= fdt_size_dt_struct(m2)
    <3> HIDE DEF n, ss
    <3> QED BY <1>0, <1>1, <1>12
  <2> HIDE DEF ss, n
  <2> QED BY <1>0, <1>1, <2>1, <2>2, <2>3, <2>4, PropItem
<1>15. Follows(m, m2)
  <2> HIDE DEF n
  <2> QED BY <1>1, <1>11, <1>14, AppendedFollows
<1>16. Index(m2, ss) = i
  BY <1>2, <1>13, CellFacts DEF Index
<1>17. PropName(m2, ss) = s
  <2>1. m2[Z + i] = Str(s, t)
    <3>1. m2[Z + i] = m[Z + i]
      BY <1>12 DEF StringsStay
    <3> QED BY <3>1
  <2>2. Z + i \in DOMAIN m2
    <3>1. DOMAIN m2 = 0 .. MemSize - 1
      BY <1>12, SwFacts
    <3> HIDE DEF Z, gs, ss, S
    <3>2. i \in -gs .. -1
      BY DEF gs
    <3> QED BY <1>0, <3>1, <3>2
  <2>3. fdt_off_dt_strings(m2) = Z
    BY <1>12 DEF Listed
  <2>4. PropName(m2, ss) = StringOf(m2[Z + i])
    <3> HIDE DEF Z, ss
    <3> QED BY <1>16, <2>2, <2>3 DEF PropName, fdt_string, Index, StringOf
  <2>5. StringOf(Str(s, t)) = s
    BY DEF StringOf, Str
  <2> QED BY <2>1, <2>4, <2>5
<1>18. NewItem(m, m2)
  <2> HIDE DEF ss, gs
  <2> QED BY <1>12, <1>16, <1>17 DEF NewItem, ss, gs
<1>19. Listed(m2)
  BY <1>15, <1>18, ListedLonger
<1> QED BY <1>19 DEF m2, m1, a, b, prop

\* fdt_property leaves every property where it can be found, at whichever of its
\* two steps it fails.
LEMMA PropertyListed ==
    ASSUME NEW m, SwGood(m), fdt_size_dt_struct(m) > 0, Listed(m), StringsReach,
           NEW s \in Names, NEW t \in Nat, NEW val \in Seq(Byte),
           \A o, x : Reaches(m, o, fdt_size_dt_struct(m)) /\ HasProp(m, o, x) =>
                PropName(m, x) # s
    PROVE  Listed(Property(m, s, t, val).m)
<1> DEFINE name == SwFindAddString(m, s, t)
           b    == name.m
           i    == name.ret
           W    == Words(Len(val))
           r    == fdt_grab_space_(b, PropSize + W)
           prop == <<Num(FDT_PROP), Num(Len(val)), Num(Unsigned(i))>>
           m2   == CopyBytes(Store(r.m, r.ret, prop), r.ret + PropSize, 0, val)
           f    == Property(m, s, t, val)
           ss   == fdt_size_dt_struct(m)
<1>0. SwGood(b) /\ RsvDone(b) /\ fdt_size_dt_struct(b) = ss
  <2>1. RsvDone(m)
    BY DEF SwGood
  <2> QED BY <2>1, SwFindAddStringKept DEF Held
<1>1. /\ Listed(b)
      /\ \A o, x : HasProp(b, o, x) => HasProp(m, o, x) /\ PropName(b, x) = PropName(m, x)
      /\ \A o : Reaches(b, o, ss) => Reaches(m, o, ss)
      /\ i # 0 => i \in -fdt_size_dt_strings(b) .. -1 /\ b[fdt_totalsize(b) + i] = Str(s, t)
  BY StringAdded
<1>2. f = IF i = 0 THEN [ret |-> -FDT_ERR_NOSPACE, m |-> b, p |-> 0]
          ELSE IF r.ret < 0 THEN r
          ELSE [ret |-> 0, m |-> m2, p |-> 0]
  BY Zenon DEF Property, Return
<1>3. W \in Nat /\ PropSize + W \in Nat
  BY WordsNat
<1> HIDE DEF b, i
<1>4. r.ret \in Int /\ (r.ret < 0 => r.m = b)
  <2> HIDE DEF W
  <2> QED BY <1>0, <1>3, GrabSpace DEF Held
<1>5. ASSUME NEW o, NEW x, Reaches(b, o, fdt_size_dt_struct(b)), HasProp(b, o, x)
      PROVE  PropName(b, x) # s
  <2>1. Reaches(m, o, ss) /\ HasProp(m, o, x) /\ PropName(b, x) = PropName(m, x)
    BY <1>0, <1>1, <1>5
  <2> HIDE DEF ss
  <2> QED BY <2>1 DEF ss
<1>6. CASE i = 0
  <2> HIDE DEF f, r, m2
  <2>1. f.m = b
    BY <1>2, <1>6
  <2> QED BY <1>1, <2>1 DEF f
<1>7. CASE i # 0 /\ r.ret < 0
  <2> HIDE DEF f, r, m2
  <2>1. f.m = b
    BY <1>2, <1>4, <1>7
  <2> QED BY <1>1, <2>1 DEF f
<1>8. CASE i # 0 /\ r.ret >= 0
  <2>1. Listed(m2)
    <3> HIDE DEF r
    <3>1. r = fdt_grab_space_(b, PropSize + Words(Len(val)))
      BY DEF r
    <3>2. i \in -fdt_size_dt_strings(b) .. -1 /\ b[fdt_totalsize(b) + i] = Str(s, t)
      BY <1>1, <1>8
    <3> QED BY <1>0, <1>1, <1>5, <1>8, <3>1, <3>2, PropertyPut
  <2> HIDE DEF f, r, m2
  <2>2. f.m = m2
    BY <1>2, <1>4, <1>8
  <2> QED BY <2>1, <2>2 DEF f
<1>9. r.ret < 0 \/ r.ret >= 0
  BY <1>4
<1> QED BY <1>6, <1>7, <1>8, <1>9

-----------------------------------------------------------------------------
(* The remaining calls.                                                    *)

\* Where a property may be added, the node that gets it has none of that name.
LEMMA PropertyIsNew ==
    ASSUME SwGood(mem), Listed(mem), NEW s, MayAddProperty(s),
           NEW o, NEW x, Reaches(mem, o, fdt_size_dt_struct(mem)), HasProp(mem, o, x)
    PROVE  PropName(mem, x) # s
<1> DEFINE w == Walk(mem, 0)
           T == TagOffsets(mem, 0)
           n == fdt_size_dt_struct(mem)
           N == Nodes(w)
<1>1. /\ \A y \in PropsOf(w, LastNode(w)) : PropName(mem, y.at) # s
      /\ LastNode(w) = Max(N)
  BY Zenon DEF MayAddProperty, LastNode
<1>2. Ended(mem)
  BY DEF Listed
<1>3. n \in Nat /\ T \subseteq 0 .. n /\ Tag(mem, n) = FDT_END
  BY <1>2, EndedItems
<1>4. /\ o \in T /\ Tag(mem, o) = FDT_BEGIN_NODE
      /\ \A y \in T : o < y /\ y < n => Tag(mem, y) \in {FDT_PROP, FDT_NOP}
  BY DEF Reaches
<1>5. \A y \in N : y \in T /\ Tag(mem, y) = FDT_BEGIN_NODE
  BY NodesOfWalk DEF Tag
<1>6. o \in N
  BY <1>4, NodesOfWalk DEF Tag
<1>7. Item(mem, x) \in PropsOf(w, o) /\ Item(mem, x).at = x
  BY ReachedProps, WalkItem DEF HasProp
<1> HIDE DEF w, T, n, N
<1>8. ASSUME NEW y \in N PROVE o >= y
  <2>1. y \in 0 .. n /\ o \in 0 .. n
    BY <1>3, <1>4, <1>5
  <2>2. y # n
    BY <1>3, <1>5
  <2>3. CASE o < y
    <3>1. y < n
      BY <1>3, <2>1, <2>2
    <3>2. Tag(mem, y) \in {FDT_PROP, FDT_NOP}
      BY <1>4, <1>5, <2>3, <3>1
    <3> QED BY <1>5, <3>2
  <2> QED BY <1>3, <2>1, <2>3
<1>9. Max(N) = o
  <2>1. \E y \in N : \A z \in N : y >= z
    BY <1>6, <1>8
  <2>2. Max(N) \in N /\ \A z \in N : Max(N) >= z
    BY <2>1 DEF Max
  <2>3. Max(N) >= o /\ o >= Max(N)
    BY <1>6, <1>8, <2>2
  <2>4. Max(N) \in Int /\ o \in Int
    <3>1. Max(N) \in 0 .. n /\ o \in 0 .. n
      BY <1>3, <1>4, <1>5, <2>2
    <3> QED BY <1>3, <3>1
  <2> DEFINE M == Max(N)
  <2> HIDE DEF M
  <2>5. M = o
    BY <2>3, <2>4 DEF M
  <2> QED BY <2>5 DEF M
<1> QED BY <1>1, <1>7, <1>9

\* Reservations come before the first node.
LEMMA ReserveListed ==
    ASSUME NEW m, SwGood(m), Listed(m), NEW rsv \in [address : Nat, size : Nat]
    PROVE  Listed(AddReservemapEntry(m, rsv).m)
<1> DEFINE r == AddReservemapEntry(m, rsv)
<1>1. /\ Held(m, r)
      /\ r.ret # 0 => r.m = m
      /\ r.ret = 0 => /\ fdt_size_dt_struct(r.m) = 0
                      /\ fdt_off_dt_strings(r.m) = fdt_off_dt_strings(m)
  BY ReserveKept
<1>2. fdt_off_dt_strings(m) = fdt_totalsize(m)
  BY DEF Listed
<1> HIDE DEF r
<1>3. CASE r.ret = 0
  <2>1. SwGood(r.m) /\ fdt_totalsize(r.m) = fdt_totalsize(m)
    BY <1>1 DEF Held
  <2> QED BY <1>1, <1>2, <1>3, <2>1, ListedEmpty DEF r
<1>4. CASE r.ret # 0
  BY <1>1, <1>4 DEF r
<1> QED BY <1>3, <1>4

\* A new blob is empty.
LEMMA CreateListed ==
    ASSUME NEW m \in Memory, NEW bufsize \in 0 .. BufSize, ~(bufsize < SwHeadSize),
           Create(m, bufsize).ret = 0
    PROVE  Listed(Create(m, bufsize).m)
<1> DEFINE r == Create(m, bufsize)
<1>1. /\ SwGood(r.m) /\ fdt_totalsize(r.m) = bufsize
      /\ fdt_size_dt_struct(r.m) = 0 /\ fdt_off_dt_strings(r.m) = bufsize
  BY CreateKept
<1> HIDE DEF r
<1>2. Listed(r.m)
  BY <1>1, ListedEmpty
<1> QED BY <1>2 DEF r

\* A buffer that stays where it is keeps the structure block, and the strings
\* move to its new end.
LEMMA BufferStays ==
    ASSUME NEW m, SwGood(m), NEW bufsize \in 0 .. BufSize,
           bufsize >= fdt_off_dt_struct(m) + fdt_size_dt_struct(m) + fdt_size_dt_strings(m),
           Resize(m, 0, bufsize).ret = 0
    PROVE  LET m2 == Resize(m, 0, bufsize).m
           IN  /\ \A a \in 0 .. fdt_off_dt_struct(m) + fdt_size_dt_struct(m) - 1 :
                    a \notin {hOffDtStrings, hTotalsize} => m2[a] = m[a]
               /\ \A i \in -fdt_size_dt_strings(m) .. -1 :
                    m2[bufsize + i] = m[fdt_totalsize(m) + i]
<1> DEFINE shift == 0
           S   == fdt_off_dt_struct(m)
           gs  == fdt_size_dt_strings(m)
           ss  == fdt_size_dt_struct(m)
           Z   == fdt_totalsize(m)
           D   == -MemSize .. 2 * MemSize
           old == Z - gs
           new == shift + bufsize - gs
           X   == Around(m)
           Y   == Move(X, shift, 0, S)
           moved == Move(Y, new, old, gs)
           mv  == IF shift <= 0 THEN Move(Move(X, shift, 0, S), new, old, gs)
                  ELSE Move(Move(X, new, old, gs), shift, 0, S)
           buf == [a \in DOMAIN m |-> mv[a + shift]]
           m1  == Set(buf, hOffDtStrings, bufsize)
           m2  == Set(m1, hTotalsize, bufsize)
           r   == Resize(m, shift, bufsize)
<1>0. /\ m \in Memory /\ DOMAIN m = 0 .. MemSize - 1
      /\ MemSize \in Nat /\ MemSize >= 10 /\ BufSize \in Nat /\ BufSize <= MemSize
      /\ Z \in Nat /\ S \in Nat /\ ss \in Nat /\ gs \in Nat
      /\ S >= 12 /\ S + ss <= Z - gs /\ Z <= MemSize
  BY SwFacts
<1>0a. /\ bufsize \in Nat /\ bufsize <= MemSize /\ bufsize >= S + ss + gs
  <2> HIDE DEF S, gs, ss, Z
  <2>1. bufsize >= S + ss + gs
    BY DEF S, gs, ss
  <2> QED BY <1>0, <2>1
<1>0b. /\ old \in Nat /\ new \in Nat /\ old + gs = Z /\ new + gs = bufsize
       /\ S + ss <= new /\ S + ss <= old /\ S + gs <= bufsize
  <2> HIDE DEF S, gs, ss, Z
  <2> QED BY <1>0, <1>0a
<1>1. r = IF S + gs > bufsize THEN Return(-FDT_ERR_NOSPACE, m) ELSE Return(0, m2)
  BY Zenon DEF Resize
<1>2. r.m = m2
  <2> HIDE DEF r, m2, S, gs, ss, Z, new, old
  <2>1. ~(S + gs > bufsize)
    BY <1>0, <1>0a, <1>0b
  <2>2. r = [ret |-> 0, m |-> m2, p |-> 0]
    BY <1>1, <2>1 DEF Return
  <2> QED BY <2>2
<1>3. /\ \A a \in 0 .. MemSize - 1 : a \in D /\ X[a] = m[a]
      /\ DOMAIN X = D /\ D \subseteq Int
  <2>1. X = [a \in D |-> IF a \in DOMAIN m THEN m[a] ELSE Text]
    BY DEF Around
  <2>2. \A a \in 0 .. MemSize - 1 : a \in D
    BY <1>0
  <2>3. D \subseteq Int
    BY <1>0
  <2> HIDE DEF X, D
  <2> QED BY <1>0, <2>1, <2>2, <2>3
<1>4. \A a \in 0 .. MemSize - 1 : Y[a] = m[a]
  <2> SUFFICES ASSUME NEW a \in 0 .. MemSize - 1 PROVE Y[a] = m[a]
    OBVIOUS
  <2>1. Y = [b \in DOMAIN X |-> IF b \in shift .. shift + S - 1
                                THEN X[0 + b - shift] ELSE X[b]]
    BY Zenon DEF Move
  <2>2. 0 + a - shift = a
    BY <1>0
  <2> HIDE DEF X, Y, D, shift
  <2> QED BY <1>3, <2>1, <2>2
<1>5. DOMAIN Y = D
  BY <1>3 DEF Move
<1>6. \A a \in 0 .. MemSize - 1 :
        /\ a < new => moved[a] = m[a]
        /\ a >= new /\ a < new + gs => moved[a] = m[old + a - new]
  <2> SUFFICES ASSUME NEW a \in 0 .. MemSize - 1
               PROVE  /\ a < new => moved[a] = m[a]
                      /\ a >= new /\ a < new + gs => moved[a] = m[old + a - new]
    OBVIOUS
  <2> HIDE DEF Y, D, X
  <2>1. a \in DOMAIN Y /\ a \in Int
    BY <1>0, <1>3, <1>5
  <2>2. /\ a < new \/ a >= new + gs => moved[a] = Y[a]
        /\ a >= new /\ a < new + gs => moved[a] = Y[old + a - new]
    <3>1. new \in Int /\ old \in Int /\ gs \in Nat
      BY <1>0, <1>0b
    <3> HIDE DEF new, old, gs
    <3> QED BY <2>1, <3>1, MovedCell
  <2>3. a >= new /\ a < new + gs => old + a - new \in 0 .. MemSize - 1
    <3> HIDE DEF new, old, gs, Z
    <3> QED BY <1>0, <1>0b
  <2> HIDE DEF new, old, gs, moved
  <2> QED BY <1>4, <2>2, <2>3
<1>7. \A a \in 0 .. MemSize - 1 : buf[a] = moved[a]
  <2>1. mv = moved
    <3>1. shift <= 0
      OBVIOUS
    <3> HIDE DEF X, S, new, old, gs, shift
    <3> QED BY <3>1
  <2> HIDE DEF moved, mv
  <2> QED BY <1>0, <2>1
<1>7a. buf \in Memory
  <2>1. \A a \in 0 .. MemSize - 1 : moved[a] \in Cell
    <3>1. /\ D \subseteq Int /\ X \in [D -> Cell]
      <4>1. \A a \in 0 .. MemSize - 1 : m[a] \in Cell
        BY <1>0 DEF Memory
      <4>2. X = [a \in D |-> IF a \in DOMAIN m THEN m[a] ELSE Text]
        BY DEF Around
      <4>3. Text \in Cell
        BY CellFacts
      <4> HIDE DEF X, D
      <4> QED BY <1>0, <1>3, <4>1, <4>2, <4>3
    <3>2. 0 .. 0 + S - 1 \subseteq D /\ old .. old + gs - 1 \subseteq D
      <4> HIDE DEF S, Z, gs, ss, old
      <4> QED BY <1>0, <1>0b
    <3>3. shift \in Int /\ S \in Nat /\ new \in Int /\ old \in Int /\ gs \in Nat
      BY <1>0, <1>0b
    <3> DEFINE z == 0
    <3>4. z \in Int /\ z .. z + S - 1 \subseteq D /\ Y = Move(X, shift, z, S)
      BY <3>2
    <3> HIDE DEF X, Y, D, S, old, gs, shift, new, z
    <3>5. Y \in [D -> Cell]
      BY <3>1, <3>3, <3>4, MoveCells
    <3>6. moved \in [D -> Cell]
      BY <3>1, <3>2, <3>3, <3>5, MoveCells
    <3> HIDE DEF moved
    <3> QED BY <1>3, <3>6
  <2> HIDE DEF moved, mv
  <2> QED BY <1>0, <1>7, <2>1 DEF Memory
<1> HIDE DEF buf
<1>8. \A a \in 0 .. MemSize - 1 : a \notin {1, 3} => m2[a] = buf[a]
  <2>1. /\ m1 \in Memory
        /\ \A a \in 0 .. MemSize - 1 : a # 3 => m1[a] = buf[a]
    BY <1>0, <1>0a, <1>7a, SetMemory
  <2> HIDE DEF m1
  <2>2. \A a \in 0 .. MemSize - 1 : a # 1 => m2[a] = m1[a]
    BY SMTT(30), <1>0, <1>0a, <2>1, SetMemory
  <2> HIDE DEF m2
  <2> QED BY <2>1, <2>2
<1> HIDE DEF m2, moved
<1>9. \A a \in 0 .. S + ss - 1 : a \notin {1, 3} => m2[a] = m[a]
  <2>1. \A a \in 0 .. S + ss - 1 : a \in 0 .. MemSize - 1 /\ a < new
    <3> HIDE DEF S, ss, new, gs, Z
    <3> QED BY <1>0, <1>0a, <1>0b
  <2> HIDE DEF S, ss, new, gs, old
  <2> QED BY <1>6, <1>7, <1>8, <2>1
<1>10. \A i \in -gs .. -1 : m2[bufsize + i] = m[Z + i]
  <2> SUFFICES ASSUME NEW i \in -gs .. -1 PROVE m2[bufsize + i] = m[Z + i]
    OBVIOUS
  <2> DEFINE a == bufsize + i
  <2>1. /\ a \in 0 .. MemSize - 1 /\ a >= new /\ a < new + gs /\ a \notin {1, 3}
        /\ old + a - new = Z + i
    <3> HIDE DEF S, ss, new, gs, Z, old
    <3> QED BY <1>0, <1>0a, <1>0b
  <2> HIDE DEF a
  <2>2. m2[a] = m[old + a - new]
    <3> HIDE DEF new, old, gs
    <3> QED BY <1>6, <1>7, <1>8, <2>1
  <2> QED BY <2>1, <2>2 DEF a
<1> HIDE DEF r
<1> QED BY <1>2, <1>9, <1>10 DEF r

\* fdt_resize keeps what is in the blob.
LEMMA ResizeListed ==
    ASSUME NEW m, SwGood(m), Listed(m), NEW shift \in -MemSize .. MemSize,
           NEW bufsize \in 0 .. BufSize,
           \/ fdt_size_dt_struct(m) = 0
           \/ /\ shift = 0
              /\ bufsize >= fdt_off_dt_struct(m) + fdt_size_dt_struct(m)
                            + fdt_size_dt_strings(m)
    PROVE  Listed(Resize(m, shift, bufsize).m)
<1> DEFINE r  == Resize(m, shift, bufsize)
           S  == fdt_off_dt_struct(m)
           gs == fdt_size_dt_strings(m)
           ss == fdt_size_dt_struct(m)
<1>1. /\ SwGood(r.m)
      /\ r.ret # 0 => r.m = m
      /\ r.ret = 0 =>
            /\ fdt_totalsize(r.m) = bufsize /\ fdt_off_dt_strings(r.m) = bufsize
            /\ fdt_off_dt_struct(r.m) = S
            /\ fdt_size_dt_struct(r.m) = ss
            /\ fdt_size_dt_strings(r.m) = gs
  BY BufferResized
<1>2. CASE r.ret # 0
  <2> HIDE DEF r
  <2> QED BY <1>1, <1>2 DEF r
<1>3. CASE r.ret = 0 /\ ss = 0
  <2> HIDE DEF r
  <2>1. Listed(r.m)
    BY <1>1, <1>3, ListedEmpty DEF ss
  <2> QED BY <2>1 DEF r
<1>4. CASE r.ret = 0 /\ ss # 0
  <2>1. /\ \A a \in 0 .. S + ss - 1 : a \notin {3, 1} => r.m[a] = m[a]
        /\ \A i \in -gs .. -1 : r.m[bufsize + i] = m[fdt_totalsize(m) + i]
    BY <1>4, BufferStays
  <2>2. /\ S \in Nat /\ ss \in Nat /\ S >= 12 /\ gs \in Nat
    BY SwFacts
  <2> HIDE DEF r
  <2>3. Framed(r.m)
    BY <1>1, SwFramed
  <2>4. StringsStay(m, r.m)
    BY <1>1, <1>4, <2>1 DEF StringsStay
  <2>5. Longer(m, r.m)
    <3>1. ss <= fdt_size_dt_struct(r.m)
      BY <1>1, <1>4, <2>2
    <3>2. \A i \in 0 .. ss - 1 : At(r.m, 0 + i) = At(m, 0 + i)
      <4> SUFFICES ASSUME NEW i \in 0 .. ss - 1 PROVE At(r.m, 0 + i) = At(m, 0 + i)
        OBVIOUS
      <4> DEFINE a == S + (0 + i)
      <4>1. a \in 0 .. S + ss - 1 /\ a \notin {3, 1}
        <5> HIDE DEF S, ss
        <5> QED BY <2>2
      <4> HIDE DEF a
      <4>2. r.m[a] = m[a]
        BY <2>1, <4>1
      <4> QED BY <1>1, <1>4, <4>2, Zenon DEF At, a
    <3> QED BY <2>3, <3>1, <3>2 DEF Longer, SameWords
  <2>6. gs <= fdt_size_dt_strings(r.m)
    BY <1>1, <1>4, <2>2
  <2>7. Listed(r.m)
    BY <1>1, <1>4, <2>4, <2>5, <2>6, StringsListed
  <2> QED BY <2>7 DEF r
<1> QED BY <1>2, <1>3, <1>4

-----------------------------------------------------------------------------
(* The end of the tree.                                                    *)

\* If only the names of properties are other ones, the items are the same.
LEMMA NamesChanged ==
    ASSUME NEW m, Framed(m), \A x \in TagOffsets(m, 0) : NextOf(m, x) \in Nat,
           NEW m2, Framed(m2), fdt_size_dt_struct(m2) = fdt_size_dt_struct(m),
           \A i \in 0 .. fdt_size_dt_struct(m) - 1 :
                \/ i - 2 \in TagOffsets(m, 0) /\ Tag(m, i - 2) = FDT_PROP
                \/ At(m2, i) = At(m, i)
    PROVE  /\ TagOffsets(m2, 0) = TagOffsets(m, 0)
           /\ \A x \in TagOffsets(m, 0) :
                Tag(m2, x) = Tag(m, x) /\ NextOf(m2, x) = NextOf(m, x)
<1> DEFINE T  == TagOffsets(m, 0)
           ss == fdt_size_dt_struct(m)
<1>0. /\ Readable(m) /\ MemSize \in Nat /\ 0 \in 0 .. MemSize /\ ss \in Nat
      /\ T \subseteq 0 .. MemSize /\ IsChain(m, 0)
  <2>1. 0 \in 0 .. MemSize
    BY MemAssumption
  <2> QED BY <2>1, FramedFacts, TagOffsetsUnfold, WalkIsChain
<1>1. \A x \in T : /\ x \in Nat /\ NextOf(m, x) \in Nat
                   /\ x < NextOf(m, x) /\ NextOf(m, x) <= ss
  <2> SUFFICES ASSUME NEW x \in T
               PROVE  /\ x \in Nat /\ NextOf(m, x) \in Nat
                      /\ x < NextOf(m, x) /\ NextOf(m, x) <= ss
    OBVIOUS
  <2>1. x \in Nat
    BY <1>0
  <2> QED BY <1>0, <2>1, NextTag DEF NextOf
<1>2. \A x, y \in T : y < x => NextOf(m, y) <= x
  BY <1>0, Zenon DEF IsChain
<1>3. \A y \in T : Tag(m, y) = FDT_PROP => y + 3 <= NextOf(m, y)
  <2> SUFFICES ASSUME NEW y \in T, Tag(m, y) = FDT_PROP PROVE y + 3 <= NextOf(m, y)
    OBVIOUS
  <2>1. y \in Nat
    BY <1>1
  <2>2. Words(PropLen(m, y)) \in Nat /\ NextOf(m, y) = y + 3 + Words(PropLen(m, y))
    BY <2>1, PropNameNat
  <2> DEFINE W == Words(PropLen(m, y))
  <2>3. W \in Nat /\ NextOf(m, y) = y + 3 + W
    BY <2>2
  <2> HIDE DEF W
  <2> QED BY <2>1, <2>3
<1>4. \A x \in T : \A i \in x .. NextOf(m, x) - 1 :
        At(m2, i) = At(m, i) \/ (i = x + 2 /\ Tag(m, x) = FDT_PROP)
  <2> SUFFICES ASSUME NEW x \in T, NEW i \in x .. NextOf(m, x) - 1,
                      At(m2, i) # At(m, i)
               PROVE  i = x + 2 /\ Tag(m, x) = FDT_PROP
    OBVIOUS
  <2>1. /\ x \in Nat /\ NextOf(m, x) \in Nat /\ NextOf(m, x) <= ss
        /\ i \in Nat /\ x <= i /\ i < NextOf(m, x)
    BY <1>1
  <2>2. i \in 0 .. ss - 1
    <3> HIDE DEF ss
    <3> QED BY <1>0, <2>1
  <2>3. i - 2 \in T /\ Tag(m, i - 2) = FDT_PROP
    BY <2>2
  <2> DEFINE y == i - 2
  <2>4. y \in T /\ Tag(m, y) = FDT_PROP /\ i = y + 2
    BY <2>1, <2>3
  <2> HIDE DEF y, T
  <2>5. y \in Nat /\ NextOf(m, y) \in Nat /\ y + 3 <= NextOf(m, y)
    BY <1>1, <1>3, <2>4
  <2>6. ~(y < x)
    <3>1. y < x => NextOf(m, y) <= x
      BY <1>2, <2>4
    <3> QED BY <2>1, <2>4, <2>5, <3>1
  <2>7. ~(x < y)
    <3>1. x < y => NextOf(m, x) <= y
      BY <1>2, <2>4
    <3> QED BY <2>1, <2>4, <2>5, <3>1
  <2>8. x = y
    BY <2>1, <2>5, <2>6, <2>7
  <2> QED BY <2>4, <2>8
<1>5. \A x \in T : Tag(m2, x) = Tag(m, x) /\ NextOf(m2, x) = NextOf(m, x)
  <2> SUFFICES ASSUME NEW x \in T
               PROVE  Tag(m2, x) = Tag(m, x) /\ NextOf(m2, x) = NextOf(m, x)
    OBVIOUS
  <2> DEFINE N == NextOf(m, x)
  <2>0. x \in Nat /\ N \in Nat /\ x < N /\ N <= ss
    BY <1>1
  <2>1. CASE Tag(m, x) # FDT_PROP
    <3> DEFINE n == N - x
    <3>1. n \in Nat /\ x + n = N /\ x + n <= fdt_size_dt_struct(m2)
      <4> HIDE DEF N, ss
      <4>1. N <= fdt_size_dt_struct(m2)
        BY <2>0 DEF ss
      <4> QED BY <2>0, <4>1
    <3>2. SameWords(m, x, m2, x, n)
      <4> SUFFICES ASSUME NEW j \in 0 .. n - 1 PROVE At(m2, x + j) = At(m, x + j)
        BY DEF SameWords
      <4>1. x + j \in x .. N - 1
        <5> HIDE DEF N
        <5> QED BY <2>0
      <4> QED BY <1>4, <2>1, <4>1
    <3> HIDE DEF n
    <3>3. Tag(m2, x) = Tag(m, x) /\ NextOf(m2, x) = x + n
      BY <2>0, <3>1, <3>2, ItemShift
    <3> QED BY <3>1, <3>3
  <2>2. CASE Tag(m, x) = FDT_PROP
    <3> DEFINE len == PropLen(m, x)
               W   == Words(len)
    <3>1. len \in Nat /\ W \in Nat /\ N = x + 3 + W
      BY <2>0, <2>2, PropNameNat
    <3>2. Value(At(m, x)) = FDT_PROP /\ Value(At(m, x + 1)) = len
      <4>1. Value(At(m, x)) = FDT_PROP
        BY <2>2 DEF Tag, fdt_next_tag, TagTo, TagEnd
      <4> QED BY <4>1 DEF PropLen
    <3>3. At(m2, x) = At(m, x) /\ At(m2, x + 1) = At(m, x + 1)
      <4>1. /\ x \in x .. N - 1 /\ x # x + 2
            /\ x + 1 \in x .. N - 1 /\ x + 1 # x + 2
        <5> HIDE DEF N, W
        <5> QED BY <2>0, <3>1
      <4> QED BY <1>4, <4>1
    <3>4. x + 3 + W <= fdt_size_dt_struct(m2)
      <4>1. N <= fdt_size_dt_struct(m2)
        BY <2>0
      <4> HIDE DEF N, W
      <4> QED BY <3>1, <4>1
    <3> HIDE DEF len
    <3>5. Tag(m2, x) = FDT_PROP /\ NextOf(m2, x) = x + 3 + Words(len)
      BY <2>0, <3>1, <3>2, <3>3, <3>4, PropItem
    <3> QED BY <2>2, <3>1, <3>5
  <2> QED BY <2>1, <2>2
<1>6. TagOffsets(m2, 0) = T
  BY <1>5, SameWalk
<1> QED BY <1>5, <1>6

\* A finished blob: the walk ends with an item, each property has its name in
\* the strings block, and no node has two properties of a name.
Filed(m) ==
    /\ \A x \in TagOffsets(m, 0) : NextOf(m, x) \in Nat
    /\ \A x \in TagOffsets(m, 0) :
         Tag(m, x) = FDT_PROP => Index(m, x) \in 0 .. fdt_size_dt_strings(m) - 1
    /\ Distinct(m)

\* FDT_END ends the walk.
LEMMA EndPut ==
    ASSUME NEW m, SwGood(m), Listed(m), RsvDone(m),
           NEW g, g = fdt_grab_space_(m, 1), g.ret >= 0,
           NEW r, r = Written(g, <<Num(FDT_END)>>)
    PROVE  /\ Appended(m, r.m, 1)
           /\ TagOffsets(r.m, 0) = TagOffsets(m, 0)
           /\ \A x \in TagOffsets(m, 0) :
                /\ Tag(r.m, x) = Tag(m, x) /\ NextOf(r.m, x) \in Nat
                /\ Tag(m, x) = FDT_PROP => At(r.m, x + 2) = At(m, x + 2)
<1> DEFINE cells == <<Num(FDT_END)>>
           b  == r.m
           ss == fdt_size_dt_struct(m)
           T  == TagOffsets(m, 0)
<1>0. ss \in Nat
  BY SwFacts
<1>1. cells \in [1 .. 1 -> Cell] /\ Len(cells) = 1 /\ cells[1] = Num(FDT_END)
  BY Cells, CellFacts
<1> HIDE DEF cells
<1>2. /\ Appended(m, b, 1)
      /\ \A i \in 0 .. 1 - 1 : At(b, ss + i) = cells[i + 1]
  <2> DEFINE n == 1
  <2>1. n \in Nat /\ cells \in [1 .. n -> Cell] /\ Len(cells) = n /\ g = fdt_grab_space_(m, n)
    BY <1>1
  <2>2. r = Written(g, cells)
    BY DEF cells
  <2> HIDE DEF n, ss, b
  <2>3. /\ Appended(m, r.m, n)
        /\ \A i \in 0 .. n - 1 : At(r.m, fdt_size_dt_struct(m) + i) = cells[i + 1]
    BY <2>1, <2>2, WrittenAppended
  <2> QED BY <2>3 DEF n, ss, b
<1> HIDE DEF b
<1>3. Framed(b) /\ fdt_size_dt_struct(b) = ss + 1 /\ Longer(m, b)
  BY <1>2, SwFramed, AppendedLonger
<1>4. Tag(b, ss) = FDT_END /\ NextOf(b, ss) = ss + 1
  <2>1. Value(At(b, ss)) = FDT_END
    <3>1. At(b, ss + 0) = cells[0 + 1]
      BY <1>2
    <3>2. ss + 0 = ss /\ 0 + 1 = 1
      BY <1>0
    <3>3. At(b, ss) = Num(FDT_END)
      BY <1>1, <3>1, <3>2
    <3> QED BY <3>3, CellFacts
  <2> HIDE DEF ss
  <2> QED BY <1>0, <1>3, <2>1, WordItem
<1>5. Ended(m)
  BY DEF Listed
<1>6. TagOffsets(b, 0) = T
  BY <1>3, <1>4, <1>5, EndAppended
<1>7. ASSUME NEW x \in T
      PROVE  /\ Tag(b, x) = Tag(m, x) /\ NextOf(b, x) \in Nat
             /\ Tag(m, x) = FDT_PROP => At(b, x + 2) = At(m, x + 2)
  <2>1. CASE x = ss
    <3>1. Tag(m, ss) = FDT_END
      BY <1>5, EndedItems
    <3>2. NextOf(b, ss) \in Nat
      BY <1>0, <1>4
    <3> QED BY <1>4, <2>1, <3>1, <3>2
  <2>2. CASE x # ss
    <3>1. NextOf(m, x) \in Nat
      BY <1>5, <2>2, EndedItems
    <3>2. /\ Tag(b, x) = Tag(m, x) /\ NextOf(b, x) = NextOf(m, x)
          /\ Tag(m, x) = FDT_PROP => At(b, x + 2) = At(m, x + 2)
      BY <1>3, <1>5, <2>2, LongerItems
    <3> QED BY <3>1, <3>2
  <2> QED BY <2>1, <2>2
<1> QED BY <1>2, <1>6, <1>7 DEF b

\* The name of a property at index i of a strings block that ends at a.
LEMMA NameRead ==
    ASSUME NEW m, m \in Memory, NEW x, NEW a, a \in Nat, NEW n, n \in Nat,
           fdt_off_dt_strings(m) = a, a + n <= MemSize, Index(m, x) \in 0 .. n - 1
    PROVE  PropName(m, x) = StringOf(m[a + Index(m, x)])
<1> DEFINE i == Index(m, x)
           b == a + i
<1>0. MemSize \in Nat /\ DOMAIN m = 0 .. MemSize - 1
  BY MemAssumption DEF Memory
<1>1. i \in 0 .. n - 1
  OBVIOUS
<1> HIDE DEF i
<1>2. b \in DOMAIN m
  BY <1>0, <1>1
<1>3. PropName(m, x) = IF b \in DOMAIN m /\ m[b].k = "str" THEN m[b].s ELSE ""
  BY DEF PropName, fdt_string, Index, i
<1> HIDE DEF b
<1>4. PropName(m, x) = StringOf(m[b])
  BY <1>2, <1>3 DEF StringOf
<1> QED BY <1>4 DEF b, i

\* Before, when it counts from the end of the buffer.
LEMMA NameBehind ==
    ASSUME NEW m, SwGood(m), fdt_off_dt_strings(m) = fdt_totalsize(m), NEW x,
           Index(m, x) \in -fdt_size_dt_strings(m) .. -1
    PROVE  PropName(m, x) = StringOf(m[fdt_totalsize(m) + Index(m, x)])
<1> DEFINE i  == Index(m, x)
           Z  == fdt_totalsize(m)
           gs == fdt_size_dt_strings(m)
           b  == Z + i
<1>0. /\ DOMAIN m = 0 .. MemSize - 1 /\ MemSize \in Nat /\ gs \in Nat
      /\ Z \in Nat /\ Z <= MemSize /\ gs <= Z
  <2>1. /\ fdt_off_dt_struct(m) + fdt_size_dt_struct(m) <= Z - gs
        /\ fdt_off_dt_struct(m) \in Nat /\ fdt_size_dt_struct(m) \in Nat
        /\ Z \in Nat /\ gs \in Nat /\ Z <= MemSize /\ MemSize \in Nat
        /\ DOMAIN m = 0 .. MemSize - 1
    BY SwFacts
  <2> HIDE DEF Z, gs
  <2> QED BY <2>1
<1>1. i \in -gs .. -1
  OBVIOUS
<1>2. PropName(m, x) = IF b \in DOMAIN m /\ m[b].k = "str" THEN m[b].s ELSE ""
  BY DEF PropName, fdt_string, Index
<1> HIDE DEF i, Z, gs
<1>3. b \in DOMAIN m
  BY <1>0, <1>1
<1> HIDE DEF b
<1>4. PropName(m, x) = StringOf(m[b])
  BY <1>2, <1>3 DEF StringOf
<1> QED BY <1>4 DEF b, i, Z

\* The index of a name, once it counts from the start of the strings block.
LEMMA IndexMoved ==
    ASSUME StringsReach, NEW gs, gs \in Nat, gs <= MemSize, NEW i, i \in -gs .. -1
    PROVE  /\ Unsigned(i + gs) = i + gs /\ AsInt(i + gs) = i + gs
           /\ i + gs \in 0 .. gs - 1
<1>1. MemSize \in Nat /\ i + gs \in Nat /\ i + gs < gs /\ i + gs < 32768
  BY MemAssumption DEF StringsReach
<1>2. (i + gs) % 65536 = i + gs
  BY <1>1
<1> QED BY <1>1, <1>2 DEF AsInt, Unsigned

\* fdt_finish moves the strings down to the end of the structure block.
LEMMA StringsMoved ==
    ASSUME NEW b, SwGood(b)
    PROVE  LET gs  == fdt_size_dt_strings(b)
               old == fdt_totalsize(b) - gs
               new == fdt_off_dt_struct(b) + fdt_size_dt_struct(b)
               m1  == Set(Move(b, new, old, gs), hOffDtStrings, new)
           IN  /\ SwGood(m1) /\ SwSame(b, m1) /\ fdt_totalsize(m1) = fdt_totalsize(b)
               /\ fdt_off_dt_strings(m1) = new
               /\ \A i \in 0 .. fdt_size_dt_struct(b) - 1 : At(m1, i) = At(b, i)
               /\ \A i \in 0 .. gs - 1 : m1[new + i] = b[old + i]
<1> DEFINE S  == fdt_off_dt_struct(b)
           sb == fdt_size_dt_struct(b)
           gs == fdt_size_dt_strings(b)
           Z  == fdt_totalsize(b)
           old == Z - gs
           new == S + sb
           m0 == Move(b, new, old, gs)
           m1 == Set(m0, hOffDtStrings, new)
<1>1. /\ b \in Memory /\ DOMAIN b = 0 .. MemSize - 1 /\ MemSize \in Nat
      /\ S \in Nat /\ S >= 12 /\ sb \in Nat /\ gs \in Nat /\ old \in Nat /\ new \in Nat
      /\ new = S + sb /\ new <= old /\ old + gs <= MemSize
      /\ old + gs = Z /\ MemSize >= 10
  <2>1. /\ b \in Memory /\ DOMAIN b = 0 .. MemSize - 1 /\ MemSize \in Nat /\ MemSize >= 10
        /\ S \in Nat /\ S >= 12 /\ sb \in Nat /\ gs \in Nat
        /\ Z \in Nat /\ Z <= MemSize /\ S + sb <= Z - gs
    BY SwFacts
  <2> HIDE DEF S, sb, gs, Z
  <2> QED BY <2>1
<1> HIDE DEF gs, new, old, Z, m1
<1>2. m0 \in Memory
  <2>1. gs \in Int
    BY <1>1
  <2> QED BY <1>1, <2>1, MoveMemory
<1>3. \A a \in 0 .. MemSize - 1 : a < new \/ a >= new + gs => m0[a] = b[a]
  <2> TAKE a \in 0 .. MemSize - 1
  <2>1. a \in DOMAIN b /\ a \in Int
    BY <1>1
  <2> QED BY <1>1, <2>1, MovedCell
<1>4. \A i \in 0 .. gs - 1 : m0[new + i] = b[old + i]
  <2> SUFFICES ASSUME NEW i \in 0 .. gs - 1 PROVE m0[new + i] = b[old + i]
    OBVIOUS
  <2> DEFINE a == new + i
  <2>1. a \in DOMAIN b /\ a \in Int /\ a >= new /\ a < new + gs /\ old + a - new = old + i
    <3> HIDE DEF S, sb
    <3> QED BY <1>1
  <2> HIDE DEF a
  <2>2. m0[a] = b[old + a - new]
    <3>1. new \in Int /\ old \in Int /\ gs \in Nat
      BY <1>1
    <3>2. /\ a < new \/ a >= new + gs => m0[a] = b[a]
          /\ a >= new /\ a < new + gs => m0[a] = b[old + a - new]
      BY <2>1, <3>1, MovedCell
    <3> HIDE DEF m0
    <3> QED BY <2>1, <3>2
  <2> QED BY <2>1, <2>2 DEF a
<1> HIDE DEF m0
<1>5. /\ SwGood(m0) /\ fdt_totalsize(m0) = fdt_totalsize(b) /\ SwSame(b, m0)
  <2>1. \A a \in 0 .. MemSize - 1 : a < S \/ a >= Z => m0[a] = b[a]
    <3> HIDE DEF S, sb
    <3> QED BY <1>1, <1>3
  <2> QED BY <1>2, <2>1, SwWritten DEF Z
<1>6. /\ SwGood(m1) /\ fdt_totalsize(m1) = fdt_totalsize(m0) /\ SwSame(m0, m1)
      /\ fdt_off_dt_strings(m1) = new
  BY <1>1, <1>5, SetOffStrings DEF m1
<1>7. \A a \in 0 .. MemSize - 1 : a # 3 => m1[a] = m0[a]
  <2>1. m1 = Set(m0, 3, new)
    BY DEF m1
  <2> QED BY <1>1, <1>2, <2>1, SetMemory
<1>8. SwSame(b, m1)
  BY <1>5, <1>6 DEF SwSame
<1>9. ASSUME NEW i \in 0 .. sb - 1 PROVE At(m1, i) = At(b, i)
  <2> DEFINE a == S + i
  <2>1. a \in 0 .. MemSize - 1 /\ a < new /\ a # 3
    <3> HIDE DEF S, sb
    <3> QED BY <1>1
  <2> HIDE DEF a
  <2>2. m1[a] = b[a]
    BY <1>3, <1>7, <2>1
  <2>3. fdt_off_dt_struct(m1) = S
    BY <1>8 DEF SwSame
  <2> QED BY <2>2, <2>3 DEF At, a
<1>10. ASSUME NEW i \in 0 .. gs - 1 PROVE m1[new + i] = b[old + i]
  <2> DEFINE a == new + i
  <2>1. a \in 0 .. MemSize - 1 /\ a # 3
    <3> HIDE DEF S, sb
    <3> QED BY <1>1
  <2> HIDE DEF a
  <2>2. m1[a] = m0[a]
    BY <1>7, <2>1
  <2>3. m0[a] = b[old + i]
    BY <1>4 DEF a
  <2> QED BY <2>2, <2>3 DEF a
<1> QED BY <1>5, <1>6, <1>8, <1>9, <1>10 DEF m1, m0, new, old, gs, Z

\* What it does to the names, with the header of the finished blob.
FinishedBlob(m) ==
    LET m2 == Relocated(m, Walk(m, 0))
    IN  Set(Set(m2, hTotalsize,
                fdt_off_dt_struct(m) + fdt_size_dt_struct(m) + fdt_size_dt_strings(m2)),
            hMagic, FDT_MAGIC)

\* The strings are where they have been, and each name counts from their start.
LEMMA NamesRelocated ==
    ASSUME NEW m, SwGood(m), \A x \in TagOffsets(m, 0) : NextOf(m, x) \in Nat,
           fdt_off_dt_strings(m) = fdt_off_dt_struct(m) + fdt_size_dt_struct(m),
           NEW m3, m3 = FinishedBlob(m), Good(m3)
    PROVE  /\ fdt_off_dt_strings(m3) = fdt_off_dt_strings(m)
           /\ fdt_size_dt_strings(m3) = fdt_size_dt_strings(m)
           /\ TagOffsets(m3, 0) = TagOffsets(m, 0)
           /\ \A x \in TagOffsets(m, 0) :
                /\ Tag(m3, x) = Tag(m, x) /\ NextOf(m3, x) = NextOf(m, x)
                /\ Tag(m, x) = FDT_PROP =>
                     At(m3, x + 2) = Num(Unsigned(Index(m, x) + fdt_size_dt_strings(m)))
           /\ \A i \in 0 .. fdt_size_dt_strings(m) - 1 :
                m3[fdt_off_dt_strings(m) + i] = m[fdt_off_dt_strings(m) + i]
<1> DEFINE w  == Walk(m, 0)
           S  == fdt_off_dt_struct(m)
           ss == fdt_size_dt_struct(m)
           gs == fdt_size_dt_strings(m)
           G  == fdt_off_dt_strings(m)
           T  == TagOffsets(m, 0)
           P  == {x.at : x \in Tagged(w, {FDT_PROP})}
           m2 == Relocated(m, w)
           n2 == S + ss + fdt_size_dt_strings(m2)
           ma == Set(m2, hTotalsize, n2)
<1>0. /\ m \in Memory /\ DOMAIN m = 0 .. MemSize - 1 /\ MemSize \in Nat /\ MemSize >= 10
      /\ S \in Nat /\ ss \in Nat /\ gs \in Nat /\ S >= 12
      /\ S + ss + gs <= MemSize /\ G = S + ss
  <2>1. /\ m \in Memory /\ DOMAIN m = 0 .. MemSize - 1 /\ MemSize \in Nat /\ MemSize >= 10
        /\ S \in Nat /\ ss \in Nat /\ gs \in Nat /\ S >= 12
        /\ S + ss <= fdt_totalsize(m) - gs /\ fdt_totalsize(m) <= MemSize
        /\ fdt_totalsize(m) \in Nat
    BY SwFacts
  <2>2. G = S + ss
    OBVIOUS
  <2> DEFINE Z == fdt_totalsize(m)
  <2> HIDE DEF S, ss, gs, G, Z
  <2>3. Z \in Nat /\ S + ss <= Z - gs /\ Z <= MemSize
    BY <2>1 DEF Z
  <2> QED BY <2>1, <2>2, <2>3
<1>1. /\ SwGood(m2) /\ SwSame(m, m2) /\ fdt_off_dt_strings(m2) = G
  BY RelocatedKept
<1>2. \A a \in 0 .. MemSize - 1 :
        m2[a] = IF a - S - 2 \in P
                THEN Num(Unsigned(AsInt(Value(m[a])) + gs)) ELSE m[a]
  BY <1>0 DEF Relocated
<1>3. P = {x \in T : Tag(m, x) = FDT_PROP}
  <2>1. ASSUME NEW x \in P PROVE x \in T /\ Tag(m, x) = FDT_PROP
    <3>1. PICK y \in w : y.tag = FDT_PROP /\ x = y.at
      BY DEF Tagged
    <3>2. y.at \in T /\ y = Item(m, y.at) /\ Item(m, y.at).tag = Tag(m, y.at)
      BY WalkItem
    <3> QED BY <3>1, <3>2
  <2>2. ASSUME NEW x \in T, Tag(m, x) = FDT_PROP PROVE x \in P
    <3>1. Item(m, x) \in w /\ Item(m, x).tag = Tag(m, x) /\ Item(m, x).at = x
      BY WalkItem
    <3>2. Item(m, x) \in Tagged(w, {FDT_PROP})
      BY <2>2, <3>1 DEF Tagged
    <3> QED BY <3>1, <3>2
  <2> HIDE DEF P, T
  <2> QED BY <2>1, <2>2
<1>4. \A p \in P : p \in Nat /\ p + 3 <= ss
  <2> SUFFICES ASSUME NEW p \in T, Tag(m, p) = FDT_PROP PROVE p \in Nat /\ p + 3 <= ss
    BY <1>3
  <2>1. Framed(m) /\ p \in Nat
    BY SwFramed, TagOffsetsUnfold, MemAssumption
  <2> DEFINE W == Words(PropLen(m, p))
             N == NextOf(m, p)
  <2>2. W \in Nat /\ N = p + 3 + W /\ N <= ss
    BY <2>1, PropNameNat
  <2> HIDE DEF W, N, ss
  <2> QED BY <1>0, <2>1, <2>2
<1> HIDE DEF m2, w, P
<1>5. \A a \in 0 .. MemSize - 1 : a > 1 => m3[a] = m2[a]
  <2>1. m2 \in Memory /\ n2 \in Nat
    BY SMTT(30), <1>0, <1>1, SwFacts
  <2> HIDE DEF n2
  <2>2. ma \in Memory /\ \A a \in 0 .. MemSize - 1 : a # 1 => ma[a] = m2[a]
    BY <1>0, <2>1, SetMemory
  <2>3. m3 = Set(ma, 0, 77)
    BY DEF FinishedBlob, n2, m2, w
  <2> HIDE DEF ma
  <2>4. \A a \in 0 .. MemSize - 1 : a # 0 => m3[a] = ma[a]
    BY <1>0, <2>2, <2>3, SetMemory
  <2> QED BY <2>2, <2>4
<1>6. /\ fdt_off_dt_struct(m3) = S /\ fdt_size_dt_struct(m3) = ss
      /\ fdt_size_dt_strings(m3) = gs /\ fdt_off_dt_strings(m3) = G
  <2>1. \A h \in 2 .. 9 : m3[h] = m2[h]
    BY <1>0, <1>5
  <2>2. /\ fdt_off_dt_struct(m3) = fdt_off_dt_struct(m2)
        /\ fdt_size_dt_struct(m3) = fdt_size_dt_struct(m2)
        /\ fdt_size_dt_strings(m3) = fdt_size_dt_strings(m2)
        /\ fdt_off_dt_strings(m3) = fdt_off_dt_strings(m2)
    BY <2>1 DEF fdt_off_dt_struct, fdt_size_dt_struct, fdt_size_dt_strings,
                fdt_off_dt_strings
  <2> QED BY <1>1, <2>2 DEF SwSame
<1>7. \A i \in 0 .. ss - 1 :
        At(m3, i) = IF i - 2 \in P THEN Num(Unsigned(AsInt(Value(At(m, i))) + gs))
                    ELSE At(m, i)
  <2> SUFFICES ASSUME NEW i \in 0 .. ss - 1
               PROVE  At(m3, i) = IF i - 2 \in P
                                  THEN Num(Unsigned(AsInt(Value(At(m, i))) + gs))
                                  ELSE At(m, i)
    OBVIOUS
  <2> DEFINE a == S + i
  <2>1. a \in 0 .. MemSize - 1 /\ a > 1 /\ a - S - 2 = i - 2
    <3> HIDE DEF S, ss, gs, G
    <3> QED BY <1>0
  <2>2. At(m3, i) = m3[a] /\ At(m, i) = m[a]
    BY <1>6 DEF At
  <2> HIDE DEF a
  <2> QED BY <1>2, <1>5, <2>1, <2>2
<1>8. /\ TagOffsets(m3, 0) = T
      /\ \A x \in T : Tag(m3, x) = Tag(m, x) /\ NextOf(m3, x) = NextOf(m, x)
  <2>1. Framed(m) /\ Framed(m3)
    BY SwFramed, GoodFramed
  <2>2. \A i \in 0 .. ss - 1 :
          \/ i - 2 \in T /\ Tag(m, i - 2) = FDT_PROP
          \/ At(m3, i) = At(m, i)
    BY <1>3, <1>7
  <2> QED BY <1>6, <2>1, <2>2, NamesChanged
<1>9. ASSUME NEW x \in T, Tag(m, x) = FDT_PROP
      PROVE  At(m3, x + 2) = Num(Unsigned(Index(m, x) + gs))
  <2>1. x \in P
    BY <1>3, <1>9
  <2>2. x \in Nat /\ x + 3 <= ss
    BY <1>4, <2>1
  <2>3. \E i \in 0 .. ss - 1 : i = x + 2 /\ i - 2 = x
    <3> HIDE DEF ss, T
    <3>1. ss \in Nat
      BY <1>0
    <3>2. x + 2 \in 0 .. ss - 1 /\ (x + 2) - 2 = x
      BY <2>2, <3>1
    <3> QED BY <3>2
  <2>5. PICK i \in 0 .. ss - 1 : i = x + 2 /\ i - 2 = x
    BY <2>3, Zenon
  <2>6. i - 2 \in P
    BY <2>1, <2>5, Zenon
  <2>4. At(m3, i) = Num(Unsigned(AsInt(Value(At(m, i))) + gs))
    BY <1>7, <2>6, Zenon
  <2> QED BY <2>4, <2>5, Zenon DEF Index
<1>10. ASSUME NEW i \in 0 .. gs - 1 PROVE m3[G + i] = m[G + i]
  <2> DEFINE a == G + i
  <2>1. a \in 0 .. MemSize - 1 /\ a > 1 /\ a >= S + ss
    <3> HIDE DEF S, ss, gs, G
    <3> QED BY <1>0
  <2> HIDE DEF a
  <2>2. a - S - 2 \notin P
    <3> SUFFICES ASSUME a - S - 2 \in P PROVE FALSE
      OBVIOUS
    <3> DEFINE p == a - S - 2
    <3>1. p \in Nat /\ p + 3 <= ss
      BY <1>4
    <3> HIDE DEF S, ss, gs, G
    <3> QED BY <1>0, <2>1, <3>1
  <2>3. m3[a] = m[a]
    BY <1>2, <1>5, <2>1, <2>2
  <2> QED BY <2>3 DEF a
<1> QED BY <1>6, <1>8, <1>9, <1>10

\* m1 is m with FDT_END behind the tree and the strings moved down to it.
Lowered(m, m1) ==
    /\ SwGood(m1)
    /\ fdt_size_dt_strings(m1) = fdt_size_dt_strings(m)
    /\ fdt_off_dt_strings(m1) = fdt_off_dt_struct(m1) + fdt_size_dt_struct(m1)
    /\ TagOffsets(m1, 0) = TagOffsets(m, 0)
    /\ \A x \in TagOffsets(m, 0) :
        /\ Tag(m1, x) = Tag(m, x) /\ NextOf(m1, x) \in Nat
        /\ Tag(m, x) = FDT_PROP => Index(m1, x) = Index(m, x)
    /\ \A i \in -fdt_size_dt_strings(m) .. -1 :
        m1[fdt_off_dt_strings(m1) + fdt_size_dt_strings(m) + i] = m[fdt_totalsize(m) + i]

\* Each name is the same one, from the front.
LEMMA NameMoved ==
    ASSUME StringsReach, NEW m, SwGood(m), Listed(m), NEW m1, Lowered(m, m1),
           NEW m3, m3 = FinishedBlob(m1), Good(m3),
           NEW x, x \in TagOffsets(m, 0), Tag(m, x) = FDT_PROP
    PROVE  /\ Index(m3, x) \in 0 .. fdt_size_dt_strings(m3) - 1
           /\ PropName(m3, x) = PropName(m, x)
<1> DEFINE gs == fdt_size_dt_strings(m)
           G  == fdt_off_dt_strings(m1)
           Z  == fdt_totalsize(m)
           i  == Index(m, x)
           j  == i + gs
<1>1. /\ fdt_off_dt_strings(m3) = G /\ fdt_size_dt_strings(m3) = gs
      /\ At(m3, x + 2) = Num(Unsigned(i + gs))
      /\ \A k \in 0 .. gs - 1 : m3[G + k] = m1[G + k]
  <2>1. /\ SwGood(m1) /\ \A y \in TagOffsets(m1, 0) : NextOf(m1, y) \in Nat
        /\ fdt_off_dt_strings(m1) = fdt_off_dt_struct(m1) + fdt_size_dt_struct(m1)
        /\ fdt_size_dt_strings(m1) = gs /\ x \in TagOffsets(m1, 0)
        /\ Tag(m1, x) = FDT_PROP /\ Index(m1, x) = i
    BY DEF Lowered
  <2>2. /\ fdt_off_dt_strings(m3) = fdt_off_dt_strings(m1)
        /\ fdt_size_dt_strings(m3) = fdt_size_dt_strings(m1)
        /\ \A y \in TagOffsets(m1, 0) :
             Tag(m1, y) = FDT_PROP =>
                 At(m3, y + 2) = Num(Unsigned(Index(m1, y) + fdt_size_dt_strings(m1)))
        /\ \A k \in 0 .. fdt_size_dt_strings(m1) - 1 :
             m3[fdt_off_dt_strings(m1) + k] = m1[fdt_off_dt_strings(m1) + k]
    BY <2>1, NamesRelocated
  <2> QED BY <2>1, <2>2
<1>2. /\ gs \in Nat /\ G \in Nat /\ m3 \in Memory /\ G + gs <= MemSize /\ MemSize \in Nat
      /\ gs <= MemSize
  <2>1. /\ fdt_off_dt_strings(m3) \in Nat /\ fdt_size_dt_strings(m3) \in Nat /\ m3 \in Memory
        /\ fdt_off_dt_strings(m3) + fdt_size_dt_strings(m3) <= MemSize /\ MemSize \in Nat
    <3>1. /\ fdt_off_dt_strings(m3) \in Nat /\ fdt_size_dt_strings(m3) \in Nat
          /\ m3 \in Memory /\ fdt_totalsize(m3) \in Nat
          /\ fdt_off_dt_strings(m3) + fdt_size_dt_strings(m3) <= fdt_totalsize(m3)
          /\ fdt_totalsize(m3) <= BufSize /\ BufSize <= MemSize
          /\ BufSize \in Nat /\ MemSize \in Nat
      BY GoodFacts
    <3> QED BY <3>1
  <2> HIDE DEF gs, G
  <2> QED BY <1>1, <2>1
<1>3. i \in -gs .. -1
  BY DEF Listed
<1> HIDE DEF i
<1>4. Unsigned(i + gs) = i + gs /\ AsInt(i + gs) = i + gs /\ i + gs \in 0 .. gs - 1
  <2> HIDE DEF gs
  <2> QED BY <1>2, <1>3, IndexMoved
<1>5. Index(m3, x) = j /\ j \in 0 .. gs - 1
  <2>1. j \in Nat /\ j \in 0 .. gs - 1
    BY <1>4
  <2>2. At(m3, x + 2) = Num(j)
    BY <1>1, <1>4
  <2>3. AsInt(j) = j
    BY <1>4
  <2> HIDE DEF j
  <2>4. Value(At(m3, x + 2)) = j
    BY <2>1, <2>2, CellFacts
  <2> QED BY <2>1, <2>3, <2>4 DEF Index
<1> HIDE DEF gs, G
<1>6. PropName(m3, x) = StringOf(m3[G + j])
  <2>1. fdt_off_dt_strings(m3) = G /\ Index(m3, x) \in 0 .. gs - 1
    BY <1>1, <1>5
  <2>2. PropName(m3, x) = StringOf(m3[G + Index(m3, x)])
    BY <1>2, <2>1, NameRead
  <2> QED BY <1>5, <2>2
<1>7. m3[G + j] = m1[G + j]
  BY <1>1, <1>5
<1>8. G + j = G + gs + i
  BY <1>2, <1>3
<1>9. m1[G + gs + i] = m[Z + i]
  BY <1>3 DEF Lowered, gs, G
<1>10. PropName(m, x) = StringOf(m[Z + i])
  <2>1. fdt_off_dt_strings(m) = fdt_totalsize(m)
    BY DEF Listed
  <2>2. Index(m, x) \in -fdt_size_dt_strings(m) .. -1
    BY <1>3 DEF i, gs
  <2> QED BY <2>1, <2>2, NameBehind DEF i
<1>11. PropName(m3, x) = PropName(m, x)
  BY <1>6, <1>7, <1>8, <1>9, <1>10, Zenon
<1> QED BY <1>1, <1>5, <1>11

\* The finished blob has the names of the unfinished one.
LEMMA LoweredFiled ==
    ASSUME StringsReach, NEW m, SwGood(m), Listed(m), NEW m1, Lowered(m, m1),
           NEW m3, m3 = FinishedBlob(m1), Good(m3)
    PROVE  Filed(m3)
<1> DEFINE T == TagOffsets(m, 0)
<1>1. /\ TagOffsets(m3, 0) = T
      /\ \A x \in T : Tag(m3, x) = Tag(m, x) /\ NextOf(m3, x) \in Nat
  <2>1. /\ SwGood(m1) /\ \A y \in TagOffsets(m1, 0) : NextOf(m1, y) \in Nat
        /\ fdt_off_dt_strings(m1) = fdt_off_dt_struct(m1) + fdt_size_dt_struct(m1)
        /\ TagOffsets(m1, 0) = T
        /\ \A x \in T : Tag(m1, x) = Tag(m, x) /\ NextOf(m1, x) \in Nat
    BY DEF Lowered
  <2>2. /\ TagOffsets(m3, 0) = TagOffsets(m1, 0)
        /\ \A y \in TagOffsets(m1, 0) :
             Tag(m3, y) = Tag(m1, y) /\ NextOf(m3, y) = NextOf(m1, y)
    BY <2>1, NamesRelocated
  <2> HIDE DEF T
  <2> QED BY <2>1, <2>2
<1>2. ASSUME NEW o, NEW x, HasProp(m3, o, x)
      PROVE  HasProp(m, o, x) /\ PropName(m3, x) = PropName(m, x)
  <2>1. HasProp(m, o, x)
    BY <1>1, <1>2 DEF HasProp, Reaches
  <2>2. PropName(m3, x) = PropName(m, x)
    BY <2>1, NameMoved DEF HasProp
  <2> QED BY <2>1, <2>2
<1>3. Distinct(m3)
  <2>1. Distinct(m)
    BY DEF Listed
  <2> QED BY <1>2, <2>1, DistinctKept
<1>4. \A x \in T : Tag(m3, x) = FDT_PROP => Index(m3, x) \in 0 .. fdt_size_dt_strings(m3) - 1
  BY <1>1, NameMoved
<1> QED BY <1>1, <1>3, <1>4 DEF Filed

\* What fdt_finish does before it goes through the names.
LEMMA EndLowered ==
    ASSUME NEW m, SwGood(m), Listed(m), RsvDone(m),
           NEW g, g = fdt_grab_space_(m, 1), g.ret >= 0,
           NEW b, b = Written(g, <<Num(FDT_END)>>).m
    PROVE  LET old == fdt_totalsize(b) - fdt_size_dt_strings(b)
               new == fdt_off_dt_struct(b) + fdt_size_dt_struct(b)
           IN  Lowered(m, Set(Move(b, new, old, fdt_size_dt_strings(b)), hOffDtStrings, new))
<1> DEFINE T   == TagOffsets(m, 0)
           S   == fdt_off_dt_struct(m)
           ss  == fdt_size_dt_struct(m)
           gs  == fdt_size_dt_strings(m)
           Z   == fdt_totalsize(m)
           gb  == fdt_size_dt_strings(b)
           old == fdt_totalsize(b) - gb
           new == fdt_off_dt_struct(b) + fdt_size_dt_struct(b)
           m1  == Set(Move(b, new, old, gb), hOffDtStrings, new)
<1>1. /\ Appended(m, b, 1)
      /\ TagOffsets(b, 0) = T
      /\ \A x \in T :
           /\ Tag(b, x) = Tag(m, x) /\ NextOf(b, x) \in Nat
           /\ Tag(m, x) = FDT_PROP => At(b, x + 2) = At(m, x + 2)
  BY EndPut
<1>2. /\ SwGood(b) /\ fdt_size_dt_struct(b) = ss + 1 /\ fdt_off_dt_struct(b) = S
      /\ fdt_totalsize(b) = Z /\ gb = gs /\ StringsStay(m, b)
  <2>1. 1 \in Nat
    OBVIOUS
  <2> QED BY <1>1, <2>1, AppendedLonger
<1>3. /\ SwGood(m1) /\ SwSame(b, m1) /\ fdt_off_dt_strings(m1) = new
      /\ \A i \in 0 .. fdt_size_dt_struct(b) - 1 : At(m1, i) = At(b, i)
      /\ \A i \in 0 .. gb - 1 : m1[new + i] = b[old + i]
  BY <1>2, StringsMoved
<1> HIDE DEF m1
<1>4. /\ TagOffsets(m1, 0) = T
      /\ \A x \in T : Tag(m1, x) = Tag(b, x) /\ NextOf(m1, x) = NextOf(b, x)
  <2>1. Framed(b) /\ Framed(m1) /\ fdt_size_dt_struct(m1) = fdt_size_dt_struct(b)
    BY <1>2, <1>3, SwFramed DEF SwSame
  <2>2. \A x \in TagOffsets(b, 0) : NextOf(b, x) \in Nat
    BY <1>1
  <2>3. /\ TagOffsets(m1, 0) = TagOffsets(b, 0)
        /\ \A x \in TagOffsets(b, 0) : Tag(m1, x) = Tag(b, x) /\ NextOf(m1, x) = NextOf(b, x)
    BY <1>3, <2>1, <2>2, NamesChanged
  <2> QED BY <1>1, <2>3
<1>5. ASSUME NEW x \in T, Tag(m, x) = FDT_PROP
      PROVE  Index(m1, x) = Index(m, x)
  <2>1. /\ Framed(b) /\ x \in Nat /\ Tag(b, x) = FDT_PROP
        /\ fdt_size_dt_struct(b) \in Nat
    <3>1. Framed(b) /\ fdt_size_dt_struct(b) \in Nat
      BY <1>2, SwFramed, SwFacts
    <3>2. x \in Nat
      BY <1>1, <3>1, TagOffsetsUnfold, MemAssumption
    <3> QED BY <1>1, <1>5, <3>1, <3>2
  <2> DEFINE W  == Words(PropLen(b, x))
             N  == NextOf(b, x)
             sb == fdt_size_dt_struct(b)
             k  == x + 2
  <2>2. W \in Nat /\ N = x + 3 + W /\ N <= sb
    BY <2>1, PropNameNat
  <2>3. k \in 0 .. sb - 1
    <3>1. sb \in Nat /\ x \in Nat
      BY <2>1
    <3> HIDE DEF W, N, sb, T
    <3> QED BY <2>2, <3>1
  <2> HIDE DEF k
  <2>4. At(m1, k) = At(b, k)
    BY <1>3, <2>3 DEF sb
  <2>5. At(b, x + 2) = At(m, x + 2)
    BY <1>1, <1>5
  <2>6. At(m1, x + 2) = At(m, x + 2)
    BY <2>4, <2>5 DEF k
  <2> QED BY <2>6 DEF Index
<1>6. ASSUME NEW i \in -gs .. -1
      PROVE  m1[fdt_off_dt_strings(m1) + gs + i] = m[Z + i]
  <2>1. gs \in Nat /\ Z \in Nat /\ new \in Nat
    <3>1. fdt_off_dt_struct(b) \in Nat /\ fdt_size_dt_struct(b) \in Nat
      BY <1>2, SwFacts
    <3> QED BY SMTT(30), <3>1, SwFacts
  <2> DEFINE j == gs + i
  <2>2. b[Z + i] = m[Z + i]
    BY <1>2 DEF StringsStay
  <2>3. old = Z - gs /\ gb = gs
    BY <1>2
  <2> HIDE DEF gs, Z, old, new, gb
  <2>4. j \in 0 .. gb - 1 /\ new + gs + i = new + j /\ old + j = Z + i
    BY <2>1, <2>3
  <2> HIDE DEF j
  <2>5. m1[new + j] = b[old + j]
    BY <1>3, <2>4
  <2> QED BY <1>3, <2>2, <2>4, <2>5
<1>7. /\ fdt_size_dt_strings(m1) = gs
      /\ fdt_off_dt_strings(m1) = fdt_off_dt_struct(m1) + fdt_size_dt_struct(m1)
  BY <1>2, <1>3 DEF SwSame
<1>8. Lowered(m, m1)
  BY <1>1, <1>3, <1>4, <1>5, <1>6, <1>7 DEF Lowered
<1> QED BY <1>8 DEF m1

\* A blob of either kind.
Indexed(m) ==
    /\ fdt_magic(m) = FDT_SW_MAGIC => Listed(m)
    /\ fdt_magic(m) = FDT_MAGIC => Filed(m)

\* It is of one kind only.
LEMMA OneKind ==
    /\ \A m : SwGood(m) /\ Listed(m) => Indexed(m)
    /\ \A m : Good(m) /\ Filed(m) => Indexed(m)
    /\ \A m : SwGood(m) /\ Indexed(m) => Listed(m)
    /\ \A m : Good(m) /\ Indexed(m) => Filed(m)
<1>1. \A m : SwGood(m) => fdt_magic(m) = FDT_SW_MAGIC
  BY DEF SwGood
<1>2. \A m : Good(m) => fdt_magic(m) = FDT_MAGIC
  BY DEF Good, InOrder
<1> QED BY <1>1, <1>2 DEF Indexed

\* fdt_finish.
LEMMA FinishIndexed ==
    ASSUME StringsReach, NEW m, SwGood(m), Listed(m), fdt_size_dt_struct(m) > 0
    PROVE  Indexed(Finish(m).m)
<1> DEFINE cells == <<Num(FDT_END)>>
           g   == fdt_grab_space_(m, 1)
           r   == Written(g, cells)
           b   == r.m
           gs  == fdt_size_dt_strings(b)
           old == fdt_totalsize(b) - gs
           new == fdt_off_dt_struct(b) + fdt_size_dt_struct(b)
           m1  == Set(Move(b, new, old, gs), hOffDtStrings, new)
           w   == Walk(m1, 0)
           m2  == Relocated(m1, w)
           m3  == Set(Set(m2, hTotalsize, new + fdt_size_dt_strings(m2)), hMagic, FDT_MAGIC)
           f   == Finish(m)
<1>1. f = IF r.ret < 0 THEN r
          ELSE IF Last(w).next < 0 THEN Return(Last(w).next, m2)
          ELSE Return(0, m3)
  BY Zenon DEF Finish
<1>2. RsvDone(m)
  BY DEF SwGood
<1>3. /\ g.ret \in Int /\ (g.ret < 0 => g.m = m)
      /\ g.ret >= 0 => r.ret = 0 /\ SwGood(b)
      /\ g.ret < 0 => r = g
  <2>1. cells \in [1 .. 1 -> Cell] /\ Len(cells) = 1
    BY Cells, CellFacts
  <2> HIDE DEF cells
  <2>2. g.ret \in Int /\ (g.ret < 0 => g.m = m)
    BY <1>2, GrabSpace DEF Held
  <2>3. /\ Held(m, r)
        /\ g.ret >= 0 => r.ret = 0
        /\ g.ret < 0 => r = g
    BY <1>2, <2>1, WrittenKept
  <2> HIDE DEF g, r
  <2> QED BY <2>2, <2>3 DEF Held
<1>4. CASE g.ret < 0
  <2>1. f = r /\ r = g /\ g.m = m
    <3> HIDE DEF f, m2, m3, w, g, r
    <3> QED BY <1>1, <1>3, <1>4
  <2>2. f.m = m
    BY <2>1
  <2> QED BY <2>2, OneKind
<1>5. CASE g.ret >= 0
  <2>1. Lowered(m, m1)
    <3> DEFINE h == b
    <3>2. h = Written(g, <<Num(FDT_END)>>).m /\ g = fdt_grab_space_(m, 1)
      OBVIOUS
    <3> HIDE DEF h, g
    <3>3. LET o == fdt_totalsize(h) - fdt_size_dt_strings(h)
              n == fdt_off_dt_struct(h) + fdt_size_dt_struct(h)
          IN  Lowered(m, Set(Move(h, n, o, fdt_size_dt_strings(h)), hOffDtStrings, n))
      BY <1>2, <1>5, <3>2, EndLowered, Zenon
    <3> QED BY <3>3 DEF h
  <2>2. SwSame(b, m1)
    BY <1>3, <1>5, StringsMoved
  <2>3. r.ret = 0 /\ SwGood(m1)
    BY <1>3, <1>5, <2>1 DEF Lowered
  <2> HIDE DEF r, m1
  <2>4. ~(Last(w).next < 0)
    <3>1. Framed(m1) /\ 0 \in 0 .. MemSize
      BY <2>3, SwFramed, MemAssumption
    <3>2. PICK l \in TagOffsets(m1, 0) : Last(w) = Item(m1, l)
      BY <3>1, LastOfWalk
    <3>3. Item(m1, l).next = NextOf(m1, l)
      BY WalkItem
    <3>4. NextOf(m1, l) \in Nat
      BY <2>1 DEF Lowered
    <3> QED BY <3>2, <3>3, <3>4
  <2>5. f.ret = 0 /\ f.m = m3
    <3>1. f = [ret |-> 0, m |-> m3, p |-> 0]
      <4> HIDE DEF f, m2, m3, w
      <4> QED BY <1>1, <2>3, <2>4 DEF Return
    <3> QED BY <3>1
  <2>6. m3 = FinishedBlob(m1)
    <3>1. new = fdt_off_dt_struct(m1) + fdt_size_dt_struct(m1)
      BY <2>2 DEF SwSame
    <3> HIDE DEF new
    <3> QED BY <3>1 DEF FinishedBlob, m2, w
  <2>7. Good(m3)
    <3>1. Done(m, f)
      BY FinishKept
    <3> HIDE DEF f, m3
    <3> QED BY <2>5, <3>1 DEF Done
  <2> HIDE DEF f, m3
  <2>8. Filed(m3)
    BY <2>1, <2>6, <2>7, LoweredFiled
  <2>9. Indexed(f.m)
    BY <2>5, <2>7, <2>8, OneKind
  <2> QED BY <2>9 DEF f
<1>6. g.ret < 0 \/ g.ret >= 0
  <2>1. g.ret \in Int
    BY <1>3
  <2> HIDE DEF g
  <2> QED BY <2>1
<1> QED BY <1>4, <1>5, <1>6

\* The offset of a property's name is in the structure block.
LEMMA NameInBlock ==
    ASSUME NEW m, Framed(m), NEW x, x \in TagOffsets(m, 0), Tag(m, x) = FDT_PROP
    PROVE  \E k \in 0 .. fdt_size_dt_struct(m) - 1 : k = x + 2
<1> DEFINE ss == fdt_size_dt_struct(m)
           W  == Words(PropLen(m, x))
           N  == NextOf(m, x)
<1>1. ss \in Nat /\ x \in Nat
  BY FramedFacts, TagOffsetsUnfold, MemAssumption
<1>2. W \in Nat /\ N = x + 3 + W /\ N <= ss
  BY <1>1, PropNameNat
<1> HIDE DEF ss, W, N
<1>3. x + 2 \in 0 .. ss - 1
  BY <1>1, <1>2
<1> QED BY <1>3 DEF ss

\* fdt_open_into.
LEMMA OpenIntoFiled ==
    ASSUME NEW m, Good(m), Filed(m), NEW bufsize \in 0 .. BufSize
    PROVE  Filed(OpenInto(m, bufsize).m)
<1> DEFINE m2 == OpenInto(m, bufsize).m
           T  == TagOffsets(m, 0)
           ss == fdt_size_dt_struct(m)
           gs == fdt_size_dt_strings(m)
           G  == fdt_off_dt_strings(m)
           G2 == fdt_off_dt_strings(m2)
<1>1. Good(m2) /\ Carried(m, m2)
  BY OpenIntoGood
<1> HIDE DEF m2
<1>2. /\ Framed(m) /\ Framed(m2) /\ fdt_size_dt_struct(m2) = ss
      /\ fdt_size_dt_strings(m2) = gs
      /\ \A i \in 0 .. ss - 1 : At(m2, i) = At(m, i)
      /\ \A i \in 0 .. gs - 1 : m2[G2 + i] = m[G + i]
  BY <1>1, GoodFramed DEF Carried, At
<1>3. /\ TagOffsets(m2, 0) = T
      /\ \A x \in T : Tag(m2, x) = Tag(m, x) /\ NextOf(m2, x) = NextOf(m, x)
      /\ \A x \in T : NextOf(m, x) \in Nat
  <2>1. \A x \in T : NextOf(m, x) \in Nat
    BY DEF Filed
  <2> QED BY <1>2, <2>1, NamesChanged
<1>4. ASSUME NEW x \in T, Tag(m, x) = FDT_PROP
      PROVE  /\ Index(m2, x) \in 0 .. gs - 1
             /\ PropName(m2, x) = PropName(m, x)
  <2>1. PICK k \in 0 .. ss - 1 : k = x + 2
    BY <1>2, <1>4, NameInBlock
  <2>2. At(m2, x + 2) = At(m, x + 2)
    BY <1>2, <2>1, Zenon
  <2>3. Index(m2, x) = Index(m, x)
    BY <2>2 DEF Index
  <2>4. Index(m, x) \in 0 .. gs - 1
    BY <1>4 DEF Filed
  <2>5. /\ m \in Memory /\ m2 \in Memory /\ G \in Nat /\ G2 \in Nat /\ gs \in Nat
        /\ G + gs <= MemSize /\ G2 + gs <= MemSize
    <3>1. /\ m \in Memory /\ G \in Nat /\ gs \in Nat /\ fdt_totalsize(m) \in Nat
          /\ G + gs <= fdt_totalsize(m) /\ fdt_totalsize(m) <= BufSize
          /\ BufSize <= MemSize /\ BufSize \in Nat /\ MemSize \in Nat
      BY GoodFacts
    <3>2. /\ m2 \in Memory /\ G2 \in Nat /\ fdt_totalsize(m2) \in Nat
          /\ G2 + gs <= fdt_totalsize(m2) /\ fdt_totalsize(m2) <= BufSize
      BY <1>1, <1>2, GoodFacts
    <3> HIDE DEF G, G2, gs
    <3> QED BY <3>1, <3>2
  <2> DEFINE i == Index(m, x)
  <2>6. PropName(m, x) = StringOf(m[G + i])
    <3>1. fdt_off_dt_strings(m) = G
      OBVIOUS
    <3> HIDE DEF G, gs
    <3> QED BY <2>4, <2>5, <3>1, NameRead
  <2>7. PropName(m2, x) = StringOf(m2[G2 + i])
    <3>1. fdt_off_dt_strings(m2) = G2 /\ Index(m2, x) \in 0 .. gs - 1
      BY <2>3, <2>4
    <3> HIDE DEF G2, gs
    <3>2. PropName(m2, x) = StringOf(m2[G2 + Index(m2, x)])
      BY <2>5, <3>1, NameRead
    <3> QED BY <2>3, <3>2
  <2>8. m2[G2 + i] = m[G + i]
    BY <1>2, <2>4
  <2> QED BY <2>3, <2>4, <2>6, <2>7, <2>8
<1>5. Distinct(m2)
  <2>1. Distinct(m)
    BY DEF Filed
  <2>2. \A o, x : HasProp(m2, o, x) => HasProp(m, o, x) /\ PropName(m2, x) = PropName(m, x)
    BY <1>3, <1>4 DEF HasProp, Reaches
  <2> QED BY <2>1, <2>2, DistinctKept
<1>6. Filed(m2)
  BY <1>2, <1>3, <1>4, <1>5 DEF Filed
<1> QED BY <1>6 DEF m2

\* A step of fdt_create_empty_tree: a tree that can be searched, or an error.
Under(m, r) ==
    IF r.ret = 0 THEN SwGood(r.m) /\ Listed(r.m) ELSE r.m = m \/ Indexed(r.m)

\* The next step after one that has returned 0.
LEMMA UnderThen ==
    ASSUME NEW m, NEW r, Under(m, r), NEW r2,
           r.ret = 0 => SwGood(r2.m) /\ Listed(r2.m)
    PROVE  /\ Under(m, Then(r, r2))
           /\ Then(r, r2).ret = 0 => r.ret = 0 /\ r2.ret = 0 /\ Then(r, r2) = r2
<1>1. CASE r.ret # 0
  BY <1>1 DEF Then
<1>2. CASE r.ret = 0
  <2>1. Then(r, r2) = r2 /\ SwGood(r2.m) /\ Listed(r2.m)
    BY <1>2 DEF Then
  <2> QED BY <1>2, <2>1, OneKind DEF Under
<1> QED BY <1>1, <1>2

\* fdt_create_empty_tree leaves memory as it was or a tree that can be searched.
LEMMA EmptyTreeIndexed ==
    ASSUME StringsReach, NameFits(""), NEW m \in Memory, NEW bufsize \in 0 .. BufSize,
           ~(bufsize < SwHeadSize)
    PROVE  LET r == EmptyTree(m, bufsize)
           IN  r.m = m \/ Indexed(r.m)
<1> DEFINE rsv == [address |-> 0, size |-> 0]
           r1 == Create(m, bufsize)
           q2 == FinishReservemap(r1.m)
           r2 == Then(r1, q2)
           q3 == BeginNode(r2.m, "", 0)
           r3 == Then(r2, q3)
           q4 == EndNode(r3.m)
           r4 == Then(r3, q4)
           q5 == Finish(r4.m)
           r5 == Then(r4, q5)
           q6 == OpenInto(r5.m, bufsize)
           f  == Then(r5, q6)
<1>0. EmptyTree(m, bufsize) = f
  BY Zenon DEF EmptyTree
<1>1. Under(m, r1)
  <2>1. r1.ret # 0 => r1.m = m
    BY CreateKept
  <2>2. r1.ret = 0 => SwGood(r1.m) /\ Listed(r1.m)
    BY CreateKept, CreateListed
  <2> HIDE DEF r1
  <2> QED BY <2>1, <2>2 DEF Under
<1> HIDE DEF r1
<1>2. /\ Under(m, r2)
      /\ r2.ret = 0 => RsvDone(r2.m)
  <2>1. r1.ret = 0 => /\ SwGood(q2.m) /\ Listed(q2.m)
                      /\ q2.ret = 0 => RsvDone(q2.m)
    <3> SUFFICES ASSUME r1.ret = 0
                 PROVE  /\ SwGood(q2.m) /\ Listed(q2.m)
                        /\ q2.ret = 0 => RsvDone(q2.m)
      OBVIOUS
    <3>1. SwGood(r1.m) /\ Listed(r1.m)
      BY <1>1 DEF Under
    <3>2. rsv \in [address : Nat, size : Nat] /\ rsv.size = 0
      OBVIOUS
    <3>3. q2 = AddReservemapEntry(r1.m, rsv)
      BY DEF FinishReservemap
    <3> HIDE DEF rsv, q2
    <3>4. Held(r1.m, q2) /\ (q2.ret = 0 => RsvDone(q2.m))
      BY <3>1, <3>2, <3>3, ReserveKept
    <3>5. Listed(q2.m)
      BY <3>1, <3>2, <3>3, ReserveListed
    <3> QED BY <3>4, <3>5 DEF Held
  <2> HIDE DEF q2
  <2>2. Under(m, r2) /\ (r2.ret = 0 => r1.ret = 0 /\ q2.ret = 0 /\ r2 = q2)
    BY <1>1, <2>1, UnderThen
  <2> HIDE DEF r2
  <2> QED BY <2>1, <2>2
<1> HIDE DEF r2
<1>3. /\ Under(m, r3)
      /\ r3.ret = 0 => RsvDone(r3.m)
  <2>1. r2.ret = 0 => /\ SwGood(q3.m) /\ Listed(q3.m)
                      /\ q3.ret = 0 => RsvDone(q3.m)
    <3> SUFFICES ASSUME r2.ret = 0
                 PROVE  /\ SwGood(q3.m) /\ Listed(q3.m)
                        /\ q3.ret = 0 => RsvDone(q3.m)
      OBVIOUS
    <3>1. SwGood(r2.m) /\ Listed(r2.m) /\ RsvDone(r2.m)
      BY <1>2 DEF Under
    <3>2. "" \in Names /\ 0 \in Nat
      BY NameAssumption
    <3>3. Held(r2.m, q3) /\ (q3.ret = 0 => RsvDone(q3.m))
      BY <3>1, <3>2, BeginNodeKept
    <3>4. Listed(q3.m)
      BY <3>1, <3>2, BeginNodeListed
    <3> HIDE DEF q3
    <3> QED BY <3>3, <3>4 DEF Held
  <2> HIDE DEF q3
  <2>2. Under(m, r3) /\ (r3.ret = 0 => r2.ret = 0 /\ q3.ret = 0 /\ r3 = q3)
    BY <1>2, <2>1, UnderThen
  <2> HIDE DEF r3
  <2> QED BY <2>1, <2>2
<1> HIDE DEF r3
<1>4. /\ Under(m, r4)
      /\ r4.ret = 0 => fdt_size_dt_struct(r4.m) > 0
  <2>1. r3.ret = 0 => /\ SwGood(q4.m) /\ Listed(q4.m)
                      /\ q4.ret = 0 => fdt_size_dt_struct(q4.m) > 0
    <3> SUFFICES ASSUME r3.ret = 0
                 PROVE  /\ SwGood(q4.m) /\ Listed(q4.m)
                        /\ q4.ret = 0 => fdt_size_dt_struct(q4.m) > 0
      OBVIOUS
    <3>1. SwGood(r3.m) /\ Listed(r3.m) /\ RsvDone(r3.m)
      BY <1>3 DEF Under
    <3>2. Held(r3.m, q4) /\ (q4.ret = 0 => fdt_size_dt_struct(q4.m) > 0)
      BY <3>1, EndNodeKept
    <3>3. Listed(q4.m)
      BY <3>1, EndNodeListed
    <3> HIDE DEF q4
    <3> QED BY <3>2, <3>3 DEF Held
  <2> HIDE DEF q4
  <2>2. Under(m, r4) /\ (r4.ret = 0 => r3.ret = 0 /\ q4.ret = 0 /\ r4 = q4)
    BY <1>3, <2>1, UnderThen
  <2> HIDE DEF r4
  <2> QED BY <2>1, <2>2
<1> HIDE DEF r4
<1>5. /\ r5.m = m \/ Indexed(r5.m)
      /\ r5.ret = 0 => Good(r5.m) /\ Filed(r5.m)
  <2>1. CASE r4.ret # 0
    <3>1. r5 = r4
      BY <2>1 DEF Then
    <3> HIDE DEF r5
    <3> QED BY <1>4, <2>1, <3>1 DEF Under
  <2>2. CASE r4.ret = 0
    <3>1. r5 = q5
      BY <2>2 DEF Then
    <3>2. SwGood(r4.m) /\ Listed(r4.m) /\ fdt_size_dt_struct(r4.m) > 0
      BY <1>4, <2>2 DEF Under
    <3>3. Done(r4.m, q5) /\ Indexed(q5.m)
      BY <3>2, FinishKept, FinishIndexed
    <3> HIDE DEF q5, r5
    <3>4. q5.ret = 0 => Good(q5.m)
      BY <3>3 DEF Done
    <3> QED BY <3>1, <3>3, <3>4, OneKind
  <2> QED BY <2>1, <2>2
<1> HIDE DEF r5
<1>6. f.m = m \/ Indexed(f.m)
  <2>1. CASE r5.ret # 0
    <3>1. f = r5
      BY <2>1 DEF Then
    <3> HIDE DEF f
    <3> QED BY <1>5, <3>1
  <2>2. CASE r5.ret = 0
    <3>1. f = q6
      BY <2>2 DEF Then
    <3>2. Good(r5.m) /\ Filed(r5.m)
      BY <1>5, <2>2
    <3>3. Good(q6.m) /\ Filed(q6.m)
      BY <3>2, OpenIntoGood, OpenIntoFiled
    <3> HIDE DEF f, q6
    <3> QED BY <3>1, <3>3, OneKind
  <2> QED BY <2>1, <2>2
<1> HIDE DEF f
<1> QED BY <1>0, <1>6

-----------------------------------------------------------------------------
(* Searches.                                                               *)

\* The names of nodes take no more words with the length that string.c's strlen()
\* returns than with their own: their length is not 3 modulo 4.
NodeNamesFit == \A s \in NodeNames \cup {""} : NameFits(s)

\* There is nothing to be found in a buffer with room for the header alone.
Findable(m) == SwSmall(m) \/ Indexed(m)

\* A call to a function of fdt_sw.c.
LEMMA SwCallIndexed ==
    ASSUME NEW c, NEW r, Findable(mem),
           Returns(c, IF ~Unfinished THEN Return(-FDT_ERR_BADMAGIC, mem) ELSE r),
           Unfinished => Findable(r.m)
    PROVE  Findable(mem')
<1>1. CASE ~Unfinished
  <2>1. mem' = mem
    BY <1>1 DEF Returns, Return
  <2> QED BY <2>1
<1>2. CASE Unfinished
  <2>1. mem' = r.m
    BY <1>2 DEF Returns
  <2> QED BY <1>2, <2>1
<1> QED BY <1>1, <1>2

\* Every call leaves a tree that can be searched.
LEMMA SwStepIndexed ==
    ASSUME ~AnyResize, ~AnyOrder, StringsReach, NodeNamesFit, SwInv, Findable(mem), SwNext
    PROVE  Findable(mem')
<1>0. /\ mem \in Memory
      /\ Unfinished => (SwGood(mem) /\ Listed(mem)) \/ SwSmall(mem)
      /\ SwGood(mem) => Listed(mem)
      /\ Good(mem) => Filed(mem)
  <2>1. SwSmall(mem) => fdt_magic(mem) = FDT_SW_MAGIC
    BY DEF SwSmall
  <2>2. SwSmall(mem) => ~SwGood(mem) /\ ~Good(mem)
    <3>1. SwSmall(mem) => fdt_totalsize(mem) < 12 /\ fdt_off_dt_struct(mem) = 12
      BY SwHead DEF SwSmall, Bare
    <3>2. SwGood(mem) => /\ fdt_off_dt_struct(mem) \in Nat /\ fdt_totalsize(mem) \in Nat
                         /\ fdt_size_dt_struct(mem) \in Nat /\ fdt_size_dt_strings(mem) \in Nat
                         /\ fdt_off_dt_struct(mem) + fdt_size_dt_struct(mem)
                                <= fdt_totalsize(mem) - fdt_size_dt_strings(mem)
      BY SwFacts
    <3>3. ~(SwSmall(mem) /\ SwGood(mem))
      BY <3>1, <3>2
    <3> QED BY <2>1, <3>3 DEF Good, InOrder
  <2> QED BY <2>2, SwInvFacts, OneKind DEF Findable
<1>1. CASE fdt_create
  <2>1. PICK size \in SwSizes :
          Returns(Call("create", 0, None, NoVal, size), Create(mem, size))
    BY <1>1 DEF fdt_create
  <2> DEFINE r == Create(mem, size)
  <2>2. mem' = r.m
    BY <2>1, Zenon DEF Returns
  <2>3. size \in 0 .. BufSize
    BY SwAssumption
  <2>4. r.ret # 0 => r.m = mem
    BY <1>0, <2>3, CreateKept
  <2>5. r.ret = 0 => SwSmall(r.m) \/ (SwGood(r.m) /\ Listed(r.m))
    BY <1>0, <2>3, CreateKept, CreateListed
  <2> HIDE DEF r
  <2> QED BY <2>2, <2>4, <2>5, OneKind DEF Findable
<1>2. CASE fdt_create_empty_tree
  <2>1. PICK size \in SwSizes :
          Returns(Call("create_empty_tree", 0, None, NoVal, size), EmptyTree(mem, size))
    BY <1>2 DEF fdt_create_empty_tree
  <2> DEFINE r == EmptyTree(mem, size)
  <2>2. mem' = r.m
    BY <2>1, Zenon DEF Returns
  <2>3. size \in 0 .. BufSize
    BY SwAssumption
  <2>4. StringsReach /\ NameFits("")
    BY DEF NodeNamesFit
  <2>5. r.m = mem \/ Findable(r.m)
    BY <1>0, <2>3, <2>4, EmptyTreeIndexed, EmptyTreeSmall DEF Findable
  <2> HIDE DEF r
  <2> QED BY <2>2, <2>5
<1>3. CASE OpenFinished
  <2>1. PICK size \in BufSizes :
          Returns(Call("open_into", 0, None, NoVal, size), OpenInto(mem, size))
    BY <1>3 DEF OpenFinished, fdt_open_into
  <2> DEFINE r == OpenInto(mem, size)
  <2>2. mem' = r.m
    BY <2>1, Zenon DEF Returns
  <2>3. size \in 0 .. BufSize
    BY BufAssumption
  <2>4. Good(mem) /\ Filed(mem)
    BY <1>0, <1>3, SwInvFacts DEF OpenFinished
  <2>5. Good(r.m) /\ Filed(r.m)
    BY <2>3, <2>4, OpenIntoGood, OpenIntoFiled
  <2> HIDE DEF r
  <2> QED BY <2>2, <2>5, OneKind DEF Findable
<1>4. CASE fdt_resize
  <2>1. PICK shift \in Shifts, size \in SwSizes :
          /\ Unfinished => MayResize(shift, size)
          /\ SwReturns(Call("resize", 0, None, <<shift>>, size),
                       LAMBDA m : Resize(m, shift, size))
    BY <1>4 DEF fdt_resize
  <2> DEFINE c == Call("resize", 0, None, <<shift>>, size)
             r == Resize(mem, shift, size)
  <2>2. Returns(c, IF ~Unfinished THEN Return(-FDT_ERR_BADMAGIC, mem) ELSE r)
    BY <2>1 DEF SwReturns
  <2>3. ASSUME Unfinished PROVE Findable(r.m)
    <3>1. shift \in -MemSize .. MemSize /\ size \in 0 .. BufSize
      BY SwAssumption
    <3>2. \/ fdt_size_dt_struct(mem) = 0
          \/ /\ shift = 0
             /\ size >= fdt_off_dt_struct(mem) + fdt_size_dt_struct(mem)
                        + fdt_size_dt_strings(mem)
      BY <2>1, <2>3 DEF MayResize
    <3>3. (r.ret # 0 => r.m = mem) /\ (r.ret = 0 => /\ SwGood(r.m)
                                                    /\ fdt_size_dt_struct(r.m) = fdt_size_dt_struct(mem)
                                                    /\ fdt_off_dt_strings(r.m) = fdt_totalsize(r.m))
      <4>1. \/ fdt_size_dt_struct(mem) = 0
            \/ size >= fdt_off_dt_struct(mem) + fdt_size_dt_struct(mem)
                       + fdt_size_dt_strings(mem)
        BY <3>2
      <4> QED BY <1>0, <2>3, <3>1, <4>1, BufferResized
    <3>4. SwGood(mem) => Listed(r.m)
      BY <1>0, <3>1, <3>2, ResizeListed
    <3> HIDE DEF r
    <3>5. SwSmall(mem) /\ r.ret = 0 => Listed(r.m)
      BY <3>3, SmallEmpty, ListedEmpty
    <3> QED BY <1>0, <2>3, <3>3, <3>4, <3>5, OneKind DEF Findable
  <2> HIDE DEF c, r
  <2> QED BY <2>2, <2>3, SwCallIndexed
<1>5. CASE fdt_add_reservemap_entry
  <2>1. PICK rsv \in Rsvs :
          /\ Unfinished => MayReserve
          /\ SwReturns(Call("add_reservemap_entry", 0, None, <<rsv.address, rsv.size>>, 0),
                       LAMBDA m : AddReservemapEntry(m, rsv))
    BY <1>5 DEF fdt_add_reservemap_entry
  <2> DEFINE c == Call("add_reservemap_entry", 0, None, <<rsv.address, rsv.size>>, 0)
             r == AddReservemapEntry(mem, rsv)
  <2>2. Returns(c, IF ~Unfinished THEN Return(-FDT_ERR_BADMAGIC, mem) ELSE r)
    BY <2>1 DEF SwReturns
  <2>3. ASSUME Unfinished PROVE Findable(r.m)
    <3>1. rsv \in [address : Nat, size : Nat]
      BY ArgAssumption
    <3>2. SwGood(mem) => Held(mem, r) /\ Listed(r.m)
      BY <1>0, <3>1, ReserveKept, ReserveListed
    <3>3. SwSmall(mem) => r.m = mem
      BY SmallReserved DEF Return
    <3> HIDE DEF r
    <3> QED BY <1>0, <2>3, <3>2, <3>3, OneKind DEF Held, Findable
  <2> HIDE DEF c, r
  <2> QED BY <2>2, <2>3, SwCallIndexed
<1>6. CASE fdt_finish_reservemap
  <2>1. SwReturns(Call("finish_reservemap", 0, None, NoVal, 0), FinishReservemap)
    BY <1>6 DEF fdt_finish_reservemap
  <2> DEFINE c == Call("finish_reservemap", 0, None, NoVal, 0)
             r == FinishReservemap(mem)
  <2>2. Returns(c, IF ~Unfinished THEN Return(-FDT_ERR_BADMAGIC, mem) ELSE r)
    BY <2>1 DEF SwReturns
  <2>3. ASSUME Unfinished PROVE Findable(r.m)
    <3> DEFINE rsv == [address |-> 0, size |-> 0]
    <3>1. rsv \in [address : Nat, size : Nat] /\ r = AddReservemapEntry(mem, rsv)
      BY DEF FinishReservemap
    <3> HIDE DEF r, rsv
    <3>2. SwGood(mem) => Held(mem, r) /\ Listed(r.m)
      BY <1>0, <3>1, ReserveKept, ReserveListed
    <3>3. SwSmall(mem) => r.m = mem
      BY <3>1, SmallReserved DEF Return
    <3> QED BY <1>0, <2>3, <3>2, <3>3, OneKind DEF Held, Findable
  <2> HIDE DEF c, r
  <2> QED BY <2>2, <2>3, SwCallIndexed
<1>7. CASE fdt_begin_node
  <2>1. PICK s \in NodeNames \cup {""}, t \in NameTails :
          /\ Unfinished => MayBegin(s)
          /\ SwReturns(Call("begin_node", 0, s, NoVal, 0),
                       LAMBDA m : BeginNode(m, s, t))
    BY <1>7 DEF fdt_begin_node
  <2> DEFINE c == Call("begin_node", 0, s, NoVal, 0)
             r == BeginNode(mem, s, t)
  <2>2. Returns(c, IF ~Unfinished THEN Return(-FDT_ERR_BADMAGIC, mem) ELSE r)
    BY <2>1 DEF SwReturns
  <2>3. ASSUME Unfinished PROVE Findable(r.m)
    <3>1. s \in Names /\ t \in Nat /\ NameFits(s)
      BY ArgAssumption, NameAssumption DEF NodeNamesFit
    <3>2. RsvDone(mem)
      BY <2>1, <2>3, Zenon DEF MayBegin
    <3>3. Held(mem, r) /\ Listed(r.m)
      BY <1>0, <2>3, <3>1, <3>2, SmallEmpty, BeginNodeKept, BeginNodeListed
    <3> HIDE DEF r
    <3> QED BY <3>3, OneKind DEF Held, Findable
  <2> HIDE DEF c, r
  <2> QED BY <2>2, <2>3, SwCallIndexed
<1>8. CASE fdt_property
  <2>1. PICK s \in PropNames, t \in StrTails, v \in Vals :
          /\ Unfinished => MayAddProperty(s)
          /\ SwReturns(Call("property", 0, s, v, 0),
                       LAMBDA m : Property(m, s, t, v))
    BY <1>8 DEF fdt_property
  <2> DEFINE c == Call("property", 0, s, v, 0)
             r == Property(mem, s, t, v)
  <2>2. Returns(c, IF ~Unfinished THEN Return(-FDT_ERR_BADMAGIC, mem) ELSE r)
    BY <2>1 DEF SwReturns
  <2>3. ASSUME Unfinished PROVE Findable(r.m)
    <3>1. s \in Names /\ t \in Nat /\ v \in Seq(Byte) /\ StringsReach
      BY ArgAssumption
    <3>2. MayAddProperty(s)
      BY <2>1, <2>3
    <3>3. OpenNodes(Walk(mem, 0)) > 0
      BY <3>2, Zenon DEF MayAddProperty
    <3>4. fdt_size_dt_struct(mem) > 0
      BY <1>0, <2>3, <3>3, OpenNodeHasSpace
    <3>8. SwGood(mem) /\ Listed(mem)
      BY <1>0, <2>3, <3>4, SmallEmpty
    <3>5. \A o, x : Reaches(mem, o, fdt_size_dt_struct(mem)) /\ HasProp(mem, o, x) =>
            PropName(mem, x) # s
      BY <3>8, <3>2, PropertyIsNew
    <3>6. Held(mem, r)
      BY <3>8, <3>1, <3>4, PropertyKept
    <3>7. Listed(r.m)
      BY <3>8, <3>1, <3>4, <3>5, PropertyListed
    <3> HIDE DEF r
    <3> QED BY <3>6, <3>7, OneKind DEF Held, Findable
  <2> HIDE DEF c, r
  <2> QED BY <2>2, <2>3, SwCallIndexed
<1>9. CASE fdt_end_node
  <2>1. /\ Unfinished => MayEnd
        /\ SwReturns(Call("end_node", 0, None, NoVal, 0), EndNode)
    BY <1>9 DEF fdt_end_node
  <2> DEFINE c == Call("end_node", 0, None, NoVal, 0)
             r == EndNode(mem)
  <2>2. Returns(c, IF ~Unfinished THEN Return(-FDT_ERR_BADMAGIC, mem) ELSE r)
    BY <2>1 DEF SwReturns
  <2>3. ASSUME Unfinished PROVE Findable(r.m)
    <3>1. fdt_size_dt_struct(mem) > 0
      BY <1>0, <2>1, <2>3, OpenNodeHasSpace DEF MayEnd
    <3>2. RsvDone(mem)
      BY <1>0, <2>3, <3>1, SmallEmpty DEF SwGood
    <3>3. Held(mem, r) /\ Listed(r.m)
      BY <1>0, <2>3, <3>1, <3>2, SmallEmpty, EndNodeKept, EndNodeListed
    <3> HIDE DEF r
    <3> QED BY <3>3, OneKind DEF Held, Findable
  <2> HIDE DEF c, r
  <2> QED BY <2>2, <2>3, SwCallIndexed
<1>10. CASE fdt_finish
  <2>1. /\ Unfinished => MayFinish
        /\ SwReturns(Call("finish", 0, None, NoVal, 0), Finish)
    BY <1>10 DEF fdt_finish
  <2> DEFINE c == Call("finish", 0, None, NoVal, 0)
             r == Finish(mem)
  <2>2. Returns(c, IF ~Unfinished THEN Return(-FDT_ERR_BADMAGIC, mem) ELSE r)
    BY <2>1 DEF SwReturns
  <2>3. ASSUME Unfinished PROVE Findable(r.m)
    <3>1. fdt_size_dt_struct(mem) > 0 /\ StringsReach
      BY <2>1, <2>3 DEF MayFinish
    <3> QED BY <1>0, <2>3, <3>1, SmallEmpty, FinishIndexed DEF Findable
  <2> HIDE DEF c, r
  <2> QED BY <2>2, <2>3, SwCallIndexed
<1> QED BY <1>1, <1>2, <1>3, <1>4, <1>5, <1>6, <1>7, <1>8, <1>9, <1>10 DEF SwNext

\* Such a tree can be searched.
LEMMA IndexedSearchable ==
    ASSUME SwInv, Findable(mem)
    PROVE  Searchable
<1> DEFINE w == Walk(mem, 0)
<1>1. ASSUME Framed(mem), Distinct(mem), NEW o \in Nodes(w), NEW x \in PropsOf(w, o)
      PROVE  fdt_get_property(mem, o, PropName(mem, x.at)) = x.at
  BY <1>1, PropsReached, SearchFinds
<1>5. CASE SwSmall(mem)
  <2>1. /\ fdt_off_dt_strings(mem) = fdt_totalsize(mem)
        /\ fdt_magic(mem) = FDT_SW_MAGIC /\ fdt_size_dt_struct(mem) = 0
    BY <1>5 DEF SwSmall, Bare
  <2>2. fdt_check_header(mem) = -FDT_ERR_BADSTATE
    BY <2>1 DEF fdt_check_header
  <2>3. fdt_check_header(mem) # 0
    BY <2>2
  <2> QED BY <2>1, <2>3 DEF Searchable
<1>2. CASE SwGood(mem) /\ ~SwSmall(mem)
  <2>1. /\ Framed(mem) /\ Distinct(mem)
        /\ fdt_off_dt_strings(mem) = fdt_totalsize(mem)
    BY <1>2, OneKind, SwFramed DEF Listed, Findable
  <2> QED BY <1>1, <2>1 DEF Searchable
<1>3. CASE Good(mem) /\ ~SwSmall(mem)
  <2>1. Framed(mem) /\ Distinct(mem)
    BY <1>3, OneKind, GoodFramed DEF Filed, Findable
  <2>2. ~Unfinished
    BY <1>3 DEF Unfinished, Good, InOrder
  <2> QED BY <1>1, <2>1, <2>2 DEF Searchable
<1>4. CASE fdt_magic(mem) \notin {FDT_MAGIC, FDT_SW_MAGIC}
  <2>1. ~Unfinished
    BY <1>4 DEF Unfinished
  <2>2. fdt_check_header(mem) = -FDT_ERR_BADMAGIC
    BY <1>4 DEF fdt_check_header
  <2>3. fdt_check_header(mem) # 0
    BY <2>2
  <2> QED BY <2>1, <2>3 DEF Searchable
<1> QED BY <1>2, <1>3, <1>4, <1>5 DEF SwInv

\* libfdt's own searches find every property by its name, in a tree that is being
\* written and in a finished one, for any properties, values and calls of it:
\* if no buffer with nodes in it is moved or shrunk, and no node is begun while the
\* reservations have no end.
THEOREM SearchableKept ==
    ASSUME ~AnyResize, ~AnyOrder, StringsReach, NodeNamesFit
    PROVE  SwSpec => []Searchable
<1> DEFINE Inv == SwInv /\ Findable(mem)
<1>1. SwInit => Inv
  <2> SUFFICES ASSUME SwInit PROVE Findable(mem)
    BY SwStart
  <2>1. MemSize \in Nat /\ MemSize >= 10
    BY MemAssumption
  <2>2. mem[0] = Text
    BY <2>1 DEF SwInit
  <2>3. fdt_magic(mem) \notin {FDT_MAGIC, FDT_SW_MAGIC}
    <3>1. Text.k = "text" /\ FDT_TEXT = 99
      BY DEF Text, FDT_TEXT
    <3> QED BY <2>2, <3>1 DEF fdt_magic, Value
  <2> QED BY <2>3 DEF Indexed, Findable
<1>2. Inv /\ [SwNext]_vars => Inv'
  <2>1. ASSUME Inv, SwNext PROVE Inv'
    <3>1. SwInv'
      BY <2>1, SwStep
    <3>2. Findable(mem')
      BY <2>1, SwStepIndexed
    <3> QED BY <3>1, <3>2
  <2>2. ASSUME Inv, UNCHANGED vars PROVE Inv'
    BY <2>2, SwStutter DEF vars, Findable
  <2> QED BY <2>1, <2>2
<1>3. Inv => Searchable
  BY IndexedSearchable
<1> QED BY <1>1, <1>2, <1>3, PTL DEF SwSpec

=============================================================================
