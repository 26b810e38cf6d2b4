--------------------------- MODULE FdtOverlayProofs ---------------------------
(***************************************************************************)
(* After any number of overlays, applied in any order, well or ill, no two *)
(* nodes of a base tree that passes for a good one have the same phandle,  *)
(* and none has the reserved one.                                          *)
(*                                                                         *)
(* The argument: delta is the largest phandle that the base tree has when  *)
(* a call begins, and no sum with it wraps, so the overlay's phandles end  *)
(* up above it and as distinct as they were.  While the overlay is merged, *)
(* a phandle of the base tree above delta is one of an overlay node that   *)
(* has been merged, and each overlay node is merged into one base node.    *)
(***************************************************************************)
EXTENDS FdtOverlay, SequenceTheorems, NatLemmas

-----------------------------------------------------------------------------
(* The inductive invariant.                                                *)

\* What fdt_overlay_apply() never changes of an overlay.
Alike(d, o) ==
    /\ d \in Seq(ToSet(d)) /\ Len(d) = Len(o)
    /\ \A i \in DOMAIN o :
        /\ d[i] = [depth |-> d[i].depth, name |-> d[i].name, props |-> d[i].props]
        /\ d[i].depth = o[i].depth /\ d[i].name = o[i].name
        /\ DOMAIN d[i].props = DOMAIN o[i].props
        /\ d[i].props = [s \in DOMAIN d[i].props |-> d[i].props[s]]

\* All phandles of d are behind the largest one of the base tree.
Above(d, low) ==
    /\ \A i \in DOMAIN d : \A s \in PhandleNames \cap DOMAIN d[i].props :
            \E p \in low + 1 .. MaxU32 - 1 : d[i].props[s] = CellsVal(<<p>>)
    /\ \A i, j \in DOMAIN d : AllPhandles(d[i].props) \cap AllPhandles(d[j].props) # {} => i = j

IsDoc(d) ==
    /\ d # <<>> /\ d \in Seq(ToSet(d))
    /\ \A i \in DOMAIN d :
        /\ d[i] = [depth |-> d[i].depth, name |-> d[i].name, props |-> d[i].props]
        /\ PhandleIn(d[i].props) \in 0 .. MaxU32

BaseInv == baseMagic => IsDoc(base) /\ PhandlesUnique(base)

PcInv ==
    /\ pc \in {"idle", "adjust", "references", "fixups", "merge", "symbols", "symbol"}
    /\ pc # "idle" => baseMagic
    /\ pc # "merge" => held = <<>>
    /\ pc \notin {"merge", "symbol"} => left = {}

OvInv ==
    /\ pc = "idle" /\ ovMagic => ov \in Overlays
    /\ pc = "adjust" => ov \in Overlays
    /\ pc \notin {"idle", "adjust"} =>
        Above(ov, delta) /\ \E o \in Overlays : Alike(ov, o)

\* Until merging begins, the base tree has no phandle above delta.
DeltaInv ==
    /\ pc # "idle" => delta \in 0 .. MaxU32
    /\ pc \in {"adjust", "references", "fixups"} =>
        \A n \in DOMAIN base : PhandleIn(base[n].props) <= delta

\* The recursion is where the overlay is.
HeldInv == pc = "merge" =>
    /\ at \in Nat
    /\ held \in Seq(0 .. Len(base))
    /\ held = <<>> => left = {} /\ (at \in DOMAIN ov => ov[at].depth = 2)
    /\ held # <<>> =>
        /\ at - 1 \in DOMAIN ov /\ Len(held) = ov[at - 1].depth - 2
        /\ left \subseteq DOMAIN ov[at - 1].props

\* Then, the phandles above delta are those of overlay nodes that have been
\* merged, and the node that is being merged has got its own.
MergeInv == pc = "merge" =>
    /\ \A n \in DOMAIN base : PhandleIn(base[n].props) > delta =>
        \E j \in DOMAIN ov : j < at /\ PhandleIn(base[n].props) \in AllPhandles(ov[j].props)
    /\ held # <<>> => \A n \in DOMAIN base :
        PhandleIn(base[n].props) \in AllPhandles(ov[at - 1].props) => n = Last(held)

\* A symbol cannot be taken for a phandle.
SymbolInv == pc = "symbol" => left \cap PhandleNames = {}

Inv == BaseInv /\ PcInv /\ OvInv /\ DeltaInv /\ HeldInv /\ MergeInv /\ SymbolInv
-----------------------------------------------------------------------------
(* Phandles of nodes.                                                      *)

Holds(props, s) == s \in DOMAIN props /\ IsCells(props[s]) /\ Len(props[s].cells) = 1

LEMMA PhandleCases ==
    ASSUME NEW props
    PROVE  /\ Holds(props, "phandle") => PhandleIn(props) = props["phandle"].cells[1]
           /\ ~Holds(props, "phandle") /\ Holds(props, "linux,phandle") =>
                PhandleIn(props) = props["linux,phandle"].cells[1]
           /\ ~Holds(props, "phandle") /\ ~Holds(props, "linux,phandle") =>
                PhandleIn(props) = 0
  BY DEF PhandleIn, Holds

\* The phandle that is found is one that the node has.
LEMMA PhandleAmongAll ==
    ASSUME NEW props
    PROVE  /\ PhandleIn(props) = 0 \/ PhandleIn(props) \in AllPhandles(props)
           /\ DOMAIN props \cap PhandleNames = {} => PhandleIn(props) = 0
  BY PhandleCases DEF AllPhandles, Holds, PhandleNames

\* Two sets of properties that agree on the names of phandles.
LEMMA SamePhandle ==
    ASSUME NEW a, NEW b,
           \A s \in PhandleNames : (s \in DOMAIN a <=> s \in DOMAIN b) /\ (s \in DOMAIN a => a[s] = b[s])
    PROVE  PhandleIn(a) = PhandleIn(b)
<1>1. \A s \in PhandleNames : Holds(a, s) <=> Holds(b, s)
  BY DEF Holds
<1>2. \A s \in PhandleNames : Holds(a, s) => a[s] = b[s]
  BY DEF Holds
<1>3. "phandle" \in PhandleNames /\ "linux,phandle" \in PhandleNames
  BY DEF PhandleNames
<1> QED BY <1>1, <1>2, <1>3, PhandleCases

\* Setting a property either has nothing to do with the node's phandle, or
\* leaves it, or makes the new value the phandle.
LEMMA PhandleWith ==
    ASSUME NEW props, NEW s, NEW val
    PROVE  /\ s \notin PhandleNames => PhandleIn(DT!With(s, val, props)) = PhandleIn(props)
           /\ \A p : val = CellsVal(<<p>>) =>
                PhandleIn(DT!With(s, val, props)) \in {PhandleIn(props), p}
<1> DEFINE new == DT!With(s, val, props)
<1>1. /\ DOMAIN new = DOMAIN props \cup {s} /\ new[s] = val
      /\ \A q \in DOMAIN props : q # s => new[q] = props[q]
  BY DEF DT!With
<1> HIDE DEF new
<1>2. s \notin PhandleNames => PhandleIn(new) = PhandleIn(props)
  BY <1>1, SamePhandle
<1>3. ASSUME NEW p, val = CellsVal(<<p>>)
      PROVE  PhandleIn(new) \in {PhandleIn(props), p}
  <2>1. Holds(new, s) /\ new[s].cells[1] = p
    BY <1>1, <1>3 DEF Holds, CellsVal, IsCells
  <2>2. \A q : q # s => (Holds(new, q) <=> Holds(props, q)) /\ (Holds(props, q) => new[q] = props[q])
    BY <1>1 DEF Holds
  <2>3. CASE s = "phandle"
    BY <2>1, <2>3, PhandleCases
  <2>4. CASE s = "linux,phandle"
    BY <2>1, <2>2, <2>4, PhandleCases
  <2>5. CASE s \notin PhandleNames
    BY <1>2, <2>5
  <2> QED BY <2>3, <2>4, <2>5 DEF PhandleNames
<1> QED BY <1>2, <1>3 DEF new

-----------------------------------------------------------------------------
(* Documents and what fdt_setprop() and fdt_add_subnode() make of them.    *)

IsRecord(x) == x = [depth |-> x.depth, name |-> x.name, props |-> x.props]

LEMMA RecordFields ==
    /\ \A x, p : IsRecord(x) =>
        /\ IsRecord([x EXCEPT !.props = p])
        /\ [x EXCEPT !.props = p].props = p
        /\ [x EXCEPT !.props = p].depth = x.depth /\ [x EXCEPT !.props = p].name = x.name
    /\ \A d, s, p : /\ IsRecord([depth |-> d, name |-> s, props |-> p])
                    /\ [depth |-> d, name |-> s, props |-> p].props = p
<1>1. ASSUME NEW x, NEW p, IsRecord(x)
      PROVE  [x EXCEPT !.props = p] = [depth |-> x.depth, name |-> x.name, props |-> p]
  <2>1. x = [depth |-> x.depth, name |-> x.name, props |-> x.props]
    BY <1>1 DEF IsRecord
  <2>2. \A a, b, c : [[depth |-> a, name |-> b, props |-> c] EXCEPT !.props = p]
                        = [depth |-> a, name |-> b, props |-> p]
    OBVIOUS
  <2> QED BY <2>1, <2>2, Zenon
<1>2. \A d, s, p : LET x == [depth |-> d, name |-> s, props |-> p]
                   IN  x.depth = d /\ x.name = s /\ x.props = p
  OBVIOUS
<1>3. \A d, s, p : IsRecord([depth |-> d, name |-> s, props |-> p])
  BY <1>2 DEF IsRecord
<1>4. ASSUME NEW x, NEW p, IsRecord(x)
      PROVE  LET y == [x EXCEPT !.props = p]
             IN  IsRecord(y) /\ y.props = p /\ y.depth = x.depth /\ y.name = x.name
  <2> DEFINE y == [x EXCEPT !.props = p]
  <2>1. y = [depth |-> x.depth, name |-> x.name, props |-> p]
    BY <1>1, <1>4
  <2> HIDE DEF y
  <2>2. IsRecord(y) /\ y.props = p /\ y.depth = x.depth /\ y.name = x.name
    BY <1>2, <1>3, <2>1
  <2> QED BY <2>2 DEF y
<1> QED BY <1>2, <1>3, <1>4

LEMMA SeqFacts ==
    ASSUME NEW d, d \in Seq(ToSet(d))
    PROVE  /\ Len(d) \in Nat /\ DOMAIN d = 1 .. Len(d)
           /\ \A i \in 1 .. Len(d) : d[i] \in ToSet(d)
           /\ d # <<>> => Len(d) > 0
  BY DEF ToSet

\* A sequence is one over its own elements.
LEMMA SeqOfElements ==
    ASSUME NEW S, NEW d \in Seq(S)
    PROVE  d \in Seq(ToSet(d))
<1>1. Range(d) = ToSet(d)
  BY DEF Range, ToSet
<1> QED BY <1>1, SeqOfRange

LEMMA Inserted ==
    ASSUME NEW d, d \in Seq(ToSet(d)), NEW i \in 1 .. Len(d) + 1, NEW e
    PROVE  LET new == InsertAt(d, i, e)
           IN  /\ new \in Seq(ToSet(new)) /\ Len(new) = Len(d) + 1
               /\ \A k \in 1 .. Len(d) + 1 :
                    new[k] = IF k < i THEN d[k] ELSE IF k = i THEN e ELSE d[k - 1]
<1> DEFINE S == ToSet(d) \cup {e}
           a == SubSeq(d, 1, i - 1)
           b == SubSeq(d, i, Len(d))
<1>0. Len(d) \in Nat /\ \A k \in 1 .. Len(d) : d[k] \in S
  BY SeqFacts
<1>1. a \in Seq(S) /\ Len(a) = i - 1 /\ \A k \in 1 .. i - 1 : a[k] = d[k]
  <2>1. \A k \in 1 .. i - 1 : d[k] \in S
    BY <1>0
  <2>2. /\ a \in Seq(S) /\ Len(a) = IF 1 <= i - 1 THEN i - 1 - 1 + 1 ELSE 0
        /\ \A k \in 1 .. i - 1 - 1 + 1 : a[k] = d[1 + k - 1]
    BY <1>0, <2>1, SubSeqProperties
  <2> QED BY <1>0, <2>2
<1>2. b \in Seq(S) /\ Len(b) = Len(d) - i + 1 /\ \A k \in 1 .. Len(d) - i + 1 : b[k] = d[i + k - 1]
  <2>1. \A k \in i .. Len(d) : d[k] \in S
    BY <1>0
  <2>2. /\ b \in Seq(S) /\ Len(b) = IF i <= Len(d) THEN Len(d) - i + 1 ELSE 0
        /\ \A k \in 1 .. Len(d) - i + 1 : b[k] = d[i + k - 1]
    BY <1>0, <2>1, SubSeqProperties
  <2> QED BY <1>0, <2>2
<1>3. <<e>> \in Seq(S) /\ Len(<<e>>) = 1 /\ <<e>>[1] = e
  OBVIOUS
<1> HIDE DEF S, a, b
<1> DEFINE c == a \o <<e>>
<1>4. /\ c \in Seq(S) /\ Len(c) = i
      /\ \A k \in 1 .. i : c[k] = IF k < i THEN a[k] ELSE e
  <2>1. /\ c \in Seq(S) /\ Len(c) = Len(a) + Len(<<e>>)
        /\ \A k \in 1 .. Len(a) + Len(<<e>>) :
                c[k] = IF k <= Len(a) THEN a[k] ELSE <<e>>[k - Len(a)]
    BY <1>1, <1>3, ConcatProperties
  <2> QED BY <1>0, <1>1, <1>3, <2>1
<1> HIDE DEF c
<1> DEFINE n == c \o b
<1>5. /\ n \in Seq(S) /\ Len(n) = Len(c) + Len(b)
      /\ \A k \in 1 .. Len(c) + Len(b) : n[k] = IF k <= Len(c) THEN c[k] ELSE b[k - Len(c)]
  BY <1>2, <1>4, ConcatProperties
<1>6. InsertAt(d, i, e) = n
  BY DEF InsertAt, n, c, a, b
<1> HIDE DEF n
<1>7. ASSUME NEW k \in 1 .. Len(d) + 1
      PROVE  n[k] = IF k < i THEN d[k] ELSE IF k = i THEN e ELSE d[k - 1]
  <2>1. CASE k <= i
    BY <1>0, <1>1, <1>2, <1>4, <1>5, <2>1
  <2>2. CASE k > i
    <3>1. n[k] = b[k - i] /\ k - i \in 1 .. Len(d) - i + 1
      BY SMTT(30), <1>0, <1>2, <1>4, <1>5, <2>2
    <3>2. b[k - i] = d[i + (k - i) - 1]
      BY <1>2, <3>1
    <3> QED BY <1>0, <2>2, <3>1, <3>2
  <2> QED BY <1>0, <2>1, <2>2
<1>8. n \in Seq(ToSet(n)) /\ Len(n) = Len(d) + 1
  BY <1>0, <1>2, <1>4, <1>5, SeqOfElements
<1> QED BY <1>6, <1>7, <1>8

\* A document's node, and what is known of it.
LEMMA DocFacts ==
    ASSUME NEW d, IsDoc(d)
    PROVE  /\ d \in Seq(ToSet(d)) /\ Len(d) \in Nat \ {0} /\ DOMAIN d = 1 .. Len(d)
           /\ \A n \in DOMAIN d : IsRecord(d[n]) /\ PhandleIn(d[n].props) \in 0 .. MaxU32
  BY SeqFacts DEF IsDoc, IsRecord

Empty(depth, name) == [depth |-> depth, name |-> name, props |-> <<>>]

\* A new node has no phandle, the other ones have what they had.
LEMMA DocInserted ==
    ASSUME NEW d, IsDoc(d), NEW i \in 1 .. Len(d) + 1, NEW depth, NEW name
    PROVE  LET new == InsertAt(d, i, Empty(depth, name))
           IN  /\ IsDoc(new) /\ Len(new) = Len(d) + 1
               /\ \A n \in DOMAIN new : PhandleIn(new[n].props) # 0 =>
                    \E m \in DOMAIN d : /\ PhandleIn(new[n].props) = PhandleIn(d[m].props)
                                        /\ n = IF m < i THEN m ELSE m + 1
<1> DEFINE e == Empty(depth, name)
           new == InsertAt(d, i, e)
<1>1. e # <<>> /\ IsRecord(e) /\ e.props = <<>>
  BY RecordFields DEF Empty
<1>2. PhandleIn(e.props) = 0
  <2>1. DOMAIN e.props = {}
    BY <1>1
  <2> QED BY <2>1, PhandleAmongAll
<1>3. /\ new \in Seq(ToSet(new)) /\ Len(new) = Len(d) + 1
      /\ \A k \in 1 .. Len(d) + 1 : new[k] = IF k < i THEN d[k] ELSE IF k = i THEN e ELSE d[k - 1]
  BY DocFacts, Inserted
<1> HIDE DEF e, new
<1>4. DOMAIN new = 1 .. Len(d) + 1 /\ Len(d) \in Nat
  BY <1>3, DocFacts, SeqFacts
<1>5. ASSUME NEW n \in DOMAIN new
      PROVE  \/ n = i /\ new[n] = e
             \/ \E m \in DOMAIN d : new[n] = d[m] /\ n = IF m < i THEN m ELSE m + 1
  <2>1. CASE n < i
    BY <1>3, <1>4, <2>1, DocFacts
  <2>2. CASE n = i
    BY <1>3, <1>4, <2>2
  <2>3. CASE n > i
    <3>1. n - 1 \in DOMAIN d /\ new[n] = d[n - 1] /\ ~(n - 1 < i) /\ n = (n - 1) + 1
      BY <1>3, <1>4, <2>3, DocFacts
    <3> QED BY <3>1
  <2> QED BY <1>4, <2>1, <2>2, <2>3
<1>6. \A n \in DOMAIN new : IsRecord(new[n]) /\ PhandleIn(new[n].props) \in 0 .. MaxU32
  BY <1>1, <1>2, <1>5, DocFacts, BoundAssumption
<1>7. new # <<>>
  BY <1>3, <1>4
<1>8. IsDoc(new)
  BY <1>3, <1>6, <1>7 DEF IsDoc, IsRecord
<1>9. \A n \in DOMAIN new : PhandleIn(new[n].props) # 0 =>
        \E m \in DOMAIN d : /\ PhandleIn(new[n].props) = PhandleIn(d[m].props)
                            /\ n = IF m < i THEN m ELSE m + 1
  BY <1>2, <1>5
<1> QED BY <1>3, <1>8, <1>9 DEF new, e

LEMMA UniqueInserted ==
    ASSUME NEW d, IsDoc(d), PhandlesUnique(d), NEW i \in 1 .. Len(d) + 1, NEW depth, NEW name
    PROVE  PhandlesUnique(InsertAt(d, i, Empty(depth, name)))
<1> DEFINE new == InsertAt(d, i, Empty(depth, name))
<1>1. \A n \in DOMAIN new : PhandleIn(new[n].props) # 0 =>
        \E m \in DOMAIN d : /\ PhandleIn(new[n].props) = PhandleIn(d[m].props)
                            /\ n = IF m < i THEN m ELSE m + 1
  BY DocInserted
<1> HIDE DEF new
<1>2. \A n \in DOMAIN d : PhandleIn(d[n].props) # MaxU32
  BY DEF PhandlesUnique
<1>3. MaxU32 # 0
  BY <1>2, DocFacts, BoundAssumption
<1>4. ASSUME NEW n \in DOMAIN new, NEW k \in DOMAIN new,
             PhandleIn(new[n].props) # 0, PhandleIn(new[n].props) = PhandleIn(new[k].props)
      PROVE  n = k
  <2>1. PICK m \in DOMAIN d : PhandleIn(new[n].props) = PhandleIn(d[m].props) /\ n = IF m < i THEN m ELSE m + 1
    BY <1>1, <1>4
  <2>2. PICK j \in DOMAIN d : PhandleIn(new[k].props) = PhandleIn(d[j].props) /\ k = IF j < i THEN j ELSE j + 1
    BY <1>1, <1>4
  <2>3. m = j
    BY <1>4, <2>1, <2>2 DEF PhandlesUnique
  <2> QED BY <2>1, <2>2, <2>3
<1>5. \A n \in DOMAIN new : PhandleIn(new[n].props) # MaxU32
  BY <1>1, <1>2, <1>3
<1> QED BY <1>4, <1>5 DEF PhandlesUnique, new

\* Document d with property s of node k set to val.
Setting(d, k, s, val) == [d EXCEPT ![k].props = DT!With(s, val, @)]

\* A property that is set in a node, or in none.
LEMMA DocSet ==
    ASSUME NEW d, IsDoc(d), NEW k, NEW s, NEW val
    PROVE  LET new == Setting(d, k, s, val)
           IN  /\ Len(new) = Len(d) /\ DOMAIN new = DOMAIN d /\ new \in Seq(ToSet(new))
               /\ new # <<>>
               /\ \A n \in DOMAIN d : IsRecord(new[n])
               /\ \A n \in DOMAIN d : n # k => new[n] = d[n]
               /\ k \in DOMAIN d => new[k].props = DT!With(s, val, d[k].props)
<1> DEFINE new == Setting(d, k, s, val)
           x == [d[k] EXCEPT !.props = DT!With(s, val, @)]
<1>1. Len(d) \in Nat \ {0} /\ DOMAIN d = 1 .. Len(d) /\ \A n \in DOMAIN d : IsRecord(d[n])
  BY DocFacts
<1>2. k \in DOMAIN d => IsRecord(x) /\ x.props = DT!With(s, val, d[k].props)
  BY <1>1, RecordFields
<1>3. d \in Seq(ToSet(d) \cup {x}) /\ \A n \in 1 .. Len(d) : d[n] \in ToSet(d) \cup {x}
  BY DocFacts, SeqMonotonic, SeqFacts
<1>4. d = [n \in 1 .. Len(d) |-> d[n]]
  BY DocFacts, LenProperties
<1>5. /\ DOMAIN new = DOMAIN d
      /\ \A n \in DOMAIN d : new[n] = IF n = k THEN x ELSE d[n]
      /\ new = [n \in DOMAIN d |-> new[n]]
  BY <1>4 DEF Setting
<1> HIDE DEF new, x
<1>6. new \in [1 .. Len(d) -> ToSet(d) \cup {x}]
  BY <1>1, <1>3, <1>5
<1>7. new \in Seq(ToSet(d) \cup {x}) /\ Len(new) = Len(d)
  BY <1>1, <1>6
<1>8. new \in Seq(ToSet(new)) /\ new # <<>>
  BY <1>1, <1>7, SeqOfElements
<1>9. \A n \in DOMAIN d : IsRecord(new[n])
  BY <1>1, <1>2, <1>5
<1> QED BY <1>2, <1>5, <1>7, <1>8, <1>9 DEF new

\* A property that is no phandle leaves all phandles.
LEMMA DocSetOther ==
    ASSUME NEW d, IsDoc(d), NEW k, NEW s, NEW val, s \notin PhandleNames
    PROVE  LET new == Setting(d, k, s, val)
           IN  /\ IsDoc(new) /\ Len(new) = Len(d) /\ DOMAIN new = DOMAIN d
               /\ \A n \in DOMAIN d : PhandleIn(new[n].props) = PhandleIn(d[n].props)
<1> DEFINE new == Setting(d, k, s, val)
<1>1. /\ Len(new) = Len(d) /\ DOMAIN new = DOMAIN d /\ new \in Seq(ToSet(new)) /\ new # <<>>
      /\ \A n \in DOMAIN d : IsRecord(new[n])
      /\ \A n \in DOMAIN d : n # k => new[n] = d[n]
      /\ k \in DOMAIN d => new[k].props = DT!With(s, val, d[k].props)
  BY DocSet
<1> HIDE DEF new
<1>2. \A n \in DOMAIN d : PhandleIn(new[n].props) = PhandleIn(d[n].props)
  BY <1>1, PhandleWith
<1>3. IsDoc(new)
  BY <1>1, <1>2, DocFacts DEF IsDoc, IsRecord
<1> QED BY <1>1, <1>2, <1>3 DEF new

\* A phandle that is set in node k, and that no other node has.
LEMMA DocSetPhandle ==
    ASSUME NEW d, IsDoc(d), PhandlesUnique(d), NEW k, NEW s, NEW p \in 1 .. MaxU32 - 1,
           \A n \in DOMAIN d : PhandleIn(d[n].props) = p => n = k
    PROVE  LET new == Setting(d, k, s, CellsVal(<<p>>))
           IN  /\ IsDoc(new) /\ Len(new) = Len(d) /\ DOMAIN new = DOMAIN d
               /\ \A n \in DOMAIN d : \/ PhandleIn(new[n].props) = PhandleIn(d[n].props)
                                      \/ n = k /\ PhandleIn(new[n].props) = p
               /\ PhandlesUnique(new)
<1> DEFINE new == Setting(d, k, s, CellsVal(<<p>>))
<1>1. /\ Len(new) = Len(d) /\ DOMAIN new = DOMAIN d /\ new \in Seq(ToSet(new)) /\ new # <<>>
      /\ \A n \in DOMAIN d : IsRecord(new[n])
      /\ \A n \in DOMAIN d : n # k => new[n] = d[n]
      /\ k \in DOMAIN d => new[k].props = DT!With(s, CellsVal(<<p>>), d[k].props)
  BY DocSet
<1> HIDE DEF new
<1>2. ASSUME k \in DOMAIN d
      PROVE  PhandleIn(new[k].props) \in {PhandleIn(d[k].props), p}
  BY <1>1, <1>2, PhandleWith, Zenon
<1>3. \A n \in DOMAIN d : \/ PhandleIn(new[n].props) = PhandleIn(d[n].props)
                          \/ n = k /\ PhandleIn(new[n].props) = p
  BY <1>1, <1>2
<1>4. p \in 0 .. MaxU32 /\ p # MaxU32
  BY BoundAssumption
<1>5. \A n \in DOMAIN d : IsRecord(new[n]) /\ PhandleIn(new[n].props) \in 0 .. MaxU32
  BY <1>1, <1>3, <1>4, DocFacts
<1>6. IsDoc(new)
  BY <1>1, <1>5 DEF IsDoc, IsRecord
<1>7. PhandlesUnique(new)
  <2> SUFFICES ASSUME NEW i \in DOMAIN d, NEW j \in DOMAIN d
               PROVE  LET q == PhandleIn(new[i].props)
                      IN  q # MaxU32 /\ (q # 0 /\ q = PhandleIn(new[j].props) => i = j)
    BY <1>1 DEF PhandlesUnique
  <2>1. PhandleIn(d[i].props) # MaxU32
    BY DEF PhandlesUnique
  <2>2. PhandleIn(d[i].props) # 0 /\ PhandleIn(d[i].props) = PhandleIn(d[j].props) => i = j
    BY DEF PhandlesUnique
  <2> QED BY <1>3, <1>4, <2>1, <2>2
<1> QED BY <1>1, <1>3, <1>6, <1>7 DEF new

-----------------------------------------------------------------------------
(* What the calls on the base tree return.                                 *)

LEMMA SetPropOutcome ==
    ASSUME NEW d, NEW c, NEW out \in DT!SetProp(d, <<>>, c)
    PROVE  \/ out.ret < 0 /\ out.doc = d
           \/ out.ret = 0 /\ out.doc = Setting(d, c.node, c.name, c.val)
  BY DEF Setting, DT!SetProp, DT!Failures, DT!Outcome, DT!NOSPACE, DT!Unopened

LEMMA AddSubnodeOutcome ==
    ASSUME NEW d, NEW c, c.node \in Nat, NEW out \in DT!AddSubnode(d, <<>>, c)
    PROVE  \/ out.ret < 0 /\ out.ret \in Int /\ out.doc = d
           \/ /\ out.ret = c.node + 1
              /\ out.doc = InsertAt(d, c.node + 1, Empty(d[c.node].depth + 1, c.name))
<1> DEFINE new == InsertAt(d, c.node + 1, Empty(d[c.node].depth + 1, c.name))
<1>1. \/ out \in DT!Failures(d, <<>>, {DT!EXISTS} \cup DT!Unopened)
      \/ out \in DT!Failures(d, <<>>, {DT!NOSPACE} \cup DT!Unopened)
      \/ out = DT!Outcome(c.node + 1, new, <<>>)
  <2> DEFINE names == DT!ChildNames(d, c.node)
             taken == IF c.op = "add_subnode" THEN names ELSE names \cup {BaseName[s] : s \in names}
             Full == DT!Failures(d, <<>>, {DT!NOSPACE} \cup DT!Unopened)
             Exists == DT!Failures(d, <<>>, {DT!EXISTS} \cup DT!Unopened)
  <2>1. DT!AddSubnode(d, <<>>, c) = IF c.name \in taken THEN Exists
                                    ELSE Full \cup {DT!Outcome(c.node + 1, new, <<>>)}
    <3>1. DT!InsertAt(d, c.node + 1, Empty(d[c.node].depth + 1, c.name)) = new
      BY DEF DT!InsertAt, InsertAt
    <3> QED BY <3>1 DEF DT!AddSubnode, DT!NewSubnode, Empty
  <2> HIDE DEF taken, Full, Exists, new
  <2>2. out \in Exists \/ out \in Full \/ out = DT!Outcome(c.node + 1, new, <<>>)
    BY <2>1
  <2> QED BY <2>2 DEF Full, Exists, new
<1> HIDE DEF new
<1>2. CASE out = DT!Outcome(c.node + 1, new, <<>>)
  BY <1>2 DEF DT!Outcome, new
<1>3. \A errors : out \in DT!Failures(d, <<>>, errors) => \E e \in errors : out.ret = e /\ out.doc = d
  BY DEF DT!Failures, DT!Outcome
<1>4. CASE \/ out \in DT!Failures(d, <<>>, {DT!EXISTS} \cup DT!Unopened)
           \/ out \in DT!Failures(d, <<>>, {DT!NOSPACE} \cup DT!Unopened)
  <2>1. PICK e \in {DT!EXISTS, DT!NOSPACE} \cup DT!Unopened : out.ret = e /\ out.doc = d
    BY <1>3, <1>4
  <2> QED BY <2>1 DEF DT!NOSPACE, DT!EXISTS, DT!Unopened
<1> QED BY <1>1, <1>2, <1>4

-----------------------------------------------------------------------------
(* Paths, and what does not depend on the values of properties.            *)

\* The first element of a set of nodes.
LEMMA FirstOfNodes ==
    ASSUME NEW S, S \subseteq Nat, S # {}
    PROVE  LET first == CHOOSE i \in S : \A j \in S : i <= j
           IN  first \in S /\ \A j \in S : first <= j
  BY LeastNatural

LEMMA NodeAtFacts ==
    ASSUME NEW d, DOMAIN d \subseteq Nat \ {0}, NEW path
    PROVE  \/ NodeAt(d, path) = 0 /\ \A i \in DOMAIN d : PathOf(d, i) # path
           \/ NodeAt(d, path) \in DOMAIN d /\ PathOf(d, NodeAt(d, path)) = path
<1> DEFINE found == {i \in DOMAIN d : PathOf(d, i) = path}
           first == CHOOSE i \in found : \A j \in found : i <= j
<1>1. NodeAt(d, path) = IF found = {} THEN 0 ELSE first
  BY DEF NodeAt
<1>2. found \subseteq Nat
  OBVIOUS
<1> HIDE DEF first
<1>3. found # {} => first \in found
  BY <1>2, FirstOfNodes DEF first
<1> QED BY <1>1, <1>3

\* A node of a tree has one ancestor at each depth.
Between(d, i, j, k) == j \in 1 .. i /\ d[j].depth = k /\ \A n \in j + 1 .. i : d[n].depth > k

LEMMA AncestorExists ==
    ASSUME NEW d, IsTree(d), NEW i \in DOMAIN d, NEW k \in 1 .. d[i].depth
    PROVE  \E j \in 1 .. i : Between(d, i, j, k)
<1>1. /\ Len(d) \in Nat /\ DOMAIN d = 1 .. Len(d)
      /\ \A n \in DOMAIN d : d[n].depth \in Nat
      /\ d[1].depth = 1
      /\ \A n \in DOMAIN d : n # 1 => d[n].depth \in 2 .. d[n - 1].depth + 1
  BY SeqFacts DEF IsTree, IsNode
<1> DEFINE T == {j \in 1 .. i : d[j].depth <= k}
<1>2. T \subseteq 0 .. i /\ 1 \in T /\ i \in Nat
  BY <1>1
<1>3. PICK j \in T : \A n \in T : n <= j
  BY <1>2, GreatestNatural
<1>4. \A n \in j + 1 .. i : d[n].depth > k
  BY <1>1, <1>3
<1>5. d[j].depth = k
  <2>1. CASE j = i
    BY <1>1, <1>3, <2>1
  <2>2. CASE j # i
    <3>1. j + 1 \in 1 .. i /\ j + 1 \in DOMAIN d /\ d[j + 1].depth > k
      BY <1>1, <1>3, <1>4, <2>2
    <3>2. d[j + 1].depth \in 2 .. d[(j + 1) - 1].depth + 1
      BY SMTT(30), <1>1, <1>3, <3>1
    <3>3. (j + 1) - 1 = j /\ j \in DOMAIN d /\ d[j].depth <= k
      BY <1>1, <1>3
    <3> QED BY <1>1, <3>1, <3>2, <3>3
  <2> QED BY <2>1, <2>2
<1> QED BY <1>3, <1>4, <1>5 DEF Between

LEMMA AncestorUnique ==
    ASSUME NEW d, NEW i \in Nat, NEW k \in Nat, NEW j, Between(d, i, j, k)
    PROVE  AncestorAt(d, i, k) = j
<1>1. \A m : Between(d, i, m, k) => m = j
  <2> SUFFICES ASSUME NEW m, Between(d, i, m, k), m # j PROVE FALSE
    OBVIOUS
  <2>1. CASE m < j
    BY <2>1 DEF Between
  <2>2. CASE m > j
    BY <2>2 DEF Between
  <2> QED BY <2>1, <2>2 DEF Between
<1>2. AncestorAt(d, i, k) = CHOOSE m \in 1 .. i : d[m].depth = k /\ \A n \in m + 1 .. i : d[n].depth > k
  BY DEF AncestorAt
<1> QED BY <1>1, <1>2 DEF Between

LEMMA AncestorFacts ==
    ASSUME NEW d, IsTree(d), NEW i \in DOMAIN d, NEW k \in 1 .. d[i].depth
    PROVE  Between(d, i, AncestorAt(d, i, k), k)
<1>1. i \in Nat /\ k \in Nat
  BY SeqFacts DEF IsTree, IsNode
<1>2. PICK j \in 1 .. i : Between(d, i, j, k)
  BY AncestorExists
<1> QED BY <1>1, <1>2, AncestorUnique

LEMMA AlikeFacts ==
    ASSUME NEW o \in Overlays, NEW d, Alike(d, o)
    PROVE  /\ IsTree(o) /\ Len(o) \in Nat /\ Len(d) = Len(o)
           /\ DOMAIN d = 1 .. Len(o) /\ DOMAIN o = 1 .. Len(o)
           /\ \A i \in DOMAIN d : /\ IsRecord(d[i]) /\ d[i].depth \in Nat
                                  /\ d[i].depth = o[i].depth /\ d[i].name = o[i].name
                                  /\ DOMAIN d[i].props = DOMAIN o[i].props
<1>1. IsTree(o)
  BY TreeAssumption
<1>2. Len(o) \in Nat /\ DOMAIN o = 1 .. Len(o) /\ \A i \in DOMAIN o : o[i].depth \in Nat
  BY <1>1, SeqFacts DEF IsTree, IsNode
<1>3. Len(d) = Len(o) /\ DOMAIN d = 1 .. Len(o)
  BY SeqFacts DEF Alike
<1>4. ASSUME NEW i \in DOMAIN o
      PROVE  /\ IsRecord(d[i]) /\ d[i].depth = o[i].depth /\ d[i].name = o[i].name
             /\ DOMAIN d[i].props = DOMAIN o[i].props
  BY DEF Alike, IsRecord
<1> QED BY <1>1, <1>2, <1>3, <1>4

LEMMA AlikeAncestor ==
    ASSUME NEW o \in Overlays, NEW d, Alike(d, o), NEW i \in DOMAIN d, NEW k \in 1 .. o[i].depth
    PROVE  AncestorAt(d, i, k) = AncestorAt(o, i, k) /\ AncestorAt(o, i, k) \in DOMAIN d
<1> DEFINE j == AncestorAt(o, i, k)
<1>1. Between(o, i, j, k)
  BY AlikeFacts, AncestorFacts
<1> HIDE DEF j
<1>2. i \in Nat /\ k \in Nat
  BY AlikeFacts
<1>3. Between(d, i, j, k)
  BY <1>1, <1>2, AlikeFacts DEF Between
<1>4. AncestorAt(d, i, k) = j
  BY <1>2, <1>3, AncestorUnique
<1> QED BY <1>1, <1>4, AlikeFacts DEF Between, j

LEMMA AlikePath ==
    ASSUME NEW o \in Overlays, NEW d, Alike(d, o), NEW i \in DOMAIN d
    PROVE  PathOf(d, i) = PathOf(o, i)
<1>1. d[i].depth = o[i].depth /\ o[i].depth \in Nat
  BY AlikeFacts
<1>2. ASSUME NEW k \in 1 .. o[i].depth - 1
      PROVE  d[AncestorAt(d, i, k + 1)].name = o[AncestorAt(o, i, k + 1)].name
  <2>1. k + 1 \in 1 .. o[i].depth
    BY <1>1
  <2>2. AncestorAt(d, i, k + 1) = AncestorAt(o, i, k + 1) /\ AncestorAt(o, i, k + 1) \in DOMAIN d
    BY <2>1, AlikeAncestor
  <2> QED BY <2>2, AlikeFacts
<1> QED BY <1>1, <1>2 DEF PathOf

LEMMA AlikeNodeAt ==
    ASSUME NEW o \in Overlays, NEW d, Alike(d, o), NEW path
    PROVE  NodeAt(d, path) = NodeAt(o, path)
<1> DEFINE F(S) == IF S = {} THEN 0 ELSE CHOOSE i \in S : \A j \in S : i <= j
           A == {i \in DOMAIN d : PathOf(d, i) = path}
           B == {i \in DOMAIN o : PathOf(o, i) = path}
<1>1. NodeAt(d, path) = F(A) /\ NodeAt(o, path) = F(B)
  BY DEF NodeAt
<1>2. A = B
  BY AlikeFacts, AlikePath
<1> HIDE DEF F, A, B
<1> QED BY <1>1, <1>2

LEMMA AlikeFixups ==
    ASSUME NEW o \in Overlays, NEW d, Alike(d, o)
    PROVE  FixupsIn(d) = FixupsIn(o) /\ FixupsIn(d) \subseteq DOMAIN d
<1> DEFINE root == NodeAt(o, <<"__local_fixups__">>)
<1>1. NodeAt(d, <<"__local_fixups__">>) = root
  BY AlikeNodeAt
<1>2. root = 0 \/ root \in DOMAIN d
  BY AlikeFacts, NodeAtFacts
<1> HIDE DEF root
<1>3. ASSUME root # 0
      PROVE  DT!Subtree(d, root) = DT!Subtree(o, root) /\ DT!Subtree(d, root) \subseteq DOMAIN d
  BY <1>2, <1>3, AlikeFacts DEF DT!Subtree
<1> QED BY <1>1, <1>3 DEF FixupsIn, root

\* Of an overlay that is not changed: a node below the root is its own ancestor
\* at its depth, and the first one on its path.
LEMMA PathAtDepthTwo ==
    ASSUME NEW o \in Overlays, NEW a \in DOMAIN o, o[a].depth = 2
    PROVE  PathOf(o, a) = [k \in 1 .. 1 |-> o[a].name]
<1>1. a \in Nat \ {0}
  BY TreeAssumption, SeqFacts DEF IsTree
<1>2. Between(o, a, a, 2)
  BY <1>1 DEF Between
<1>3. AncestorAt(o, a, 2) = a
  BY <1>1, <1>2, AncestorUnique
<1>4. PathOf(o, a) = [k \in 1 .. 2 - 1 |-> o[AncestorAt(o, a, k + 1)].name]
  BY DEF PathOf
<1>5. \A k \in 1 .. 1 : o[AncestorAt(o, a, k + 1)].name = o[a].name
  <2> SUFFICES ASSUME NEW k \in 1 .. 1 PROVE AncestorAt(o, a, k + 1) = a
    OBVIOUS
  <2>1. k + 1 = 2
    OBVIOUS
  <2> QED BY <1>3, <2>1
<1> QED BY <1>4, <1>5

\* The __overlay__ of a fragment is found behind the fragment, at depth 3.
LEMMA OverlayBehind ==
    ASSUME NEW o \in Overlays, NEW i \in DOMAIN o, o[i].depth = 2,
           fdt_subnode_offset(o, i, "__overlay__") # 0
    PROVE  LET n == fdt_subnode_offset(o, i, "__overlay__")
           IN  n \in DOMAIN o /\ n >= i /\ o[n].depth = 3
<1> DEFINE path == [k \in 1 .. 1 |-> o[i].name]
           n == NodeAt(o, Append(path, "__overlay__"))
<1>1. IsTree(o) /\ Len(o) \in Nat /\ DOMAIN o = 1 .. Len(o) /\ \A j \in DOMAIN o : o[j].depth \in Nat
  BY TreeAssumption, SeqFacts DEF IsTree, IsNode
<1>2. fdt_subnode_offset(o, i, "__overlay__") = n
  BY PathAtDepthTwo DEF fdt_subnode_offset
<1>3. path \in Seq({o[i].name, "__overlay__"}) /\ Len(path) = 1 /\ path[1] = o[i].name
  OBVIOUS
<1> HIDE DEF path
<1> DEFINE longer == Append(path, "__overlay__")
<1>4. longer \in Seq({o[i].name, "__overlay__"}) /\ Len(longer) = 2 /\ longer[1] = o[i].name
  <2> DEFINE S == {o[i].name, "__overlay__"}
  <2>1. "__overlay__" \in S /\ path \in Seq(S)
    BY <1>3
  <2> HIDE DEF S
  <2>2. longer \in Seq(S) /\ Len(longer) = Len(path) + 1 /\ \A k \in 1 .. Len(path) : longer[k] = path[k]
    BY <2>1, AppendProperties
  <2> QED BY <1>3, <2>2 DEF S
<1>5. n = NodeAt(o, longer) /\ n # 0
  BY <1>2
<1> HIDE DEF longer, n
<1>6. n \in DOMAIN o /\ PathOf(o, n) = longer
  <2>1. DOMAIN o \subseteq Nat \ {0}
    BY <1>1
  <2> QED BY <1>5, <2>1, NodeAtFacts
<1>7. DOMAIN longer = 1 .. 2
  BY <1>4, LenProperties
<1>8. o[n].depth = 3
  <2>1. DOMAIN PathOf(o, n) = 1 .. o[n].depth - 1
    BY DEF PathOf
  <2>2. 2 \in 1 .. o[n].depth - 1 /\ 3 \notin 1 .. o[n].depth - 1
    BY <1>6, <1>7, <2>1
  <2> QED BY <1>1, <1>6, <2>2
<1> DEFINE a == AncestorAt(o, n, 2)
<1>9. Between(o, n, a, 2)
  BY <1>1, <1>6, <1>8, AncestorFacts
<1>10. PathOf(o, n)[1] = o[a].name
  <2>1. PathOf(o, n)[1] = o[AncestorAt(o, n, 1 + 1)].name
    BY <1>8 DEF PathOf
  <2> QED BY <2>1
<1> HIDE DEF a
<1>11. a \in DOMAIN o /\ a <= n /\ o[a].depth = 2
  BY <1>1, <1>6, <1>9 DEF Between
<1>12. PathOf(o, a) = PathOf(o, i)
  <2>1. o[a].name = o[i].name
    BY <1>4, <1>6, <1>10
  <2>2. /\ PathOf(o, a) = [k \in 1 .. 1 |-> o[a].name]
        /\ PathOf(o, i) = [k \in 1 .. 1 |-> o[i].name]
    BY <1>11, PathAtDepthTwo
  <2> QED BY <2>1, <2>2
<1>13. a = i
  BY <1>1, <1>11, <1>12 DEF IsTree
<1> QED BY <1>2, <1>6, <1>8, <1>11, <1>13

LEMMA AlikeOverlayBehind ==
    ASSUME NEW o \in Overlays, NEW d, Alike(d, o), NEW i \in DOMAIN d, d[i].depth = 2,
           fdt_subnode_offset(d, i, "__overlay__") # 0
    PROVE  LET n == fdt_subnode_offset(d, i, "__overlay__")
           IN  n \in DOMAIN d /\ n >= i /\ d[n].depth = 3
<1>1. fdt_subnode_offset(d, i, "__overlay__") = fdt_subnode_offset(o, i, "__overlay__")
  BY AlikePath, AlikeNodeAt DEF fdt_subnode_offset
<1>2. DOMAIN d = DOMAIN o /\ \A n \in DOMAIN d : d[n].depth = o[n].depth
  BY AlikeFacts
<1> QED BY <1>1, <1>2, OverlayBehind

\* The target of a fragment is a node of the base tree.
LEMMA TargetInside ==
    ASSUME NEW props, IsDoc(base), overlay_get_target(props).err = 0
    PROVE  overlay_get_target(props).node \in 0 .. Len(base)
<1> DEFINE phandle == overlay_get_target_phandle(props)
           path == props["target-path"].text
           node == IF torn THEN -FDT_ERR_BADSTRUCTURE
                   ELSE IF phandle # 0 THEN fdt_node_offset_by_phandle(base, phandle)
                   ELSE fdt_path_offset(base, path)
<1>1. DOMAIN base = 1 .. Len(base) /\ Len(base) \in Nat
  BY DocFacts
<1>2. fdt_node_offset_by_phandle(base, phandle) \in -FDT_ERR_NOTFOUND .. Len(base)
  <2> DEFINE found == {i \in DOMAIN base : PhandleIn(base[i].props) = phandle}
             first == CHOOSE i \in found : \A j \in found : i <= j
  <2>1. fdt_node_offset_by_phandle(base, phandle) = IF found = {} THEN -FDT_ERR_NOTFOUND ELSE first
    BY DEF fdt_node_offset_by_phandle
  <2>2. found \subseteq 1 .. Len(base) /\ found \subseteq Nat
    BY <1>1
  <2> HIDE DEF found
  <2>3. found # {} => first \in found
    BY <2>2, FirstOfNodes
  <2> HIDE DEF first, phandle
  <2>4. found # {} => first \in 1 .. Len(base)
    BY <2>2, <2>3
  <2>5. CASE found = {}
    BY <1>1, <2>1, <2>5 DEF FDT_ERR_NOTFOUND
  <2>6. CASE found # {}
    BY <1>1, <2>1, <2>4, <2>6 DEF FDT_ERR_NOTFOUND
  <2> QED BY <2>5, <2>6
<1>3. fdt_path_offset(base, path) \in -FDT_ERR_BADPATH .. Len(base)
  <2> HIDE DEF path
  <2> DEFINE n == NodeAt(base, Tail(path))
  <2>1. n \in 0 .. Len(base)
    <3>1. DOMAIN base \subseteq Nat \ {0}
      BY <1>1
    <3> QED BY <1>1, <3>1, NodeAtFacts
  <2>2. fdt_path_offset(base, path) \in {-FDT_ERR_BADPATH, -FDT_ERR_NOTFOUND, n}
    BY DEF fdt_path_offset
  <2> HIDE DEF n
  <2> QED BY <1>1, <2>1, <2>2 DEF FDT_ERR_NOTFOUND, FDT_ERR_BADPATH
<1>4. node \in Int /\ (node >= 0 => node \in 0 .. Len(base))
  BY <1>1, <1>2, <1>3 DEF FDT_ERR_BADSTRUCTURE, FDT_ERR_NOTFOUND, FDT_ERR_BADPATH
<1>5. overlay_get_target(props) =
        IF phandle = MaxU32 THEN Error(FDT_ERR_BADPHANDLE)
        ELSE IF phandle = 0 /\ "target-path" \notin DOMAIN props THEN Error(FDT_ERR_BADOVERLAY)
        ELSE IF node < 0 THEN Error(-node)
        ELSE [err |-> 0, path |-> IF phandle = 0 THEN path ELSE <<>>, node |-> node]
  BY DEF overlay_get_target
<1>6. \A e \in Int \ {0} : Error(e).err # 0
  BY DEF Error
<1> HIDE DEF phandle, path, node
<1>7. overlay_get_target(props) = [err |-> 0, path |-> IF phandle = 0 THEN path ELSE <<>>, node |-> node]
      /\ node >= 0
  BY <1>4, <1>5, <1>6 DEF FDT_ERR_BADPHANDLE, FDT_ERR_BADOVERLAY
<1> QED BY <1>4, <1>7

\* The next fragment, or the end of the overlay.
LEMMA NextFragmentFacts ==
    ASSUME NEW i \in Nat, Len(ov) \in Nat, i <= Len(ov) + 1
    PROVE  /\ NextFragment(i) \in i .. Len(ov) + 1
           /\ NextFragment(i) <= Len(ov) => ov[NextFragment(i)].depth = 2
<1> DEFINE fragments == {j \in i .. Len(ov) : ov[j].depth = 2}
           first == CHOOSE j \in fragments : \A k \in fragments : j <= k
<1>1. NextFragment(i) = IF fragments = {} THEN Len(ov) + 1 ELSE first
  BY DEF NextFragment
<1>2. fragments \subseteq Nat
  OBVIOUS
<1> HIDE DEF first
<1>3. fragments # {} => first \in fragments
  BY <1>2, FirstOfNodes DEF first
<1> QED BY <1>1, <1>3

-----------------------------------------------------------------------------
(* Renumbering.                                                            *)

\* The largest phandle of a tree.
LEMMA MaxPhandleFacts ==
    ASSUME NEW d, IsDoc(d), PhandlesUnique(d)
    PROVE  /\ fdt_get_max_phandle(d) \in 0 .. MaxU32
           /\ \A n \in DOMAIN d : PhandleIn(d[n].props) <= fdt_get_max_phandle(d)
<1> DEFINE T == {0} \cup ({PhandleIn(d[i].props) : i \in DOMAIN d} \ {MaxU32})
<1>1. T \subseteq 0 .. MaxU32 /\ T # {} /\ MaxU32 \in Nat
  BY DocFacts, BoundAssumption
<1>2. \A n \in DOMAIN d : PhandleIn(d[n].props) \in T
  BY DEF PhandlesUnique
<1>3. fdt_get_max_phandle(d) = CHOOSE x \in T : \A y \in T : y <= x
  BY DEF fdt_get_max_phandle
<1> HIDE DEF T
<1>4. \E x \in T : \A y \in T : y <= x
  BY <1>1, GreatestNatural
<1>5. fdt_get_max_phandle(d) \in T /\ \A y \in T : y <= fdt_get_max_phandle(d)
  BY <1>3, <1>4
<1> QED BY <1>1, <1>2, <1>5

\* If the renumbering reports no error, there is none in any phandle.
LEMMA NoErrorAnywhere ==
    ASSUME DOMAIN ov \subseteq Nat, overlay_adjust_local_phandles = 0
    PROVE  \A i \in DOMAIN ov : \A s \in PhandleNames \cap DOMAIN ov[i].props :
                PhandleError(ov[i].props[s]) = 0
<1> DEFINE bad == {i \in DOMAIN ov : NodeError(i) # 0}
           first == CHOOSE i \in bad : \A j \in bad : i <= j
<1>1. overlay_adjust_local_phandles = IF bad = {} THEN 0 ELSE NodeError(first)
  BY DEF overlay_adjust_local_phandles
<1>2. bad # {} => first \in bad
  <2>1. bad \subseteq Nat
    OBVIOUS
  <2> HIDE DEF bad
  <2> QED BY <2>1, FirstOfNodes
<1> HIDE DEF first
<1>3. \A i \in DOMAIN ov : NodeError(i) = 0
  BY <1>1, <1>2
<1>4. \A i \in DOMAIN ov : PhandleErrorOf(i, "phandle") = 0 /\ PhandleErrorOf(i, "linux,phandle") = 0
  BY <1>3 DEF NodeError
<1> QED BY <1>4 DEF PhandleErrorOf, PhandleNames

\* A phandle without error moves by delta, and no sum wraps.
LEMMA MovedFacts ==
    ASSUME delta \in 0 .. MaxU32, NEW x \in 1 .. MaxU32,
           ~(Moved(x) < x), Moved(x) # MaxU32
    PROVE  Moved(x) = x + delta /\ Moved(x) \in delta + 1 .. MaxU32 - 1
<1>1. MaxU32 \in Nat /\ delta \in Nat /\ x \in Nat
  BY BoundAssumption
<1> DEFINE M == MaxU32 + 1
           y == x + delta
<1>2. M \in Nat /\ M > 0 /\ y \in Nat /\ y < M + M /\ x <= y /\ y - M < x
  BY <1>1
<1>3. Moved(x) = y % M
  BY DEF Moved
<1> HIDE DEF M, y
<1>4. y >= M => y % M = y - M
  BY <1>2
<1>5. y < M => y % M = y
  BY <1>2
<1>6. Moved(x) = y /\ y < M
  BY <1>2, <1>3, <1>4, <1>5
<1> QED BY <1>1, <1>6 DEF M, y

\* The phandle property s of node i of an overlay, and what becomes of it.
LEMMA PhandleMoved ==
    ASSUME NEW o \in Overlays, ov = o, delta \in 0 .. MaxU32,
           overlay_adjust_local_phandles = 0,
           NEW i \in DOMAIN o, NEW s \in PhandleNames \cap DOMAIN o[i].props
    PROVE  \E x \in AllPhandles(o[i].props) :
                /\ x + delta \in delta + 1 .. MaxU32 - 1
                /\ CellsVal([c \in DOMAIN o[i].props[s].cells |-> Moved(o[i].props[s].cells[c])])
                        = CellsVal(<<x + delta>>)
<1> DEFINE val == o[i].props[s]
           x == val.cells[1]
<1>1. DOMAIN o \subseteq Nat /\ IsNode(o[i])
  BY TreeAssumption, SeqFacts DEF IsTree
<1>2. PhandleError(val) = 0
  BY <1>1, NoErrorAnywhere
<1>3. val.cells \in Seq(0..MaxU32)
  BY <1>1 DEF IsNode
<1> HIDE DEF val
<1>4. IsCells(val) /\ Len(val.cells) = 1 /\ ~(Moved(x) < x) /\ Moved(x) # MaxU32
  BY <1>2 DEF PhandleError, FDT_ERR_BADPHANDLE, FDT_ERR_NOPHANDLES
<1>5. DOMAIN val.cells = 1 .. 1 /\ x \in 0 .. MaxU32
  <2>1. DOMAIN val.cells = 1 .. Len(val.cells)
    BY <1>3, LenProperties
  <2>2. 1 \in 1 .. Len(val.cells)
    BY <1>4
  <2>3. val.cells[1] \in 0 .. MaxU32
    BY <1>3, <2>2, ElementOfSeq
  <2> QED BY <1>4, <2>1, <2>3
<1>6. x \in AllPhandles(o[i].props)
  BY <1>4 DEF AllPhandles, val
<1>7. x > 0
  BY <1>6, OverlayAssumption DEF IsOverlay
<1>8. x \in 1 .. MaxU32
  BY <1>5, <1>7, BoundAssumption
<1> DEFINE new == [c \in DOMAIN val.cells |-> Moved(val.cells[c])]
<1>9. new = <<Moved(x)>>
  <2>1. new = [c \in 1 .. 1 |-> Moved(x)]
    BY <1>5
  <2> HIDE DEF new
  <2> QED BY <2>1
<1> HIDE DEF x
<1>10. Moved(x) = x + delta /\ Moved(x) \in delta + 1 .. MaxU32 - 1
  BY <1>4, <1>8, MovedFacts
<1>11. new = <<x + delta>>
  BY <1>9, <1>10
<1>12. CellsVal(new) = CellsVal(<<x + delta>>)
  BY <1>11
<1> QED BY <1>6, <1>10, <1>12 DEF val

\* A sequence is one whose nodes are those of another with new properties.
LEMMA MappedNodes ==
    ASSUME NEW o \in Overlays, NEW a, Alike(a, o), NEW new, DOMAIN new = DOMAIN a,
           new = [i \in DOMAIN a |-> new[i]],
           \A i \in DOMAIN a :
                /\ new[i] = [a[i] EXCEPT !.props = new[i].props]
                /\ DOMAIN new[i].props = DOMAIN a[i].props
                /\ new[i].props = [s \in DOMAIN new[i].props |-> new[i].props[s]]
    PROVE  Alike(new, o)
<1>1. /\ Len(o) \in Nat /\ Len(a) = Len(o) /\ DOMAIN o = 1 .. Len(o) /\ DOMAIN a = 1 .. Len(o)
      /\ \A i \in DOMAIN a : IsRecord(a[i])
  BY AlikeFacts
<1>2. new \in [1 .. Len(o) -> ToSet(new)]
  <2>1. \A i \in 1 .. Len(o) : new[i] \in ToSet(new)
    BY <1>1 DEF ToSet
  <2> QED BY <1>1, <2>1
<1>3. new \in Seq(ToSet(new)) /\ Len(new) = Len(o)
  BY <1>1, <1>2
<1>4. ASSUME NEW i \in DOMAIN o
      PROVE  IsRecord(new[i]) /\ new[i].depth = a[i].depth /\ new[i].name = a[i].name
  <2> DEFINE p == new[i].props
             y == [a[i] EXCEPT !.props = p]
  <2>1. IsRecord(a[i]) /\ new[i] = y
    BY <1>1
  <2> HIDE DEF p
  <2>2. IsRecord(y) /\ y.depth = a[i].depth /\ y.name = a[i].name
    BY <2>1, RecordFields
  <2> HIDE DEF y
  <2> QED BY <2>1, <2>2
<1>5. \A i \in DOMAIN o : /\ a[i].depth = o[i].depth /\ a[i].name = o[i].name
                          /\ DOMAIN a[i].props = DOMAIN o[i].props
  BY <1>1, AlikeFacts
<1> QED BY <1>1, <1>3, <1>4, <1>5 DEF Alike, IsRecord

LEMMA PhandlesAdjustedFacts ==
    ASSUME NEW o \in Overlays, ov = o, delta \in 0 .. MaxU32,
           overlay_adjust_local_phandles = 0
    PROVE  Alike(PhandlesAdjusted, o) /\ Above(PhandlesAdjusted, delta)
<1> DEFINE new == PhandlesAdjusted
           P(i) == [s \in DOMAIN ov[i].props |->
                        IF s \in PhandleNames
                        THEN CellsVal([c \in DOMAIN ov[i].props[s].cells |-> Moved(ov[i].props[s].cells[c])])
                        ELSE ov[i].props[s]]
<1>1. IsTree(o) /\ Alike(o, o) /\ \A i \in DOMAIN o : IsRecord(o[i])
  BY TreeAssumption DEF IsTree, IsNode, Alike, IsRecord
<1>2. new = [i \in DOMAIN o |-> [o[i] EXCEPT !.props = P(i)]]
  BY DEF PhandlesAdjusted
<1> HIDE DEF new, P
<1>3. ASSUME NEW i \in DOMAIN o
      PROVE  new[i] = [o[i] EXCEPT !.props = new[i].props] /\ new[i].props = P(i)
  <2>1. new[i] = [o[i] EXCEPT !.props = P(i)]
    BY <1>2
  <2>2. [o[i] EXCEPT !.props = P(i)].props = P(i)
    BY <1>1, RecordFields
  <2> QED BY <2>1, <2>2
<1>4. DOMAIN new = DOMAIN o /\ new = [i \in DOMAIN o |-> new[i]]
  BY <1>2
<1>5. \A i \in DOMAIN o : /\ DOMAIN new[i].props = DOMAIN o[i].props
                          /\ new[i].props = [s \in DOMAIN new[i].props |-> new[i].props[s]]
  <2> SUFFICES ASSUME NEW i \in DOMAIN o
               PROVE  /\ DOMAIN new[i].props = DOMAIN o[i].props
                      /\ new[i].props = [s \in DOMAIN new[i].props |-> new[i].props[s]]
    OBVIOUS
  <2>1. DOMAIN P(i) = DOMAIN o[i].props /\ P(i) = [s \in DOMAIN P(i) |-> P(i)[s]]
    BY DEF P
  <2> QED BY <1>3, <2>1
<1>6. Alike(new, o)
  <2>1. \A i \in DOMAIN o :
            /\ new[i] = [o[i] EXCEPT !.props = new[i].props]
            /\ DOMAIN new[i].props = DOMAIN o[i].props
            /\ new[i].props = [s \in DOMAIN new[i].props |-> new[i].props[s]]
    BY <1>3, <1>5
  <2> QED BY <1>1, <1>4, <2>1, MappedNodes
<1>7. ASSUME NEW i \in DOMAIN o, NEW s \in PhandleNames \cap DOMAIN o[i].props
      PROVE  \E x \in AllPhandles(o[i].props) :
                x + delta \in delta + 1 .. MaxU32 - 1 /\ new[i].props[s] = CellsVal(<<x + delta>>)
  <2>1. new[i].props[s] = CellsVal([c \in DOMAIN o[i].props[s].cells |-> Moved(o[i].props[s].cells[c])])
    <3>1. P(i)[s] = CellsVal([c \in DOMAIN o[i].props[s].cells |-> Moved(o[i].props[s].cells[c])])
      BY DEF P
    <3> QED BY <1>3, <3>1
  <2> QED BY <2>1, PhandleMoved
<1>8. ASSUME NEW i \in DOMAIN o, NEW q \in AllPhandles(new[i].props)
      PROVE  q - delta \in AllPhandles(o[i].props)
  <2>1. PICK s \in PhandleNames \cap DOMAIN o[i].props : q = new[i].props[s].cells[1]
    BY <1>5 DEF AllPhandles
  <2>2. PICK x \in AllPhandles(o[i].props) :
            x + delta \in delta + 1 .. MaxU32 - 1 /\ new[i].props[s] = CellsVal(<<x + delta>>)
    BY <1>7
  <2>3. q = x + delta
    BY <2>1, <2>2 DEF CellsVal
  <2>4. x \in Int
    <3>1. PICK t \in DOMAIN o[i].props : Len(o[i].props[t].cells) = 1 /\ x = o[i].props[t].cells[1]
      BY DEF AllPhandles
    <3>2. o[i].props[t].cells \in Seq(0..MaxU32)
      BY <1>1 DEF IsTree, IsNode
    <3>3. 1 \in 1 .. Len(o[i].props[t].cells)
      BY <3>1
    <3>4. o[i].props[t].cells[1] \in 0 .. MaxU32
      BY <3>2, <3>3, ElementOfSeq
    <3> QED BY <3>1, <3>4
  <2> QED BY <2>2, <2>3, <2>4
<1>9. ASSUME NEW i \in DOMAIN o, NEW j \in DOMAIN o,
             AllPhandles(new[i].props) \cap AllPhandles(new[j].props) # {}
      PROVE  i = j
  <2>1. PICK q : q \in AllPhandles(new[i].props) /\ q \in AllPhandles(new[j].props)
    BY <1>9
  <2>2. q - delta \in AllPhandles(o[i].props) /\ q - delta \in AllPhandles(o[j].props)
    BY <1>8, <2>1
  <2> QED BY <2>2, OverlayAssumption DEF IsOverlay
<1>10. Above(new, delta)
  <2>1. ASSUME NEW i \in DOMAIN new, NEW s \in PhandleNames \cap DOMAIN new[i].props
        PROVE  \E p \in delta + 1 .. MaxU32 - 1 : new[i].props[s] = CellsVal(<<p>>)
    <3>1. s \in PhandleNames \cap DOMAIN o[i].props /\ i \in DOMAIN o
      BY <1>4, <1>5
    <3>2. PICK x \in AllPhandles(o[i].props) :
            x + delta \in delta + 1 .. MaxU32 - 1 /\ new[i].props[s] = CellsVal(<<x + delta>>)
      BY <1>7, <3>1
    <3> QED BY <3>2
  <2> QED BY <1>4, <1>9, <2>1 DEF Above
<1> QED BY <1>6, <1>10 DEF new

\* No phandle is taken for a reference: no fixup has the name of one.
LEMMA ReferencesUpdatedFacts ==
    ASSUME NEW o \in Overlays, Alike(ov, o), Above(ov, delta)
    PROVE  Alike(ReferencesUpdated, o) /\ Above(ReferencesUpdated, delta)
<1> DEFINE new == ReferencesUpdated
           P(i) == [s \in DOMAIN ov[i].props |-> Updated(i, s)]
<1>1. \A i \in DOMAIN ov : IsRecord(ov[i])
  BY AlikeFacts
<1>2. new = [i \in DOMAIN ov |-> [ov[i] EXCEPT !.props = P(i)]]
  BY DEF ReferencesUpdated
<1> HIDE DEF new, P
<1>3. ASSUME NEW i \in DOMAIN ov
      PROVE  new[i] = [ov[i] EXCEPT !.props = new[i].props] /\ new[i].props = P(i)
  <2>1. new[i] = [ov[i] EXCEPT !.props = P(i)]
    BY <1>2
  <2>2. [ov[i] EXCEPT !.props = P(i)].props = P(i)
    BY <1>1, RecordFields
  <2> QED BY <2>1, <2>2
<1>4. DOMAIN new = DOMAIN ov /\ new = [i \in DOMAIN ov |-> new[i]]
  BY <1>2
<1>5. \A i \in DOMAIN ov : /\ DOMAIN new[i].props = DOMAIN ov[i].props
                           /\ new[i].props = [s \in DOMAIN new[i].props |-> new[i].props[s]]
  <2> SUFFICES ASSUME NEW i \in DOMAIN ov
               PROVE  /\ DOMAIN new[i].props = DOMAIN ov[i].props
                      /\ new[i].props = [s \in DOMAIN new[i].props |-> new[i].props[s]]
    OBVIOUS
  <2>1. DOMAIN P(i) = DOMAIN ov[i].props /\ P(i) = [s \in DOMAIN P(i) |-> P(i)[s]]
    BY DEF P
  <2> QED BY <1>3, <2>1
<1>6. Alike(new, o)
  <2>1. \A i \in DOMAIN ov :
            /\ new[i] = [ov[i] EXCEPT !.props = new[i].props]
            /\ DOMAIN new[i].props = DOMAIN ov[i].props
            /\ new[i].props = [s \in DOMAIN new[i].props |-> new[i].props[s]]
    BY <1>3, <1>5
  <2> QED BY <1>4, <2>1, MappedNodes
<1>7. ASSUME NEW f \in FixupNodes
      PROVE  PhandleNames \cap DOMAIN ov[f].props = {}
  <2>1. f \in FixupsIn(o) /\ f \in DOMAIN ov
    BY AlikeFixups DEF FixupNodes
  <2>2. PhandleNames \cap DOMAIN o[f].props = {}
    BY <2>1, OverlayAssumption DEF IsOverlay
  <2> QED BY <2>1, <2>2, AlikeFacts
<1>8. ASSUME NEW i \in DOMAIN ov, NEW s \in PhandleNames \cap DOMAIN ov[i].props
      PROVE  new[i].props[s] = ov[i].props[s]
  <2>1. PICK p \in delta + 1 .. MaxU32 - 1 : ov[i].props[s] = CellsVal(<<p>>)
    BY DEF Above
  <2>2. Listed(i, s) = {}
    BY <1>7 DEF Listed
  <2>3. P(i)[s] = Updated(i, s)
    BY DEF P
  <2>4. Updated(i, s) = [CellsVal(<<p>>) EXCEPT !.cells = [c \in DOMAIN @ |-> @[c]]]
    BY <2>1, <2>2 DEF Updated
  <2>5. [c \in DOMAIN <<p>> |-> <<p>>[c]] = <<p>>
    OBVIOUS
  <2>6. CellsVal(<<p>>).cells = <<p>>
    BY DEF CellsVal
  <2>7. [CellsVal(<<p>>) EXCEPT !.cells = <<p>>] = CellsVal(<<p>>)
    BY DEF CellsVal
  <2>8. Updated(i, s) = CellsVal(<<p>>)
    BY <2>4, <2>5, <2>6, <2>7
  <2> QED BY <1>3, <2>1, <2>3, <2>8
<1>9. ASSUME NEW i \in DOMAIN ov
      PROVE  AllPhandles(new[i].props) = AllPhandles(ov[i].props)
  <2> DEFINE x == new[i].props
             y == ov[i].props
  <2>1. PhandleNames \cap DOMAIN x = PhandleNames \cap DOMAIN y
    BY <1>5
  <2>2. \A s \in PhandleNames \cap DOMAIN x : x[s] = y[s]
    BY <1>8, <2>1
  <2> HIDE DEF x, y
  <2>3. AllPhandles(x) = AllPhandles(y)
    <3>1. \A q : q \in AllPhandles(x) => q \in AllPhandles(y)
      BY <2>1, <2>2 DEF AllPhandles
    <3>2. \A q : q \in AllPhandles(y) => q \in AllPhandles(x)
      BY <2>1, <2>2 DEF AllPhandles
    <3> QED BY <3>1, <3>2
  <2> QED BY <2>3 DEF x, y
<1>10. Above(new, delta)
  <2>1. ASSUME NEW i \in DOMAIN new, NEW s \in PhandleNames \cap DOMAIN new[i].props
        PROVE  \E p \in delta + 1 .. MaxU32 - 1 : new[i].props[s] = CellsVal(<<p>>)
    <3>1. s \in PhandleNames \cap DOMAIN ov[i].props /\ i \in DOMAIN ov
      BY <1>4, <1>5
    <3> QED BY <1>8, <3>1 DEF Above
  <2>2. \A i, j \in DOMAIN new : AllPhandles(new[i].props) \cap AllPhandles(new[j].props) # {} => i = j
    BY <1>4, <1>9 DEF Above
  <2> QED BY <2>1, <2>2 DEF Above
<1> QED BY <1>6, <1>10 DEF new

\* The phandles of an overlay that is ready to be merged.
LEMMA AboveFacts ==
    ASSUME NEW d, NEW low \in 0 .. MaxU32, Above(d, low), NEW i \in DOMAIN d
    PROVE  /\ \A q \in AllPhandles(d[i].props) : q \in low + 1 .. MaxU32 - 1
           /\ \A s \in PhandleNames \cap DOMAIN d[i].props :
                \E p \in AllPhandles(d[i].props) : d[i].props[s] = CellsVal(<<p>>)
           /\ \A j \in DOMAIN d : \A q : q \in AllPhandles(d[i].props) /\ q \in AllPhandles(d[j].props) => i = j
<1>1. ASSUME NEW s \in PhandleNames \cap DOMAIN d[i].props
      PROVE  \E p \in low + 1 .. MaxU32 - 1 : /\ d[i].props[s] = CellsVal(<<p>>)
                                              /\ p \in AllPhandles(d[i].props)
                                              /\ d[i].props[s].cells[1] = p
  <2>1. PICK p \in low + 1 .. MaxU32 - 1 : d[i].props[s] = CellsVal(<<p>>)
    BY DEF Above
  <2>2. IsCells(CellsVal(<<p>>)) /\ CellsVal(<<p>>).cells = <<p>> /\ Len(<<p>>) = 1 /\ <<p>>[1] = p
    BY DEF CellsVal, IsCells
  <2> QED BY <2>1, <2>2 DEF AllPhandles
<1>2. \A q \in AllPhandles(d[i].props) : q \in low + 1 .. MaxU32 - 1
  <2> SUFFICES ASSUME NEW q \in AllPhandles(d[i].props) PROVE q \in low + 1 .. MaxU32 - 1
    OBVIOUS
  <2>1. PICK s \in PhandleNames \cap DOMAIN d[i].props : q = d[i].props[s].cells[1]
    BY DEF AllPhandles
  <2> QED BY <1>1, <2>1
<1>3. \A j \in DOMAIN d : \A q : q \in AllPhandles(d[i].props) /\ q \in AllPhandles(d[j].props) => i = j
  BY DEF Above
<1>4. \A s \in PhandleNames \cap DOMAIN d[i].props :
                \E p \in AllPhandles(d[i].props) : d[i].props[s] = CellsVal(<<p>>)
  BY <1>1
<1> QED BY <1>2, <1>3, <1>4

-----------------------------------------------------------------------------
(* The steps of a call.                                                    *)

\* Whatever fails leaves nothing that anybody relies on.
LEMMA Failed ==
    ASSUME pc' = "idle", baseMagic' = FALSE, ovMagic' = FALSE, held' = <<>>, left' = {}
    PROVE  Inv'
  BY DEF Inv, BaseInv, PcInv, OvInv, DeltaInv, HeldInv, MergeInv, SymbolInv

\* A base tree as its file holds it.
LEMMA BaseIsDoc == \A d \in Bases : IsDoc(d)
<1> SUFFICES ASSUME NEW d \in Bases PROVE IsDoc(d)
  OBVIOUS
<1>1. d # <<>> /\ d \in Seq(ToSet(d)) /\ \A i \in DOMAIN d : IsNode(d[i])
  BY TreeAssumption, BaseAssumption DEF IsTree
<1>2. ASSUME NEW i \in DOMAIN d PROVE IsRecord(d[i]) /\ PhandleIn(d[i].props) \in 0 .. MaxU32
  <2> DEFINE props == d[i].props
  <2>1. IsNode(d[i])
    BY <1>1
  <2>2. IsRecord(d[i]) /\ \A s \in DOMAIN props : props[s].cells \in Seq(0..MaxU32)
    BY <2>1 DEF IsNode, IsRecord
  <2> HIDE DEF props
  <2>3. \A s : Holds(props, s) => props[s].cells[1] \in 0 .. MaxU32
    <3> SUFFICES ASSUME NEW s, Holds(props, s) PROVE props[s].cells[1] \in 0 .. MaxU32
      OBVIOUS
    <3>1. props[s].cells \in Seq(0..MaxU32) /\ 1 \in 1 .. Len(props[s].cells)
      BY <2>2 DEF Holds
    <3> QED BY <3>1, ElementOfSeq
  <2>4. PhandleIn(props) \in 0 .. MaxU32
    <3>1. 0 \in 0 .. MaxU32
      BY BoundAssumption
    <3>2. \/ PhandleIn(props) = 0
          \/ \E s \in PhandleNames : Holds(props, s) /\ PhandleIn(props) = props[s].cells[1]
      BY PhandleCases, Zenon DEF PhandleNames
    <3> QED BY <2>3, <3>1, <3>2
  <2> QED BY <2>2, <2>4 DEF props
<1> QED BY <1>1, <1>2 DEF IsDoc, IsRecord

LEMMA InvInit == Init => Inv
  BY BaseIsDoc, BaseAssumption
  DEF Init, Inv, BaseInv, PcInv, OvInv, DeltaInv, HeldInv, MergeInv, SymbolInv

LEMMA BeginKeeps ==
    ASSUME Inv, NEW o, NEW magic, magic => o \in Overlays, Begin(o, magic)
    PROVE  Inv'
<1>1. /\ pc = "idle" /\ UNCHANGED <<base, baseMagic, at, left, held>> /\ ov' = o /\ ovMagic' = magic
      /\ held = <<>> /\ left = {}
  BY DEF Begin, baseBlob, merging, Inv, PcInv
<1>2. BaseInv'
  BY <1>1 DEF Inv, BaseInv
<1>3. CASE baseMagic /\ magic
  <2>1. pc' = "adjust" /\ delta' = fdt_get_max_phandle(base) /\ o \in Overlays
    BY <1>3 DEF Begin
  <2>2. IsDoc(base) /\ PhandlesUnique(base)
    BY <1>3 DEF Inv, BaseInv
  <2>3. DeltaInv'
    BY <1>1, <2>1, <2>2, MaxPhandleFacts DEF DeltaInv
  <2> QED BY <1>1, <1>2, <1>3, <2>1, <2>3 DEF Inv, PcInv, OvInv, HeldInv, MergeInv, SymbolInv
<1>4. CASE ~(baseMagic /\ magic)
  <2>1. pc' = "idle"
    BY <1>1, <1>4 DEF Begin
  <2> QED BY <1>1, <1>2, <2>1 DEF Inv, PcInv, OvInv, DeltaInv, HeldInv, MergeInv, SymbolInv
<1> QED BY <1>3, <1>4

LEMMA AdjustPhandlesKeeps ==
    ASSUME Inv, AdjustPhandles
    PROVE  Inv'
<1>1. pc = "adjust" /\ UNCHANGED <<base, delta, at, left, held>> /\ held = <<>> /\ left = {}
  BY DEF AdjustPhandles, merging, Inv, PcInv
<1>2. CASE overlay_adjust_local_phandles # 0
  BY <1>1, <1>2, Failed DEF AdjustPhandles, Fail, Return
<1>3. CASE overlay_adjust_local_phandles = 0
  <2>1. pc' = "references" /\ UNCHANGED <<baseMagic, ovMagic>> /\ ov' = PhandlesAdjusted
    BY <1>3 DEF AdjustPhandles, Go
  <2>2. ov \in Overlays /\ delta \in 0 .. MaxU32
    BY <1>1 DEF Inv, OvInv, DeltaInv
  <2>3. Alike(ov', ov) /\ Above(ov', delta)
    BY <1>3, <2>1, <2>2, PhandlesAdjustedFacts
  <2>4. OvInv'
    BY <1>1, <2>1, <2>2, <2>3 DEF OvInv
  <2> QED BY <1>1, <2>1, <2>4
      DEF Inv, BaseInv, PcInv, DeltaInv, HeldInv, MergeInv, SymbolInv
<1> QED BY <1>2, <1>3

LEMMA UpdateLocalReferencesKeeps ==
    ASSUME Inv, UpdateLocalReferences
    PROVE  Inv'
<1>1. pc = "references" /\ UNCHANGED <<base, delta, at, left, held>> /\ held = <<>> /\ left = {}
  BY DEF UpdateLocalReferences, merging, Inv, PcInv
<1>2. CASE overlay_update_local_references # 0
  BY <1>1, <1>2, Failed DEF UpdateLocalReferences, Fail, Return
<1>3. CASE overlay_update_local_references = 0
  <2>1. pc' = "fixups" /\ UNCHANGED <<baseMagic, ovMagic>> /\ ov' = ReferencesUpdated
    BY <1>3 DEF UpdateLocalReferences, Go
  <2>2. PICK o \in Overlays : Alike(ov, o) /\ Above(ov, delta)
    BY <1>1 DEF Inv, OvInv
  <2>3. Alike(ov', o) /\ Above(ov', delta)
    BY <2>1, <2>2, ReferencesUpdatedFacts
  <2>4. OvInv'
    BY <1>1, <2>1, <2>2, <2>3 DEF OvInv
  <2> QED BY <1>1, <2>1, <2>4
      DEF Inv, BaseInv, PcInv, DeltaInv, HeldInv, MergeInv, SymbolInv
<1> QED BY <1>2, <1>3

LEMMA FixupPhandleKeeps ==
    ASSUME Inv, NEW s, FixupPhandle(s)
    PROVE  Inv'
  BY Failed DEF FixupPhandle, Fail, Return, merging, Inv, PcInv

\* What is known while the overlay is merged.
LEMMA MergeFacts ==
    ASSUME Inv, pc \in {"fixups", "merge", "symbols", "symbol"}
    PROVE  /\ baseMagic /\ IsDoc(base) /\ PhandlesUnique(base)
           /\ delta \in 0 .. MaxU32 /\ Above(ov, delta)
           /\ \E o \in Overlays : Alike(ov, o)
           /\ Len(ov) \in Nat /\ DOMAIN ov = 1 .. Len(ov)
           /\ \A i \in DOMAIN ov : ov[i].depth \in Nat
  BY AlikeFacts DEF Inv, BaseInv, PcInv, OvInv, DeltaInv

LEMMA FixupsDoneKeeps ==
    ASSUME Inv, FixupsDone
    PROVE  Inv'
<1>1. /\ pc = "fixups" /\ pc' = "merge" /\ at' = 2 /\ held = <<>> /\ left = {}
      /\ UNCHANGED <<base, baseMagic, ov, ovMagic, delta, left, held>>
  BY DEF FixupsDone, Go, Inv, PcInv
<1>2. PICK o \in Overlays : Alike(ov, o)
  BY <1>1, MergeFacts
<1>3. 2 \in DOMAIN ov => ov[2].depth = 2
  <2> SUFFICES ASSUME 2 \in DOMAIN ov PROVE o[2].depth = 2
    BY <1>2, AlikeFacts
  <2>1. DOMAIN ov = DOMAIN o /\ 1 \in DOMAIN o /\ 2 \in DOMAIN o
    BY <1>2, AlikeFacts
  <2>2. o[1].depth = 1 /\ o[2].depth \in 2 .. o[2 - 1].depth + 1
    BY <2>1, TreeAssumption DEF IsTree
  <2>3. 2 - 1 = 1
    OBVIOUS
  <2> QED BY <2>2, <2>3
<1>4. HeldInv'
  BY <1>1, <1>3 DEF HeldInv
<1>5. MergeInv'
  <2>1. \A n \in DOMAIN base : ~(PhandleIn(base[n].props) > delta)
    <3>1. \A n \in DOMAIN base : PhandleIn(base[n].props) <= delta /\ PhandleIn(base[n].props) \in 0 .. MaxU32
      BY <1>1, MergeFacts, DocFacts DEF Inv, DeltaInv
    <3>2. delta \in 0 .. MaxU32
      BY <1>1, MergeFacts
    <3> QED BY <3>1, <3>2, BoundAssumption
  <2> QED BY <1>1, <2>1 DEF MergeInv
<1> QED BY <1>1, <1>4, <1>5 DEF Inv, BaseInv, PcInv, OvInv, DeltaInv, SymbolInv

LEMMA StartFragmentKeeps ==
    ASSUME Inv, StartFragment
    PROVE  Inv'
<1> DEFINE overlay == fdt_subnode_offset(ov, at, "__overlay__")
           target == overlay_get_target(ov[at].props)
<1>1. /\ pc = "merge" /\ left = {} /\ held = <<>> /\ at \in DOMAIN ov /\ at \in Nat
      /\ ov[at].depth = 2 /\ UNCHANGED <<base, ov, delta>>
  BY DEF StartFragment, Merging, Inv, HeldInv
<1>2. PICK o \in Overlays : Alike(ov, o)
  BY <1>1, MergeFacts
<1>3. Len(ov) \in Nat /\ DOMAIN ov = 1 .. Len(ov)
  BY <1>1, MergeFacts
<1>4. \A n \in DOMAIN base : PhandleIn(base[n].props) > delta =>
        \E j \in DOMAIN ov : j < at /\ PhandleIn(base[n].props) \in AllPhandles(ov[j].props)
  BY <1>1 DEF Inv, MergeInv
<1>5. CASE overlay = 0
  <2>1. /\ pc' = "merge" /\ at' = NextFragment(at + 1) /\ left' = {} /\ held' = <<>>
        /\ UNCHANGED <<baseMagic, ovMagic>>
    BY <1>1, <1>5 DEF StartFragment, Go
  <2>2. /\ at' \in at + 1 .. Len(ov) + 1 /\ at' \in Nat /\ (at' <= Len(ov) => ov[at'].depth = 2)
    <3>1. at + 1 \in Nat /\ at + 1 <= Len(ov) + 1
      BY <1>1, <1>3
    <3> QED BY <1>3, <2>1, <3>1, NextFragmentFacts
  <2>3. HeldInv'
    BY <1>1, <1>3, <2>1, <2>2 DEF HeldInv
  <2>4. MergeInv'
    <3>1. \A j \in DOMAIN ov : j < at => j < at'
      BY <1>1, <1>3, <2>2
    <3> QED BY <1>1, <1>4, <2>1, <3>1 DEF MergeInv
  <2> QED BY <1>1, <2>1, <2>3, <2>4 DEF Inv, BaseInv, PcInv, OvInv, DeltaInv, SymbolInv
<1>6. CASE overlay # 0 /\ target.err # 0
  BY <1>1, <1>6, Failed DEF StartFragment, Fail, Return, Forget
<1>7. CASE overlay # 0 /\ target.err = 0
  <2>1. /\ pc' = "merge" /\ at' = overlay + 1 /\ held' = <<target.node>>
        /\ left' = DOMAIN ov[overlay].props /\ UNCHANGED <<baseMagic, ovMagic>>
    BY <1>1, <1>7 DEF StartFragment, Go
  <2>2. overlay \in DOMAIN ov /\ overlay >= at /\ ov[overlay].depth = 3
    BY <1>1, <1>2, <1>7, AlikeOverlayBehind
  <2>3. target.node \in 0 .. Len(base)
    BY <1>1, <1>7, MergeFacts, TargetInside
  <2> HIDE DEF overlay, target
  <2>4. overlay \in Nat /\ at' - 1 = overlay
    BY <1>3, <2>1, <2>2
  <2>5. HeldInv'
    BY <1>1, <2>1, <2>2, <2>3, <2>4 DEF HeldInv
  <2>6. MergeInv'
    <3>1. \A j \in DOMAIN ov : j < at => j < at' /\ j # overlay
      BY <1>1, <1>3, <2>1, <2>2, <2>4
    <3>2. \A n \in DOMAIN base : PhandleIn(base[n].props) \notin AllPhandles(ov[overlay].props)
      <4> SUFFICES ASSUME NEW n \in DOMAIN base, PhandleIn(base[n].props) \in AllPhandles(ov[overlay].props)
                   PROVE  FALSE
        OBVIOUS
      <4>1. Above(ov, delta) /\ delta \in 0 .. MaxU32
        BY <1>1, MergeFacts
      <4>2. PhandleIn(base[n].props) \in delta + 1 .. MaxU32 - 1
        BY <2>2, <4>1, AboveFacts
      <4>3. PhandleIn(base[n].props) > delta
        BY <4>1, <4>2, BoundAssumption
      <4>4. PICK j \in DOMAIN ov : j < at /\ PhandleIn(base[n].props) \in AllPhandles(ov[j].props)
        BY <1>4, <4>3
      <4>5. j = overlay
        BY <2>2, <4>1, <4>4, AboveFacts
      <4> QED BY <3>1, <4>4, <4>5
    <3> QED BY <1>1, <1>4, <2>1, <2>4, <3>1, <3>2 DEF MergeInv
  <2> QED BY <1>1, <2>1, <2>5, <2>6 DEF Inv, BaseInv, PcInv, OvInv, DeltaInv, SymbolInv
<1> QED BY <1>5, <1>6, <1>7

LEMMA SetPropKeeps ==
    ASSUME Inv, NEW s, SetProp(s)
    PROVE  Inv'
<1>1. /\ pc = "merge" /\ s \in left /\ UNCHANGED <<ov, delta>>
  BY DEF SetProp
<1>2. /\ held # <<>> /\ held \in Seq(0 .. Len(base)) /\ at \in Nat /\ at - 1 \in DOMAIN ov
      /\ Len(held) = ov[at - 1].depth - 2 /\ left \subseteq DOMAIN ov[at - 1].props
  BY <1>1 DEF Inv, HeldInv
<1> DEFINE k == Last(held)
           val == ov[at - 1].props[s]
<1>3. PICK out \in DT!SetProp(base, <<>>, [node |-> k, name |-> s, val |-> val]) :
        /\ base' = out.doc
        /\ IF out.ret < 0 THEN Fail(out.ret) /\ Forget
           ELSE Go("merge") /\ left' = left \ {s} /\ UNCHANGED <<at, held>>
  BY DEF SetProp
<1>4. \/ out.ret < 0 /\ out.doc = base
      \/ out.ret = 0 /\ out.doc = Setting(base, k, s, val)
  <2> DEFINE c == [node |-> k, name |-> s, val |-> val]
  <2>1. c.node = k /\ c.name = s /\ c.val = val
    OBVIOUS
  <2>2. out \in DT!SetProp(base, <<>>, c)
    OBVIOUS
  <2> HIDE DEF c
  <2> QED BY <2>1, <2>2, SetPropOutcome
<1> HIDE DEF k, val
<1>5. CASE out.ret < 0
  BY <1>3, <1>5, Failed DEF Fail, Return, Forget
<1>6. CASE ~(out.ret < 0)
  <2>1. /\ base' = Setting(base, k, s, val) /\ pc' = "merge" /\ left' = left \ {s}
        /\ UNCHANGED <<at, held, baseMagic, ovMagic>>
    BY <1>3, <1>4, <1>6 DEF Go
  <2>2. IsDoc(base) /\ PhandlesUnique(base) /\ Above(ov, delta) /\ delta \in 0 .. MaxU32
    BY <1>1, MergeFacts
  <2>3. /\ IsDoc(base') /\ PhandlesUnique(base') /\ Len(base') = Len(base) /\ DOMAIN base' = DOMAIN base
        /\ \A n \in DOMAIN base :
            \/ PhandleIn(base'[n].props) = PhandleIn(base[n].props)
            \/ n = k /\ PhandleIn(base'[n].props) \in AllPhandles(ov[at - 1].props)
    <3>1. CASE s \notin PhandleNames
      <4>1. /\ IsDoc(base') /\ Len(base') = Len(base) /\ DOMAIN base' = DOMAIN base
            /\ \A n \in DOMAIN base : PhandleIn(base'[n].props) = PhandleIn(base[n].props)
        BY <2>1, <2>2, <3>1, DocSetOther
      <4> QED BY <2>2, <4>1 DEF PhandlesUnique
    <3>2. CASE s \in PhandleNames
      <4>1. PICK p \in AllPhandles(ov[at - 1].props) : val = CellsVal(<<p>>)
        <5>1. s \in PhandleNames \cap DOMAIN ov[at - 1].props /\ val = ov[at - 1].props[s]
          BY <1>1, <1>2, <3>2 DEF val
        <5>2. PICK i \in DOMAIN ov : i = at - 1
          BY <1>2
        <5>3. \A t \in PhandleNames \cap DOMAIN ov[i].props :
                \E p \in AllPhandles(ov[i].props) : ov[i].props[t] = CellsVal(<<p>>)
          BY <2>2, AboveFacts
        <5>4. s \in PhandleNames \cap DOMAIN ov[i].props /\ val = ov[i].props[s]
          BY <5>1, <5>2
        <5>5. \E p \in AllPhandles(ov[i].props) : val = CellsVal(<<p>>)
          BY <5>3, <5>4
        <5> QED BY <5>2, <5>5
      <4>2. p \in delta + 1 .. MaxU32 - 1
        BY <1>2, <2>2, <4>1, AboveFacts
      <4>3. p \in 1 .. MaxU32 - 1
        BY <2>2, <4>2, BoundAssumption
      <4>4. \A n \in DOMAIN base : PhandleIn(base[n].props) = p => n = k
        BY <1>1, <1>2, <4>1 DEF Inv, MergeInv, k
      <4>5. /\ IsDoc(base') /\ Len(base') = Len(base) /\ DOMAIN base' = DOMAIN base
            /\ \A n \in DOMAIN base : \/ PhandleIn(base'[n].props) = PhandleIn(base[n].props)
                                      \/ n = k /\ PhandleIn(base'[n].props) = p
            /\ PhandlesUnique(base')
        BY <2>1, <2>2, <4>1, <4>3, <4>4, DocSetPhandle
      <4> QED BY <4>1, <4>5
    <3> QED BY <3>1, <3>2
  <2>4. HeldInv'
    BY <1>1, <1>2, <2>1, <2>3 DEF HeldInv
  <2>5. MergeInv'
    <3>1. \A n \in DOMAIN base : PhandleIn(base[n].props) \in AllPhandles(ov[at - 1].props) => n = k
      BY <1>1, <1>2 DEF Inv, MergeInv, k
    <3>2. \A n \in DOMAIN base : PhandleIn(base'[n].props) \in AllPhandles(ov[at - 1].props) => n = k
      BY <2>3, <3>1
    <3>3. at - 1 < at
      BY <1>2
    <3>4. ASSUME NEW n \in DOMAIN base, PhandleIn(base'[n].props) > delta
          PROVE  \E j \in DOMAIN ov : j < at /\ PhandleIn(base'[n].props) \in AllPhandles(ov[j].props)
      <4>1. CASE PhandleIn(base'[n].props) = PhandleIn(base[n].props)
        BY <1>1, <3>4, <4>1 DEF Inv, MergeInv
      <4>2. CASE PhandleIn(base'[n].props) \in AllPhandles(ov[at - 1].props)
        BY <1>2, <3>3, <4>2
      <4> QED BY <2>3, <4>1, <4>2
    <3> QED BY <1>1, <2>1, <2>3, <3>2, <3>4 DEF MergeInv, k
  <2> QED BY <1>1, <1>2, <2>1, <2>3, <2>4, <2>5 DEF Inv, BaseInv, PcInv, OvInv, DeltaInv, SymbolInv
<1> QED BY <1>5, <1>6

LEMMA SubnodeKeeps ==
    ASSUME Inv, Subnode
    PROVE  Inv'
<1> DEFINE parents == SubSeq(held, 1, ov[at].depth - 3)
           name == ov[at].name
           nnode(out) == IF out.ret = -FDT_ERR_EXISTS
                         THEN fdt_subnode_offset(base, Last(parents), name) ELSE out.ret
<1>1. /\ pc = "merge" /\ left = {} /\ held # <<>> /\ at \in DOMAIN ov /\ ov[at].depth > 3
      /\ UNCHANGED <<ov, delta>>
  BY DEF Subnode, Merging
<1>2. /\ held \in Seq(0 .. Len(base)) /\ at \in Nat /\ at - 1 \in DOMAIN ov
      /\ Len(held) = ov[at - 1].depth - 2
  BY <1>1 DEF Inv, HeldInv
<1>3. PICK o \in Overlays : Alike(ov, o)
  BY <1>1, MergeFacts
<1>4. /\ IsDoc(base) /\ PhandlesUnique(base) /\ Above(ov, delta) /\ delta \in 0 .. MaxU32
      /\ Len(ov) \in Nat /\ DOMAIN ov = 1 .. Len(ov) /\ \A i \in DOMAIN ov : ov[i].depth \in Nat
  BY <1>1, MergeFacts
<1>5. /\ parents \in Seq(0 .. Len(base)) /\ Len(parents) = ov[at].depth - 3 /\ Last(parents) \in 0 .. Len(base)
  <2>1. ov[at].depth \in 2 .. ov[at - 1].depth + 1
    <3>1. at \in DOMAIN o /\ at - 1 \in DOMAIN o /\ at # 1
      BY SMTT(30), <1>1, <1>2, <1>3, <1>4, AlikeFacts
    <3>2. o[at].depth \in 2 .. o[at - 1].depth + 1
      BY <3>1, TreeAssumption DEF IsTree
    <3> QED BY SMTT(30), <1>1, <1>2, <1>3, <3>2, AlikeFacts
  <2> DEFINE m == ov[at].depth - 3
  <2>2. m \in Int /\ 1 <= m /\ m <= Len(held)
    BY SMTT(30), <1>1, <1>2, <1>4, <2>1
  <2> HIDE DEF m
  <2> DEFINE q == SubSeq(held, 1, m)
  <2>3. \A i \in 1 .. m : held[i] \in 0 .. Len(base)
    BY <1>2, <2>2, ElementOfSeq
  <2>4. /\ q \in Seq(0 .. Len(base)) /\ Len(q) = IF 1 <= m THEN m - 1 + 1 ELSE 0
    BY <2>2, <2>3, SubSeqProperties
  <2> HIDE DEF q
  <2>5. Len(q) = m /\ Last(q) \in 0 .. Len(base)
    <3>1. Len(q) = m /\ m \in 1 .. Len(q)
      BY <2>2, <2>4
    <3>2. q[m] \in 0 .. Len(base)
      BY <2>4, <3>1, ElementOfSeq
    <3> QED BY <3>1, <3>2 DEF Last
  <2> QED BY <2>4, <2>5 DEF q, m
<1> DEFINE k == Last(parents)
<1>6. PICK out \in DT!AddSubnode(base, <<>>, [op |-> "add_subnode", node |-> k, name |-> name]) :
        /\ base' = out.doc
        /\ IF nnode(out) < 0 THEN Fail(nnode(out)) /\ Forget
           ELSE /\ Go("merge") /\ at' = at + 1 /\ left' = DOMAIN ov[at].props
                /\ held' = Append(parents, nnode(out))
  BY DEF Subnode
<1>7. \/ out.ret < 0 /\ out.ret \in Int /\ out.doc = base
      \/ out.ret = k + 1 /\ out.doc = InsertAt(base, k + 1, Empty(base[k].depth + 1, name))
  <2> DEFINE c == [op |-> "add_subnode", node |-> k, name |-> name]
  <2>1. c.node = k /\ c.name = name
    OBVIOUS
  <2>2. out \in DT!AddSubnode(base, <<>>, c)
    OBVIOUS
  <2>3. k \in Nat
    BY <1>5
  <2> HIDE DEF c, k, name
  <2> QED BY <2>1, <2>2, <2>3, AddSubnodeOutcome
<1> DEFINE new == nnode(out)
<1>8. CASE new < 0
  BY <1>6, <1>8, Failed DEF Fail, Return, Forget
<1>9. CASE ~(new < 0)
  <2>1. /\ base' = out.doc /\ pc' = "merge" /\ at' = at + 1 /\ left' = DOMAIN ov[at].props
        /\ held' = Append(parents, new) /\ UNCHANGED <<baseMagic, ovMagic>>
    BY <1>6, <1>9 DEF Go
  <2>2. k \in 0 .. Len(base) /\ Len(base) \in Nat /\ DOMAIN base = 1 .. Len(base)
    BY <1>4, <1>5, DocFacts
  <2>3. fdt_subnode_offset(base, k, name) \in 0 .. Len(base)
    <3>1. DOMAIN base \subseteq Nat \ {0}
      BY <2>2
    <3>2. \A path : NodeAt(base, path) \in 0 .. Len(base)
      BY <2>2, <3>1, NodeAtFacts
    <3> QED BY <3>2 DEF fdt_subnode_offset
  <2>4. new = IF out.ret = -FDT_ERR_EXISTS THEN fdt_subnode_offset(base, k, name) ELSE out.ret
    OBVIOUS
  <2>5. parents \in Seq(0 .. Len(base)) /\ Len(parents) = ov[at].depth - 3
    BY <1>5
  <2> HIDE DEF new, nnode, k, name, parents
  <2>6. /\ IsDoc(base') /\ PhandlesUnique(base') /\ Len(base') >= Len(base) /\ Len(base') \in Nat
        /\ new \in 0 .. Len(base')
        /\ \A n \in DOMAIN base' : PhandleIn(base'[n].props) # 0 =>
            \E m \in DOMAIN base : PhandleIn(base'[n].props) = PhandleIn(base[m].props)
    <3>1. CASE out.ret < 0 /\ out.ret \in Int /\ out.doc = base
      <4>1. base' = base
        BY <2>1, <3>1
      <4>2. new \in 0 .. Len(base)
        BY <1>9, <2>2, <2>3, <2>4, <3>1
      <4> QED BY <1>4, <2>2, <4>1, <4>2
    <3>2. CASE out.ret = k + 1 /\ out.doc = InsertAt(base, k + 1, Empty(base[k].depth + 1, name))
      <4> DEFINE i == k + 1
      <4>1. i \in 1 .. Len(base) + 1
        BY <2>2
      <4> HIDE DEF i
      <4>2. base' = InsertAt(base, i, Empty(base[k].depth + 1, name))
        BY <2>1, <3>2 DEF i
      <4>3. /\ IsDoc(base') /\ Len(base') = Len(base) + 1
            /\ \A n \in DOMAIN base' : PhandleIn(base'[n].props) # 0 =>
                \E m \in DOMAIN base : /\ PhandleIn(base'[n].props) = PhandleIn(base[m].props)
                                       /\ n = IF m < i THEN m ELSE m + 1
        BY <1>4, <4>1, <4>2, DocInserted
      <4>4. PhandlesUnique(base')
        BY <1>4, <4>1, <4>2, UniqueInserted
      <4>5. new = k + 1
        BY <2>2, <2>4, <3>2 DEF FDT_ERR_EXISTS
      <4> QED BY <2>2, <4>3, <4>4, <4>5
    <3> QED BY <1>7, <3>1, <3>2
  <2>7. at' - 1 = at /\ at' \in Nat
    BY <1>2, <2>1
  <2>8. HeldInv'
    <3>1. 0 .. Len(base) \subseteq 0 .. Len(base')
      BY <2>2, <2>6
    <3>2. parents \in Seq(0 .. Len(base'))
      BY <2>5, <3>1, SeqMonotonic
    <3>3. held' \in Seq(0 .. Len(base')) /\ held' # <<>> /\ Len(held') = Len(parents) + 1
      BY <2>1, <2>6, <3>2, AppendProperties
    <3>4. Len(held') = ov[at].depth - 2
      BY SMTT(30), <1>1, <1>4, <2>5, <3>3
    <3> QED BY <1>1, <2>1, <2>7, <3>3, <3>4 DEF HeldInv
  <2>9. MergeInv'
    <3>1. ASSUME NEW n \in DOMAIN base', PhandleIn(base'[n].props) > delta
          PROVE  \E j \in DOMAIN ov : j < at /\ PhandleIn(base'[n].props) \in AllPhandles(ov[j].props)
      <4>1. PhandleIn(base'[n].props) # 0
        BY <1>4, <3>1, BoundAssumption
      <4>2. PICK m \in DOMAIN base : PhandleIn(base'[n].props) = PhandleIn(base[m].props)
        BY <2>6, <4>1
      <4> QED BY <1>1, <3>1, <4>2 DEF Inv, MergeInv
    <3>2. ASSUME NEW n \in DOMAIN base', PhandleIn(base'[n].props) \in AllPhandles(ov[at].props)
          PROVE  FALSE
      <4>1. PhandleIn(base'[n].props) \in delta + 1 .. MaxU32 - 1
        BY <1>1, <1>4, <3>2, AboveFacts
      <4>2. PhandleIn(base'[n].props) > delta
        BY <1>4, <4>1, BoundAssumption
      <4>3. PICK j \in DOMAIN ov : j < at /\ PhandleIn(base'[n].props) \in AllPhandles(ov[j].props)
        BY <3>1, <4>2
      <4>4. j = at
        <5>1. AllPhandles(ov[j].props) \cap AllPhandles(ov[at].props) # {}
          BY <3>2, <4>3
        <5> QED BY <1>1, <1>4, <5>1 DEF Above
      <4> QED BY <1>2, <4>3, <4>4
    <3>3. \A j \in DOMAIN ov : j < at => j < at'
      BY <1>2, <1>4, <2>1
    <3> QED BY <1>1, <2>1, <2>7, <3>1, <3>2, <3>3 DEF MergeInv
  <2> QED BY <1>1, <1>2, <2>1, <2>6, <2>8, <2>9 DEF Inv, BaseInv, PcInv, OvInv, DeltaInv, SymbolInv
<1> QED BY <1>8, <1>9

LEMMA EndFragmentKeeps ==
    ASSUME Inv, EndFragment
    PROVE  Inv'
<1>1. /\ pc = "merge" /\ pc' = "merge" /\ left = {} /\ held # <<>> /\ held' = <<>> /\ at' = NextFragment(at)
      /\ UNCHANGED <<base, baseMagic, ov, ovMagic, delta, left>>
  BY DEF EndFragment, Merging, Go
<1>2. at \in Nat /\ at - 1 \in DOMAIN ov
  BY <1>1 DEF Inv, HeldInv
<1>3. Len(ov) \in Nat /\ DOMAIN ov = 1 .. Len(ov)
  BY <1>1, MergeFacts
<1>4. /\ at' \in at .. Len(ov) + 1 /\ (at' <= Len(ov) => ov[at'].depth = 2)
  <2>1. at <= Len(ov) + 1
    BY <1>2, <1>3
  <2> QED BY <1>1, <1>2, <1>3, <2>1, NextFragmentFacts
<1>5. HeldInv'
  BY <1>1, <1>2, <1>3, <1>4 DEF HeldInv
<1>6. MergeInv'
  <2>1. \A j \in DOMAIN ov : j < at => j < at'
    BY <1>2, <1>3, <1>4
  <2> QED BY <1>1, <2>1 DEF Inv, MergeInv
<1> QED BY <1>1, <1>5, <1>6 DEF Inv, BaseInv, PcInv, OvInv, DeltaInv, SymbolInv

LEMMA MergeDoneKeeps ==
    ASSUME Inv, MergeDone
    PROVE  Inv'
  BY DEF MergeDone, Merging, Go, merging,
         Inv, BaseInv, PcInv, OvInv, DeltaInv, HeldInv, MergeInv, SymbolInv

LEMMA SuccessKeeps ==
    ASSUME Inv, Success
    PROVE  Inv'
  BY DEF Success, Return, Forget, baseBlob,
         Inv, BaseInv, PcInv, OvInv, DeltaInv, HeldInv, MergeInv, SymbolInv

\* No symbol has the name of a phandle.
LEMMA SymbolNames ==
    ASSUME NEW o \in Overlays, Alike(ov, o), OvSymbols # 0
    PROVE  PhandleNames \cap DOMAIN ov[OvSymbols].props = {}
<1> DEFINE i == NodeAt(o, <<"__symbols__">>)
<1>1. OvSymbols = i
  BY AlikeNodeAt DEF OvSymbols
<1>2. PhandleNames \cap DOMAIN o[i].props = {}
  BY <1>1, OverlayAssumption DEF IsOverlay
<1>3. DOMAIN ov = 1 .. Len(o) /\ DOMAIN o = 1 .. Len(o) /\ Len(o) \in Nat
  BY AlikeFacts
<1>4. i \in DOMAIN ov
  <2>1. DOMAIN o \subseteq Nat \ {0}
    BY <1>3
  <2> QED BY <1>1, <1>3, <2>1, NodeAtFacts
<1> HIDE DEF i
<1> QED BY <1>1, <1>2, <1>4, AlikeFacts

LEMMA FindSymbolsKeeps ==
    ASSUME Inv, FindSymbols
    PROVE  Inv'
<1>1. /\ pc = "symbols" /\ OvSymbols # 0 /\ held = <<>> /\ UNCHANGED <<at, held, ov, delta>>
      /\ left' = (IF pc' = "symbol" THEN DOMAIN ov[OvSymbols].props ELSE {})
  BY DEF FindSymbols, Inv, PcInv
<1>2. PICK o \in Overlays : Alike(ov, o)
  BY <1>1, MergeFacts
<1>3. PhandleNames \cap DOMAIN ov[OvSymbols].props = {}
  BY <1>1, <1>2, SymbolNames
<1>4. baseMagic /\ IsDoc(base) /\ PhandlesUnique(base)
  BY <1>1, MergeFacts
<1>5. ASSUME pc' = "symbol", UNCHANGED <<baseMagic, ovMagic>>, IsDoc(base'), PhandlesUnique(base')
      PROVE  Inv'
  BY <1>1, <1>3, <1>5 DEF Inv, BaseInv, PcInv, OvInv, DeltaInv, HeldInv, MergeInv, SymbolInv
<1>6. CASE NodeAt(base, <<"__symbols__">>) # 0
  BY <1>4, <1>5, <1>6 DEF FindSymbols, Go
<1>7. CASE NodeAt(base, <<"__symbols__">>) = 0
  <2>1. PICK out \in DT!AddSubnode(base, <<>>, [op |-> "add_subnode", node |-> 1, name |-> "__symbols__"]) :
            base' = out.doc /\ IF out.ret < 0 THEN Fail(out.ret) ELSE Go("symbol")
    BY <1>7 DEF FindSymbols
  <2>2. CASE out.ret < 0
    <3>1. pc' = "idle" /\ baseMagic' = FALSE /\ ovMagic' = FALSE
      BY <2>1, <2>2 DEF Fail, Return
    <3> QED BY <1>1, <3>1, Failed
  <2>3. CASE ~(out.ret < 0)
    <3> DEFINE c == [op |-> "add_subnode", node |-> 1, name |-> "__symbols__"]
    <3>1. c.node = 1 /\ c.name = "__symbols__" /\ out \in DT!AddSubnode(base, <<>>, c)
      OBVIOUS
    <3> HIDE DEF c
    <3>2. out.doc = InsertAt(base, 1 + 1, Empty(base[1].depth + 1, "__symbols__"))
      <4>1. \/ out.ret < 0 /\ out.ret \in Int /\ out.doc = base
            \/ /\ out.ret = c.node + 1
               /\ out.doc = InsertAt(base, c.node + 1, Empty(base[c.node].depth + 1, c.name))
        BY <3>1, AddSubnodeOutcome
      <4> QED BY <2>3, <3>1, <4>1
    <3>3. PICK i \in 1 .. Len(base) + 1 : i = 1 + 1
      BY <1>4, DocFacts
    <3>4. base' = InsertAt(base, i, Empty(base[1].depth + 1, "__symbols__"))
      BY <2>1, <3>2, <3>3
    <3>5. IsDoc(base') /\ PhandlesUnique(base')
      BY <1>4, <3>4, DocInserted, UniqueInserted
    <3>6. pc' = "symbol" /\ UNCHANGED <<baseMagic, ovMagic>>
      BY <2>1, <2>3 DEF Go
    <3> QED BY <1>5, <3>5, <3>6
  <2> QED BY <2>2, <2>3
<1> QED BY <1>6, <1>7

LEMMA UpdateSymbolKeeps ==
    ASSUME Inv, NEW s, UpdateSymbol(s)
    PROVE  Inv'
<1> DEFINE val == ov[OvSymbols].props[s]
           target == overlay_get_target(ov[NodeAt(ov, <<val.text[2]>>)].props)
           new == SymbolValue(target.path, val.text)
           node == NodeAt(base, <<"__symbols__">>)
<1>1. /\ pc = "symbol" /\ s \in left /\ s \notin PhandleNames /\ held = <<>> /\ UNCHANGED <<ov, delta>>
  BY ZenonT(30) DEF UpdateSymbol, Inv, PcInv, SymbolInv
<1>2. \/ \E e : Fail(e) /\ Forget
      \/ \E out \in DT!SetProp(base, <<>>, [node |-> node, name |-> s, val |-> new]) :
            /\ base' = out.doc
            /\ IF out.ret < 0 THEN Fail(out.ret) /\ Forget
               ELSE Go("symbol") /\ left' = left \ {s} /\ UNCHANGED <<at, held>>
  BY ZenonT(30) DEF UpdateSymbol
<1> HIDE DEF new, node
<1>3. CASE \E e : Fail(e) /\ Forget
  BY <1>3, Failed DEF Fail, Return, Forget
<1>4. ASSUME NEW out \in DT!SetProp(base, <<>>, [node |-> node, name |-> s, val |-> new]),
             base' = out.doc,
             IF out.ret < 0 THEN Fail(out.ret) /\ Forget
             ELSE Go("symbol") /\ left' = left \ {s} /\ UNCHANGED <<at, held>>
      PROVE  Inv'
  <2>1. CASE out.ret < 0
    BY <1>4, <2>1, Failed DEF Fail, Return, Forget
  <2>2. CASE ~(out.ret < 0)
    <3> DEFINE c == [node |-> node, name |-> s, val |-> new]
    <3>1. c.node = node /\ c.name = s /\ c.val = new /\ out \in DT!SetProp(base, <<>>, c)
      OBVIOUS
    <3> HIDE DEF c
    <3>2. base' = Setting(base, node, s, new)
      <4>1. \/ out.ret < 0 /\ out.doc = base
            \/ out.ret = 0 /\ out.doc = Setting(base, c.node, c.name, c.val)
        BY <3>1, SetPropOutcome
      <4> QED BY <1>4, <2>2, <3>1, <4>1
    <3>3. baseMagic /\ IsDoc(base) /\ PhandlesUnique(base)
      BY <1>1, MergeFacts
    <3>4. /\ IsDoc(base') /\ DOMAIN base' = DOMAIN base
          /\ \A n \in DOMAIN base : PhandleIn(base'[n].props) = PhandleIn(base[n].props)
      BY <1>1, <3>2, <3>3, DocSetOther
    <3>5. PhandlesUnique(base')
      BY <3>3, <3>4 DEF PhandlesUnique
    <3>6. pc' = "symbol" /\ UNCHANGED <<baseMagic, ovMagic, held>> /\ left' = left \ {s}
      BY <1>4, <2>2 DEF Go
    <3> QED BY <1>1, <3>4, <3>5, <3>6 DEF Inv, BaseInv, PcInv, OvInv, DeltaInv, HeldInv, MergeInv, SymbolInv
  <2> QED BY <2>1, <2>2
<1> QED BY SMTT(30), <1>2, <1>3, <1>4

-----------------------------------------------------------------------------
(* The theorem.                                                            *)

LEMMA InvNext == Inv /\ [Next]_vars => Inv'
<1> SUFFICES ASSUME Inv, [Next]_vars PROVE Inv'
  OBVIOUS
<1>1. CASE UNCHANGED vars
  BY <1>1 DEF vars, baseBlob, ovBlob, merging, caller,
        Inv, BaseInv, PcInv, OvInv, DeltaInv, HeldInv, MergeInv, SymbolInv
<1>2. CASE Call
  <2>1. CASE Begin(ov, ovMagic)
    <3>1. pc = "idle"
      BY <2>1 DEF Begin
    <3>2. ovMagic => ov \in Overlays
      BY <3>1 DEF Inv, OvInv
    <3> QED BY <2>1, <3>2, BeginKeeps
  <2>2. CASE \E o \in Overlays : Begin(o, TRUE)
    BY <2>2, BeginKeeps
  <2> QED BY <1>2, <2>1, <2>2 DEF Call
<1>3. CASE Step
  BY <1>3, AdjustPhandlesKeeps, UpdateLocalReferencesKeeps, FixupPhandleKeeps, FixupsDoneKeeps,
     StartFragmentKeeps, SetPropKeeps, SubnodeKeeps, EndFragmentKeeps, MergeDoneKeeps,
     FindSymbolsKeeps, UpdateSymbolKeeps, SuccessKeeps
  DEF Step
<1> QED BY <1>1, <1>2, <1>3 DEF Next

\* fdt_overlay_apply(): whatever overlays have been merged into a base tree,
\* for every tree, every list of overlays and every order of the calls, no two
\* of its nodes have the same phandle, and none has the reserved one.
THEOREM PhandlesStayUnique == Spec => []UniquePhandles
<1>1. Inv => UniquePhandles
  BY DEF Inv, BaseInv, UniquePhandles, Usable
<1> QED BY <1>1, InvInit, InvNext, PTL DEF Spec

=============================================================================
