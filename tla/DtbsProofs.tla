----------------------------- MODULE DtbsProofs -----------------------------
(***************************************************************************)
(* The archive that any sequence of builds, interruptions and cleans       *)
(* leaves behind is a chain that find_dtb() can walk, and the search ends  *)
(* where it should, for any files and any bounds.                          *)
(*                                                                         *)
(* The argument does without the address of a file.  A sequence of bytes   *)
(* is a Chain when at offset 0, and behind every aligned blob in it, there *)
(* is what find_dtb() can deal with: the next argument of the script, the  *)
(* first argument of a later run, the zeros behind the last argument, or   *)
(* the end of what has been written so far.  Bytes that are appended only  *)
(* matter where the sequence ended, so every step of the script keeps it.  *)
(***************************************************************************)
EXTENDS Dtbs, SequenceTheorems, TLAPS

NArgs == Len(Inputs)

SizeOf(b, o) == Size[Inputs[b[o + 1].k]][b[o + 1].v]

\* The offset that find_dtb() looks at behind the blob at offset o.
After(b, o) == Aligned(o + SizeOf(b, o))

Starts(b, o) == o \in 0 .. Len(b) - 1 /\ o % 4 = 0 /\ b[o + 1].i = 1

Whole(b, o) ==
    /\ o + SizeOf(b, o) <= Len(b)
    /\ \A i \in 1 .. SizeOf(b, o) : b[o + i] = [k |-> b[o + 1].k, v |-> b[o + 1].v, i |-> i]

\* What may be at offset o behind the argument j - 1.
Follows(b, o, j) ==
    \/ o = Len(b)
    \/ Starts(b, o) /\ b[o + 1].k \in {1, j}
    \/ o \in 0 .. Len(b) - 1 /\ b[o + 1] = Zero /\ j = NArgs + 1

Chain(b) ==
    /\ Follows(b, 0, 1)
    /\ \A o \in 0 .. Len(b) - 1 : Starts(b, o) =>
            /\ Whole(b, o)
            /\ After(b, o) <= Len(b)
            /\ Follows(b, After(b, o), b[o + 1].k + 1)

\* The blob that ends where b ends is the argument j - 1.
Ends(b, j) ==
    /\ Len(b) = 0 => j = 1
    /\ \A o \in 0 .. Len(b) - 1 : Starts(b, o) /\ After(b, o) = Len(b) => j = b[o + 1].k + 1

\* There is a sentinel behind every blob.
Closed(b) ==
    /\ Len(b) >= 8
    /\ \A o \in 0 .. Len(b) - 1 : Starts(b, o) => After(b, o) + 8 <= Len(b)

\* All blobs of b are of the versions in g, the files on disk.
Fresh(b, g) == \A p \in 1 .. Len(b) : b[p] # Zero => b[p].v = g[Inputs[b[p].k]].ver

-----------------------------------------------------------------------------
(* The inductive invariant.                                                *)

\* The p bytes behind a blob of s bytes lie in its last word.
Fits(s, p) == s % 4 # 0 /\ (s % 4) + p <= 4

\* dd never pads beyond the next word.
PadInv == \A f \in Files :
    disk[f].pad > 0 => Fits(Size[f][disk[f].ver], disk[f].pad)

ScriptInv ==
    /\ step = "pad" => \A k \in 1 .. arg - 1 : FileSize(Inputs[k]) % 4 = 0
    /\ step = "cat" => \A k \in 1 .. NArgs : FileSize(Inputs[k]) % 4 = 0

BinInv ==
    /\ Chain(bin)
    /\ step = "cat" => arg = 1 \/ Ends(bin, arg)
    /\ step = "dd" => Ends(bin, NArgs + 1)
    /\ step = "objcopy" => Closed(bin)

ObjInv == obj # <<>> => Chain(obj) /\ Closed(obj)

FreshInv ==
    /\ step # "none" => stale /\ runs > 0
    /\ runs = 0 => bin = <<>>
    /\ runs = 1 /\ step = "pad" => bin = <<>>
    /\ runs = 1 /\ step \in {"cat", "dd", "objcopy"} => Fresh(bin, disk)
    /\ runs = 1 /\ ~stale => Fresh(obj, disk)

SearchInv == found # "idle" =>
    /\ obj # <<>> /\ step = "none"
    /\ d >= Base /\ (d - Base) % 4 = 0 /\ d - Base + 8 <= Len(obj)
    /\ \E j \in 1 .. NArgs + 1 :
         /\ Follows(obj, d - Base, j)
         /\ \A k \in 1 .. j - 1 : compat \notin Strings[Inputs[k]]
    /\ found = "null" => ~IsMagic(d)
    /\ found = "dtb" => IsMagic(d) /\ find_str(d, compat)

Inv == TypeOK /\ PadInv /\ ScriptInv /\ BinInv /\ ObjInv /\ FreshInv /\ SearchInv


-----------------------------------------------------------------------------
(* Constants, bytes and alignment.                                         *)

\* The arguments are files, and a file is at least as long as a header.
LEMMA FileFacts ==
    /\ NArgs \in Nat
    /\ \A k \in 1 .. NArgs : Inputs[k] \in Files
    /\ \A f \in Files, v \in 1..MaxVersion : Size[f][v] \in Nat /\ Size[f][v] >= 8
<1>1. NArgs \in Nat /\ \A k \in 1 .. NArgs : Inputs[k] \in Files
  BY InputsAssumption, LenProperties, ElementOfSeq DEF NArgs
<1>2. ASSUME NEW f \in Files, NEW v \in 1..MaxVersion
      PROVE  Size[f][v] \in Nat /\ Size[f][v] >= 8
  BY InputsAssumption, SizeAssumption
<1> QED
  BY <1>1, <1>2

LEMMA AlignedFacts ==
    ASSUME NEW a \in Nat
    PROVE  /\ Aligned(a) \in Nat /\ Aligned(a) % 4 = 0
           /\ a <= Aligned(a) /\ Aligned(a) <= a + 3
BY DEF Aligned

LEMMA AlignedSame ==
    ASSUME NEW a \in Nat, NEW c \in Nat, c % 4 = 0, a <= c, c <= a + 3
    PROVE  Aligned(a) = c
BY DEF Aligned

\* The archive is aligned, so that addresses and offsets are aligned alike.
LEMMA AlignedOffset ==
    ASSUME NEW a \in Nat
    PROVE  Aligned(Base + a) = Base + Aligned(a)
<1>1. Base \in Nat /\ Base % 4 = 0
  BY BaseAssumption
<1> QED
  BY <1>1 DEF Aligned

LEMMA SumAligned ==
    ASSUME NEW a \in Nat, NEW b \in Nat, a % 4 = 0, b % 4 = 0
    PROVE  (a + b) % 4 = 0
OBVIOUS

LEMMA ZeroFacts == Zero \in Byte /\ Zero.i = 0 /\ Zero.i # 1
BY DEF Zero, Byte

LEMMA ByteFacts ==
    ASSUME NEW b \in Seq(Byte), NEW o \in 0 .. Len(b) - 1, b[o + 1].i = 1
    PROVE  /\ b[o + 1].k \in 1 .. NArgs
           /\ b[o + 1].v \in 1 .. MaxVersion
           /\ SizeOf(b, o) \in Nat /\ SizeOf(b, o) >= 8
           /\ After(b, o) \in Nat /\ After(b, o) % 4 = 0
           /\ o + 8 <= After(b, o)
           /\ o + SizeOf(b, o) <= After(b, o) /\ After(b, o) <= o + SizeOf(b, o) + 3
<1>1. b[o + 1] \in Byte /\ b[o + 1] # Zero
  BY ElementOfSeq, ZeroFacts
<1>2. b[o + 1].k \in 1 .. NArgs /\ b[o + 1].v \in 1 .. MaxVersion
  BY <1>1 DEF Byte, NArgs
<1>3. SizeOf(b, o) \in Nat /\ SizeOf(b, o) >= 8
  BY <1>2, FileFacts DEF SizeOf
<1>4. o + SizeOf(b, o) \in Nat /\ o \in Nat
  BY <1>3
<1>5. /\ After(b, o) \in Nat /\ After(b, o) % 4 = 0
      /\ o + SizeOf(b, o) <= After(b, o) /\ After(b, o) <= o + SizeOf(b, o) + 3
  BY <1>4, AlignedFacts DEF After
<1>6. o + 8 <= After(b, o)
  BY <1>3, <1>4, <1>5
<1> QED
  BY <1>2, <1>3, <1>5, <1>6

-----------------------------------------------------------------------------
(* Appending to a sequence of bytes.                                       *)

\* What was there before is still there, and what is appended comes behind it.
LEMMA AppendFacts ==
    ASSUME NEW b \in Seq(Byte), NEW t \in Seq(Byte)
    PROVE  /\ b \o t \in Seq(Byte)
           /\ Len(b) \in Nat /\ Len(t) \in Nat /\ Len(b \o t) = Len(b) + Len(t)
           /\ \A i \in 1 .. Len(b) : (b \o t)[i] = b[i]
           /\ \A i \in 1 .. Len(t) : (b \o t)[Len(b) + i] = t[i]
<1>1. /\ b \o t \in Seq(Byte)
      /\ Len(b) \in Nat /\ Len(t) \in Nat /\ Len(b \o t) = Len(b) + Len(t)
      /\ \A i \in 1 .. Len(b) + Len(t) :
            (b \o t)[i] = IF i <= Len(b) THEN b[i] ELSE t[i - Len(b)]
  BY ConcatProperties, LenProperties
<1>2. ASSUME NEW i \in 1 .. Len(b) PROVE (b \o t)[i] = b[i]
  BY <1>1
<1>3. ASSUME NEW i \in 1 .. Len(t) PROVE (b \o t)[Len(b) + i] = t[i]
  <2>1. Len(b) + i \in 1 .. Len(b) + Len(t) /\ ~(Len(b) + i <= Len(b)) /\ Len(b) + i - Len(b) = i
    BY <1>1
  <2> QED
    BY <1>1, <2>1
<1> QED
  BY <1>1, <1>2, <1>3

LEMMA StartsKept ==
    ASSUME NEW b \in Seq(Byte), NEW t \in Seq(Byte), NEW o \in 0 .. Len(b) - 1
    PROVE  /\ o \in 0 .. Len(b \o t) - 1
           /\ (b \o t)[o + 1] = b[o + 1]
           /\ Starts(b \o t, o) <=> Starts(b, o)
           /\ SizeOf(b \o t, o) = SizeOf(b, o)
           /\ After(b \o t, o) = After(b, o)
<1>1. o \in 0 .. Len(b \o t) - 1 /\ o + 1 \in 1 .. Len(b)
  BY AppendFacts
<1>2. (b \o t)[o + 1] = b[o + 1]
  BY <1>1, AppendFacts
<1> QED
  BY <1>1, <1>2 DEF Starts, SizeOf, After

LEMMA WholeKept ==
    ASSUME NEW b \in Seq(Byte), NEW t \in Seq(Byte), NEW o \in 0 .. Len(b) - 1,
           Starts(b, o), Whole(b, o)
    PROVE  Whole(b \o t, o)
<1>1. /\ SizeOf(b, o) \in Nat /\ SizeOf(b \o t, o) = SizeOf(b, o)
      /\ (b \o t)[o + 1] = b[o + 1] /\ o \in Nat
  BY ByteFacts, StartsKept DEF Starts
<1>2. o + SizeOf(b, o) <= Len(b) /\ Len(b) <= Len(b \o t) /\ Len(b) \in Nat /\ Len(b \o t) \in Nat
  BY AppendFacts DEF Whole
<1>3. ASSUME NEW i \in 1 .. SizeOf(b, o)
      PROVE  (b \o t)[o + i] = [k |-> b[o + 1].k, v |-> b[o + 1].v, i |-> i]
  <2>1. o + i \in 1 .. Len(b)
    BY <1>1, <1>2
  <2>2. (b \o t)[o + i] = b[o + i]
    BY <2>1, AppendFacts
  <2> QED
    BY <2>2 DEF Whole
<1>4. o + SizeOf(b \o t, o) <= Len(b \o t)
  BY <1>1, <1>2
<1> QED
  BY <1>1, <1>3, <1>4 DEF Whole

LEMMA FollowsKept ==
    ASSUME NEW b \in Seq(Byte), NEW t \in Seq(Byte), NEW o \in 0 .. Len(b) - 1, NEW j,
           Follows(b, o, j)
    PROVE  Follows(b \o t, o, j)
<1>1. Len(b) \in Nat /\ o # Len(b)
  BY AppendFacts
<1> QED
  BY <1>1, StartsKept DEF Follows

\* The argument j - 1, or nothing, ends where b ends.
EndsBefore(b, j) ==
    \/ Len(b) = 0 /\ j = 1
    \/ \E o \in 0 .. Len(b) - 1 : Starts(b, o) /\ After(b, o) = Len(b) /\ j = b[o + 1].k + 1

\* A chain is still one when what is appended is a chain of its own that may
\* follow what was there.
LEMMA ChainAppend ==
    ASSUME NEW b \in Seq(Byte), NEW t \in Seq(Byte), Chain(b),
           \A j \in 1 .. NArgs + 1 : EndsBefore(b, j) => Follows(b \o t, Len(b), j),
           \A o \in Len(b) .. Len(b \o t) - 1 : Starts(b \o t, o) =>
                /\ Whole(b \o t, o)
                /\ After(b \o t, o) <= Len(b \o t)
                /\ Follows(b \o t, After(b \o t, o), (b \o t)[o + 1].k + 1)
    PROVE  Chain(b \o t)
<1>0. /\ Len(b) \in Nat /\ Len(b \o t) \in Nat /\ Len(b) <= Len(b \o t)
      /\ NArgs \in Nat /\ b \o t \in Seq(Byte)
  BY AppendFacts, FileFacts
<1>1. Follows(b \o t, 0, 1)
  <2>1. CASE Len(b) = 0
    <3>1. EndsBefore(b, 1)
      BY <2>1 DEF EndsBefore
    <3>2. 1 \in 1 .. NArgs + 1
      BY <1>0
    <3> QED
      BY <2>1, <3>1, <3>2
  <2>2. CASE Len(b) # 0
    <3>1. 0 \in 0 .. Len(b) - 1
      BY <1>0, <2>2
    <3> QED
      BY <3>1, FollowsKept DEF Chain
  <2> QED
    BY <2>1, <2>2
<1>2. ASSUME NEW o \in 0 .. Len(b \o t) - 1, Starts(b \o t, o)
      PROVE  /\ Whole(b \o t, o)
             /\ After(b \o t, o) <= Len(b \o t)
             /\ Follows(b \o t, After(b \o t, o), (b \o t)[o + 1].k + 1)
  <2>1. CASE o \in Len(b) .. Len(b \o t) - 1
    BY <1>2, <2>1
  <2>2. CASE o \in 0 .. Len(b) - 1
    <3>1. /\ Starts(b, o) /\ After(b \o t, o) = After(b, o)
          /\ (b \o t)[o + 1] = b[o + 1]
      BY <1>2, <2>2, StartsKept
    <3>2. Whole(b, o) /\ After(b, o) <= Len(b) /\ Follows(b, After(b, o), b[o + 1].k + 1)
      BY <2>2, <3>1 DEF Chain
    <3>3. Whole(b \o t, o)
      BY <2>2, <3>1, <3>2, WholeKept
    <3>4. /\ b[o + 1].k \in 1 .. NArgs /\ After(b, o) \in Nat
      BY <2>2, <3>1, ByteFacts DEF Starts
    <3>5. After(b \o t, o) <= Len(b \o t)
      BY <1>0, <3>1, <3>2, <3>4
    <3>6. CASE After(b, o) = Len(b)
      <4>1. b[o + 1].k + 1 \in 1 .. NArgs + 1
        BY SMTT(30), <1>0, <3>4
      <4>2. EndsBefore(b, b[o + 1].k + 1)
        BY <2>2, <3>1, <3>6 DEF EndsBefore
      <4> QED
        BY <3>1, <3>3, <3>5, <3>6, <4>1, <4>2
    <3>7. CASE After(b, o) # Len(b)
      <4>1. After(b, o) \in 0 .. Len(b) - 1
        BY <1>0, <3>2, <3>4, <3>7
      <4>2. Follows(b \o t, After(b, o), b[o + 1].k + 1)
        BY <3>2, <4>1, FollowsKept
      <4> QED
        BY <3>1, <3>3, <3>5, <4>2
    <3> QED
      BY <3>6, <3>7
  <2> QED
    BY <1>0, <2>1, <2>2
<1> QED
  BY <1>1, <1>2 DEF Chain

-----------------------------------------------------------------------------
(* What the script appends.                                                *)

LEMMA FunctionIsSeq ==
    ASSUME NEW S, NEW m \in Nat, NEW g \in [1..m -> S]
    PROVE  g \in Seq(S) /\ Len(g) = m
OBVIOUS

LEMMA ZerosFacts ==
    ASSUME NEW m \in Nat
    PROVE  /\ Zeros(m) \in Seq(Byte) /\ Len(Zeros(m)) = m
           /\ \A i \in 1..m : Zeros(m)[i] = Zero
<1>1. \A i \in 1..m : Zeros(m)[i] = Zero
  BY DEF Zeros
<1>2. Zeros(m) \in Seq(Byte) /\ Len(Zeros(m)) = m
  BY ZeroFacts DEF Zeros
<1> QED
  BY <1>1, <1>2

\* A padded file is its blob, from the first byte to the last, and zeros.
LEMMA ContentsFacts ==
    ASSUME disk \in [Files -> [ver : 1..MaxVersion, pad : 0..3]],
           NEW k \in 1 .. NArgs, NEW f, f = Inputs[k],
           NEW s, s = Size[f][disk[f].ver]
    PROVE  /\ f \in Files /\ disk[f].ver \in 1..MaxVersion /\ disk[f].pad \in 0..3
           /\ s \in Nat /\ s >= 8 /\ FileSize(f) = s + disk[f].pad
           /\ Contents(k) \in Seq(Byte) /\ Len(Contents(k)) = FileSize(f)
           /\ \A i \in 1 .. s : Contents(k)[i] = [k |-> k, v |-> disk[f].ver, i |-> i]
           /\ \A i \in s + 1 .. FileSize(f) : Contents(k)[i] = Zero
<1>1. f \in Files /\ disk[f].ver \in 1..MaxVersion /\ disk[f].pad \in 0..3
  BY FileFacts
<1>2. s \in Nat /\ s >= 8 /\ FileSize(f) = s + disk[f].pad
  BY <1>1, FileFacts DEF FileSize
<1> DEFINE blob == [i \in 1..s |-> [k |-> k, v |-> disk[f].ver, i |-> i]]
           zeros == Zeros(disk[f].pad)
<1>3. Contents(k) = blob \o zeros
  BY SMTT(30) DEF Contents
<1>4. ASSUME NEW i \in 1..s PROVE blob[i] \in Byte
  <2> DEFINE x == [k |-> k, v |-> disk[f].ver, i |-> i]
  <2>1. blob[i] = x
    OBVIOUS
  <2>2. x \in [k : 1..Len(Inputs), v : 1..MaxVersion, i : Nat \ {0}]
    BY <1>1, <1>2 DEF NArgs
  <2>3. x.i <= Size[Inputs[x.k]][x.v]
    BY <1>2
  <2> QED
    BY ZenonT(30), <2>1, <2>2, <2>3 DEF Byte
<1>5. blob \in Seq(Byte) /\ Len(blob) = s
  <2>1. blob \in [1..s -> Byte]
    BY <1>4
  <2> HIDE DEF blob
  <2> QED
    BY <1>2, <2>1, FunctionIsSeq
<1>6. /\ zeros \in Seq(Byte) /\ Len(zeros) = disk[f].pad
      /\ \A i \in 1 .. disk[f].pad : zeros[i] = Zero
  <2> DEFINE p == disk[f].pad
  <2>1. p \in Nat
    BY <1>1
  <2> HIDE DEF p
  <2>2. /\ Zeros(p) \in Seq(Byte) /\ Len(Zeros(p)) = p
        /\ \A i \in 1..p : Zeros(p)[i] = Zero
    BY <2>1, ZerosFacts
  <2> QED
    BY <2>2 DEF p
<1>7. \A i \in 1..s : blob[i] = [k |-> k, v |-> disk[f].ver, i |-> i]
  OBVIOUS
<1> HIDE DEF blob, zeros
<1>8. Contents(k) \in Seq(Byte) /\ Len(Contents(k)) = FileSize(f)
  BY <1>2, <1>3, <1>5, <1>6, AppendFacts
<1>9. \A i \in 1 .. s : Contents(k)[i] = blob[i]
  BY <1>3, <1>5, <1>6, AppendFacts
<1>10. ASSUME NEW i \in s + 1 .. FileSize(f) PROVE Contents(k)[i] = Zero
  <2> DEFINE j == i - s
  <2>1. j \in 1 .. disk[f].pad /\ i = s + j
    BY <1>1, <1>2
  <2> HIDE DEF j
  <2>2. \A q \in 1 .. Len(zeros) : (blob \o zeros)[Len(blob) + q] = zeros[q]
    BY <1>5, <1>6, AppendFacts
  <2> QED
    BY <1>3, <1>5, <1>6, <2>1, <2>2
<1> QED
  BY ZenonT(30), <1>1, <1>2, <1>7, <1>8, <1>9, <1>10

\* The next argument continues the chain, and is where it ends now.
LEMMA ContentsChain ==
    ASSUME disk \in [Files -> [ver : 1..MaxVersion, pad : 0..3]],
           NEW k \in 1 .. NArgs, FileSize(Inputs[k]) % 4 = 0,
           NEW b \in Seq(Byte), Chain(b), k = 1 \/ Ends(b, k)
    PROVE  Chain(b \o Contents(k)) /\ Ends(b \o Contents(k), k + 1)
<1> DEFINE f == Inputs[k]
           s == Size[f][disk[f].ver]
           t == Contents(k)
           c == b \o t
<1>1. /\ f \in Files /\ disk[f].ver \in 1..MaxVersion /\ disk[f].pad \in 0..3
      /\ s \in Nat /\ s >= 8 /\ FileSize(f) = s + disk[f].pad
      /\ t \in Seq(Byte) /\ Len(t) = FileSize(f)
      /\ \A i \in 1 .. s : t[i] = [k |-> k, v |-> disk[f].ver, i |-> i]
      /\ \A i \in s + 1 .. FileSize(f) : t[i] = Zero
  BY ZenonT(30), ContentsFacts
<1>2. /\ c \in Seq(Byte) /\ Len(b) \in Nat /\ Len(t) \in Nat /\ Len(c) = Len(b) + Len(t)
      /\ \A i \in 1 .. Len(t) : c[Len(b) + i] = t[i]
  BY <1>1, AppendFacts
<1> DEFINE size == FileSize(f)
<1>3. size % 4 = 0 /\ size = s + disk[f].pad /\ Len(t) = size
  BY <1>1
<1>0. c = b \o t
  OBVIOUS
<1>00. \A o \in 0 .. Len(b) - 1 :
          /\ Starts(c, o) <=> Starts(b, o)
          /\ After(c, o) = After(b, o) /\ c[o + 1] = b[o + 1]
  BY <1>1, StartsKept
<1> HIDE DEF f, s, t, c, size
<1> DEFINE first == [k |-> k, v |-> disk[f].ver, i |-> 1]
<1>4. c[Len(b) + 1] = first /\ first.i = 1 /\ first.k = k /\ first.v = disk[f].ver
  <2>1. 1 \in 1..s /\ 1 \in 1 .. Len(t)
    BY <1>1, <1>3
  <2>2. t[1] = first
    BY <1>1, <2>1
  <2>3. c[Len(b) + 1] = t[1]
    BY <1>2, <2>1
  <2> QED
    BY <2>2, <2>3
<1>5. SizeOf(c, Len(b)) = s
  BY <1>4 DEF SizeOf, s, f
<1>6. ASSUME NEW o \in Len(b) .. Len(c) - 1, Starts(c, o)
      PROVE  o = Len(b)
  <2> DEFINE p == o - Len(b) + 1
  <2>1. p \in 1 .. Len(t) /\ o + 1 = Len(b) + p /\ (p = 1 => o = Len(b))
    BY <1>2
  <2> HIDE DEF p
  <2>2. c[o + 1] = t[p]
    BY <1>2, <2>1
  <2>3. t[p].i = 1
    BY <1>6, <2>2 DEF Starts
  <2>4. CASE p \in 1..s
    <3>1. t[p] = [k |-> k, v |-> disk[f].ver, i |-> p]
      BY <1>1, <2>4
    <3> QED
      BY <2>1, <2>3, <3>1
  <2>5. CASE p \in s + 1 .. FileSize(f)
    BY <1>1, <2>3, <2>5, ZeroFacts
  <2>6. p \in 1..s \/ p \in s + 1 .. FileSize(f)
    BY <1>1, <1>2, <2>1
  <2> QED
    BY <2>4, <2>5, <2>6
<1>7. ASSUME Len(b) % 4 = 0
      PROVE  /\ Starts(c, Len(b)) /\ Whole(c, Len(b)) /\ After(c, Len(b)) = Len(c)
  <2>1. Starts(c, Len(b))
    <3>1. Len(b) \in 0 .. Len(c) - 1
      BY SMTT(30), <1>1, <1>2, <1>3
    <3> QED
      BY <1>4, <1>7, <3>1 DEF Starts
  <2>2. Whole(c, Len(b))
    <3>1. Len(b) + s <= Len(c)
      BY <1>1, <1>2, <1>3
    <3>2. ASSUME NEW i \in 1..s
          PROVE  c[Len(b) + i] = [k |-> k, v |-> disk[f].ver, i |-> i]
      <4>1. i \in 1 .. Len(t)
        BY <1>1, <1>3
      <4>2. c[Len(b) + i] = t[i]
        BY <1>2, <4>1
      <4> QED
        BY <1>1, <4>2
    <3> QED
      BY <1>4, <1>5, <3>1, <3>2 DEF Whole
  <2>3. After(c, Len(b)) = Len(c)
    <3>1. /\ Len(c) \in Nat /\ Len(b) + s \in Nat
          /\ Len(b) + s <= Len(c) /\ Len(c) <= Len(b) + s + 3
      BY SMTT(30), <1>1, <1>2, <1>3
    <3>2. Len(c) % 4 = 0
      BY ZenonT(30), <1>1, <1>2, <1>3, <1>7, SumAligned
    <3>3. Aligned(Len(b) + s) = Len(c)
      BY <3>1, <3>2, AlignedSame
    <3> QED
      BY <1>5, <3>3 DEF After
  <2> QED
    BY <2>1, <2>2, <2>3
<1>8. ASSUME NEW j \in 1 .. NArgs + 1, EndsBefore(b, j)
      PROVE  Follows(c, Len(b), j)
  <2>1. Len(b) % 4 = 0 /\ k \in {1, j}
    <3>1. CASE Len(b) = 0 /\ j = 1
      BY <3>1 DEF Ends
    <3>2. ASSUME NEW o \in 0 .. Len(b) - 1, Starts(b, o), After(b, o) = Len(b),
                 j = b[o + 1].k + 1
          PROVE  Len(b) % 4 = 0 /\ k \in {1, j}
      <4>1. Len(b) % 4 = 0
        BY <3>2, ByteFacts DEF Starts
      <4>2. k = 1 \/ k = j
        BY <3>2 DEF Ends
      <4> QED
        BY <4>1, <4>2
    <3> QED
      BY <1>8, <3>1, <3>2 DEF EndsBefore
  <2>2. Starts(c, Len(b))
    BY <1>7, <2>1
  <2> QED
    BY <1>4, <2>1, <2>2 DEF Follows
<1>9. ASSUME NEW o \in Len(b) .. Len(c) - 1, Starts(c, o)
      PROVE  /\ Whole(c, o)
             /\ After(c, o) <= Len(c)
             /\ Follows(c, After(c, o), c[o + 1].k + 1)
  <2>1. o = Len(b) /\ Len(b) % 4 = 0
    BY <1>6, <1>9 DEF Starts
  <2>2. Whole(c, o) /\ After(c, o) = Len(c)
    BY <1>7, <2>1
  <2>3. Len(c) \in Nat
    BY <1>2
  <2> QED
    BY <2>2, <2>3 DEF Follows
<1>10. Chain(c)
  BY <1>0, <1>1, <1>8, <1>9, ChainAppend
<1>11. Ends(c, k + 1)
  <2>1. Len(c) # 0
    BY <1>1, <1>2, <1>3
  <2>2. ASSUME NEW o \in 0 .. Len(c) - 1, Starts(c, o), After(c, o) = Len(c)
        PROVE  k + 1 = c[o + 1].k + 1
    <3>1. CASE o \in 0 .. Len(b) - 1
      <4>1. Starts(b, o) /\ After(b, o) = Len(c)
        BY <1>00, <2>2, <3>1
      <4>2. After(b, o) <= Len(b)
        BY <3>1, <4>1 DEF Chain
      <4> QED
        BY SMTT(30), <1>1, <1>2, <1>3, <4>1, <4>2
    <3>2. CASE o \in Len(b) .. Len(c) - 1
      BY <1>4, <1>6, <2>2, <3>2
    <3> QED
      BY <1>2, <3>1, <3>2
  <2> QED
    BY <2>1, <2>2 DEF Ends
<1> QED
  BY <1>10, <1>11 DEF c, t

\* Zeros behind the last argument end the chain, however many there are.
LEMMA ZerosChain ==
    ASSUME NEW m \in Nat, NEW b \in Seq(Byte), Chain(b), Ends(b, NArgs + 1)
    PROVE  /\ Chain(b \o Zeros(m))
           /\ m >= 8 => Closed(b \o Zeros(m))
<1> DEFINE t == Zeros(m)
           c == b \o t
<1>1. t \in Seq(Byte) /\ Len(t) = m /\ \A i \in 1..m : t[i] = Zero
  BY ZerosFacts
<1>0. /\ c \in Seq(Byte) /\ Len(b) \in Nat /\ Len(c) = Len(b) + Len(t)
      /\ \A i \in 1 .. Len(t) : c[Len(b) + i] = t[i]
  BY <1>1, AppendFacts
<1>3. \A o \in 0 .. Len(b) - 1 : (Starts(c, o) <=> Starts(b, o)) /\ After(c, o) = After(b, o)
  BY <1>1, StartsKept
<1>4. c = b \o t
  OBVIOUS
<1> HIDE DEF t, c
<1>2. /\ c \in Seq(Byte) /\ Len(b) \in Nat /\ Len(c) = Len(b) + m
      /\ \A i \in 1..m : c[Len(b) + i] = t[i]
  BY <1>0, <1>1
<1>5. ASSUME NEW o \in Len(b) .. Len(c) - 1
      PROVE  c[o + 1] = Zero /\ ~Starts(c, o)
  <2> DEFINE p == o - Len(b) + 1
  <2>1. p \in 1..m /\ o + 1 = Len(b) + p
    BY <1>2
  <2> HIDE DEF p
  <2>2. c[o + 1] = Zero
    BY <1>1, <1>2, <2>1
  <2> QED
    BY <2>2, ZeroFacts DEF Starts
<1>6. ASSUME NEW j \in 1 .. NArgs + 1, EndsBefore(b, j)
      PROVE  Follows(c, Len(b), j)
  <2>1. j = NArgs + 1
    BY <1>6 DEF EndsBefore, Ends
  <2>2. CASE m = 0
    BY <1>2, <2>2 DEF Follows
  <2>3. CASE m # 0
    <3>1. Len(b) \in 0 .. Len(c) - 1 /\ Len(b) \in Len(b) .. Len(c) - 1
      BY <1>2, <2>3
    <3> QED
      BY <1>5, <2>1, <3>1 DEF Follows
  <2> QED
    BY <2>2, <2>3
<1>7. Chain(c)
  BY <1>1, <1>4, <1>5, <1>6, ChainAppend
<1>8. ASSUME m >= 8 PROVE Closed(c)
  <2>1. Len(c) >= 8
    BY <1>2, <1>8
  <2>2. ASSUME NEW o \in 0 .. Len(c) - 1, Starts(c, o)
        PROVE  After(c, o) + 8 <= Len(c)
    <3>1. o \in 0 .. Len(b) - 1
      BY <1>2, <1>5, <2>2
    <3>2. Starts(b, o) /\ After(c, o) = After(b, o)
      BY <1>3, <2>2, <3>1
    <3>3. After(b, o) <= Len(b) /\ After(b, o) \in Nat
      BY <3>1, <3>2, ByteFacts DEF Chain, Starts
    <3> QED
      BY <1>2, <1>8, <3>2, <3>3
  <2> QED
    BY <2>1, <2>2 DEF Closed
<1> QED
  BY <1>7, <1>8 DEF c, t

LEMMA EmptyChain == <<>> \in Seq(Byte) /\ Chain(<<>>)
<1>1. <<>> \in Seq(Byte) /\ Len(<<>>) = 0
  BY EmptySeq
<1> QED
  BY <1>1 DEF Chain, Follows

\* Versions on disk stay in an archive that gets them from there.
LEMMA FreshAppend ==
    ASSUME NEW b \in Seq(Byte), NEW t \in Seq(Byte), NEW g,
           Fresh(b, g), Fresh(t, g)
    PROVE  Fresh(b \o t, g)
<1>1. /\ Len(b) \in Nat /\ Len(t) \in Nat /\ Len(b \o t) = Len(b) + Len(t)
      /\ \A i \in 1 .. Len(b) : (b \o t)[i] = b[i]
      /\ \A i \in 1 .. Len(t) : (b \o t)[Len(b) + i] = t[i]
  BY AppendFacts
<1>2. ASSUME NEW p \in 1 .. Len(b \o t), (b \o t)[p] # Zero
      PROVE  (b \o t)[p].v = g[Inputs[(b \o t)[p].k]].ver
  <2>1. CASE p \in 1 .. Len(b)
    BY <1>1, <1>2, <2>1 DEF Fresh
  <2>2. CASE p \in Len(b) + 1 .. Len(b) + Len(t)
    <3> DEFINE q == p - Len(b)
    <3>1. q \in 1 .. Len(t) /\ p = Len(b) + q
      BY <1>1, <2>2
    <3> HIDE DEF q
    <3>2. (b \o t)[p] = t[q]
      BY <1>1, <3>1
    <3> QED
      BY <1>2, <3>1, <3>2 DEF Fresh
  <2> QED
    BY <1>1, <2>1, <2>2
<1> QED
  BY <1>2 DEF Fresh

LEMMA ContentsFresh ==
    ASSUME disk \in [Files -> [ver : 1..MaxVersion, pad : 0..3]], NEW k \in 1 .. NArgs
    PROVE  Contents(k) \in Seq(Byte) /\ Fresh(Contents(k), disk)
<1> DEFINE f == Inputs[k]
           s == Size[f][disk[f].ver]
           t == Contents(k)
<1>1. /\ f \in Files /\ disk[f].ver \in 1..MaxVersion /\ disk[f].pad \in 0..3
      /\ s \in Nat /\ s >= 8 /\ FileSize(f) = s + disk[f].pad
      /\ t \in Seq(Byte) /\ Len(t) = FileSize(f)
      /\ \A i \in 1 .. s : t[i] = [k |-> k, v |-> disk[f].ver, i |-> i]
      /\ \A i \in s + 1 .. FileSize(f) : t[i] = Zero
  BY ContentsFacts
<1>2. f = Inputs[k]
  OBVIOUS
<1> HIDE DEF f, s, t
<1>3. ASSUME NEW p \in 1 .. Len(t), t[p] # Zero
      PROVE  t[p].v = disk[Inputs[t[p].k]].ver
  <2>1. p \in 1..s
    BY <1>1, <1>3
  <2>2. t[p] = [k |-> k, v |-> disk[f].ver, i |-> p]
    BY <1>1, <2>1
  <2> QED
    BY <1>2, <2>2
<1>4. Fresh(t, disk)
  BY <1>3 DEF Fresh
<1> QED
  BY <1>1, <1>4 DEF t

LEMMA ZerosFresh ==
    ASSUME NEW m \in Nat, NEW g
    PROVE  Fresh(Zeros(m), g)
BY ZerosFacts DEF Fresh

-----------------------------------------------------------------------------
(* The files on disk.                                                      *)

DiskOK == disk \in [Files -> [ver : 1..MaxVersion, pad : 0..3]]

\* A file of any size that is padded any number of times, completely or not,
\* gets no more than the bytes that are missing in its last word.
LEMMA PadFacts ==
    ASSUME NEW s \in Nat, NEW p \in 0..3, p > 0 => Fits(s, p), NEW m \in 0 .. Pad(s + p)
    PROVE  /\ p + m \in 0..3
           /\ p + m > 0 => Fits(s, p + m)
           /\ m = Pad(s + p) => (s + (p + m)) % 4 = 0
<1>1. PICK q \in Nat, r \in 0..3 : s = 4 * q + r
  <2>1. s = 4 * (s \div 4) + (s % 4) /\ s \div 4 \in Nat /\ s % 4 \in 0..3
    OBVIOUS
  <2> QED
    BY <2>1
<1>2. s % 4 = r
  BY <1>1
<1>3. CASE r = 0
  <2>1. p = 0 /\ s % 4 = 0
    BY <1>2, <1>3 DEF Fits
  <2>2. m = 0
    BY <2>1 DEF Pad
  <2>3. p + m = 0 /\ s + (p + m) = s
    BY <2>1, <2>2
  <2> QED
    BY <2>1, <2>3
<1>4. CASE r # 0 /\ r + p = 4
  <2>1. (s + p) % 4 = 0
    BY <1>1, <1>4
  <2>2. m = 0
    BY <2>1 DEF Pad
  <2>3. p + m = p /\ s + (p + m) = s + p
    BY <2>2
  <2>4. Fits(s, p + m)
    BY <1>2, <1>4, <2>3 DEF Fits
  <2> QED
    BY <2>1, <2>3, <2>4
<1>5. CASE r # 0 /\ r + p # 4
  <2>1. r + p \in 1..3 /\ s + p = 4 * q + (r + p)
    BY <1>1, <1>2, <1>5 DEF Fits
  <2>2. (s + p) % 4 = r + p
    BY <1>1, <2>1
  <2>3. m \in 0 .. 4 - (r + p) /\ Pad(s + p) = 4 - (r + p)
    BY <2>1, <2>2 DEF Pad
  <2>4. p + m \in 0..3 /\ r + (p + m) <= 4
    BY <1>5, <2>1, <2>3
  <2>5. Fits(s, p + m)
    BY <1>2, <1>5, <2>4 DEF Fits
  <2>6. m = Pad(s + p) => s + (p + m) = 4 * (q + 1)
    BY <1>1, <2>1, <2>3
  <2>7. (4 * (q + 1)) % 4 = 0
    OBVIOUS
  <2> QED
    BY <2>4, <2>5, <2>6, <2>7
<1> QED
  BY <1>3, <1>4, <1>5

LEMMA PadFileFacts ==
    ASSUME DiskOK, PadInv, NEW f \in Files, NEW m \in 0 .. Pad(FileSize(f)), PadFile(f, m)
    PROVE  /\ DiskOK' /\ PadInv'
           /\ \A g \in Files : disk'[g].ver = disk[g].ver
           /\ \A g \in Files : g # f => FileSize(g)' = FileSize(g)
           /\ m = Pad(FileSize(f)) => FileSize(f)' % 4 = 0
<1> DEFINE s == Size[f][disk[f].ver]
           p == disk[f].pad
<1>1. /\ disk[f].ver \in 1..MaxVersion /\ p \in 0..3 /\ s \in Nat
      /\ p > 0 => Fits(s, p)
      /\ FileSize(f) = s + p
  BY FileFacts DEF DiskOK, PadInv, FileSize
<1>2. /\ disk'[f] = [ver |-> disk[f].ver, pad |-> p + m]
      /\ \A g \in Files : g # f => disk'[g] = disk[g]
      /\ DOMAIN disk' = Files
  <2>1. disk[f] \in [ver : 1..MaxVersion, pad : 0..3] /\ DOMAIN disk = Files
    BY DEF DiskOK
  <2>2. [disk[f] EXCEPT !.pad = p + m] = [ver |-> disk[f].ver, pad |-> p + m]
    BY <2>1
  <2>3. disk' = [disk EXCEPT ![f] = [disk[f] EXCEPT !.pad = p + m]]
    BY DEF PadFile
  <2> QED
    BY <2>1, <2>2, <2>3
<1>3. disk'[f].ver = disk[f].ver /\ disk'[f].pad = p + m
  BY <1>2
<1> HIDE DEF s, p
<1>4. /\ p + m \in 0..3
      /\ p + m > 0 => Fits(s, p + m)
      /\ m = Pad(s + p) => (s + (p + m)) % 4 = 0
  BY <1>1, PadFacts
<1>5. DiskOK'
  <2>1. [ver |-> disk[f].ver, pad |-> p + m] \in [ver : 1..MaxVersion, pad : 0..3]
    BY <1>1, <1>4
  <2>2. \A g \in Files : disk'[g] \in [ver : 1..MaxVersion, pad : 0..3]
    BY <1>2, <2>1 DEF DiskOK
  <2>3. disk' \in [Files -> [ver : 1..MaxVersion, pad : 0..3]]
    <3>1. disk' = [g \in Files |-> disk'[g]]
      BY DEF DiskOK, PadFile
    <3> QED
      BY <2>2, <3>1
  <2> QED
    BY <2>3 DEF DiskOK
<1>6. \A g \in Files : disk'[g].ver = disk[g].ver
  BY <1>2, <1>3
<1>7. Size[f][disk'[f].ver] = s
  BY <1>3 DEF s
<1>8. PadInv'
  <2>1. ASSUME NEW g \in Files, disk'[g].pad > 0
        PROVE  Fits(Size[g][disk'[g].ver], disk'[g].pad)
    <3>1. CASE g = f
      BY <1>3, <1>4, <1>7, <2>1, <3>1
    <3>2. CASE g # f
      BY <1>2, <2>1, <3>2 DEF PadInv
    <3> QED
      BY <3>1, <3>2
  <2> QED
    BY <2>1 DEF PadInv
<1>9. \A g \in Files : g # f => FileSize(g)' = FileSize(g)
  BY <1>2 DEF FileSize
<1>10. FileSize(f)' = s + (p + m)
  BY <1>3, <1>7 DEF FileSize
<1> QED
  BY <1>1, <1>4, <1>5, <1>6, <1>8, <1>9, <1>10

-----------------------------------------------------------------------------
(* The steps.                                                              *)

\* The disjuncts of Next, one by one.
LEMMA NextCases ==
    ASSUME [Next]_vars
    PROVE  \/ \E f \in Files : Edit(f)
           \/ Make \/ pad \/ cat \/ dd \/ objcopy \/ Interrupt \/ Clean
           \/ \E s \in Compats : StartFind(s)
           \/ find_dtb \/ Reset \/ UNCHANGED vars
BY DEF Next

LEMMA EditDisk ==
    ASSUME TypeOK, PadInv, NEW f \in Files, Edit(f)
    PROVE  DiskOK' /\ PadInv'
<1>1. /\ disk[f].ver + 1 \in 1..MaxVersion /\ disk \in [Files -> [ver : 1..MaxVersion, pad : 0..3]]
  BY InputsAssumption DEF Edit, TypeOK
<1> DEFINE x == [ver |-> disk[f].ver + 1, pad |-> 0]
<1>2. disk' = [disk EXCEPT ![f] = x] /\ x \in [ver : 1..MaxVersion, pad : 0..3] /\ x.pad = 0
  BY <1>1 DEF Edit
<1> HIDE DEF x
<1>3. DiskOK'
  BY <1>1, <1>2 DEF DiskOK
<1>4. \A g \in Files : disk'[g] = disk[g] \/ disk'[g].pad = 0
  BY <1>1, <1>2
<1>5. PadInv'
  <2>1. ASSUME NEW g \in Files, disk'[g].pad > 0
        PROVE  Fits(Size[g][disk'[g].ver], disk'[g].pad)
    <3>1. disk'[g] = disk[g]
      BY <1>4, <2>1
    <3> QED
      BY <2>1, <3>1 DEF PadInv
  <2> QED
    BY <2>1 DEF PadInv
<1> QED
  BY <1>3, <1>5

\* In every step that changes a file, it is padded or compiled.
LEMMA DiskStep ==
    ASSUME TypeOK, PadInv, [Next]_vars
    PROVE  DiskOK' /\ PadInv'
<1>1. DiskOK
  BY DEF TypeOK, DiskOK
<1>2. CASE disk' = disk
  BY <1>1, <1>2 DEF DiskOK, PadInv
<1>3. ASSUME NEW f \in Files, NEW m \in 0 .. Pad(FileSize(f)), PadFile(f, m)
      PROVE  DiskOK' /\ PadInv'
  BY <1>1, <1>3, PadFileFacts
<1>4. CASE step = "pad" /\ arg <= Len(Inputs)
  <2>1. arg \in 1 .. NArgs
    BY <1>4, FileFacts DEF TypeOK, NArgs
  <2>2. Inputs[arg] \in Files
    BY <2>1, FileFacts
  <2>3. Pad(FileSize(Inputs[arg])) \in 0 .. Pad(FileSize(Inputs[arg]))
    <3>1. FileSize(Inputs[arg]) \in Nat
      <4>1. disk[Inputs[arg]].ver \in 1..MaxVersion /\ disk[Inputs[arg]].pad \in 0..3
        BY <1>1, <2>2 DEF DiskOK
      <4> QED
        BY <2>2, <4>1, FileFacts DEF FileSize
    <3> QED
      BY <3>1 DEF Pad
  <2>4. CASE pad
    <3>1. PadFile(Inputs[arg], Pad(FileSize(Inputs[arg])))
      <4>1. arg \in Nat /\ Len(Inputs) \in Nat
        BY FileFacts DEF TypeOK, NArgs
      <4> QED
        BY <1>4, <2>4, <4>1 DEF pad
    <3> QED
      BY <1>3, <2>2, <2>3, <3>1
  <2>5. CASE Interrupt
    <3>1. \E m \in 0 .. Pad(FileSize(Inputs[arg])) : PadFile(Inputs[arg], m)
      BY <1>4, <2>5 DEF Interrupt
    <3> QED
      BY <1>3, <2>2, <3>1
  <2>6. CASE ~pad /\ ~Interrupt
    <3>1. disk' = disk
      BY <1>4, <2>6, NextCases
         DEF Edit, Make, cat, dd, objcopy, Clean, StartFind, find_dtb, Reset, buildVars, vars
    <3> QED
      BY <1>2, <3>1
  <2> QED
    BY <2>4, <2>5, <2>6
<1>5. CASE ~(step = "pad" /\ arg <= Len(Inputs))
  <2>1. CASE \E f \in Files : Edit(f)
    BY <2>1, EditDisk
  <2>2. CASE ~\E f \in Files : Edit(f)
    <3>1. arg \in Nat /\ Len(Inputs) \in Nat
      BY FileFacts DEF TypeOK, NArgs
    <3>2. disk' = disk
      BY <1>5, <2>2, <3>1, NextCases
         DEF Make, pad, cat, dd, objcopy, Interrupt, Clean, StartFind, find_dtb, Reset,
             buildVars, vars
    <3> QED
      BY <1>2, <3>2
  <2> QED
    BY <2>1, <2>2
<1> QED
  BY <1>4, <1>5

\* A byte with index 1 is the first of a blob, wherever it is.
LEMMA AtFacts ==
    ASSUME obj \in Seq(Byte), NEW a \in Nat, IsMagic(a)
    PROVE  /\ a - Base \in 0 .. Len(obj) - 1 /\ a = Base + (a - Base)
           /\ At(a) = obj[(a - Base) + 1] /\ obj[(a - Base) + 1].i = 1
           /\ totalsize(a) = SizeOf(obj, a - Base)
           /\ At(a).k \in 1 .. NArgs
           /\ totalsize(a) \in Nat
           /\ Aligned(a + totalsize(a)) = Base + After(obj, a - Base)
<1>0. Base \in Nat /\ Len(obj) \in Nat
  BY BaseAssumption
<1>1. a \in Base .. End - 1
  BY ZeroFacts DEF IsMagic, At
<1>2. a - Base \in 0 .. Len(obj) - 1 /\ a = Base + (a - Base) /\ (a - Base) + 1 = a - Base + 1
  BY <1>0, <1>1 DEF End
<1>3. At(a) = obj[(a - Base) + 1] /\ obj[(a - Base) + 1].i = 1
  BY <1>1, <1>2 DEF At, IsMagic
<1>4. totalsize(a) = SizeOf(obj, a - Base)
  BY <1>3 DEF totalsize, SizeOf
<1>5. At(a).k \in 1 .. NArgs /\ totalsize(a) \in Nat
  BY <1>2, <1>3, <1>4, ByteFacts
<1>6. Aligned(a + totalsize(a)) = Base + After(obj, a - Base)
  <2> DEFINE o == a - Base
             s == totalsize(a)
  <2>1. o \in Nat /\ s \in Nat /\ a + s = Base + (o + s) /\ o + s \in Nat
    BY <1>0, <1>2, <1>5
  <2>2. After(obj, o) = Aligned(o + s)
    BY <1>4 DEF After
  <2> HIDE DEF o, s
  <2>3. Aligned(a + s) = Base + Aligned(o + s)
    BY <2>1, AlignedOffset
  <2> QED
    BY <2>2, <2>3 DEF o, s
<1> QED
  BY <1>2, <1>3, <1>4, <1>5, <1>6

LEMMA TypeStep ==
    ASSUME TypeOK, PadInv, [Next]_vars
    PROVE  TypeOK'
<1>0. /\ bin \in Seq(Byte) /\ obj \in Seq(Byte) /\ arg \in 1 .. Len(Inputs) + 1
      /\ Len(Inputs) \in Nat /\ runs \in 0..MaxRuns /\ MaxRuns \in Nat
      /\ NArgs = Len(Inputs) /\ DiskOK /\ d \in Nat /\ Base \in Nat
  BY FileFacts, InputsAssumption, BaseAssumption DEF TypeOK, NArgs, DiskOK
<1>1. disk' \in [Files -> [ver : 1..MaxVersion, pad : 0..3]]
  BY DiskStep DEF DiskOK
<1>2. bin' \in Seq(Byte)
  <2>1. ASSUME NEW m \in Nat PROVE bin \o Zeros(m) \in Seq(Byte)
    BY <1>0, <2>1, ZerosFacts, AppendFacts
  <2>2. ASSUME NEW k \in 1 .. NArgs PROVE bin \o Contents(k) \in Seq(Byte)
    BY <1>0, <2>2, ContentsFresh, AppendFacts DEF DiskOK
  <2>3. CASE cat
    <3>1. bin' = bin \/ (arg \in 1 .. NArgs /\ bin' = bin \o Contents(arg))
      BY <1>0, <2>3 DEF cat
    <3> QED
      BY <1>0, <2>2, <3>1
  <2>4. CASE dd
    <3>1. bin \o Zeros(8) \in Seq(Byte)
      BY <2>1
    <3> QED
      BY <2>4, <3>1 DEF dd, Sentinel
  <2>5. CASE Interrupt
    <3>1. \A m \in 0..8 : bin \o Zeros(m) \in Seq(Byte)
      BY <2>1
    <3>2. bin' = bin \/ \E m \in 0..8 : bin' = bin \o Zeros(m)
      BY <2>5 DEF Interrupt
    <3> QED
      BY <1>0, <3>1, <3>2
  <2>6. CASE Clean
    BY <2>6, EmptyChain DEF Clean
  <2>7. CASE ~cat /\ ~dd /\ ~Interrupt /\ ~Clean
    BY <1>0, <2>7, NextCases
       DEF Edit, Make, pad, objcopy, StartFind, find_dtb, Reset, buildVars, vars
  <2> QED
    BY <2>3, <2>4, <2>5, <2>6, <2>7
<1>3. obj' \in Seq(Byte)
  BY <1>0, NextCases, EmptyChain
     DEF Edit, Make, pad, cat, dd, objcopy, Interrupt, Clean, StartFind, find_dtb, Reset,
         buildVars, vars
<1>4. /\ stale' \in BOOLEAN
      /\ step' \in {"none", "pad", "cat", "dd", "objcopy"}
  BY NextCases
     DEF TypeOK, Edit, Make, pad, cat, dd, objcopy, Interrupt, Clean, StartFind, find_dtb, Reset,
         buildVars, vars
<1>8. runs' \in 0..MaxRuns
  <2>1. runs' \in {runs, 0} \/ (runs < MaxRuns /\ runs' = runs + 1)
    BY NextCases
       DEF Edit, Make, pad, cat, dd, objcopy, Interrupt, Clean, StartFind, find_dtb, Reset,
           buildVars, vars
  <2> QED
    BY <1>0, <2>1
<1>5. arg' \in 1 .. Len(Inputs) + 1
  <2>1. arg' \in {arg, 1} \/ (arg <= Len(Inputs) /\ arg' = arg + 1)
    BY NextCases
       DEF Edit, Make, pad, cat, dd, objcopy, Interrupt, Clean, StartFind, find_dtb, Reset,
           buildVars, vars
  <2> QED
    BY <1>0, <2>1
<1>6. compat' \in Compats /\ found' \in {"idle", "search", "null", "dtb"}
  BY NextCases
     DEF TypeOK, Edit, Make, pad, cat, dd, objcopy, Interrupt, Clean, StartFind, find_dtb, Reset,
         findVars, buildVars, vars
<1>7. d' \in Nat
  <2>1. CASE find_dtb
    <3>1. IsMagic(d) => Aligned(d + totalsize(d)) \in Nat
      <4> SUFFICES ASSUME IsMagic(d) PROVE Aligned(d + totalsize(d)) \in Nat
        OBVIOUS
      <4>1. totalsize(d) \in Nat
        BY <1>0, AtFacts
      <4>2. d + totalsize(d) \in Nat
        BY <1>0, <4>1
      <4> QED
        BY <4>2, AlignedFacts
    <3> QED
      BY <1>0, <2>1, <3>1 DEF find_dtb
  <2>2. CASE ~find_dtb
    BY <1>0, <2>2, NextCases
       DEF Edit, Make, pad, cat, dd, objcopy, Interrupt, Clean, StartFind, Reset,
           findVars, buildVars, vars
  <2> QED
    BY <2>1, <2>2
<1> QED
  BY <1>1, <1>2, <1>3, <1>4, <1>5, <1>6, <1>7, <1>8 DEF TypeOK

\* What has been padded in this run of the script is aligned.
LEMMA ScriptStep ==
    ASSUME TypeOK, PadInv, ScriptInv, [Next]_vars
    PROVE  ScriptInv'
<1>0. /\ arg \in 1 .. NArgs + 1 /\ NArgs \in Nat /\ NArgs = Len(Inputs) /\ DiskOK
  BY FileFacts DEF TypeOK, NArgs, DiskOK
<1>1. CASE Make
  BY <1>0, <1>1 DEF Make, ScriptInv
<1>2. CASE pad /\ arg <= Len(Inputs)
  <2>0. PICK f \in Files : f = Inputs[arg] /\ PadFile(f, Pad(FileSize(f)))
    BY <1>0, <1>2, FileFacts DEF pad
  <2> DEFINE m == Pad(FileSize(f))
  <2>1. arg \in 1 .. NArgs
    BY <1>0, <1>2
  <2>2. disk[f].ver \in 1..MaxVersion /\ disk[f].pad \in 0..3
    BY <1>0 DEF DiskOK
  <2>3. FileSize(f) \in Nat
    BY <2>2, FileFacts DEF FileSize
  <2>4. m \in 0 .. Pad(FileSize(f))
    BY <2>0, <2>3 DEF Pad
  <2>5. /\ \A g \in Files : g # f => FileSize(g)' = FileSize(g)
        /\ FileSize(f)' % 4 = 0
    BY <1>0, <2>0, <2>4, PadFileFacts
  <2>6. step' = "pad" /\ arg' = arg + 1
    BY <1>0, <1>2 DEF pad
  <2>7. ASSUME NEW k \in 1 .. arg PROVE FileSize(Inputs[k])' % 4 = 0
    <3>1. Inputs[k] \in Files
      BY <1>0, <2>1, FileFacts
    <3>2. CASE Inputs[k] = f
      BY <2>5, <3>2
    <3>3. CASE Inputs[k] # f
      <4>1. k \in 1 .. arg - 1 /\ step = "pad"
        BY <1>0, <1>2, <2>0, <3>3 DEF pad
      <4>2. FileSize(Inputs[k])' = FileSize(Inputs[k])
        BY <2>5, <3>1, <3>3
      <4> QED
        BY <4>1, <4>2 DEF ScriptInv
    <3> QED
      BY <3>2, <3>3
  <2>8. arg' - 1 = arg /\ step' # "cat"
    BY <1>0, <2>6
  <2> QED
    BY <2>7, <2>8 DEF ScriptInv
<1>3. CASE pad /\ ~(arg <= Len(Inputs))
  <2>1. arg - 1 = NArgs /\ step = "pad" /\ step' = "cat" /\ disk' = disk
    BY <1>0, <1>3 DEF pad
  <2> QED
    BY <2>1 DEF ScriptInv, FileSize
<1>4. CASE cat
  <2>1. step = "cat" /\ step' # "pad" /\ disk' = disk
    BY <1>4 DEF cat
  <2> QED
    BY <2>1 DEF ScriptInv, FileSize
<1>5. CASE dd \/ objcopy \/ Interrupt
  BY <1>5 DEF dd, objcopy, Interrupt, ScriptInv
<1>6. CASE \E f \in Files : Edit(f)
  BY <1>6 DEF Edit, ScriptInv
<1>7. CASE Clean
  BY <1>7 DEF Clean, ScriptInv
<1>8. CASE (\E s \in Compats : StartFind(s)) \/ find_dtb \/ Reset \/ UNCHANGED vars
  <2>1. disk' = disk /\ step' = step /\ arg' = arg
    BY <1>8 DEF StartFind, find_dtb, Reset, buildVars, vars
  <2> QED
    BY <2>1 DEF ScriptInv, FileSize
<1> QED
  BY <1>1, <1>2, <1>3, <1>4, <1>5, <1>6, <1>7, <1>8, NextCases

\* Whatever the script does, and wherever it is stopped, leaves a chain.
LEMMA BinStep ==
    ASSUME TypeOK, PadInv, ScriptInv, BinInv, [Next]_vars
    PROVE  BinInv'
<1>0. /\ bin \in Seq(Byte) /\ arg \in 1 .. NArgs + 1 /\ NArgs \in Nat /\ NArgs = Len(Inputs)
      /\ disk \in [Files -> [ver : 1..MaxVersion, pad : 0..3]] /\ Chain(bin)
  BY FileFacts DEF TypeOK, NArgs, BinInv
<1>1. CASE cat /\ arg <= Len(Inputs)
  <2>1. PICK k \in 1 .. NArgs : k = arg
    BY <1>0, <1>1
  <2>2. /\ bin' = bin \o Contents(k) /\ arg' = k + 1 /\ step = "cat" /\ step' = "cat"
    BY <1>0, <1>1, <2>1 DEF cat
  <2>3. FileSize(Inputs[k]) % 4 = 0 /\ (k = 1 \/ Ends(bin, k))
    BY <2>1, <2>2 DEF ScriptInv, BinInv
  <2>4. Chain(bin \o Contents(k)) /\ Ends(bin \o Contents(k), k + 1)
    BY <1>0, <2>3, ContentsChain
  <2> QED
    BY <2>2, <2>4 DEF BinInv
<1>2. CASE cat /\ ~(arg <= Len(Inputs))
  <2>1. step = "cat" /\ step' = "dd" /\ bin' = bin /\ arg = NArgs + 1
    BY <1>0, <1>2 DEF cat
  <2>2. Ends(bin, NArgs + 1)
    <3>1. CASE arg = 1
      <4>1. NArgs = 0
        BY <1>0, <2>1, <3>1
      <4>2. ASSUME NEW o \in 0 .. Len(bin) - 1, Starts(bin, o) PROVE FALSE
        <5>1. bin[o + 1].k \in 1 .. NArgs
          BY <1>0, <4>2, ByteFacts DEF Starts
        <5> QED
          BY <4>1, <5>1
      <4> QED
        BY <4>1, <4>2 DEF Ends
    <3>2. CASE arg # 1
      BY <2>1, <3>2 DEF BinInv
    <3> QED
      BY <3>1, <3>2
  <2> QED
    BY <1>0, <2>1, <2>2 DEF BinInv
<1>3. ASSUME NEW m \in Nat, step = "dd"
      PROVE  Chain(bin \o Zeros(m)) /\ (m >= 8 => Closed(bin \o Zeros(m)))
  BY <1>0, <1>3, ZerosChain DEF BinInv
<1>4. CASE dd
  <2>1. Chain(bin \o Zeros(8)) /\ Closed(bin \o Zeros(8))
    BY <1>3, <1>4 DEF dd
  <2>2. bin' = bin \o Zeros(8) /\ step' = "objcopy"
    BY <1>4 DEF dd, Sentinel
  <2> QED
    BY <2>1, <2>2 DEF BinInv
<1>5. CASE Interrupt
  <2>1. step' = "none"
    BY <1>5 DEF Interrupt
  <2>2. bin' = bin \/ (step = "dd" /\ \E m \in 0..8 : bin' = bin \o Zeros(m))
    BY <1>5 DEF Interrupt
  <2>3. Chain(bin')
    <3>1. step = "dd" => \A m \in 0..8 : Chain(bin \o Zeros(m))
      BY <1>3
    <3> QED
      BY <1>0, <2>2, <3>1
  <2> QED
    BY <2>1, <2>3 DEF BinInv
<1>6. CASE Clean
  BY <1>6, EmptyChain DEF Clean, BinInv
<1>7. CASE pad \/ Make \/ objcopy
  BY <1>0, <1>7 DEF pad, Make, objcopy, BinInv
<1>8. CASE \E f \in Files : Edit(f)
  BY <1>0, <1>8 DEF Edit, BinInv
<1>9. CASE (\E s \in Compats : StartFind(s)) \/ find_dtb \/ Reset \/ UNCHANGED vars
  BY <1>0, <1>9 DEF StartFind, find_dtb, Reset, buildVars, vars, BinInv
<1> QED
  BY <1>1, <1>2, <1>4, <1>5, <1>6, <1>7, <1>8, <1>9, NextCases

LEMMA ObjStep ==
    ASSUME BinInv, ObjInv, [Next]_vars
    PROVE  ObjInv'
<1>1. CASE objcopy
  BY <1>1 DEF objcopy, BinInv, ObjInv
<1>2. CASE Clean
  BY <1>2 DEF Clean, ObjInv
<1>3. CASE ~objcopy /\ ~Clean
  <2>1. obj' = obj
    BY <1>3, NextCases
       DEF Edit, Make, pad, cat, dd, Interrupt, StartFind, find_dtb, Reset, buildVars, vars
  <2> QED
    BY <2>1 DEF ObjInv
<1> QED
  BY <1>1, <1>2, <1>3

\* What one run of the script after a clean puts together is what is on disk.
LEMMA FreshStep ==
    ASSUME TypeOK, PadInv, FreshInv, [Next]_vars
    PROVE  FreshInv'
<1>0. /\ bin \in Seq(Byte) /\ obj \in Seq(Byte) /\ runs \in Nat
      /\ arg \in 1 .. NArgs + 1 /\ NArgs \in Nat /\ NArgs = Len(Inputs)
      /\ disk \in [Files -> [ver : 1..MaxVersion, pad : 0..3]]
  BY FileFacts, InputsAssumption DEF TypeOK, NArgs
<1>1. CASE Make
  <2>1. /\ step' = "pad" /\ stale' = stale /\ stale /\ runs' = runs + 1 /\ bin' = bin
    BY <1>1 DEF Make
  <2>2. stale' /\ runs' > 0 /\ (runs' = 1 => runs = 0)
    BY <1>0, <2>1
  <2> QED
    BY <2>1, <2>2 DEF FreshInv
<1>2. CASE pad
  <2>1. /\ step = "pad" /\ step' \in {"pad", "cat"} /\ bin' = bin /\ stale' = stale
        /\ runs' = runs
    BY <1>2 DEF pad
  <2>2. Fresh(<<>>, disk')
    BY EmptySeq DEF Fresh
  <2> QED
    BY <2>1, <2>2 DEF FreshInv
<1>3. CASE cat
  <2>1. /\ step = "cat" /\ step' \in {"cat", "dd"} /\ stale' = stale /\ runs' = runs
        /\ disk' = disk
    BY <1>3 DEF cat
  <2>2. bin' = bin \/ (arg \in 1 .. NArgs /\ bin' = bin \o Contents(arg))
    BY <1>0, <1>3 DEF cat
  <2>3. Fresh(bin, disk) => Fresh(bin', disk)
    BY <1>0, <2>2, ContentsFresh, FreshAppend
  <2>4. runs = 0 => FALSE
    BY <1>0, <2>1 DEF FreshInv
  <2> QED
    BY <2>1, <2>3, <2>4 DEF FreshInv
<1>4. CASE dd
  <2>1. /\ step = "dd" /\ step' = "objcopy" /\ stale' = stale /\ runs' = runs
        /\ disk' = disk /\ bin' = bin \o Zeros(8)
    BY <1>4 DEF dd, Sentinel
  <2>2. Zeros(8) \in Seq(Byte) /\ Fresh(Zeros(8), disk)
    BY ZerosFacts, ZerosFresh
  <2>3. Fresh(bin, disk) => Fresh(bin', disk)
    BY <1>0, <2>1, <2>2, FreshAppend
  <2>4. runs = 0 => FALSE
    BY <1>0, <2>1 DEF FreshInv
  <2> QED
    BY <2>1, <2>3, <2>4 DEF FreshInv
<1>5. CASE objcopy
  <2>1. /\ step = "objcopy" /\ step' = "none" /\ runs' = runs
        /\ disk' = disk /\ bin' = bin /\ obj' = bin
    BY <1>5 DEF objcopy
  <2> QED
    BY <2>1 DEF FreshInv
<1>6. CASE Interrupt
  <2>1. step # "none" /\ step' = "none" /\ runs' = runs /\ stale' = stale
    BY <1>6 DEF Interrupt
  <2>2. stale /\ runs > 0
    BY <2>1 DEF FreshInv
  <2>3. runs' # 0 /\ stale'
    BY <1>0, <2>1, <2>2
  <2> QED
    BY <2>1, <2>3 DEF FreshInv
<1>7. CASE \E f \in Files : Edit(f)
  <2>1. step = "none" /\ step' = "none" /\ stale' = TRUE /\ runs' = runs /\ bin' = bin
    BY <1>7 DEF Edit
  <2> QED
    BY <2>1 DEF FreshInv
<1>8. CASE Clean
  BY <1>8 DEF Clean, FreshInv
<1>9. CASE (\E s \in Compats : StartFind(s)) \/ find_dtb \/ Reset \/ UNCHANGED vars
  BY <1>9 DEF StartFind, find_dtb, Reset, buildVars, vars, FreshInv
<1> QED
  BY <1>1, <1>2, <1>3, <1>4, <1>5, <1>6, <1>7, <1>8, <1>9, NextCases

\* find_dtb() stands at the first byte of a blob or behind the last one.
LEMMA SearchPlace ==
    ASSUME obj \in Seq(Byte), d \in Nat, SearchInv, found # "idle"
    PROVE  /\ d - Base \in 0 .. Len(obj) - 1
           /\ At(d) = obj[(d - Base) + 1]
           /\ IsMagic(d) => Starts(obj, d - Base)
<1>1. Base \in Nat /\ Len(obj) \in Nat
  BY BaseAssumption
<1>2. d >= Base /\ (d - Base) % 4 = 0 /\ d - Base + 8 <= Len(obj)
  BY DEF SearchInv
<1>3. d - Base \in 0 .. Len(obj) - 1 /\ d \in Base .. End - 1 /\ (d - Base) + 1 = d - Base + 1
  BY <1>1, <1>2 DEF End
<1>4. At(d) = obj[(d - Base) + 1]
  BY <1>3 DEF At
<1> QED
  BY <1>2, <1>3, <1>4 DEF IsMagic, Starts

LEMMA SearchStep ==
    ASSUME TypeOK, ObjInv, SearchInv, [Next]_vars
    PROVE  SearchInv'
<1>0. /\ Base \in Nat /\ Base % 4 = 0 /\ NArgs \in Nat /\ obj \in Seq(Byte) /\ d \in Nat
      /\ Len(obj) \in Nat
  BY BaseAssumption, FileFacts DEF TypeOK
<1>1. ASSUME NEW s \in Compats, StartFind(s)
      PROVE  SearchInv'
  <2>1. /\ obj # <<>> /\ step = "none" /\ found' = "search" /\ compat' = s /\ d' = Base
        /\ obj' = obj /\ step' = step
    BY <1>1 DEF StartFind, buildVars
  <2>2. Follows(obj, 0, 1) /\ Len(obj) >= 8
    BY <2>1 DEF ObjInv, Chain, Closed
  <2>3. d' - Base = 0 /\ d' >= Base /\ (d' - Base) % 4 = 0 /\ d' - Base + 8 <= Len(obj)
    BY <1>0, <2>1, <2>2
  <2>4. 1 \in 1 .. NArgs + 1 /\ \A k \in 1 .. 1 - 1 : s \notin Strings[Inputs[k]]
    BY <1>0
  <2> QED
    BY <2>1, <2>2, <2>3, <2>4 DEF SearchInv
<1>2. CASE find_dtb
  <2>0. /\ found = "search" /\ compat' = compat /\ obj' = obj /\ step' = step
        /\ found' \in {"search", "null", "dtb"}
    BY <1>2 DEF find_dtb, buildVars
  <2>1. CASE ~IsMagic(d)
    <3>1. found' = "null" /\ d' = d
      BY <1>2, <2>1 DEF find_dtb
    <3> QED
      BY <2>0, <2>1, <3>1 DEF SearchInv, IsMagic, At, End
  <2>2. CASE IsMagic(d) /\ find_str(d, compat)
    <3>1. found' = "dtb" /\ d' = d
      BY <1>2, <2>2 DEF find_dtb
    <3> QED
      BY <2>0, <2>2, <3>1 DEF SearchInv, IsMagic, find_str, At, End
  <2>3. CASE IsMagic(d) /\ ~find_str(d, compat)
    <3> DEFINE o == d - Base
               k == obj[o + 1].k
               q == After(obj, o)
    <3>1. found' = "search" /\ d' = Base + q
      BY <1>0, <1>2, <2>0, <2>3, AtFacts DEF find_dtb
    <3>2. o \in 0 .. Len(obj) - 1 /\ Starts(obj, o) /\ At(d) = obj[o + 1]
      BY <1>0, <2>0, <2>3, SearchPlace
    <3>3. k \in 1 .. NArgs /\ q \in Nat /\ q % 4 = 0
      BY <1>0, <3>2, ByteFacts DEF Starts
    <3>4. Follows(obj, q, k + 1) /\ q + 8 <= Len(obj)
      BY <2>0, <3>2 DEF SearchInv, ObjInv, Chain, Closed
    <3>5. PICK j \in 1 .. NArgs + 1 :
            /\ Follows(obj, o, j)
            /\ \A i \in 1 .. j - 1 : compat \notin Strings[Inputs[i]]
      BY <2>0 DEF SearchInv
    <3>6. k \in {1, j}
      <4>1. o # Len(obj) /\ obj[o + 1] # Zero
        BY <1>0, <3>2, ZeroFacts DEF Starts
      <4> QED
        BY <3>5, <4>1 DEF Follows
    <3>7. compat \notin Strings[Inputs[k]]
      BY <2>3, <3>2 DEF find_str
    <3>8. k + 1 \in 1 .. NArgs + 1
      BY SMTT(30), <1>0, <3>3
    <3>9. \A i \in 1 .. (k + 1) - 1 : compat \notin Strings[Inputs[i]]
      BY <3>3, <3>5, <3>6, <3>7
    <3>10. d' - Base = q /\ d' >= Base
      BY <1>0, <3>1, <3>3
    <3> HIDE DEF o, k, q
    <3> QED
      BY <2>0, <3>1, <3>3, <3>4, <3>8, <3>9, <3>10 DEF SearchInv
  <2> QED
    BY <2>1, <2>2, <2>3
<1>3. CASE Reset
  BY <1>3 DEF Reset, SearchInv
<1>4. CASE (\E f \in Files : Edit(f)) \/ UNCHANGED vars
  <2>1. /\ obj' = obj /\ d' = d /\ compat' = compat /\ found' = found
        /\ step = "none" => step' = "none"
    BY <1>4 DEF Edit, findVars, vars
  <2> QED
    BY <2>1 DEF SearchInv, IsMagic, find_str, At, End
<1>5. CASE Make \/ pad \/ cat \/ dd \/ objcopy \/ Interrupt \/ Clean
  <2>1. found' = found /\ (step # "none" \/ found = "idle")
    BY <1>5 DEF Make, pad, cat, dd, objcopy, Interrupt, Clean, findVars
  <2> QED
    BY <2>1 DEF SearchInv
<1> QED
  BY <1>1, <1>2, <1>3, <1>4, <1>5, NextCases

-----------------------------------------------------------------------------
(* The invariant, and the properties that follow from it.                  *)

LEMMA InvInit == Init => Inv
<1> SUFFICES ASSUME Init PROVE Inv
  OBVIOUS
<1>1. TypeOK
  <2>1. /\ NArgs \in Nat /\ NArgs = Len(Inputs) /\ Base \in Nat
        /\ 1 \in 1..MaxVersion /\ 0 \in 0..MaxRuns
    BY FileFacts, BaseAssumption, InputsAssumption DEF NArgs
  <2>2. disk \in [Files -> [ver : 1..MaxVersion, pad : 0..3]]
    BY <2>1 DEF Init
  <2> QED
    BY <2>1, <2>2, EmptySeq DEF Init, TypeOK
<1>2. PadInv
  BY DEF Init, PadInv
<1>3. ScriptInv /\ SearchInv /\ ObjInv
  BY DEF Init, ScriptInv, SearchInv, ObjInv
<1>4. BinInv
  BY EmptyChain DEF Init, BinInv
<1>5. FreshInv
  BY DEF Init, FreshInv
<1> QED
  BY <1>1, <1>2, <1>3, <1>4, <1>5 DEF Inv

LEMMA InvStep == Inv /\ [Next]_vars => Inv'
BY DiskStep, TypeStep, ScriptStep, BinStep, ObjStep, FreshStep, SearchStep DEF Inv

LEMMA InvHolds == Spec => []Inv
<1>1. Init => Inv
  BY InvInit
<1>2. Inv /\ [Next]_vars => Inv'
  BY InvStep
<1> QED
  BY <1>1, <1>2, PTL DEF Spec

\* The padding of a file never exceeds 3 bytes, and every byte of the archive
\* is zero or a byte of a blob, whatever was built and interrupted.
THEOREM ArchiveTyped == Spec => []TypeOK
<1>1. Inv => TypeOK
  BY DEF Inv
<1> QED
  BY <1>1, InvHolds, PTL

\* When find_dtb() reads a header, the magic number lies inside the archive.
THEOREM SearchStaysInside == Spec => []InsideArchive
<1>1. Inv => InsideArchive
  <2> SUFFICES ASSUME Inv, found = "search"
               PROVE  d >= Base /\ d + 4 <= End
    BY DEF InsideArchive
  <2>1. Base \in Nat /\ d \in Nat /\ Len(obj) \in Nat
    BY BaseAssumption DEF Inv, TypeOK
  <2>2. d >= Base /\ d - Base + 8 <= Len(obj)
    BY DEF Inv, SearchInv
  <2> QED
    BY <2>1, <2>2 DEF End
<1> QED
  BY <1>1, InvHolds, PTL

\* What find_dtb() returns is one whole blob that contains the string.
THEOREM SearchFindsBlob == Spec => []FindsBlob
<1>1. Inv => FindsBlob
  <2> SUFFICES ASSUME Inv, found = "dtb"
               PROVE  /\ find_str(d, compat)
                      /\ \A i \in 1 .. totalsize(d) : At(d + i - 1) = [At(d) EXCEPT !.i = i]
    BY DEF FindsBlob
  <2>1. /\ obj \in Seq(Byte) /\ d \in Nat /\ SearchInv /\ ObjInv
        /\ Base \in Nat /\ Len(obj) \in Nat
    BY BaseAssumption DEF Inv, TypeOK
  <2>2. find_str(d, compat) /\ IsMagic(d) /\ obj # <<>>
    BY <2>1 DEF SearchInv
  <2> DEFINE o == d - Base
             x == obj[o + 1]
             s == SizeOf(obj, o)
  <2>3. o \in 0 .. Len(obj) - 1 /\ Starts(obj, o) /\ At(d) = x /\ d = Base + o
    BY <2>1, <2>2, SearchPlace
  <2>4. totalsize(d) = s /\ s \in Nat
    BY <2>1, <2>2, <2>3, AtFacts
  <2>5. o + s <= Len(obj) /\ \A i \in 1..s : obj[o + i] = [k |-> x.k, v |-> x.v, i |-> i]
    BY <2>1, <2>2, <2>3 DEF ObjInv, Chain, Whole
  <2>6. x \in [k : 1..Len(Inputs), v : 1..MaxVersion, i : Nat \ {0}]
    <3>1. x \in Byte
      BY <2>1, <2>3, ElementOfSeq
    <3>2. x # Zero
      BY <2>3, ZeroFacts DEF Starts
    <3> QED
      BY <3>1, <3>2 DEF Byte
  <2> HIDE DEF o, x, s
  <2>7. ASSUME NEW i \in 1..s
        PROVE  At(d + i - 1) = [x EXCEPT !.i = i]
    <3> DEFINE a == d + i - 1
    <3>1. a \in Base .. End - 1 /\ a - Base + 1 = o + i
      BY <2>1, <2>3, <2>4, <2>5 DEF End
    <3> HIDE DEF a
    <3>2. At(a) = obj[o + i]
      BY <3>1 DEF At
    <3>3. [x EXCEPT !.i = i] = [k |-> x.k, v |-> x.v, i |-> i]
      BY <2>6
    <3> QED
      BY <2>5, <3>2, <3>3 DEF a
  <2> QED
    BY <2>2, <2>3, <2>4, <2>7
<1> QED
  BY <1>1, InvHolds, PTL

\* The search ends at the first file of APPEND_DTBS that contains the string,
\* and empty-handed only if none does, also in an archive that several runs of
\* the script have put together.
THEOREM SearchFindsFirst == Spec => []FindsFirst
<1>1. Inv => FindsFirst
  <2> SUFFICES ASSUME Inv PROVE FindsFirst
    OBVIOUS
  <2>1. /\ obj \in Seq(Byte) /\ d \in Nat /\ SearchInv /\ NArgs \in Nat
        /\ NArgs = Len(Inputs) /\ Len(obj) \in Nat
    BY FileFacts DEF Inv, TypeOK, NArgs
  <2>2. ASSUME found # "idle"
        PROVE  \E j \in 1 .. NArgs + 1 :
                 /\ Follows(obj, d - Base, j)
                 /\ \A k \in Candidates : k >= j
    <3>1. PICK j \in 1 .. NArgs + 1 :
            /\ Follows(obj, d - Base, j)
            /\ \A k \in 1 .. j - 1 : compat \notin Strings[Inputs[k]]
      BY <2>1, <2>2 DEF SearchInv
    <3>2. ASSUME NEW k \in Candidates PROVE k >= j
      BY <2>1, <3>1 DEF Candidates
    <3> QED
      BY <3>1, <3>2
  <2>3. ASSUME found = "null" PROVE Candidates = {}
    <3>1. PICK j \in 1 .. NArgs + 1 :
            Follows(obj, d - Base, j) /\ \A k \in Candidates : k >= j
      BY <2>2, <2>3
    <3>2. ~IsMagic(d) /\ d - Base \in 0 .. Len(obj) - 1 /\ At(d) = obj[(d - Base) + 1]
      BY <2>1, <2>3, SearchPlace DEF SearchInv
    <3>3. j = NArgs + 1
      BY <2>1, <3>1, <3>2 DEF Follows, Starts, IsMagic
    <3>4. \A k \in Candidates : k \in 1 .. NArgs
      BY <2>1 DEF Candidates
    <3> QED
      BY <2>1, <3>1, <3>3, <3>4
  <2>4. ASSUME found = "dtb"
        PROVE  At(d).k \in Candidates /\ \A k \in Candidates : At(d).k <= k
    <3>1. PICK j \in 1 .. NArgs + 1 :
            Follows(obj, d - Base, j) /\ \A k \in Candidates : k >= j
      BY <2>2, <2>4
    <3> DEFINE o == d - Base
    <3>2. /\ IsMagic(d) /\ find_str(d, compat) /\ o \in 0 .. Len(obj) - 1
          /\ At(d) = obj[o + 1] /\ Starts(obj, o)
      BY <2>1, <2>4, SearchPlace DEF SearchInv
    <3>3. obj[o + 1].k \in 1 .. NArgs
      BY <2>1, <3>2, ByteFacts DEF Starts
    <3>4. obj[o + 1].k \in {1, j}
      BY <2>1, <3>1, <3>2, ZeroFacts DEF Follows, Starts
    <3>5. At(d).k \in Candidates
      BY <2>1, <3>2, <3>3 DEF Candidates, find_str
    <3>6. ASSUME NEW k \in Candidates PROVE At(d).k <= k
      <4>1. k \in 1 .. NArgs /\ k >= j
        BY <2>1, <3>1 DEF Candidates
      <4> QED
        BY <3>2, <3>4, <4>1
    <3> QED
      BY <3>5, <3>6
  <2> QED
    BY <2>3, <2>4 DEF FindsFirst
<1> QED
  BY <1>1, InvHolds, PTL

\* An archive built in one go after a clean is searched for what is on disk.
THEOREM FreshBuildFound == Spec => []FreshBuild
<1>1. Inv => FreshBuild
  <2> SUFFICES ASSUME Inv, found = "dtb", runs = 1, ~stale
               PROVE  At(d).v = disk[Inputs[At(d).k]].ver
    BY DEF FreshBuild
  <2>1. obj \in Seq(Byte) /\ d \in Nat /\ SearchInv /\ Fresh(obj, disk) /\ Len(obj) \in Nat
    BY DEF Inv, TypeOK, FreshInv
  <2>2. /\ d - Base \in 0 .. Len(obj) - 1 /\ At(d) = obj[(d - Base) + 1]
        /\ Starts(obj, d - Base)
    BY <2>1, SearchPlace DEF SearchInv
  <2> DEFINE p == (d - Base) + 1
  <2>3. p \in 1 .. Len(obj) /\ obj[p] # Zero
    BY <2>1, <2>2, ZeroFacts DEF Starts
  <2> QED
    BY <2>1, <2>2, <2>3 DEF Fresh
<1> QED
  BY <1>1, InvHolds, PTL

\* An iteration of find_dtb() that does not end the search gets on by a whole
\* blob and leaves room for another header: why Terminates holds.
THEOREM SearchAdvances ==
    Spec => [][find_dtb /\ found' = "search" => d' >= d + 8 /\ d' + 8 <= End]_vars
<1>1. ASSUME Inv, [Next]_vars, find_dtb, found' = "search"
      PROVE  d' >= d + 8 /\ d' + 8 <= End
  <2>1. /\ obj \in Seq(Byte) /\ d \in Nat /\ SearchInv /\ ObjInv /\ Base \in Nat
        /\ found = "search" /\ Len(obj) \in Nat
    BY <1>1, BaseAssumption DEF Inv, TypeOK, find_dtb
  <2>2. IsMagic(d) /\ d' = Aligned(d + totalsize(d)) /\ obj # <<>>
    BY <1>1, <2>1 DEF find_dtb, SearchInv
  <2> DEFINE o == d - Base
             q == After(obj, o)
  <2>3. d = Base + o /\ d' = Base + q
    BY <2>1, <2>2, AtFacts
  <2>4. o \in 0 .. Len(obj) - 1 /\ Starts(obj, o)
    BY <2>1, <2>2, SearchPlace
  <2>5. q \in Nat /\ o + 8 <= q
    BY <2>1, <2>4, ByteFacts DEF Starts
  <2>6. q + 8 <= Len(obj)
    BY <2>1, <2>2, <2>4 DEF ObjInv, Closed
  <2> HIDE DEF o, q
  <2> QED
    BY <2>1, <2>3, <2>4, <2>5, <2>6 DEF End
<1>2. Inv /\ [Next]_vars => [find_dtb /\ found' = "search" => d' >= d + 8 /\ d' + 8 <= End]_vars
  BY <1>1
<1> QED
  BY <1>2, InvHolds, PTL DEF Spec

=============================================================================
