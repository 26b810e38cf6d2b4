------------------------------- MODULE MCFdtRw -------------------------------
(***************************************************************************)
(* Small instances of FdtRw for TLC: the blobs that dtc produces for small *)
(* trees, and the arguments of the calls.                                  *)
(***************************************************************************)
EXTENDS FdtRwTree

MCNames == {"", "cpus", "l2", "l2@100", "led", "reg", "status"}
MCNameLen == [s \in MCNames |->
    CASE s = "" -> 0 [] s = "l2" -> 2 [] s \in {"led", "reg"} -> 3
      [] s = "cpus" -> 4 [] s \in {"l2@100", "status"} -> 6]
MCBaseName == [s \in MCNames |-> IF s = "l2@100" THEN "l2" ELSE s]
MCByte == 0..2

-----------------------------------------------------------------------------
(* Images.  The structure block of  / { reg = <..>; l2@100 { }; }; and the *)
(* memory that holds it, version 17 in dtc's order or version 16, or with  *)
(* the strings block in front.                                             *)

NameWords(s) == [i \in 1 .. Words(MCNameLen[s] + 1) |->
                    Name(s, IF i = Words(MCNameLen[s] + 1) THEN 1 ELSE 0)]

StructBlock ==
    <<Num(FDT_BEGIN_NODE)>> \o NameWords("")
    \o <<Num(FDT_PROP), Num(3), Num(0), Bytes(<<1, 2, 1, 0>>)>>
    \o <<Num(FDT_BEGIN_NODE)>> \o NameWords("l2@100")
    \o <<Num(FDT_END_NODE), Num(FDT_END_NODE), Num(FDT_END)>>
RsvBlock == <<Num(0), Num(5), Num(0), Num(1), Num(0), Num(0), Num(0), Num(0)>>
StringsBlock == <<Str("reg", 1)>>

Header(total, struct, strings, rsvmap, version) ==
    <<Num(FDT_MAGIC), Num(total), Num(struct), Num(strings), Num(rsvmap),
      Num(version), Num(16), Num(0), Num(Len(StringsBlock)),
      Num(IF version < 17 THEN 0 ELSE Len(StructBlock))>>

Image(version, pad, first, second, third) ==
    LET blocks == first \o second \o third
        where(b) == IF b = first THEN HeaderSize
                    ELSE IF b = second THEN HeaderSize + Len(first)
                    ELSE HeaderSize + Len(first) + Len(second)
        size == HeaderSize + Len(blocks)
        all  == Header(size + pad, where(StructBlock), where(StringsBlock),
                       where(RsvBlock), version) \o blocks
    IN  [a \in 0 .. MemSize - 1 |-> IF a < size THEN all[a + 1] ELSE Num(0)]

\* What dtc makes of the tree, with no free space and with some (dtc -p).
Tight  == Image(17, 0, RsvBlock, StructBlock, StringsBlock)
Padded == Image(17, 8, RsvBlock, StructBlock, StringsBlock)
\* The same in an older format, and with the strings block in front.
Old        == Image(16, 0, RsvBlock, StructBlock, StringsBlock)
Misordered == Image(17, 0, RsvBlock, StringsBlock, StructBlock)

MCImages == {Padded}
MCOpenImages == {Tight, Old, Misordered}
MCVals == {<<>>, <<2>>}
MCFewVals == {<<1, 0, 2, 1, 2>>}
MCOneRsv == {[address |-> 7, size |-> 1]}
MCRsvs == {[address |-> 7, size |-> 1], [address |-> 0, size |-> 0]}
=============================================================================
