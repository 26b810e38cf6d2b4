------------------------------- MODULE MCFdtRo -------------------------------
(***************************************************************************)
(* An instance of FdtRoTree for TLC: a tree with an alias, phandles, a     *)
(* list of strings and two levels of nodes, edited by a few calls.         *)
(***************************************************************************)
EXTENDS FdtRoTree

RoNames == {"", "aliases", "cpus", "l2", "l2@100", "al", "phandle", "linux,phandle",
            "compatible", "#address-cells", "#size-cells"}
RoNameLen == [s \in RoNames |->
    CASE s = "" -> 0 [] s \in {"l2", "al"} -> 2 [] s = "cpus" -> 4 [] s = "l2@100" -> 6
      [] s \in {"aliases", "phandle"} -> 7 [] s = "linux,phandle" -> 13
      [] s = "compatible" -> 10 [] s = "#address-cells" -> 14 [] s = "#size-cells" -> 11]
RoBaseName == [s \in RoNames |-> IF s = "l2@100" THEN "l2" ELSE s]

\* The value of the alias, and what it spells.
AlText == <<2, 0>>
RoReadPath == [v \in {AlText} |-> <<"cpus", "l2@100">>]

NameWords(s) == [i \in 1 .. Words(RoNameLen[s] + 1) |->
                    Name(s, IF i = Words(RoNameLen[s] + 1) THEN 1 ELSE 0)]
Begin(s) == <<Num(FDT_BEGIN_NODE)>> \o NameWords(s)
End == <<Num(FDT_END_NODE)>>

RoStrings == <<"compatible", "al", "phandle", "linux,phandle", "#address-cells",
               "#size-cells">>
\* A property of at most four bytes, padded with zeros.
Prop(n, v) ==
    <<Num(FDT_PROP), Num(Len(v)), Num(n - 1),
      Bytes([i \in 1..4 |-> IF i <= Len(v) THEN v[i] ELSE 0])>>

\* Among the properties are cell counts of 0, 5 and -1, and the edits write 4.
StructBlock ==
    Begin("") \o Prop(1, <<1, 0, 2, 0>>) \o Prop(4, <<3, 3, 3, 3>>)
    \o Begin("aliases") \o Prop(2, AlText) \o Prop(6, <<3, 3, 3, 3>>) \o End
    \o Begin("cpus") \o Prop(5, <<0, 0, 0, 0>>) \o Prop(4, <<0, 0, 0, 1>>)
    \o Prop(6, <<0, 0, 0, 0>>)
    \o Begin("l2@100") \o Prop(3, <<0, 0, 0, 2>>) \o Prop(5, <<0, 0, 1, 1>>) \o End
    \o End
    \o End \o <<Num(FDT_END)>>
StringsBlock == [i \in DOMAIN RoStrings |-> Str(RoStrings[i], 0)]
RsvBlock == <<Num(0), Num(0), Num(0), Num(0)>>

Contents ==
    LET struct  == HeaderSize + Len(RsvBlock)
        strings == struct + Len(StructBlock)
        size    == strings + Len(StringsBlock)
    IN  <<Num(FDT_MAGIC), Num(size + 4), Num(struct), Num(strings), Num(HeaderSize),
          Num(17), Num(16), Num(0), Num(Len(StringsBlock)), Num(Len(StructBlock))>>
        \o RsvBlock \o StructBlock \o StringsBlock

RoImages == {[a \in 0 .. MemSize - 1 |->
                IF a < Len(Contents) THEN Contents[a + 1] ELSE Num(0)]}
RoVals == {<<0, 0, 1, 0>>}
RoListStrings == {<<>>, <<1>>, <<2>>, <<1, 2>>}
Nothing == {}
=============================================================================
