---------------------------- MODULE MCFdtOverlay ----------------------------
(***************************************************************************)
(* An instance of FdtOverlay for TLC: two base trees and overlays that are *)
(* merged, refused for each of the reasons that the code knows, or skipped *)
(* in part.                                                                *)
(***************************************************************************)
EXTENDS FdtOverlay

Node(depth, name, props) == [depth |-> depth, name |-> name, props |-> props]
TextVal(text) == [cells |-> <<>>, text |-> text]
None == <<>>

Root(props) == Node(1, "", props)
Base ==
    <<Root(None),
      Node(2, "bus", [phandle |-> CellsVal(<<1>>)]),
      Node(3, "dev", [phandle |-> CellsVal(<<2>>), clocks |-> CellsVal(<<1>>)])>>
Symbols(syms) == <<Node(2, "__symbols__", syms)>>
BaseWithSymbols == Base \o Symbols([bus |-> TextVal(<<"", "bus">>)])

Fragment(name, props, contents) ==
    <<Node(2, name, props), Node(3, "__overlay__", contents)>>
At(path)   == ("target-path" :> TextVal(path))
By(phandle) == [target |-> CellsVal(<<phandle>>)]

\* A new node that an old one's new property refers to, a child of it, and a
\* fragment that goes into the new node; a second child that is there already.
Local ==
    <<Root(None)>>
    \o Fragment("f0", At(<<"", "bus">>), [supply |-> CellsVal(<<7, 1, 1>>)])
    \o <<Node(4, "rail", [phandle |-> CellsVal(<<1>>)]), Node(5, "coil", None),
         Node(4, "dev", [supply |-> CellsVal(<<1>>)])>>
    \o Fragment("f1", At(<<"", "bus", "rail">>), [status |-> CellsVal(<<0>>)])
    \o <<Node(2, "__local_fixups__", None), Node(3, "f0", None),
         Node(4, "__overlay__", [supply |-> CellsVal(<<1, 2>>)]),
         Node(5, "dev", [supply |-> CellsVal(<<0>>)])>>
LocalReferences ==
    {[from |-> <<"bus">>, prop |-> "supply", cell |-> c, to |-> <<"bus", "rail">>]
        : c \in {2, 3}}
    \cup {[from |-> <<"bus", "dev">>, prop |-> "supply", cell |-> 1, to |-> <<"bus", "rail">>]}

\* Phandles that do not fit above those of the base tree, at the latest when the
\* overlay is applied a second time; and a part that is not to be merged.
High ==
    <<Root(None), Node(2, "f0", None)>>
    \o Fragment("f1", By(2), ("linux,phandle" :> CellsVal(<<10>>)))
    \o <<Node(4, "rail", [phandle |-> CellsVal(<<11>>)])>>

Small(props) == <<Root(None)>> \o Fragment("f0", props, [x |-> CellsVal(<<5>>)])
LocalFixups(off) == <<Node(2, "__local_fixups__", None), Node(3, "f0", None),
                 Node(4, "__overlay__", off)>>

\* One for each way to be refused.
Faulty ==
    {Small(None), Small(At(<<"", "">>)), Small(At(<<"bus">>)), Small(At(<<"", "car">>)),
     Small([target |-> CellsVal(<<1, 1>>)]), Small(By(9)), Small(By(MaxU32)),
     <<Root([phandle |-> TextVal(<<"x">>)])>>,
     Small(By(1)) \o LocalFixups([x |-> CellsVal(<<1>>)]),
     Small(By(1)) \o LocalFixups([x |-> TextVal(<<"x">>)]),
     Small(By(1)) \o LocalFixups([y |-> CellsVal(<<0>>)]),
     Small(By(1)) \o <<Node(2, "__local_fixups__", None), Node(3, "f1", None)>>}

\* References to labels of the base tree.
Fixup(ok, path) == [ok |-> ok, path |-> path, name |-> "target", cell |-> 0]
WithFixups(fixups) ==
    Small(By(MaxU32)) \o <<Node(2, "__fixups__", fixups)>>
Labelled == WithFixups([bus |-> TextVal(<<Fixup(TRUE, <<"", "f0">>)>>)])
Mislabelled ==
    {WithFixups([bus |-> TextVal(<<Fixup(FALSE, <<"">>)>>)]),
     WithFixups([bus |-> TextVal(<<Fixup(TRUE, <<"", "f1">>)>>)]),
     WithFixups([car |-> TextVal(<<Fixup(TRUE, <<"", "f0">>)>>)]),
     WithFixups([bus |-> CellsVal(<<>>)])}

\* Labels of its own.
Naming(props, path) == Small(props) \o Symbols([led |-> TextVal(path)])
Named == Naming(At(<<"", "bus">>), <<"", "f0", "__overlay__", "led">>)
Misnamed ==
    {Naming(By(1), <<"", "f0", "__overlay__", "led">>),
     Naming(At(<<"", "bus">>), <<"", "f0", "led">>),
     Naming(At(<<"", "bus">>), <<"", "f1", "__overlay__", "led">>),
     Naming(At(<<"", "bus">>), <<"f0">>)}

MCBases == {Base, BaseWithSymbols}
MCOverlays == {Local, High, Labelled, Named} \cup Faulty \cup Mislabelled \cup Misnamed
MCBaseName == [s \in {"bus", "dev", "rail", "coil", "__symbols__"} |-> s]
=============================================================================
