------------------------------ MODULE FdtRwTree ------------------------------
(***************************************************************************)
(* The blob implements the device tree: FdtRw together with the tree its   *)
(* memory stands for.  doc and rsv are read off the memory after each      *)
(* call, by a reading that owes nothing to the library's own searches.     *)
(***************************************************************************)
EXTENDS FdtRw

VARIABLES doc, rsv

treeVars == <<vars, doc, rsv>>

TreeInit == Init /\ doc = Decoded(mem) /\ rsv = Reserved(mem)

TreeNext == Next /\ \E m \in {mem'} : doc' = Decoded(m) /\ rsv' = Reserved(m)

TreeSpec == TreeInit /\ [][TreeNext]_treeVars

\* A call that adds a node returns its offset, which stands for its number.
Result == IF ret > 0 THEN NumberOf(ret) ELSE ret

DT == INSTANCE DeviceTree WITH ret <- Result

\* The children of node c.node whose name is c.name, as numbers of nodes.
Twins(c) == {k \in DT!Subtree(doc, c.node) :
                doc[k].depth = doc[c.node].depth + 1 /\ doc[k].name = c.name}

\* fdt_add_subnode looks for one byte more than the name and its terminator,
\* and fdt_set_name copies one byte more: a child that was renamed with some
\* other byte there is not seen, and gets a sibling of the same name.
AddsTwin ==
    /\ call'.op = "add_subnode" /\ call'.node # 0
    /\ Twins(call') # {}
    /\ \A o \in Nodes(Walk(mem, 0)) : NumberOf(o) \in Twins(call') => ~ZeroTail(mem, o)
    /\ DT!Outcome(Result', doc', rsv') \in DT!NewSubnode(doc, rsv, call')

\* The blob implements the tree: every call that returns success has exactly
\* its documented effect on the tree and returns the right offset; every call
\* that fails, half way through included, leaves the tree as it was.  The one
\* departure is the twin that fdt_add_subnode does not see.
ImplementsTree == DT!Init /\ [][DT!Next \/ AddsTwin]_(DT!vars)
=============================================================================
