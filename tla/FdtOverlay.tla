----------------------------- MODULE FdtOverlay -----------------------------
(***************************************************************************)
(* fdt_overlay.c: applying overlays, one after the other, to a base tree.  *)
(*                                                                         *)
(* Both blobs are documents.  That a call of fdt_rw.c has on a blob the    *)
(* effect that DeviceTree gives it on a document is what FdtRwTree's       *)
(* ImplementsTree says, and that a search finds the right node is what     *)
(* FdtRoTree's invariants say; so a call here is one of DeviceTree's       *)
(* outcomes, among them that the space is used up.  The number of a node   *)
(* stands for its offset: it changes, as the offset does, when a node is   *)
(* put in front of it.                                                     *)
(***************************************************************************)
EXTENDS TreeDoc

CONSTANTS
    Bases,      \* base trees
    Overlays,   \* overlays as their files hold them
    BaseName,   \* a node name without its unit address
    MaxU32,     \* (uint32_t)-1
    MaxCalls,   \* bound on the number of calls
    References  \* where the overlays refer to nodes of their own, once merged:
                \* records [from, prop, cell, to]

ASSUME BoundAssumption == MaxU32 \in Nat /\ MaxCalls \in Nat

VARIABLES
    base, baseMagic,    \* the base tree, and whether its magic is in place
    torn,               \* whether its new __symbols__ is followed by a zero word
    ov, ovMagic,        \* the overlay in memory, and whether its magic is
    delta,              \* what is added to the overlay's phandles
    pc,                 \* the step of fdt_overlay_apply(), "idle" outside of it
    at,                 \* the overlay's node that is to be merged next
    left,               \* properties that the step still has to go through
    held,               \* base nodes that the recursion holds, the target first
    ret,                \* what the last call returned
    before,             \* the base tree when the call began
    calls               \* the number of calls so far

baseBlob == <<base, baseMagic, torn>>
ovBlob   == <<ov, ovMagic>>
merging  == <<at, left, held>>
caller   == <<ret, before, calls>>
vars     == <<baseBlob, ovBlob, delta, pc, merging, caller>>

FDT_ERR_NOTFOUND     == 1
FDT_ERR_EXISTS       == 2
FDT_ERR_NOSPACE      == 3
FDT_ERR_BADPATH      == 5
FDT_ERR_BADPHANDLE   == 6
FDT_ERR_BADMAGIC     == 9
FDT_ERR_BADSTRUCTURE == 11
FDT_ERR_BADVALUE     == 15
FDT_ERR_BADOVERLAY   == 16
FDT_ERR_NOPHANDLES   == 17

DT == INSTANCE DeviceTree WITH doc <- base, rsv <- <<>>, call <- [op |-> "none"]

-----------------------------------------------------------------------------
(* What is assumed of the blobs.                                           *)

PhandleNames == {"phandle", "linux,phandle"}

\* The phandles of a node with these properties, by both names.
AllPhandles(props) ==
    {props[s].cells[1] : s \in {q \in PhandleNames \cap DOMAIN props :
                                    IsCells(props[q]) /\ Len(props[q].cells) = 1}}

IsNode(x) ==
    /\ x = [depth |-> x.depth, name |-> x.name, props |-> x.props] /\ x.depth \in Nat
    /\ x.props = [s \in DOMAIN x.props |-> x.props[s]]
    /\ \A s \in DOMAIN x.props :
        /\ x.props[s] = [cells |-> x.props[s].cells, text |-> x.props[s].text]
        /\ x.props[s].cells \in Seq(0..MaxU32)

\* A node is at most one level below the one before it, and no two nodes have
\* the same path.
IsTree(d) ==
    /\ d \in Seq(ToSet(d)) /\ \A i \in DOMAIN d : IsNode(d[i])
    /\ \A i \in DOMAIN d : IF i = 1 THEN d[i].depth = 1
                                    ELSE d[i].depth \in 2 .. d[i - 1].depth + 1
    /\ \A i, j \in DOMAIN d : PathOf(d, i) = PathOf(d, j) => i = j

\* The list of local fixups of an overlay.
FixupsIn(d) ==
    LET root == NodeAt(d, <<"__local_fixups__">>)
    IN  IF root = 0 THEN {} ELSE DT!Subtree(d, root)

\* No two nodes have the same phandle, and none has the reserved one.
PhandlesUnique(d) == \A i, j \in DOMAIN d :
    LET p == PhandleIn(d[i].props)
    IN  p # MaxU32 /\ (p # 0 /\ p = PhandleIn(d[j].props) => i = j)

\* What dtc makes of an overlay: phandles are positive and unique, and neither a
\* fixup nor a label has the name of a property that holds one.
IsOverlay(d) ==
    /\ \A i, j \in DOMAIN d : \A p \in AllPhandles(d[i].props) :
            p > 0 /\ (p \in AllPhandles(d[j].props) => i = j)
    /\ \A i \in FixupsIn(d) \cup ({NodeAt(d, <<"__symbols__">>)} \ {0}) :
            PhandleNames \cap DOMAIN d[i].props = {}

ASSUME TreeAssumption == \A d \in Bases \cup Overlays : IsTree(d)
ASSUME BaseAssumption == \A d \in Bases : d # <<>> /\ PhandlesUnique(d)
ASSUME OverlayAssumption == \A d \in Overlays : IsOverlay(d)

-----------------------------------------------------------------------------
(* Searches.                                                               *)

\* The child of node i with this name, 0 if there is none.
fdt_subnode_offset(d, i, name) == NodeAt(d, Append(PathOf(d, i), name))

\* A zero byte within a text, which is all that a reader of C strings sees.
NUL == "nul"
CString(text) == SubSeq(text, 1, SelectInSeq(Append(text, NUL), LAMBDA s : s = NUL) - 1)

\* The root is not found: strlen() makes the terminator a component of its path.
fdt_path_offset(d, text) ==
    IF text[1] # "" THEN -FDT_ERR_BADPATH
    ELSE IF NodeAt(d, Tail(text)) = 0 THEN -FDT_ERR_NOTFOUND ELSE NodeAt(d, Tail(text))

\* With the length of the path given, it is.
fdt_path_offset_namelen(d, text) ==
    IF text = <<"", "">> THEN 1 ELSE fdt_path_offset(d, text)

fdt_node_offset_by_phandle(d, phandle) ==
    LET found == {i \in DOMAIN d : PhandleIn(d[i].props) = phandle}
    IN  IF found = {} THEN -FDT_ERR_NOTFOUND ELSE CHOOSE i \in found : \A j \in found : i <= j

fdt_get_max_phandle(d) ==
    LET phandles == {0} \cup ({PhandleIn(d[i].props) : i \in DOMAIN d} \ {MaxU32})
    IN  CHOOSE x \in phandles : \A y \in phandles : y <= x

Error(e) == [err |-> -e, path |-> <<>>, node |-> 0]

overlay_get_target_phandle(props) ==
    IF "target" \notin DOMAIN props THEN 0
    ELSE IF ~IsCells(props["target"]) \/ Len(props["target"].cells) # 1 THEN MaxU32
    ELSE props["target"].cells[1]

\* The base node that a fragment with these properties goes to, and the path
\* by which it was found, <<>> for none.
overlay_get_target(props) ==
    LET phandle == overlay_get_target_phandle(props)
        path    == props["target-path"].text
        node    == IF torn THEN -FDT_ERR_BADSTRUCTURE
                   ELSE IF phandle # 0 THEN fdt_node_offset_by_phandle(base, phandle)
                   ELSE fdt_path_offset(base, path)
    IN  IF phandle = MaxU32 THEN Error(FDT_ERR_BADPHANDLE)
        ELSE IF phandle = 0 /\ "target-path" \notin DOMAIN props
        THEN Error(FDT_ERR_BADOVERLAY)
        ELSE IF node < 0 THEN Error(-node)
        ELSE [err |-> 0, path |-> IF phandle = 0 THEN path ELSE <<>>, node |-> node]

-----------------------------------------------------------------------------
(* Renumbering the overlay: what a phase returns, and the overlay after it. *)

\* Mutant: a sum that wraps is not noticed.
PhandleErrorUnchecked(val) ==
    IF ~IsCells(val) \/ Len(val.cells) # 1 THEN -FDT_ERR_BADPHANDLE ELSE 0

Moved(x) == (x + delta) % (MaxU32 + 1)

\* overlay_phandle_add_offset() of a property with this value.
PhandleError(val) ==
    IF ~IsCells(val) \/ Len(val.cells) # 1 THEN -FDT_ERR_BADPHANDLE
    ELSE IF Moved(val.cells[1]) < val.cells[1] \/ Moved(val.cells[1]) = MaxU32
    THEN -FDT_ERR_NOPHANDLES
    ELSE 0

PhandleErrorOf(i, s) ==
    IF s \in DOMAIN ov[i].props THEN PhandleError(ov[i].props[s]) ELSE 0

\* What the two phandles of node i give, in the order in which they are moved.
NodeError(i) ==
    IF PhandleErrorOf(i, "phandle") # 0 THEN PhandleErrorOf(i, "phandle")
    ELSE PhandleErrorOf(i, "linux,phandle")

\* The first error on the way through the nodes, 0 if there is none.
overlay_adjust_local_phandles ==
    LET bad == {i \in DOMAIN ov : NodeError(i) # 0}
    IN  IF bad = {} THEN 0 ELSE NodeError(CHOOSE i \in bad : \A j \in bad : i <= j)

PhandlesAdjusted ==
    [i \in DOMAIN ov |-> [ov[i] EXCEPT !.props =
        [s \in DOMAIN @ |-> IF s \in PhandleNames
                            THEN CellsVal([c \in DOMAIN @[s].cells |-> Moved(@[s].cells[c])])
                            ELSE @[s]]]]

\* The nodes of the list of local fixups, and the node that each is about: its
\* path without __local_fixups__, 0 if there is no such node.
FixupNodes == FixupsIn(ov)
TreeNode(f) == NodeAt(ov, Tail(PathOf(ov, f)))

overlay_update_local_references ==
    IF \A f \in FixupNodes :
        /\ TreeNode(f) # 0
        /\ \A s \in DOMAIN ov[f].props :
            /\ IsCells(ov[f].props[s])
            /\ s \in DOMAIN ov[TreeNode(f)].props
            /\ \A c \in ToSet(ov[f].props[s].cells) :
                    c < Len(ov[TreeNode(f)].props[s].cells)
    THEN 0 ELSE -FDT_ERR_BADOVERLAY

\* Mutant: only the first reference of a list is moved.
FirstListed(i, s) ==
    {ov[f].props[s].cells[1] + 1 : f \in {g \in FixupNodes :
        TreeNode(g) = i /\ s \in DOMAIN ov[g].props}}

\* The cells of property s of node i that a fixup lists.
Listed(i, s) ==
    UNION {{c + 1 : c \in ToSet(ov[f].props[s].cells)} : f \in {g \in FixupNodes :
        TreeNode(g) = i /\ s \in DOMAIN ov[g].props}}

\* Property s of node i with its references moved.
Updated(i, s) ==
    [ov[i].props[s] EXCEPT !.cells =
        [c \in DOMAIN @ |-> IF c \in Listed(i, s) THEN Moved(@[c]) ELSE @[c]]]

ReferencesUpdated ==
    [i \in DOMAIN ov |->
        [ov[i] EXCEPT !.props = [s \in DOMAIN @ |-> Updated(i, s)]]]

\* One string of a fixup: ok, if it has the form path:name:offset, and its path.
\* In the end fdt_setprop_inplace_namelen_partial() is given the true length of
\* the property's name, which is not the one that fdt_string_eq_() looks for.
overlay_fixup_one_phandle(label, fixup) ==
    LET symbols == NodeAt(base, <<"__symbols__">>)
        symbol  == fdt_path_offset(base, CString(base[symbols].props[label].text))
        node    == fdt_path_offset_namelen(ov, fixup.path)
    IN  IF symbols = 0 \/ label \notin DOMAIN base[symbols].props THEN -FDT_ERR_NOTFOUND
        ELSE IF symbol < 0 THEN symbol
        ELSE IF PhandleIn(base[symbol].props) = 0 THEN -FDT_ERR_NOTFOUND
        ELSE IF node = -FDT_ERR_NOTFOUND THEN -FDT_ERR_BADOVERLAY
        ELSE IF node < 0 THEN node
        ELSE -FDT_ERR_NOTFOUND

\* The first string of the list decides.
overlay_fixup_phandle(label, fixups) ==
    IF fixups = <<>> \/ ~fixups[1].ok THEN -FDT_ERR_BADOVERLAY
    ELSE overlay_fixup_one_phandle(label, fixups[1])

-----------------------------------------------------------------------------
(* The end of a call.                                                      *)

Return(e) == pc' = "idle" /\ ret' = e /\ before' = <<>> /\ UNCHANGED calls

\* Both trees may have been damaged.
Fail(e) == Return(e) /\ baseMagic' = FALSE /\ ovMagic' = FALSE

Go(step) == pc' = step /\ UNCHANGED <<baseMagic, ovMagic, caller>>

Forget == at' = 0 /\ left' = {} /\ held' = <<>>

-----------------------------------------------------------------------------
(* fdt_overlay_apply(fdt, fdto), for an overlay read afresh or the one     *)
(* that an earlier call has left in memory.                                *)

Begin(o, magic) ==
    /\ pc = "idle" /\ calls < MaxCalls
    /\ calls' = calls + 1 /\ ov' = o /\ ovMagic' = magic
    /\ IF baseMagic /\ magic
       THEN /\ pc' = "adjust" /\ delta' = fdt_get_max_phandle(base) /\ before' = base
            /\ UNCHANGED ret
       ELSE ret' = -FDT_ERR_BADMAGIC /\ UNCHANGED <<pc, delta, before>>
    /\ UNCHANGED <<baseBlob, merging>>

AdjustPhandles ==
    /\ pc = "adjust"
    /\ IF overlay_adjust_local_phandles # 0
       THEN Fail(overlay_adjust_local_phandles) /\ UNCHANGED ov
       ELSE Go("references") /\ ov' = PhandlesAdjusted
    /\ UNCHANGED <<base, torn, delta, merging>>

UpdateLocalReferences ==
    /\ pc = "references"
    /\ IF overlay_update_local_references # 0
       THEN Fail(overlay_update_local_references) /\ UNCHANGED ov
       ELSE Go("fixups") /\ ov' = ReferencesUpdated
    /\ UNCHANGED <<base, torn, delta, merging>>

Fixups == LET node == NodeAt(ov, <<"__fixups__">>)
          IN  IF node = 0 THEN <<>> ELSE ov[node].props

FixupPhandle(s) ==
    /\ pc = "fixups"
    /\ Fail(overlay_fixup_phandle(s, Fixups[s].text))
    /\ UNCHANGED <<base, torn, ov, delta, merging>>

FixupsDone ==
    /\ pc = "fixups" /\ Fixups = <<>>
    /\ Go("merge") /\ at' = 2
    /\ UNCHANGED <<base, torn, ov, delta, left, held>>

-----------------------------------------------------------------------------
(* overlay_merge() and overlay_apply_node(), going through the overlay in  *)
(* document order: held[k] is the base node for the node at depth k + 2 of *)
(* the overlay, on the way from __overlay__, at depth 3, to node `at'.     *)

\* Mutant: the search starts one node too early.
NextFragmentFrom(i) ==
    LET fragments == {j \in i - 1 .. Len(ov) : ov[j].depth = 2}
    IN  IF fragments = {} THEN Len(ov) + 1
        ELSE CHOOSE j \in fragments : \A k \in fragments : j <= k

\* The first fragment behind node i - 1 of the overlay.
NextFragment(i) ==
    LET fragments == {j \in i .. Len(ov) : ov[j].depth = 2}
    IN  IF fragments = {} THEN Len(ov) + 1
        ELSE CHOOSE j \in fragments : \A k \in fragments : j <= k

Merging == pc = "merge" /\ left = {}

StartFragment ==
    LET overlay == fdt_subnode_offset(ov, at, "__overlay__")
        target  == overlay_get_target(ov[at].props)
    IN  /\ Merging /\ held = <<>> /\ at \in DOMAIN ov
        /\ IF overlay = 0
           THEN Go("merge") /\ at' = NextFragment(at + 1) /\ UNCHANGED <<left, held>>
           ELSE IF target.err # 0 THEN Fail(target.err) /\ Forget
           ELSE /\ Go("merge") /\ at' = overlay + 1 /\ held' = <<target.node>>
                /\ left' = DOMAIN ov[overlay].props
        /\ UNCHANGED <<base, torn, ov, delta>>

SetProp(s) ==
    /\ pc = "merge" /\ s \in left
    /\ \E out \in DT!SetProp(base, <<>>,
                [node |-> Last(held), name |-> s, val |-> ov[at - 1].props[s]]) :
        /\ base' = out.doc
        /\ IF out.ret < 0 THEN Fail(out.ret) /\ Forget
           ELSE Go("merge") /\ left' = left \ {s} /\ UNCHANGED <<at, held>>
    /\ UNCHANGED <<torn, ov, delta>>

\* Mutant: a sibling is put into the node that was merged last.
SubnodeOfLast ==
    LET node == ov[at]
    IN  /\ Merging /\ held # <<>> /\ at \in DOMAIN ov /\ node.depth > 3
        /\ \E out \in DT!AddSubnode(base, <<>>,
                    [op |-> "add_subnode", node |-> Last(held), name |-> node.name]) :
            LET new == IF out.ret = -FDT_ERR_EXISTS
                       THEN fdt_subnode_offset(base, Last(held), node.name) ELSE out.ret
            IN  /\ base' = out.doc
                /\ IF new < 0 THEN Fail(new) /\ Forget
                   ELSE /\ Go("merge") /\ at' = at + 1 /\ left' = DOMAIN node.props
                        /\ held' = Append(held, new)
        /\ UNCHANGED <<torn, ov, delta>>

Subnode ==
    LET node   == ov[at]
        parents == SubSeq(held, 1, node.depth - 3)
        nnode(out) == IF out.ret = -FDT_ERR_EXISTS
                      THEN fdt_subnode_offset(base, Last(parents), node.name) ELSE out.ret
    IN  /\ Merging /\ held # <<>> /\ at \in DOMAIN ov /\ node.depth > 3
        /\ \E out \in DT!AddSubnode(base, <<>>,
                    [op |-> "add_subnode", node |-> Last(parents), name |-> node.name]) :
            /\ base' = out.doc
            /\ IF nnode(out) < 0 THEN Fail(nnode(out)) /\ Forget
               ELSE /\ Go("merge") /\ at' = at + 1 /\ left' = DOMAIN node.props
                    /\ held' = Append(parents, nnode(out))
        /\ UNCHANGED <<torn, ov, delta>>

EndFragment ==
    /\ Merging /\ held # <<>> /\ (at \in DOMAIN ov => ov[at].depth <= 3)
    /\ Go("merge") /\ at' = NextFragment(at) /\ held' = <<>>
    /\ UNCHANGED <<base, torn, ov, delta, left>>

MergeDone ==
    /\ Merging /\ held = <<>> /\ at \notin DOMAIN ov
    /\ Go("symbols")
    /\ UNCHANGED <<base, torn, ov, delta, merging>>

-----------------------------------------------------------------------------
(* overlay_symbol_update().                                                *)

OvSymbols == NodeAt(ov, <<"__symbols__">>)

Success ==
    /\ \/ pc = "symbols" /\ OvSymbols = 0
       \/ pc = "symbol" /\ left = {}
    /\ Return(0) /\ ovMagic' = FALSE /\ Forget
    /\ UNCHANGED <<baseBlob, ov, delta>>

\* fdt_add_subnode() leaves a zero word behind a name of eleven bytes.
FindSymbols ==
    /\ pc = "symbols" /\ OvSymbols # 0
    /\ IF NodeAt(base, <<"__symbols__">>) # 0 THEN Go("symbol") /\ UNCHANGED <<base, torn>>
       ELSE \E out \in DT!AddSubnode(base, <<>>,
                    [op |-> "add_subnode", node |-> 1, name |-> "__symbols__"]) :
            /\ base' = out.doc /\ torn' = (out.ret > 0)
            /\ IF out.ret < 0 THEN Fail(out.ret) ELSE Go("symbol")
    /\ left' = (IF pc' = "symbol" THEN DOMAIN ov[OvSymbols].props ELSE {})
    /\ UNCHANGED <<at, held, ov, delta>>

\* What is wrong with a symbol of this value, 0 if it names a fragment.
SymbolError(val) ==
    IF IsCells(val) \/ NUL \in ToSet(val.text) \/ val.text[1] # "" THEN -FDT_ERR_BADVALUE
    ELSE IF Len(val.text) < 4 \/ val.text[3] # "__overlay__"
         \/ NodeAt(ov, SubSeq(val.text, 2, 3)) = 0 THEN -FDT_ERR_BADOVERLAY
    ELSE 0

\* The target's path, with a zero byte that strlen() has counted, and the rest.
SymbolValue(path, text) ==
    [cells |-> <<>>, text |-> path \o <<NUL>> \o SubSeq(text, 4, Len(text))]

\* The path of a target found by its phandle cannot be told: get_path_len()
\* looks for the parent of the root, whose name has the length 1.
UpdateSymbol(s) ==
    LET val    == ov[OvSymbols].props[s]
        target == overlay_get_target(ov[NodeAt(ov, <<val.text[2]>>)].props)
    IN  /\ pc = "symbol" /\ s \in left
        /\ IF SymbolError(val) # 0 THEN Fail(SymbolError(val)) /\ Forget /\ UNCHANGED base
           ELSE IF target.err # 0 THEN Fail(target.err) /\ Forget /\ UNCHANGED base
           ELSE IF target.path = <<>> THEN Fail(-FDT_ERR_NOTFOUND) /\ Forget /\ UNCHANGED base
           ELSE \E out \in DT!SetProp(base, <<>>,
                        [node |-> NodeAt(base, <<"__symbols__">>), name |-> s,
                         val |-> SymbolValue(target.path, val.text)]) :
                    /\ base' = out.doc
                    /\ IF out.ret < 0 THEN Fail(out.ret) /\ Forget
                       ELSE Go("symbol") /\ left' = left \ {s} /\ UNCHANGED <<at, held>>
        /\ UNCHANGED <<torn, ov, delta>>

-----------------------------------------------------------------------------

Init ==
    /\ base \in Bases /\ baseMagic = TRUE /\ torn = FALSE
    /\ ov = <<>> /\ ovMagic = FALSE /\ delta = 0
    /\ pc = "idle" /\ at = 0 /\ left = {} /\ held = <<>>
    /\ ret = 0 /\ before = <<>> /\ calls = 0

Call == Begin(ov, ovMagic) \/ \E o \in Overlays : Begin(o, TRUE)

Step ==
    \/ AdjustPhandles
    \/ UpdateLocalReferences
    \/ \E s \in DOMAIN Fixups : FixupPhandle(s)
    \/ FixupsDone
    \/ StartFragment
    \/ \E s \in left : SetProp(s)
    \/ Subnode
    \/ EndFragment
    \/ MergeDone
    \/ FindSymbols
    \/ \E s \in left : UpdateSymbol(s)
    \/ Success

Next == Call \/ Step

\* A call runs on until it returns; nobody has to make one.
Spec == Init /\ [][Next]_vars /\ WF_vars(Step)

-----------------------------------------------------------------------------
(* Properties.                                                             *)

Usable == pc = "idle" /\ baseMagic

\* The numbering of phandles: whatever overlays have been merged, no two nodes
\* of the base tree have the same phandle, and none has the reserved one.
UniquePhandles == Usable => PhandlesUnique(base)

\* A reference within an overlay leads to the same node after both have been
\* renumbered: the phandle by one function and the reference by another.
ReferencesLead ==
    Usable => \A r \in References :
        LET i == NodeAt(base, r.from)
            j == NodeAt(base, r.to)
        IN  i # 0 /\ r.prop \in DOMAIN base[i].props =>
                /\ j # 0
                /\ PhandleIn(base[j].props) = base[i].props[r.prop].cells[r.cell]

\* The base tree as the caller of fdt_overlay_apply() may rely on it.
Unsymboled(t) == [p \in DOMAIN t \ {<<"__symbols__">>} |-> t[p]]

TM == INSTANCE TreeMerge WITH
        tree   <- IF ~baseMagic THEN <<>>
                  ELSE Unsymboled(TreeOf(IF pc = "idle" THEN base ELSE before)),
        usable <- baseMagic /\ (pc = "idle" => ~torn),
        done   <- IF pc = "idle" THEN calls ELSE calls - 1

\* All or nothing: a call that fails half way, for lack of space or for a bad
\* overlay, leaves no base tree that passes for a good one; a call that succeeds
\* has merged everything; and an overlay that has been merged or damaged is
\* never merged again.
ImplementsMerge == TM!Spec

\* Every call returns: the recursion over fragments, nodes, properties and
\* symbols ends although the tree that it adds to grows.
Returns == pc # "idle" ~> pc = "idle"

=============================================================================
