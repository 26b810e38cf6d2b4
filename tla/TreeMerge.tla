------------------------------ MODULE TreeMerge ------------------------------
(***************************************************************************)
(* What fdt_overlay_apply() promises, with blobs and document order left   *)
(* out.  A tree maps the path of every node, a sequence of names, to the   *)
(* properties of the node.  A call either merges the whole overlay, with   *)
(* its phandles moved above those of the base tree and its references to   *)
(* them moved along, or it leaves a base tree that nobody can use any      *)
(* more: there is no half-merged tree in between.                          *)
(***************************************************************************)
EXTENDS TreeDoc

CONSTANT Overlays       \* the overlays, as documents

VARIABLES tree,         \* the base tree, without its symbols
          usable,       \* whether its magic number is in place
          ret,          \* what the last call returned
          done          \* the number of calls

vars == <<tree, usable, ret, done>>

BADMAGIC == -9

-----------------------------------------------------------------------------
(* The merge.                                                              *)

\* The largest phandle of a tree.
MaxPhandle(t) ==
    LET phandles == {0} \cup {PhandleIn(t[p]) : p \in DOMAIN t}
    IN  CHOOSE x \in phandles : \A y \in phandles : y <= x

\* Which cells of property s of the node at path p hold phandles of the overlay
\* itself: those of the phandle properties, and those its fixups name.
LocalCells(t, p, s) ==
    LET fixups == <<"__local_fixups__">> \o p
    IN  (IF s \in {"phandle", "linux,phandle"} THEN {1} ELSE {}) \cup
        (IF fixups \in DOMAIN t /\ s \in DOMAIN t[fixups]
         THEN {c + 1 : c \in ToSet(t[fixups][s].cells)} ELSE {})

\* The overlay with its own phandles moved up by delta.
Shifted(t, delta) ==
    [p \in DOMAIN t |-> [s \in DOMAIN t[p] |->
        [t[p][s] EXCEPT !.cells =
            [c \in DOMAIN @ |-> IF c \in LocalCells(t, p, s) THEN @[c] + delta ELSE @[c]]]]]

\* Where in tree t a fragment with these properties goes, as a set.
Targets(t, props) ==
    LET phandle == IF "target" \in DOMAIN props THEN props["target"].cells ELSE <<0>>
    IN  IF phandle # <<0>> THEN {p \in DOMAIN t : <<PhandleIn(t[p])>> = phandle}
        ELSE {p \in DOMAIN t : /\ "target-path" \in DOMAIN props
                               /\ props["target-path"].text = <<"">> \o p}

\* Tree t with the nodes and properties of `part' put below the node at path `to';
\* what part has wins.
Grafted(t, to, part) ==
    LET Old(q) == IF to \o q \in DOMAIN t THEN t[to \o q] ELSE <<>>
        Part(p) == SubSeq(p, Len(to) + 1, Len(p))
    IN  [p \in {to \o q : q \in DOMAIN part} |-> part[Part(p)] @@ Old(Part(p))] @@ t

\* The fragments of overlay o that have something to merge, in order.
Fragments(o) ==
    LET names == SelectSeq(o, LAMBDA n : n.depth = 2)
    IN  SelectSeq([i \in DOMAIN names |-> names[i].name],
                  LAMBDA f : <<f, "__overlay__">> \in DOMAIN TreeOf(o))

\* The trees, one or none, that merging o into t gives.
Merged(t, o) ==
    LET ov == Shifted(TreeOf(o), MaxPhandle(t))
        Part(f) == LET root == <<f, "__overlay__">>
                       below == {p \in DOMAIN ov : IsPrefix(root, p)}
                   IN  [q \in {SubSeq(p, 3, Len(p)) : p \in below} |-> ov[root \o q]]
        Step(trees, f) ==
            UNION {{Grafted(u, p, Part(f)) : p \in Targets(u, ov[<<f>>])} : u \in trees}
    IN  FoldLeft(Step, {t}, Fragments(o))

-----------------------------------------------------------------------------

Init == usable = TRUE /\ ret = 0 /\ done = 0

Apply(o) == usable /\ UNCHANGED usable /\ ret' = 0 /\ tree' \in Merged(tree, o)

\* Whatever goes wrong, half way through or at once.
Fail == usable /\ ~usable' /\ ret' < 0 /\ tree' = <<>>

\* One of the two trees is a damaged one.
Refuse == ret' = BADMAGIC /\ UNCHANGED <<tree, usable>>

Next == /\ done' = done + 1
        /\ (\E o \in Overlays : Apply(o)) \/ Fail \/ Refuse

Spec == Init /\ [][Next]_vars
=============================================================================
