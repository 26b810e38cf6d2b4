------------------------------ MODULE DeviceTree ------------------------------
(***************************************************************************)
(* What libfdt promises about edits of a device tree, with the blob left   *)
(* out: a tree is a sequence of nodes in document order, each with its     *)
(* depth, its name and its properties.  A call that succeeds has exactly   *)
(* its effect; a call that fails has none, whatever it did to the memory   *)
(* before it gave up, and fails only for a reason its documentation gives. *)
(***************************************************************************)
EXTENDS Integers, SequencesExt

CONSTANT BaseName       \* a node name without its unit address

VARIABLES doc,          \* the nodes, in document order
          rsv,          \* the memory reservations
          call,         \* the last call: [op, node, name, val, n]
          ret           \* what it returned

vars == <<doc, rsv, call, ret>>

NOTFOUND  == -1
EXISTS    == -2
NOSPACE   == -3
BADOFFSET == -4
\* The blob has not been opened for writing: wrong version or block order.
Unopened  == {-10, -12}

-----------------------------------------------------------------------------
(* Trees.                                                                  *)

\* The nodes of the subtree of node i: a run of the document d.
Subtree(d, i) == {j \in i .. Len(d) : \A k \in i + 1 .. j : d[k].depth > d[i].depth}

ChildNames(d, i) == {d[j].name : j \in {k \in Subtree(d, i) : d[k].depth = d[i].depth + 1}}

With(p, val, props) ==
    [s \in DOMAIN props \cup {p} |-> IF s = p THEN val ELSE props[s]]

Without(p, props) == [s \in DOMAIN props \ {p} |-> props[s]]

Overwritten(old, idx, val) ==
    [i \in DOMAIN old |-> IF i - idx \in DOMAIN val THEN val[i - idx] ELSE old[i]]

-----------------------------------------------------------------------------
(* The outcomes [ret, doc, rsv] that a call c may have on a tree d with    *)
(* reservations r.                                                         *)

Outcome(e, d, r) == [ret |-> e, doc |-> d, rsv |-> r]

Failures(d, r, errors) == {Outcome(e, d, r) : e \in errors}

\* Calls that rewrite the memory and not the tree.
Reshape(d, r) == Failures(d, r, {0, NOSPACE} \cup Unopened)

Reserve(d, r, c) ==
    Failures(d, r, {NOSPACE} \cup Unopened) \cup
    {Outcome(0, d, IF c.val[2] = 0 THEN r ELSE Append(r, c.val))}

Unreserve(d, r, c) ==
    Failures(d, r, Unopened) \cup
    {IF c.n >= Len(r) THEN Outcome(NOTFOUND, d, r)
                      ELSE Outcome(0, d, RemoveAt(r, c.n + 1))}

Rename(d, r, c) ==
    Failures(d, r, {NOSPACE} \cup Unopened) \cup
    {Outcome(0, [d EXCEPT ![c.node].name = c.name], r)}

SetProp(d, r, c) ==
    Failures(d, r, {NOSPACE} \cup Unopened) \cup
    {Outcome(0, [d EXCEPT ![c.node].props = With(c.name, c.val, @)], r)}

AppendProp(d, r, c) ==
    LET props == d[c.node].props
        old   == IF c.name \in DOMAIN props THEN props[c.name] ELSE <<>>
    IN  SetProp(d, r, [c EXCEPT !.val = old \o @])

\* Deletion needs no space; overwriting with FDT_NOP, not even an opened blob.
DelProp(d, r, c) ==
    (IF c.op = "delprop" THEN Failures(d, r, Unopened) ELSE {}) \cup
    {IF c.name \in DOMAIN d[c.node].props
     THEN Outcome(0, [d EXCEPT ![c.node].props = Without(c.name, @)], r)
     ELSE Outcome(NOTFOUND, d, r)}

\* Overwrites a value, or part of one, and never changes its size.
OverwriteProp(d, r, c) ==
    LET old  == d[c.node].props[c.name]
        fits == IF c.op = "setprop_inplace" THEN Len(c.val) = Len(old)
                                            ELSE Len(c.val) + c.n <= Len(old)
    IN  {IF c.name \notin DOMAIN d[c.node].props THEN Outcome(NOTFOUND, d, r)
         ELSE IF ~fits THEN Outcome(NOSPACE, d, r)
         ELSE Outcome(0, [d EXCEPT ![c.node].props =
                            With(c.name, Overwritten(old, c.n, c.val), @)], r)}

\* The outcomes of a call that puts a new child in front of the others.
NewSubnode(d, r, c) ==
    Failures(d, r, {NOSPACE} \cup Unopened) \cup
    {Outcome(c.node + 1,
             InsertAt(d, c.node + 1, [depth |-> d[c.node].depth + 1,
                                      name |-> c.name, props |-> <<>>]), r)}

\* No node is given a child whose name another one has.  The call that is told
\* the length of the name also refuses one that a child has with a unit address.
AddSubnode(d, r, c) ==
    LET names == ChildNames(d, c.node)
        taken == IF c.op = "add_subnode" THEN names
                                         ELSE names \cup {BaseName[s] : s \in names}
    IN  IF c.name \in taken THEN Failures(d, r, {EXISTS} \cup Unopened)
                            ELSE NewSubnode(d, r, c)

DelNode(d, r, c) ==
    (IF c.op = "del_node" THEN Failures(d, r, Unopened) ELSE {}) \cup
    {Outcome(0, SubSeq(d, 1, c.node - 1) \o
                SubSeq(d, c.node + Cardinality(Subtree(d, c.node)), Len(d)), r)}

\* Calls on a node.
Edits(d, r, c) ==
    CASE c.op = "set_name"              -> Rename(d, r, c)
      [] c.op = "setprop"               -> SetProp(d, r, c)
      [] c.op = "appendprop"            -> AppendProp(d, r, c)
      [] c.op \in {"delprop", "nop_property"} -> DelProp(d, r, c)
      [] c.op \in {"setprop_inplace", "setprop_inplace_partial"} ->
            OverwriteProp(d, r, c)
      [] c.op \in {"add_subnode", "add_subnode_namelen"} -> AddSubnode(d, r, c)
      [] c.op \in {"del_node", "nop_node"} -> DelNode(d, r, c)

Outcomes(d, r, c) ==
    CASE c.op \in {"open_into", "pack"} -> Reshape(d, r)
      [] c.op = "add_mem_rsv"           -> Reserve(d, r, c)
      [] c.op = "del_mem_rsv"           -> Unreserve(d, r, c)
      [] OTHER -> IF c.node = 0 THEN Failures(d, r, {BADOFFSET} \cup Unopened)
                                ELSE Edits(d, r, c)

-----------------------------------------------------------------------------

Init == call.op = "none"

Next == [ret |-> ret', doc |-> doc', rsv |-> rsv'] \in Outcomes(doc, rsv, call')

Spec == Init /\ [][Next]_vars
=============================================================================
