------------------------------ MODULE TreeBuilder ------------------------------
(***************************************************************************)
(* What the sequential-write interface of libfdt promises, with the blob   *)
(* left out: reservations and then nodes are appended to a tree, one call  *)
(* at a time.  A call that succeeds appends exactly what it is given; a    *)
(* call that fails for lack of space appends nothing, so that it can be    *)
(* repeated in a larger buffer.                                            *)
(***************************************************************************)
EXTENDS Integers, Sequences

VARIABLES doc,          \* the nodes so far, in document order
          open,         \* the number of nodes begun and not ended
          rsv,          \* the memory reservations
          phase,        \* "none", "building" or "done"
          call,         \* the last call: [op, node, name, val, n]
          ret           \* what it returned

vars == <<doc, open, rsv, phase, call, ret>>

NOSPACE  == -3
BADSTATE == -7
BADMAGIC == -9

Outcome(e, d, k, r, p) == [ret |-> e, doc |-> d, open |-> k, rsv |-> r, phase |-> p]

Same(e) == Outcome(e, doc, open, rsv, phase)

WithProp(node, p, val) ==
    [node EXCEPT !.props = [s \in DOMAIN @ \cup {p} |-> IF s = p THEN val ELSE @[s]]]

\* The call's effect on a tree under construction.
Effect(c) ==
    CASE c.op = "add_reservemap_entry" ->
            IF doc # <<>> THEN Same(BADSTATE)
            ELSE Outcome(0, doc, open, Append(rsv, c.val), phase)
      [] c.op = "finish_reservemap" ->
            IF doc # <<>> THEN Same(BADSTATE) ELSE Same(0)
      [] c.op = "begin_node" ->
            Outcome(0, Append(doc, [depth |-> open + 1, name |-> c.name,
                                    props |-> <<>>]), open + 1, rsv, phase)
      [] c.op = "property" ->
            Outcome(0, [doc EXCEPT ![Len(doc)] = WithProp(@, c.name, c.val)],
                    open, rsv, phase)
      [] c.op = "end_node" -> Outcome(0, doc, open - 1, rsv, phase)
      [] c.op = "finish"   -> Outcome(0, doc, open, rsv, "done")
      [] c.op = "resize"   -> Same(0)

EmptyRoot == <<[depth |-> 1, name |-> "", props |-> <<>>]>>

Outcomes(c) ==
    CASE c.op = "create" ->
            {Same(NOSPACE), Outcome(0, <<>>, 0, <<>>, "building")}
      [] c.op = "create_empty_tree" ->
            {Same(NOSPACE), Outcome(NOSPACE, <<>>, 0, <<>>, "building"),
             Outcome(NOSPACE, EmptyRoot, 1, <<>>, "building"),
             Outcome(NOSPACE, EmptyRoot, 0, <<>>, "building"),
             Outcome(0, EmptyRoot, 0, <<>>, "done")}
      [] c.op = "open_into" -> {Same(0), Same(NOSPACE)}
      [] OTHER -> IF phase # "building" THEN {Same(BADMAGIC)}
                                        ELSE {Same(NOSPACE), Effect(c)}

Init == phase = "none" /\ doc = <<>> /\ rsv = <<>> /\ open = 0

Next == [ret |-> ret', doc |-> doc', open |-> open', rsv |-> rsv', phase |-> phase']
            \in Outcomes(call')

Spec == Init /\ [][Next]_vars
=============================================================================
