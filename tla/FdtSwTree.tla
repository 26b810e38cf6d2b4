------------------------------ MODULE FdtSwTree ------------------------------
(***************************************************************************)
(* The blob that is being written implements the tree under construction:  *)
(* FdtSw together with the tree, the number of open nodes and the          *)
(* reservations that its memory stands for.                                *)
(***************************************************************************)
EXTENDS FdtSw

VARIABLES doc, open, rsv, phase

swTreeVars == <<vars, doc, open, rsv, phase>>

\* The reservations of an unfinished list end where the structure block is to
\* start, those of a finished one at an entry of zeros.
RsvWritten(m) ==
    LET n == (fdt_off_dt_struct(m) - SwHeadSize) \div RsvSize
        e(i) == SwHeadSize + RsvSize * (i - 1)
    IN  [i \in 1 .. IF RsvDone(m) THEN n - 1 ELSE n |->
            <<Value(m[e(i) + 1]), Value(m[e(i) + 3])>>]

PhaseOf(m) == CASE fdt_magic(m) = FDT_SW_MAGIC -> "building"
                [] fdt_magic(m) = FDT_MAGIC    -> "done"
                [] OTHER                       -> "none"

SwTreeInit == SwInit /\ doc = <<>> /\ open = 0 /\ rsv = <<>> /\ phase = "none"

ReadBack(m) ==
    /\ phase' = PhaseOf(m)
    /\ doc'  = IF PhaseOf(m) = "none" THEN <<>> ELSE Decoded(m)
    /\ open' = IF PhaseOf(m) = "none" THEN 0 ELSE OpenNodes(Walk(m, 0))
    /\ rsv'  = CASE PhaseOf(m) = "none"     -> <<>>
                 [] PhaseOf(m) = "building" -> RsvWritten(m)
                 [] PhaseOf(m) = "done"     -> Reserved(m)

SwTreeNext == SwNext /\ \E m \in {mem'} : ReadBack(m)

SwTreeSpec == SwTreeInit /\ [][SwTreeNext]_swTreeVars

TB == INSTANCE TreeBuilder

\* Every call that succeeds appends to the tree exactly what it was given, every
\* call that fails, after it has added a string included, appends nothing, and
\* growing the buffer or finishing the blob loses nothing of what was written.
ImplementsBuilder == TB!Spec

\* "Two cases to avoid clobbering data if the old and new buffers partially
\* overlap": fdt_resize keeps all of the tree that has been written.
ResizeKeepsTree ==
    [][ call'.op = "resize" /\ ret' = 0 => doc' = doc /\ rsv' = rsv ]_swTreeVars

=============================================================================
