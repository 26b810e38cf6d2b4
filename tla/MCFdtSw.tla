------------------------------- MODULE MCFdtSw -------------------------------
(***************************************************************************)
(* Small instances of FdtSw for TLC: trees of up to two nodes.             *)
(***************************************************************************)
EXTENDS FdtSwTree

SwNames == {"", "l2", "reg", "led", "status"}
SwNameLen == [s \in SwNames |-> CASE s = "" -> 0 [] s = "l2" -> 2
                                  [] s \in {"reg", "led"} -> 3 [] s = "status" -> 6]
SwBaseName == [s \in SwNames |-> s]
NoImages == {}
SwVals == {<<1, 0, 2, 1, 2>>}
SwRsvs == {[address |-> 7, size |-> 1]}
MCShifts == {0, 3}
AllShifts == {-3, 0, 3}
=============================================================================
