------------------------------ MODULE MCGeneric ------------------------------
(***************************************************************************)
(* Command lines for TLC, in base 4 with addresses of two digits: every    *)
(* parameter of two fields of up to three tokens with every delimiter      *)
(* between and behind them, and pairs of lines.                            *)
(***************************************************************************)
EXTENDS Generic

MCDigit == ("1" :> 1) @@ ("3" :> 3)

MCFields == UNION {[1 .. n -> {"x", "1", "3"}] : n \in 0 .. 3} \cup {<<"appended">>}
MCEnds == {<<>>, <<",">>, <<" ">>}

MCLine(kernel, e1, dtb, e2) == <<"loadaddrs=">> \o kernel \o e1 \o dtb \o e2

MCLines == {MCLine(k, e1, d, e2) : k \in MCFields, e1 \in MCEnds, d \in MCFields, e2 \in MCEnds}

\* Lines that set both addresses, one, or none.
MCFewLines == {MCLine(<<"x", "1", "3">>, <<",">>, <<"x", "3">>, <<" ">>),
               MCLine(<<"appended">>, <<",">>, <<"x", "1">>, <<" ">>),
               MCLine(<<"x", "3">>, <<" ">>, <<>>, <<>>),
               MCLine(<<"x", "1">>, <<>>, <<>>, <<>>),
               <<" ", "x">>, <<"x", "1", " ">> \o MCLine(<<"x", "3">>, <<",">>, <<"x", "3">>, <<",">>),
               <<>>}

MCTagLists == {<<l>> : l \in MCLines} \cup [1 .. 3 -> MCFewLines]
=============================================================================
