------------------------------- MODULE MCDtbs -------------------------------
(***************************************************************************)
(* Three blobs for TLC, the exynos pair and one that contains both their   *)
(* strings, with sizes of every residue modulo 4.                          *)
(***************************************************************************)
EXTENDS Dtbs, Functions

MCInputs == <<"trats.dtb", "other.dtb", "trats2.dtb">>
MCFiles == Range(MCInputs)
MCSize == [f \in MCFiles |->
    CASE f = "trats.dtb"  -> <<9, 12>>
      [] f = "other.dtb"  -> <<8, 11>>
      [] f = "trats2.dtb" -> <<10, 9>>]
MCStrings == [f \in MCFiles |->
    CASE f = "trats.dtb"  -> {"samsung,trats"}
      [] f = "other.dtb"  -> {}
      [] f = "trats2.dtb" -> {"samsung,trats2", "samsung,trats"}]
MCCompats == {"samsung,trats", "samsung,trats2", "raumfeld"}
=============================================================================
