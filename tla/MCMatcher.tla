------------------------------ MODULE MCMatcher ------------------------------
(***************************************************************************)
(* Machines and archives for TLC: every row of every board table, machines *)
(* that no row matches, archives without the blob that is needed, with two *)
(* versions of it, and with blobs that do not fit the buffer.              *)
(***************************************************************************)
EXTENDS Matcher

MCRaumfeld ==
    {[family |-> "raumfeld", machid |-> m, rev |-> r] :
        m \in {2413, 2414, 2415, 2416},
        r \in {<<0, 0, 0, 1>>, <<0, 0, 0, 2>>, <<0, 0, 0, 3>>,
               <<0, 0, 1, 2>>, <<0, 0, 4, 2>>, <<2, 0, 0, 0>>}}
MCChips ==
    {[family |-> "exynos", chip |-> c] : c \in {935954, 274960, 0}}
    \cup {[family |-> "bcm63xx", chip |-> c] : c \in {405816, 405832, 0}}
MCHardware == MCRaumfeld \cup MCChips \cup {[family |-> "dreamplug"]}

MCCmdLen == [quiet |-> 1, debug |-> 2]
MCCmdlines == DOMAIN MCCmdLen

MCBlob(compatible, version, size) ==
    [compatible |-> compatible, version |-> version, size |-> size, room |-> 0,
     chosen |-> version # 3, bootargs |-> IF version = 2 THEN "quiet" ELSE None,
     hw_revision |-> NoWord,
     lt3593 |-> IF compatible = rboards[1].compatible THEN "disabled" ELSE "none",
     pwm    |-> IF compatible = rboards[1].compatible THEN "disabled" ELSE "none"]

MCBlobs(version, size) ==
    [k \in 1..6 |-> MCBlob(rboards[k].compatible, version, size)]
    \o <<MCBlob("samsung,trats", version, size), MCBlob("samsung,trats2", version, size),
         MCBlob("brcm,bcm63138", version, size)>>

MCArchives == {MCBlobs(1, 4), MCBlobs(2, 5), MCBlobs(3, 4), MCBlobs(1, 9),
               MCBlobs(2, 4) \o MCBlobs(1, 4),
               <<MCBlob("globalscale,dreamplug", 1, 4)>>}
=============================================================================
