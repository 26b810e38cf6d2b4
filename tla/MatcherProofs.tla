---------------------------- MODULE MatcherProofs ----------------------------
(***************************************************************************)
(* The boot flow, for every set of machines, archives and command lines    *)
(* and every number of boots: the invariant that says what the matcher has *)
(* decided and what the blob contains at each point of the program.        *)
(***************************************************************************)
EXTENDS Matcher, NatLemmas, TLAPS

-----------------------------------------------------------------------------
(* The inductive invariant.                                                *)

\* The blob for the kernel when the fixup has been made of blob b.
Fixed(b) == fdt_pack(fixup_dtb(fdt_open_into(b)))

Booting == pc \in {"matched", "fixup", "start", "kernel"}

Types ==
    /\ pc \in {"entry", "panic", "matched", "fixup", "start", "kernel"}
    /\ hw \in Hardware /\ archive \in Archives
    /\ system_rev \in Word /\ cmdline \in Cmdlines \cup {None}
    /\ board.dtb \in 0 .. Len(archive)
    /\ boots \in Nat

\* How the matcher was started: by the boot loader of the machine, or by kexec
\* with a tree that an earlier matcher has chosen for it.
Started ==
    hw.family = "raumfeld" =>
        \/ /\ boots = 0 /\ machid = hw.machid
           /\ \E c \in Cmdlines \cup {None} : tags \in BootTags(hw, c)
        \/ /\ boots # 0 /\ machid = DT_MACHID
           /\ tags \in Blob /\ Model(hw) # None /\ tags.compatible = Model(hw)

\* What match_board() has found.
Matched ==
    Booting =>
        /\ board.dtb = find_dtb(archive, Model(hw))
        /\ hw.family # "dreamplug" => Model(hw) # None /\ board.dtb # 0
        /\ board.fixup \in IF hw.family = "raumfeld" THEN {"common", "controller"}
                                                     ELSE {None}
        /\ hw.family = "raumfeld" =>
                cmdline = Given /\ (boots = 0 => system_rev = hw.rev)

\* What main() has made of it.
Placed ==
    /\ pc \in {"fixup", "start", "kernel"} =>
            relocated = (board.dtb # 0 /\ RELOCATE_DTB)
    /\ pc = "fixup" \/ (pc \in {"start", "kernel"} /\ board.fixup = None) =>
            dtb = IF board.dtb = 0 THEN tags ELSE archive[board.dtb]
    /\ pc \in {"start", "kernel"} /\ board.fixup # None =>
            dtb = Fixed(archive[board.dtb])

Inv == Types /\ Started /\ Matched /\ Placed

-----------------------------------------------------------------------------
(* Tables and archives.                                                    *)

\* A non-empty set of natural numbers has a least element.
LEMMA MinFacts ==
    ASSUME NEW T, T \subseteq Nat, T # {}
    PROVE  Min(T) \in T /\ \A u \in T : Min(T) <= u
  BY LeastNatural DEF Min

\* A loop over a table ends with a row that matches, if there is one.
LEMMA FirstRow ==
    ASSUME NEW table, NEW rows, rows \subseteq Nat, rows # {}
    PROVE  \E k \in rows : FirstOf(table, rows) = table[k]
  BY MinFacts DEF FirstOf

LEMMA NoRow == \A table : FirstOf(table, {}).compatible = None
  BY DEF FirstOf

\* The rows of board-raumfeld.c.
LEMMA RboardRows ==
    \A k \in 1..6 : /\ rboards[k].compatible # None
                    /\ rboards[k].fixup \in {"common", "controller"}
<1> DEFINE Right(row) == /\ row.compatible # None
                         /\ row.fixup \in {"common", "controller"}
<1>1. Right(rboards[1]) /\ Right(rboards[2]) /\ Right(rboards[3])
  <2>1. Right(rboards[1])
    BY ZenonT(60) DEF rboards, None
  <2>2. Right(rboards[2])
    BY ZenonT(60) DEF rboards, None
  <2>3. Right(rboards[3])
    BY ZenonT(60) DEF rboards, None
  <2> QED BY <2>1, <2>2, <2>3
<1>2. Right(rboards[4]) /\ Right(rboards[5]) /\ Right(rboards[6])
  <2>1. Right(rboards[4])
    BY ZenonT(60) DEF rboards, None
  <2>2. Right(rboards[5])
    BY ZenonT(60) DEF rboards, None
  <2>3. Right(rboards[6])
    BY ZenonT(60) DEF rboards, None
  <2> QED BY <2>1, <2>2, <2>3
<1> HIDE DEF Right
<1>3. \A k \in 1..6 : Right(rboards[k])
  <2> TAKE k \in 1..6
  <2>1. k = 1 \/ k = 2 \/ k = 3 \/ k = 4 \/ k = 5 \/ k = 6
    OBVIOUS
  <2> QED BY <1>1, <1>2, <2>1, Zenon
<1> QED BY <1>3 DEF Right

\* The board of a Raumfeld machine that a row matches, by number or by name.
LEMMA RboardFound ==
    ASSUME NEW rows, rows \subseteq 1..6,
           FirstOf(rboards, rows).compatible # None
    PROVE  /\ FirstOf(rboards, rows).fixup \in {"common", "controller"}
           /\ \E k \in rows : FirstOf(rboards, rows) = rboards[k]
<1>1. rows # {} /\ rows \subseteq Nat
  BY NoRow
<1>2. PICK k \in rows : FirstOf(rboards, rows) = rboards[k]
  BY <1>1, FirstRow
<1> QED BY <1>2, RboardRows

LEMMA RboardNamed ==
    ASSUME NEW name, NEW k \in 1..6, rboards[k].compatible = name
    PROVE  FirstOf(rboards, RowsNamed(name)).compatible = name
<1>1. RowsNamed(name) \subseteq Nat /\ RowsNamed(name) # {}
  BY DEF RowsNamed
<1>2. PICK j \in RowsNamed(name) : FirstOf(rboards, RowsNamed(name)) = rboards[j]
  BY <1>1, FirstRow
<1> QED BY <1>2 DEF RowsNamed

\* The first blob with a string, if there is one.
LEMMA FirstBlob ==
    ASSUME NEW a \in Archives, NEW name
    PROVE  /\ find_dtb(a, name) \in 0 .. Len(a)
           /\ find_dtb(a, name) # 0 =>
                /\ find_dtb(a, name) \in DOMAIN a
                /\ a[find_dtb(a, name)].compatible = name
                /\ \A j \in 1 .. find_dtb(a, name) - 1 : a[j].compatible # name
           /\ find_dtb(a, name) = 0 => \A j \in DOMAIN a : a[j].compatible # name
<1> DEFINE hits == {k \in DOMAIN a : a[k].compatible = name}
<1>1. a \in Seq(Blob)
  BY ArchiveAssumption
<1>2. Len(a) \in Nat /\ DOMAIN a = 1 .. Len(a)
  BY <1>1
<1>3. CASE hits = {}
  <2>1. find_dtb(a, name) = 0
    BY <1>3 DEF find_dtb
  <2> QED BY <1>2, <1>3, <2>1
<1>4. CASE hits # {}
  <2>1. hits \subseteq Nat
    BY <1>2
  <2>2. Min(hits) \in hits /\ \A u \in hits : Min(hits) <= u
    <3> HIDE DEF hits
    <3> QED BY <1>4, <2>1, MinFacts
  <2>3. find_dtb(a, name) = Min(hits)
    BY <1>4 DEF find_dtb
  <2>4. PICK m \in Nat : m = Min(hits)
    BY <2>1, <2>2, Zenon
  <2>5. m \in DOMAIN a /\ a[m].compatible = name
    BY <2>2, <2>4
  <2>6. \A j \in 1 .. m - 1 : a[j].compatible # name
    <3> TAKE j \in 1 .. m - 1
    <3>1. j \in DOMAIN a /\ ~(m <= j)
      BY <1>2, <2>5
    <3> QED BY <2>2, <2>4, <3>1
  <2>7. find_dtb(a, name) = m
    BY <2>3, <2>4, Zenon
  <2>8. m \in 0 .. Len(a) /\ m # 0
    BY <1>2, <2>5
  <2> HIDE DEF hits
  <2> QED BY <2>5, <2>6, <2>7, <2>8
<1> QED BY <1>3, <1>4

-----------------------------------------------------------------------------
(* The tags.                                                               *)

LEMMA WordNotEmpty == \A w \in Word : w # NoWord
<1> SUFFICES ASSUME NEW w \in Word, w = NoWord PROVE FALSE
  OBVIOUS
<1>1. 1 \in DOMAIN w
  BY DEF Word
<1> QED BY <1>1 DEF NoWord

LEMMA GreatestOfPair ==
    /\ \A S : S = {1} => Max(S) = 1
    /\ \A S : S = {2} => Max(S) = 2
  BY DEF Max

\* Whatever the order of the tags, each is found.
LEMMA TagsRead ==
    ASSUME NEW h \in Hardware, h.family = "raumfeld",
           NEW c \in Cmdlines \cup {None}, NEW list \in BootTags(h, c), NEW value
    PROVE  LastRevision(list, value) = h.rev /\ LastCmdline(list) = c
<1> DEFINE rev == [rev |-> h.rev, cmdline |-> None]
           cmd == [rev |-> NoWord, cmdline |-> c]
           revs == {k \in DOMAIN list : list[k].rev # NoWord}
           cmds == {k \in DOMAIN list : list[k].cmdline # None}
<1>0. h.rev # NoWord
  BY HardwareAssumption, WordNotEmpty
<1>1. CASE list = <<rev>> /\ c = None
  <2>1. revs = {1} /\ cmds = {}
    BY <1>0, <1>1
  <2> QED BY <1>1, <2>1, GreatestOfPair DEF LastRevision, LastCmdline
<1>2. CASE list = <<rev, cmd>> /\ c # None
  <2>1. revs = {1} /\ cmds = {2}
    BY <1>0, <1>2
  <2> QED BY <1>2, <2>1, GreatestOfPair DEF LastRevision, LastCmdline
<1>3. CASE list = <<cmd, rev>> /\ c # None
  <2>1. revs = {2} /\ cmds = {1}
    BY <1>0, <1>3
  <2> QED BY <1>3, <2>1, GreatestOfPair DEF LastRevision, LastCmdline
<1> QED BY <1>1, <1>2, <1>3 DEF BootTags

-----------------------------------------------------------------------------
(* The fixups.                                                             *)

\* A blob in which the command line takes up space.
Sound(b) == b \in Blob /\ (b.bootargs # None => CmdLen[b.bootargs] <= b.size)

\* What no fixup changes.
Same(b, c) == /\ c.compatible = b.compatible /\ c.version = b.version
              /\ c.chosen = b.chosen

LEMMA OpenSound ==
    ASSUME NEW b, Sound(b)
    PROVE  /\ Sound(fdt_open_into(b)) /\ Same(b, fdt_open_into(b))
           /\ fdt_open_into(b).bootargs = b.bootargs
           /\ fdt_open_into(b).lt3593 = b.lt3593 /\ fdt_open_into(b).pwm = b.pwm
  BY MatcherAssumption DEF Sound, Same, Blob, fdt_open_into

\* There is as much room for the same command line in a blob that has not shrunk.
LEMMA StillSound ==
    ASSUME NEW b, Sound(b), NEW c \in Blob, c.bootargs = b.bootargs, c.size >= b.size
    PROVE  Sound(c)
<1> SUFFICES ASSUME c.bootargs # None PROVE CmdLen[c.bootargs] <= c.size
  BY DEF Sound
<1>1. c.bootargs \in Cmdlines /\ b.size \in Nat /\ c.size \in Nat
  BY DEF Blob, Sound
<1>2. CmdLen[c.bootargs] \in Nat
  BY <1>1, MatcherAssumption
<1>3. CmdLen[c.bootargs] <= b.size
  BY DEF Sound
<1> QED BY <1>1, <1>2, <1>3

LEMMA SetRevision ==
    ASSUME NEW b, Sound(b), NEW need \in {0, 1}, NEW w \in Word,
           NEW c, c = SetProp(b, "hw_revision", w, need)
    PROVE  /\ Sound(c) /\ Same(b, c)
           /\ c.bootargs = b.bootargs /\ c.lt3593 = b.lt3593 /\ c.pwm = b.pwm
           /\ c.room >= b.room - 1
<1>0. b \in Blob /\ b.size \in Nat /\ b.room \in Nat
  BY DEF Sound, Blob
<1>1. CASE need > b.room
  <2>1. c = b
    BY <1>1 DEF SetProp
  <2> QED BY <1>0, <2>1 DEF Same
<1>2. CASE ~(need > b.room)
  <2>1. c = [b EXCEPT !["hw_revision"] = w, !.size = @ + need, !.room = @ - need]
    BY <1>2 DEF SetProp
  <2>2. b.size + need \in Nat /\ b.room - need \in Nat
    BY <1>0, <1>2
  <2>3. c \in Blob
    BY <1>0, <2>1, <2>2 DEF Blob
  <2>4. c.compatible = b.compatible /\ c.version = b.version /\ c.chosen = b.chosen
    BY <1>0, <2>1 DEF Blob
  <2>5. c.bootargs = b.bootargs /\ c.lt3593 = b.lt3593 /\ c.pwm = b.pwm
    BY <1>0, <2>1 DEF Blob
  <2>6. c.room = b.room - need /\ c.size = b.size + need
    BY <1>0, <2>1 DEF Blob
  <2>7. c.size >= b.size /\ c.room >= b.room - 1
    BY <1>0, <2>6
  <2>8. Sound(c)
    BY <2>3, <2>5, <2>7, StillSound
  <2> QED BY <2>4, <2>5, <2>7, <2>8 DEF Same
<1> QED BY <1>1, <1>2

\* The old command line's space is there for the new one.
LEMMA SetCmdline ==
    ASSUME NEW b, Sound(b), NEW line \in Cmdlines,
           NEW old, old = IF b.bootargs = None THEN 0 ELSE CmdLen[b.bootargs],
           NEW c, c = SetProp(b, "bootargs", line, CmdLen[line] - old)
    PROVE  /\ Sound(c) /\ Same(b, c)
           /\ c.lt3593 = b.lt3593 /\ c.pwm = b.pwm
           /\ CmdLen[line] <= b.room => c.bootargs = line
<1> DEFINE need == CmdLen[line] - old
<1>0. b \in Blob /\ b.size \in Nat /\ b.room \in Nat
  BY DEF Sound, Blob
<1>1. old \in Nat /\ old <= b.size /\ CmdLen[line] \in Nat
  <2>1. CASE b.bootargs = None
    BY <1>0, <2>1, MatcherAssumption
  <2>2. CASE b.bootargs # None
    <3>1. b.bootargs \in Cmdlines
      BY <1>0, <2>2 DEF Blob
    <3> QED BY <2>2, <3>1, MatcherAssumption DEF Sound
  <2> QED BY <2>1, <2>2
<1>2. CASE need > b.room
  <2>1. c = b
    BY <1>2 DEF SetProp
  <2>2. ~(CmdLen[line] <= b.room)
    BY <1>0, <1>1, <1>2
  <2> QED BY <2>1, <2>2 DEF Same
<1>3. CASE ~(need > b.room)
  <2>1. c = [b EXCEPT !["bootargs"] = line, !.size = @ + need, !.room = @ - need]
    BY <1>3 DEF SetProp
  <2>2. b.size + need \in Nat /\ b.room - need \in Nat
    BY <1>0, <1>1, <1>3
  <2> HIDE DEF need
  <2>3. c \in Blob
    BY <1>0, <2>1, <2>2 DEF Blob
  <2>4. c.compatible = b.compatible /\ c.version = b.version /\ c.chosen = b.chosen
    BY <1>0, <2>1 DEF Blob
  <2>5. c.bootargs = line /\ c.lt3593 = b.lt3593 /\ c.pwm = b.pwm
    BY <1>0, <2>1 DEF Blob
  <2>6. c.size = b.size + need
    BY <1>0, <2>1 DEF Blob
  <2>7. CmdLen[line] <= c.size
    BY <1>0, <1>1, <2>6 DEF need
  <2> QED BY <2>3, <2>4, <2>5, <2>7 DEF Same, Sound
<1> QED BY <1>2, <1>3

\* Enabling a node makes a value shorter and never fails.
LEMMA EnablePwm ==
    ASSUME NEW b, Sound(b),
           NEW c, c = IF b.pwm = "none" THEN b ELSE SetProp(b, "pwm", "okay", 0)
    PROVE  /\ Sound(c) /\ Same(b, c) /\ c.bootargs = b.bootargs
           /\ c.lt3593 = b.lt3593 /\ c.pwm = IF b.pwm = "none" THEN "none" ELSE "okay"
<1>0. b \in Blob /\ b.size \in Nat /\ b.room \in Nat
  BY DEF Sound, Blob
<1>1. CASE b.pwm = "none"
  <2>1. c = b
    BY <1>1
  <2> QED BY <1>1, <2>1 DEF Same
<1>2. CASE b.pwm # "none"
  <2>1. c = SetProp(b, "pwm", "okay", 0) /\ ~(0 > b.room)
    BY <1>0, <1>2
  <2>2. c = [b EXCEPT !["pwm"] = "okay", !.size = @ + 0, !.room = @ - 0]
    BY <2>1 DEF SetProp
  <2>3. b.size + 0 \in Nat /\ b.room - 0 \in Nat
    BY <1>0
  <2>4. c \in Blob
    BY <1>0, <2>2, <2>3 DEF Blob
  <2>5. /\ c.compatible = b.compatible /\ c.version = b.version /\ c.chosen = b.chosen
        /\ c.bootargs = b.bootargs /\ c.lt3593 = b.lt3593 /\ c.pwm = "okay"
    BY <1>0, <2>2 DEF Blob
  <2>6. c.size = b.size + 0
    BY <1>0, <2>2 DEF Blob
  <2>7. Sound(c)
    BY <1>0, <2>4, <2>5, <2>6, StillSound
  <2> QED BY <1>2, <2>5, <2>7 DEF Same
<1> QED BY <1>1, <1>2

LEMMA EnableLt3593 ==
    ASSUME NEW b, Sound(b),
           NEW c, c = IF b.lt3593 = "none" THEN b ELSE SetProp(b, "lt3593", "okay", 0)
    PROVE  /\ Sound(c) /\ Same(b, c) /\ c.bootargs = b.bootargs
           /\ c.pwm = b.pwm /\ c.lt3593 = IF b.lt3593 = "none" THEN "none" ELSE "okay"
<1>0. b \in Blob /\ b.size \in Nat /\ b.room \in Nat
  BY DEF Sound, Blob
<1>1. CASE b.lt3593 = "none"
  <2>1. c = b
    BY <1>1
  <2> QED BY <1>1, <2>1 DEF Same
<1>2. CASE b.lt3593 # "none"
  <2>1. c = SetProp(b, "lt3593", "okay", 0) /\ ~(0 > b.room)
    BY <1>0, <1>2
  <2>2. c = [b EXCEPT !["lt3593"] = "okay", !.size = @ + 0, !.room = @ - 0]
    BY <2>1 DEF SetProp
  <2>3. b.size + 0 \in Nat /\ b.room - 0 \in Nat
    BY <1>0
  <2>4. c \in Blob
    BY <1>0, <2>2, <2>3 DEF Blob
  <2>5. /\ c.compatible = b.compatible /\ c.version = b.version /\ c.chosen = b.chosen
        /\ c.bootargs = b.bootargs /\ c.pwm = b.pwm /\ c.lt3593 = "okay"
    BY <1>0, <2>2 DEF Blob
  <2>6. c.size = b.size + 0
    BY <1>0, <2>2 DEF Blob
  <2>7. Sound(c)
    BY <1>0, <2>4, <2>5, <2>6, StillSound
  <2> QED BY <1>2, <2>5, <2>7 DEF Same
<1> QED BY <1>1, <1>2

\* raumfeld_fixup_dtb_common leaves the backlight alone, and passes the command
\* line on if there is room for it behind the revision.
LEMMA CommonFixup ==
    ASSUME NEW b, Sound(b), system_rev \in Word, cmdline \in Cmdlines \cup {None}
    PROVE  /\ Sound(FixupCommon(b)) /\ Same(b, FixupCommon(b))
           /\ FixupCommon(b).lt3593 = b.lt3593 /\ FixupCommon(b).pwm = b.pwm
           /\ b.chosen /\ (\A c \in Cmdlines : CmdLen[c] <= b.room - 1) =>
                FixupCommon(b).bootargs = IF cmdline # None THEN cmdline ELSE b.bootargs
<1> DEFINE w    == <<0, 0, 0, system_rev[4]>>
           need == IF b.hw_revision = NoWord THEN 1 ELSE 0
           b1   == SetProp(b, "hw_revision", w, need)
           old  == IF b.bootargs = None THEN 0 ELSE CmdLen[b.bootargs]
           b2   == SetProp(b1, "bootargs", cmdline, CmdLen[cmdline] - old)
<1>1. w \in Word /\ need \in {0, 1}
  BY DEF Word
<1>2. FixupCommon(b) = IF cmdline = None \/ ~b.chosen THEN b1 ELSE b2
  BY DEF FixupCommon
<1> HIDE DEF w, need
<1>3. /\ Sound(b1) /\ Same(b, b1)
      /\ b1.bootargs = b.bootargs /\ b1.lt3593 = b.lt3593 /\ b1.pwm = b.pwm
      /\ b1.room >= b.room - 1
  BY <1>1, SetRevision
<1>4. old = IF b1.bootargs = None THEN 0 ELSE CmdLen[b1.bootargs]
  BY <1>3
<1> HIDE DEF b1, old
<1>5. CASE cmdline = None \/ ~b.chosen
  BY <1>2, <1>3, <1>5
<1>6. CASE ~(cmdline = None \/ ~b.chosen)
  <2>1. cmdline \in Cmdlines
    BY <1>6
  <2>2. /\ Sound(b2) /\ Same(b1, b2)
        /\ b2.lt3593 = b1.lt3593 /\ b2.pwm = b1.pwm
        /\ CmdLen[cmdline] <= b1.room => b2.bootargs = cmdline
    BY <1>3, <1>4, <2>1, SetCmdline
  <2> HIDE DEF b2
  <2>3. b.room \in Nat /\ b1.room \in Nat /\ CmdLen[cmdline] \in Nat
    BY <1>3, <2>1, MatcherAssumption DEF Sound, Blob
  <2>4. CmdLen[cmdline] <= b.room - 1 => CmdLen[cmdline] <= b1.room
    BY <1>3, <2>3
  <2> QED BY <1>2, <1>3, <1>6, <2>1, <2>2, <2>4 DEF Same
<1> QED BY <1>5, <1>6

\* The controller's fixup enables one of the nodes besides.
LEMMA ControllerFixup ==
    ASSUME NEW b, Sound(b), system_rev \in Word, cmdline \in Cmdlines \cup {None}
    PROVE  LET f == FixupController(b)
           IN  /\ Sound(f) /\ Same(b, f) /\ f.bootargs = FixupCommon(b).bootargs
               /\ IF system_rev = <<0, 0, 0, 2>>
                  THEN /\ f.pwm = b.pwm
                       /\ f.lt3593 = IF b.lt3593 = "none" THEN "none" ELSE "okay"
                  ELSE /\ f.lt3593 = b.lt3593
                       /\ f.pwm = IF b.pwm = "none" THEN "none" ELSE "okay"
<1> DEFINE f  == FixupController(b)
           b1 == FixupCommon(b)
<1>1. Sound(b1) /\ Same(b, b1) /\ b1.lt3593 = b.lt3593 /\ b1.pwm = b.pwm
  BY CommonFixup
<1>2. CASE system_rev = <<0, 0, 0, 2>>
  <2>1. f = IF b1.lt3593 = "none" THEN b1 ELSE SetProp(b1, "lt3593", "okay", 0)
    BY <1>2 DEF FixupController
  <2> HIDE DEF f, b1
  <2>2. /\ Sound(f) /\ Same(b1, f) /\ f.bootargs = b1.bootargs /\ f.pwm = b1.pwm
        /\ f.lt3593 = IF b1.lt3593 = "none" THEN "none" ELSE "okay"
    BY <1>1, <2>1, EnableLt3593
  <2> QED BY <1>1, <1>2, <2>2 DEF f, b1, Same
<1>3. CASE system_rev # <<0, 0, 0, 2>>
  <2>1. f = IF b1.pwm = "none" THEN b1 ELSE SetProp(b1, "pwm", "okay", 0)
    BY <1>3 DEF FixupController
  <2> HIDE DEF f, b1
  <2>2. /\ Sound(f) /\ Same(b1, f) /\ f.bootargs = b1.bootargs /\ f.lt3593 = b1.lt3593
        /\ f.pwm = IF b1.pwm = "none" THEN "none" ELSE "okay"
    BY <1>1, <2>1, EnablePwm
  <2> QED BY <1>1, <1>3, <2>2 DEF f, b1, Same
<1> QED BY <1>2, <1>3

\* What becomes of a blob of the archive on its way to the kernel.
LEMMA FixedBlob ==
    ASSUME NEW b, Sound(b), system_rev \in Word, cmdline \in Cmdlines \cup {None},
           board.fixup \in {"common", "controller"}
    PROVE  /\ Fixed(b) \in Blob /\ Same(b, Fixed(b))
           /\ /\ b.chosen
              /\ \A c \in Cmdlines : b.size + 1 + CmdLen[c] <= Buffer
              => Fixed(b).bootargs = IF cmdline # None THEN cmdline ELSE b.bootargs
           /\ board.fixup = "controller" =>
                IF system_rev = <<0, 0, 0, 2>>
                THEN /\ Fixed(b).pwm = b.pwm
                     /\ Fixed(b).lt3593 = IF b.lt3593 = "none" THEN "none" ELSE "okay"
                ELSE /\ Fixed(b).lt3593 = b.lt3593
                     /\ Fixed(b).pwm = IF b.pwm = "none" THEN "none" ELSE "okay"
<1> DEFINE o == fdt_open_into(b)
           f == fixup_dtb(o)
           p == fdt_pack(f)
<1>1. /\ Sound(o) /\ Same(b, o) /\ o.bootargs = b.bootargs
      /\ o.lt3593 = b.lt3593 /\ o.pwm = b.pwm
  BY OpenSound
<1>2. (\A c \in Cmdlines : b.size + 1 + CmdLen[c] <= Buffer)
        => \A c \in Cmdlines : CmdLen[c] <= o.room - 1
  <2> SUFFICES ASSUME NEW c \in Cmdlines, b.size + 1 + CmdLen[c] <= Buffer
               PROVE  CmdLen[c] <= o.room - 1
    OBVIOUS
  <2>1. b \in Blob /\ b.size \in Nat /\ CmdLen[c] \in Nat /\ Buffer \in Nat
    BY MatcherAssumption DEF Sound, Blob
  <2>2. o = [b EXCEPT !.room = Buffer - b.size]
    BY <2>1 DEF fdt_open_into
  <2>3. o.room = Buffer - b.size
    BY <2>1, <2>2 DEF Blob
  <2> QED BY <2>1, <2>3
<1> HIDE DEF o
<1>3. f = IF board.fixup = "common" THEN FixupCommon(o) ELSE FixupController(o)
  BY DEF fixup_dtb
<1>4. /\ Sound(f) /\ Same(o, f) /\ f.bootargs = FixupCommon(o).bootargs
      /\ board.fixup = "controller" =>
            IF system_rev = <<0, 0, 0, 2>>
            THEN /\ f.pwm = o.pwm
                 /\ f.lt3593 = IF o.lt3593 = "none" THEN "none" ELSE "okay"
            ELSE /\ f.lt3593 = o.lt3593
                 /\ f.pwm = IF o.pwm = "none" THEN "none" ELSE "okay"
  <2> HIDE DEF f
  <2>1. CASE board.fixup = "common"
    <3>1. f = FixupCommon(o)
      BY <1>3, <2>1
    <3> QED BY <1>1, <2>1, <3>1, CommonFixup
  <2>2. CASE board.fixup = "controller"
    <3>1. f = FixupController(o)
      BY <1>3, <2>2
    <3> QED BY <1>1, <2>2, <3>1, ControllerFixup
  <2> QED BY <2>1, <2>2
<1>5. b.chosen /\ (\A c \in Cmdlines : b.size + 1 + CmdLen[c] <= Buffer)
        => f.bootargs = IF cmdline # None THEN cmdline ELSE b.bootargs
  <2> HIDE DEF f
  <2> SUFFICES ASSUME b.chosen, \A c \in Cmdlines : CmdLen[c] <= o.room - 1
               PROVE  f.bootargs = IF cmdline # None THEN cmdline ELSE b.bootargs
    BY <1>2
  <2>1. o.chosen
    BY <1>1 DEF Same
  <2>2. FixupCommon(o).bootargs = IF cmdline # None THEN cmdline ELSE o.bootargs
    BY <1>1, <2>1, CommonFixup
  <2> QED BY <1>1, <1>4, <2>2
<1> HIDE DEF f
<1>6. p \in Blob /\ Same(f, p) /\ p.bootargs = f.bootargs /\ p.lt3593 = f.lt3593
      /\ p.pwm = f.pwm
  BY <1>4 DEF Sound, Blob, fdt_pack, Same
<1>7. Fixed(b) = p
  BY DEF Fixed, f, o
<1> HIDE DEF p
<1>8. Same(b, p)
  BY <1>1, <1>4, <1>6 DEF Same
<1> QED BY <1>1, <1>4, <1>5, <1>6, <1>7, <1>8

-----------------------------------------------------------------------------
(* The invariant.                                                          *)

\* The blobs of an archive are as a fixup needs them.
LEMMA ArchiveSound ==
    ASSUME NEW a \in Archives
    PROVE  /\ Len(a) \in Nat /\ DOMAIN a = 1 .. Len(a)
           /\ \A k \in DOMAIN a : Sound(a[k]) /\ "okay" \notin {a[k].lt3593, a[k].pwm}
<1>1. a \in Seq(Blob)
  BY ArchiveAssumption
<1>2. \A k \in DOMAIN a : a[k] \in Blob
  BY <1>1
<1> QED BY <1>1, <1>2, ArchiveAssumption DEF Sound

LEMMA InitInv == Init => Inv
<1> SUFFICES ASSUME Init PROVE Inv
  OBVIOUS
<1>1. hw \in Hardware /\ archive \in Archives /\ pc = "entry" /\ board.dtb = 0 /\ boots = 0
  BY DEF Init, ZeroBoard
<1>2. system_rev \in Word /\ cmdline \in Cmdlines \cup {None}
  BY DEF Init, ZeroRev, Word
<1>3. Types
  BY <1>1, <1>2, ArchiveSound DEF Types
<1>4. Started
  BY <1>1 DEF Init, Started
<1> QED BY <1>1, <1>3, <1>4 DEF Inv, Matched, Booting, Placed

\* What match_board() has selected is in the archive.
LEMMA Selected ==
    ASSUME NEW rboard, Select(rboard), archive \in Archives
    PROVE  \/ pc' = "panic" /\ board' = board
           \/ /\ pc' = "matched" /\ rboard.compatible # None
              /\ board'.dtb = find_dtb(archive, rboard.compatible)
              /\ board'.dtb \in 1 .. Len(archive)
              /\ board'.fixup = rboard.fixup
<1> DEFINE k == find_dtb(archive, rboard.compatible)
<1>1. k \in 0 .. Len(archive) /\ Len(archive) \in Nat
  BY FirstBlob, ArchiveSound
<1> HIDE DEF k
<1>2. CASE rboard.compatible = None \/ k = 0
  BY <1>2 DEF Select, k
<1>3. CASE ~(rboard.compatible = None \/ k = 0)
  <2>1. /\ pc' = "matched"
        /\ board' = [compatible |-> rboard.compatible, dtb |-> k, fixup |-> rboard.fixup]
    BY <1>3 DEF Select, k
  <2>2. k \in 1 .. Len(archive)
    BY <1>1, <1>3
  <2> QED BY <1>3, <2>1, <2>2 DEF k
<1> QED BY <1>2, <1>3

\* The steps of match_board() have this much in common.
LEMMA MatchStep ==
    ASSUME Inv, NEW rboard, Select(rboard),
           UNCHANGED <<hw, archive, machid, tags, dtb, relocated, leds, boots>>,
           hw.family # "dreamplug",
           system_rev' \in Word, cmdline' \in Cmdlines \cup {None},
           rboard.compatible = Model(hw) \/ rboard.compatible = None,
           rboard.compatible # None =>
                rboard.fixup \in IF hw.family = "raumfeld" THEN {"common", "controller"}
                                                          ELSE {None},
           hw.family = "raumfeld" =>
                cmdline' = Given /\ (boots = 0 => system_rev' = hw.rev)
    PROVE  Inv'
<1>1. archive \in Archives /\ board.dtb \in 0 .. Len(archive)
  BY DEF Inv, Types
<1>2. \/ pc' = "panic" /\ board' = board
      \/ /\ pc' = "matched" /\ rboard.compatible # None
         /\ board'.dtb = find_dtb(archive, rboard.compatible)
         /\ board'.dtb \in 1 .. Len(archive)
         /\ board'.fixup = rboard.fixup
  BY <1>1, Selected
<1>3. Types'
  BY <1>1, <1>2, ArchiveSound DEF Inv, Types
<1>4. Started'
  BY DEF Inv, Started
<1>5. Matched'
  <2>1. CASE pc' = "panic"
    BY <2>1 DEF Matched, Booting
  <2>2. CASE pc' # "panic"
    <3>1. /\ board'.dtb = find_dtb(archive, Model(hw)) /\ board'.dtb # 0
          /\ Model(hw) # None /\ board'.fixup = rboard.fixup
      BY <1>1, <1>2, <2>2, ArchiveSound
    <3>2. Given' = Given
      BY DEF Given
    <3> QED BY <1>2, <2>2, <3>1, <3>2 DEF Matched
  <2> QED BY <2>1, <2>2
<1>6. Placed'
  BY <1>2 DEF Placed
<1> QED BY <1>3, <1>4, <1>5, <1>6 DEF Inv

LEMMA AtagsInv == Inv /\ match_board_atags => Inv'
<1> SUFFICES ASSUME Inv, match_board_atags PROVE Inv'
  OBVIOUS
<1>1. /\ hw.family = "raumfeld" /\ hw \in Hardware /\ machid # DT_MACHID
      /\ system_rev' = LastRevision(tags, system_rev) /\ cmdline' = LastCmdline(tags)
      /\ UNCHANGED <<hw, archive, machid, tags, dtb, relocated, leds, boots>>
  BY DEF match_board_atags, Inv, Types
<1>2. machid = hw.machid /\ \E c \in Cmdlines \cup {None} : tags \in BootTags(hw, c)
  BY <1>1 DEF Inv, Started
<1>3. PICK c \in Cmdlines \cup {None} : tags \in BootTags(hw, c)
  BY <1>2
<1>4. system_rev' = hw.rev /\ cmdline' = c /\ LastCmdline(tags) = c
  BY <1>1, <1>3, TagsRead
<1>5. system_rev' \in Word
  BY <1>1, <1>4, HardwareAssumption
<1>6. PICK rb : rb = FirstOf(rboards, RowsOf(machid, system_rev'))
  OBVIOUS
<1>7. Select(rb)
  BY <1>6 DEF match_board_atags
<1>8. rb.compatible = Model(hw)
  BY <1>1, <1>2, <1>4, <1>6 DEF Model
<1>9. rb.compatible # None => rb.fixup \in {"common", "controller"}
  BY <1>6, RboardFound DEF RowsOf
<1>10. cmdline' = Given
  BY <1>1 DEF Given
<1> QED BY <1>1, <1>4, <1>5, <1>7, <1>8, <1>9, <1>10, MatchStep

LEMMA DtbInv == Inv /\ match_board_dtb => Inv'
<1> SUFFICES ASSUME Inv, match_board_dtb PROVE Inv'
  OBVIOUS
<1>1. /\ hw.family = "raumfeld" /\ hw \in Hardware /\ machid = DT_MACHID
      /\ system_rev' = IF tags.hw_revision # NoWord
                       THEN LittleEndian(tags.hw_revision) ELSE system_rev
      /\ cmdline' = IF tags.chosen THEN tags.bootargs ELSE None
      /\ UNCHANGED <<hw, archive, machid, tags, dtb, relocated, leds, boots>>
      /\ system_rev \in Word
  BY DEF match_board_dtb, Inv, Types
<1>2. /\ boots # 0 /\ tags \in Blob
      /\ Model(hw) # None /\ tags.compatible = Model(hw)
  <2>1. machid # hw.machid
    BY <1>1, HardwareAssumption DEF DT_MACHID
  <2> QED BY <1>1, <2>1 DEF Inv, Started
<1>3. system_rev' \in Word
  <2>1. CASE tags.hw_revision = NoWord
    BY <1>1, <2>1
  <2>2. CASE tags.hw_revision # NoWord
    <3>1. tags.hw_revision \in Word
      BY <1>2, <2>2 DEF Blob
    <3>2. LittleEndian(tags.hw_revision) \in Word
      BY <3>1 DEF LittleEndian, Word
    <3> QED BY <1>1, <2>2, <3>2
  <2> QED BY <2>1, <2>2
<1>4. cmdline' \in Cmdlines \cup {None}
  BY <1>1, <1>2 DEF Blob
<1>5. PICK rb : rb = FirstOf(rboards, RowsNamed(tags.compatible))
  OBVIOUS
<1>6. Select(rb)
  BY <1>5 DEF match_board_dtb
<1>7. rb.compatible # None =>
        rb.compatible = Model(hw) /\ rb.fixup \in {"common", "controller"}
  <2>1. SUFFICES ASSUME rb.compatible # None
        PROVE  rb.compatible = Model(hw) /\ rb.fixup \in {"common", "controller"}
    OBVIOUS
  <2>2. RowsNamed(tags.compatible) \subseteq 1..6
    BY DEF RowsNamed
  <2>3. PICK k \in RowsNamed(tags.compatible) : rb = rboards[k]
    BY <1>5, <2>1, <2>2, RboardFound
  <2>4. rb.compatible = tags.compatible
    BY <2>3 DEF RowsNamed
  <2> QED BY <1>2, <1>5, <2>1, <2>2, <2>4, RboardFound
<1>8. cmdline' = Given
  BY <1>1 DEF Given
<1> QED BY <1>1, <1>2, <1>3, <1>4, <1>6, <1>7, <1>8, MatchStep

LEMMA ChipInv == Inv /\ match_board_chip => Inv'
<1> SUFFICES ASSUME Inv, match_board_chip PROVE Inv'
  OBVIOUS
<1> DEFINE b == FirstOf(ChipBoards(hw.family), ChipRows(hw.family, hw.chip))
<1>1. /\ hw.family \in {"exynos", "bcm63xx"}
      /\ Select([compatible |-> b.compatible, fixup |-> None])
      /\ UNCHANGED <<hw, archive, machid, tags, system_rev, cmdline, dtb, relocated,
                     leds, boots>>
  BY DEF match_board_chip
<1>2. system_rev' \in Word /\ cmdline' \in Cmdlines \cup {None}
  BY <1>1 DEF Inv, Types
<1>3. Model(hw) = b.compatible
  BY <1>1 DEF Model
<1>4. PICK rb : rb = [compatible |-> b.compatible, fixup |-> None]
  OBVIOUS
<1>5. Select(rb) /\ rb.compatible = Model(hw) /\ rb.fixup = None
  BY <1>1, <1>3, <1>4
<1>6. hw.family # "raumfeld" /\ hw.family # "dreamplug"
  BY <1>1
<1>7. UNCHANGED <<hw, archive, machid, tags, dtb, relocated, leds, boots>>
  BY <1>1
<1> HIDE DEF b
<1> QED BY <1>2, <1>5, <1>6, <1>7, MatchStep

LEMMA DreamplugInv == Inv /\ match_board_dreamplug => Inv'
<1> SUFFICES ASSUME Inv, match_board_dreamplug PROVE Inv'
  OBVIOUS
<1>1. /\ hw.family = "dreamplug" /\ pc' = "matched" /\ archive \in Archives
      /\ board'.fixup = None
      /\ board'.dtb = find_dtb(archive, "globalscale,dreamplug")
      /\ UNCHANGED <<hw, archive, machid, tags, system_rev, cmdline, dtb, relocated,
                     leds, boots>>
  BY DEF match_board_dreamplug, Inv, Types
<1>2. Model(hw) = "globalscale,dreamplug"
  BY <1>1 DEF Model
<1>3. Types'
  <2>1. PICK name : name = "globalscale,dreamplug"
    OBVIOUS
  <2>2. find_dtb(archive, name) \in 0 .. Len(archive)
    BY <1>1, FirstBlob, Zenon
  <2>3. board'.dtb \in 0 .. Len(archive)
    BY <1>1, <2>1, <2>2
  <2> QED BY <1>1, <2>3 DEF Inv, Types
<1>4. Started'
  BY <1>1 DEF Inv, Started
<1>5. Matched'
  BY <1>1, <1>2 DEF Matched
<1>6. Placed'
  BY <1>1 DEF Placed
<1> QED BY <1>3, <1>4, <1>5, <1>6 DEF Inv

LEMMA SetDtbInv == Inv /\ SetDtb => Inv'
<1> SUFFICES ASSUME Inv, SetDtb PROVE Inv'
  OBVIOUS
<1>1. /\ pc = "matched" /\ pc' = "fixup"
      /\ UNCHANGED <<hw, archive, machid, tags, system_rev, cmdline, board, leds, boots>>
      /\ dtb' = IF board.dtb = 0 THEN tags ELSE archive[board.dtb]
      /\ relocated' = (board.dtb # 0 /\ RELOCATE_DTB)
  BY DEF SetDtb
<1>2. Types' /\ Started'
  BY <1>1 DEF Inv, Types, Started
<1>3. Matched'
  BY <1>1 DEF Inv, Matched, Booting, Given
<1>4. Placed'
  BY <1>1 DEF Placed, RELOCATE_DTB
<1> QED BY <1>2, <1>3, <1>4 DEF Inv

\* The blob that is fixed up is the copy.
LEMMA FixupInv == Inv /\ Fixup => Inv' /\ archive' = archive
<1> SUFFICES ASSUME Inv, Fixup PROVE Inv' /\ archive' = archive
  OBVIOUS
<1>1. /\ pc = "fixup" /\ board.fixup # None /\ pc' = "start"
      /\ dtb' = fdt_pack(fixup_dtb(fdt_open_into(dtb)))
      /\ archive' = IF relocated THEN archive ELSE [archive EXCEPT ![board.dtb] = dtb']
      /\ UNCHANGED <<hw, machid, tags, system_rev, cmdline, board, relocated, leds, boots>>
  BY DEF Fixup
<1>2. hw.family = "raumfeld" /\ board.dtb # 0
  BY <1>1 DEF Inv, Matched, Booting
<1>3. relocated
  BY ZenonT(30), <1>1, <1>2 DEF Inv, Placed, RELOCATE_DTB
<1>4. archive' = archive
  BY <1>1, <1>3
<1>5. Types' /\ Started'
  BY <1>1, <1>4 DEF Inv, Types, Started
<1>6. Matched'
  BY <1>1, <1>4 DEF Inv, Matched, Booting, Given
<1>7. dtb' = Fixed(archive[board.dtb])
  BY <1>1, <1>2 DEF Inv, Placed, Fixed
<1>8. Fixed(archive[board.dtb])' = Fixed(archive[board.dtb])
  BY ZenonT(30), <1>1, <1>4 DEF Fixed, fixup_dtb, FixupCommon, FixupController
<1>9. Placed'
  BY <1>1, <1>2, <1>3, <1>4, <1>7, <1>8 DEF Placed, RELOCATE_DTB
<1> QED BY <1>4, <1>5, <1>6, <1>9 DEF Inv

LEMMA StartInv == Inv /\ start_kernel => Inv'
<1> SUFFICES ASSUME Inv, start_kernel PROVE Inv'
  OBVIOUS
<1>1. /\ pc = "start" \/ (pc = "fixup" /\ board.fixup = None)
      /\ pc' = "kernel"
      /\ UNCHANGED <<hw, archive, machid, tags, system_rev, cmdline, board, dtb,
                     relocated, leds, boots>>
  BY DEF start_kernel
<1>2. Types' /\ Started'
  BY <1>1 DEF Inv, Types, Started
<1>3. Matched'
  BY <1>1 DEF Inv, Matched, Booting, Given
<1>4. Fixed(archive[board.dtb])' = Fixed(archive[board.dtb])
  BY <1>1 DEF Fixed, fixup_dtb, FixupCommon, FixupController
<1>5. Placed'
  BY <1>1, <1>4 DEF Inv, Placed, RELOCATE_DTB
<1> QED BY <1>2, <1>3, <1>5 DEF Inv

LEMMA PanicInv == Inv /\ led_panic => Inv'
<1> SUFFICES ASSUME Inv, led_panic PROVE Inv'
  OBVIOUS
<1>1. /\ pc = "panic"
      /\ UNCHANGED <<pc, hw, archive, machid, tags, system_rev, cmdline, board,
                     dtb, relocated, boots>>
  BY DEF led_panic
<1>2. Types' /\ Started'
  BY <1>1 DEF Inv, Types, Started
<1>3. Matched' /\ Placed'
  BY <1>1 DEF Matched, Booting, Placed
<1> QED BY <1>2, <1>3 DEF Inv

\* What a Raumfeld device is booted with.
LEMMA KernelBlob ==
    ASSUME Inv, pc \in {"start", "kernel"}, hw.family = "raumfeld"
    PROVE  /\ archive \in Archives /\ board.dtb \in DOMAIN archive
           /\ board.dtb = find_dtb(archive, Model(hw)) /\ board.dtb # 0
           /\ Model(hw) # None /\ archive[board.dtb].compatible = Model(hw)
           /\ Sound(archive[board.dtb])
           /\ board.fixup \in {"common", "controller"}
           /\ system_rev \in Word /\ cmdline \in Cmdlines \cup {None} /\ cmdline = Given
           /\ boots = 0 => system_rev = hw.rev
           /\ dtb = Fixed(archive[board.dtb])
           /\ dtb \in Blob /\ Same(archive[board.dtb], dtb)
<1>1. /\ archive \in Archives /\ system_rev \in Word
      /\ cmdline \in Cmdlines \cup {None}
  BY DEF Inv, Types
<1>2. /\ board.dtb = find_dtb(archive, Model(hw)) /\ board.dtb # 0
      /\ Model(hw) # None /\ board.fixup \in {"common", "controller"}
      /\ cmdline = Given /\ (boots = 0 => system_rev = hw.rev)
  BY DEF Inv, Matched, Booting
<1>3. board.dtb \in DOMAIN archive /\ archive[board.dtb].compatible = Model(hw)
  BY <1>1, <1>2, FirstBlob
<1>4. Sound(archive[board.dtb])
  BY <1>1, <1>3, ArchiveSound
<1>5. dtb = Fixed(archive[board.dtb])
  BY <1>2 DEF Inv, Placed, None
<1>6. dtb \in Blob /\ Same(archive[board.dtb], dtb)
  BY <1>1, <1>2, <1>4, <1>5, FixedBlob
<1> QED BY <1>1, <1>2, <1>3, <1>4, <1>5, <1>6

LEMMA KexecInv == Inv /\ kexec => Inv'
<1> SUFFICES ASSUME Inv, kexec PROVE Inv'
  OBVIOUS
<1>1. PICK c \in Cmdlines \cup {dtb.bootargs} :
        tags' = IF dtb.chosen THEN [dtb EXCEPT !.bootargs = c] ELSE dtb
  BY DEF kexec
<1>2. /\ pc = "kernel" /\ hw.family = "raumfeld" /\ archive' \in Archives
      /\ machid' = DT_MACHID /\ boots' = boots + 1
      /\ pc' = "entry" /\ system_rev' = ZeroRev /\ cmdline' = None
      /\ board' = ZeroBoard /\ hw' = hw
  BY DEF kexec
<1>3. dtb \in Blob /\ dtb.compatible = Model(hw) /\ Model(hw) # None
  BY <1>2, KernelBlob DEF Same
<1>4. tags' \in Blob /\ tags'.compatible = Model(hw)
  BY <1>1, <1>3 DEF Blob
<1>5. boots' \in Nat /\ boots' # 0 /\ hw' \in Hardware
  BY <1>2 DEF Inv, Types
<1>6. board'.dtb \in 0 .. Len(archive')
  BY <1>2, ArchiveSound DEF ZeroBoard
<1>7. Types'
  BY <1>2, <1>5, <1>6 DEF Types, ZeroRev, Word
<1>8. Started'
  BY <1>2, <1>3, <1>4, <1>5 DEF Started
<1>9. Matched' /\ Placed'
  BY <1>2 DEF Matched, Booting, Placed
<1> QED BY <1>7, <1>8, <1>9 DEF Inv

LEMMA NextInv == Inv /\ [Next]_vars => Inv'
<1> SUFFICES ASSUME Inv, [Next]_vars PROVE Inv'
  OBVIOUS
<1>1. CASE match_board
  BY <1>1, AtagsInv, DtbInv, ChipInv, DreamplugInv DEF match_board
<1>2. CASE SetDtb
  BY <1>2, SetDtbInv
<1>3. CASE Fixup
  BY <1>3, FixupInv
<1>4. CASE start_kernel
  BY <1>4, StartInv
<1>5. CASE led_panic
  BY <1>5, PanicInv
<1>6. CASE kexec
  BY <1>6, KexecInv
<1>7. CASE UNCHANGED vars
  <2>1. UNCHANGED <<pc, hw, archive, machid, tags, system_rev, cmdline, board, dtb,
                    relocated, leds, boots>>
    BY <1>7 DEF vars
  <2>2. Types' /\ Started'
    BY <2>1 DEF Inv, Types, Started
  <2>3. Matched'
    BY <2>1 DEF Inv, Matched, Booting, Given
  <2>4. Fixed(archive[board.dtb])' = Fixed(archive[board.dtb])
    BY <2>1 DEF Fixed, fixup_dtb, FixupCommon, FixupController
  <2>5. Placed'
    BY <2>1, <2>4 DEF Inv, Placed, RELOCATE_DTB
  <2> QED BY <2>2, <2>3, <2>5 DEF Inv
<1> QED BY <1>1, <1>2, <1>3, <1>4, <1>5, <1>6, <1>7 DEF Next, main

LEMMA Invariance == Spec => []Inv
  BY InitInv, NextInv, PTL DEF Spec

-----------------------------------------------------------------------------
(* The properties of the boot flow.                                        *)

\* The variables keep their types, and a kernel that is not given its tags gets
\* a blob: main() and the fixups write nothing into it that is not one.
THEOREM TypesKept == Spec => []TypeOK
<1>1. Inv => TypeOK
  <2> SUFFICES ASSUME Inv PROVE TypeOK
    OBVIOUS
  <2>1. ASSUME pc = "kernel", board.dtb # 0 PROVE dtb \in Blob
    <3>1. CASE hw.family = "raumfeld"
      BY <2>1, <3>1, KernelBlob
    <3>2. CASE hw.family # "raumfeld"
      <4>1. dtb = archive[board.dtb]
        BY <2>1, <3>2 DEF Inv, Matched, Booting, Placed
      <4>2. archive \in Archives /\ board.dtb \in 0 .. Len(archive)
        BY DEF Inv, Types
      <4>3. board.dtb \in DOMAIN archive
        BY <2>1, <4>2, ArchiveSound
      <4> QED BY <4>1, <4>2, <4>3, ArchiveSound DEF Sound
    <3> QED BY <3>1, <3>2
  <2> QED BY <2>1 DEF Inv, Types, TypeOK
<1> QED BY <1>1, Invariance, PTL

\* main() hands every machine the first blob for it in this matcher's archive,
\* whatever was booted before, and boots no machine without one but a dreamplug.
THEOREM RightDtbPassed == Spec => []RightDtb
<1>1. Inv => RightDtb
  <2> SUFFICES ASSUME Inv, pc = "kernel" PROVE RightDtb
    BY DEF RightDtb
  <2>1. archive \in Archives /\ board.dtb = find_dtb(archive, Model(hw))
    BY DEF Inv, Types, Matched, Booting
  <2>2. hw.family # "dreamplug" => Model(hw) # None /\ board.dtb # 0
    BY DEF Inv, Matched, Booting
  <2>3. CASE board.dtb # 0
    <3> DEFINE k == board.dtb
    <3>1. /\ k \in DOMAIN archive /\ archive[k].compatible = Model(hw)
          /\ \A j \in 1 .. k - 1 : archive[j].compatible # Model(hw)
      BY <2>1, <2>3, FirstBlob
    <3>2. Model(hw) # None
      <4>1. hw.family = "dreamplug" => Model(hw) = "globalscale,dreamplug"
        BY DEF Model
      <4> QED BY <2>2, <4>1 DEF None
    <3>3. dtb.compatible = Model(hw) /\ dtb.version = archive[k].version
      <4>1. CASE hw.family = "raumfeld"
        BY <4>1, KernelBlob DEF Same
      <4>2. CASE hw.family # "raumfeld"
        <5>1. dtb = archive[k]
          BY <2>3, <4>2 DEF Inv, Matched, Booting, Placed
        <5> QED BY <3>1, <5>1
      <4> QED BY <4>1, <4>2
    <3> HIDE DEF k
    <3> QED BY <3>1, <3>2, <3>3 DEF RightDtb
  <2>4. CASE board.dtb = 0
    <3>1. hw.family = "dreamplug"
      BY <2>2, <2>4
    <3>2. \A j \in DOMAIN archive : archive[j].compatible # Model(hw)
      BY <2>1, <2>4, FirstBlob
    <3>3. dtb = tags
      BY <2>4, <3>1 DEF Inv, Matched, Booting, Placed
    <3> QED BY <3>1, <3>2, <3>3 DEF RightDtb
  <2> QED BY <2>3, <2>4
<1> QED BY <1>1, Invariance, PTL

\* raumfeld_fixup_dtb_controller() enables exactly one of the two backlights of
\* a blob that has both, which presumes that no source enables one.
THEOREM OneBacklightOn == Spec => []OneBacklight
<1>1. Inv => OneBacklight
  <2> SUFFICES ASSUME Inv, pc = "kernel", board.fixup = "controller",
                      "none" \notin {dtb.lt3593, dtb.pwm}
               PROVE  (dtb.lt3593 = "okay") # (dtb.pwm = "okay")
    BY DEF OneBacklight
  <2>1. hw.family = "raumfeld"
    BY DEF Inv, Matched, Booting, None
  <2> DEFINE b == archive[board.dtb]
  <2>2. /\ Sound(b) /\ dtb = Fixed(b) /\ system_rev \in Word
        /\ cmdline \in Cmdlines \cup {None}
    BY <2>1, KernelBlob
  <2>3. "okay" \notin {b.lt3593, b.pwm}
    BY <2>1, KernelBlob, ArchiveSound
  <2> HIDE DEF b
  <2>4. IF system_rev = <<0, 0, 0, 2>>
        THEN /\ dtb.pwm = b.pwm
             /\ dtb.lt3593 = IF b.lt3593 = "none" THEN "none" ELSE "okay"
        ELSE /\ dtb.lt3593 = b.lt3593
             /\ dtb.pwm = IF b.pwm = "none" THEN "none" ELSE "okay"
    BY <2>2, FixedBlob
  <2> QED BY <2>3, <2>4
<1> QED BY <1>1, Invariance, PTL

\* On a boot by the boot loader system_rev is the revision of the machine, so
\* that the backlight is the one that board-raumfeld.c:45 says it has.
THEOREM ColdBacklightRight == Spec => []ColdBacklight
<1>1. Inv => ColdBacklight
  <2> SUFFICES ASSUME Inv, boots = 0, pc = "kernel", board.fixup = "controller"
               PROVE  /\ hw.rev = <<0, 0, 0, 2>> => dtb.pwm # "okay"
                      /\ hw.rev # <<0, 0, 0, 2>> => dtb.lt3593 # "okay"
    BY DEF ColdBacklight, BacklightOfRevision
  <2>1. hw.family = "raumfeld"
    BY DEF Inv, Matched, Booting, None
  <2> DEFINE b == archive[board.dtb]
  <2>2. /\ Sound(b) /\ dtb = Fixed(b) /\ system_rev = hw.rev /\ system_rev \in Word
        /\ cmdline \in Cmdlines \cup {None}
    BY <2>1, KernelBlob
  <2>3. "okay" \notin {b.lt3593, b.pwm}
    BY <2>1, KernelBlob, ArchiveSound
  <2> HIDE DEF b
  <2>4. IF system_rev = <<0, 0, 0, 2>> THEN dtb.pwm = b.pwm ELSE dtb.lt3593 = b.lt3593
    BY <2>2, FixedBlob
  <2> QED BY <2>2, <2>3, <2>4
<1> QED BY <1>1, Invariance, PTL

\* The command line that match_board() has found, in the ATAGs or in the tree
\* that kexec gave it, is the one in /chosen when the kernel starts.
THEOREM CmdlineReachesKernel == Spec => []CmdlinePassed
<1>1. Inv => CmdlinePassed
  <2> SUFFICES ASSUME Inv, pc = "kernel", hw.family = "raumfeld", dtb.chosen,
                      \A c \in Cmdlines :
                            archive[board.dtb].size + 1 + CmdLen[c] <= Buffer
               PROVE  dtb.bootargs = IF Given # None THEN Given
                                     ELSE archive[board.dtb].bootargs
    BY DEF CmdlinePassed
  <2> DEFINE b == archive[board.dtb]
  <2>1. /\ Sound(b) /\ dtb = Fixed(b) /\ system_rev \in Word /\ cmdline = Given
        /\ cmdline \in Cmdlines \cup {None} /\ Same(b, dtb)
        /\ board.fixup \in {"common", "controller"}
    BY KernelBlob
  <2>2. b.chosen /\ \A c \in Cmdlines : b.size + 1 + CmdLen[c] <= Buffer
    BY <2>1 DEF Same
  <2> HIDE DEF b
  <2>3. dtb.bootargs = IF cmdline # None THEN cmdline ELSE b.bootargs
    BY <2>1, <2>2, FixedBlob
  <2> QED BY <2>1, <2>3 DEF b
<1> QED BY <1>1, Invariance, PTL

\* main() lets a fixup write to the copy at RELOCATE_DTB only: the archive and
\* the kernel behind it stay as they were linked.
THEOREM ImageKept == Spec => ImageIntact
<1>1. ASSUME Inv, [Next]_vars PROVE [archive' # archive => boots' = boots + 1]_vars
  <2>1. CASE match_board
    BY <2>1 DEF match_board, match_board_atags, match_board_dtb, match_board_chip,
                match_board_dreamplug
  <2>2. CASE SetDtb
    BY <2>2 DEF SetDtb
  <2>3. CASE Fixup
    BY <1>1, <2>3, FixupInv
  <2>4. CASE start_kernel
    BY <2>4 DEF start_kernel
  <2>5. CASE led_panic
    BY <2>5 DEF led_panic
  <2>6. CASE kexec
    BY <2>6 DEF kexec
  <2>7. CASE UNCHANGED vars
    BY <2>7
  <2> QED BY <1>1, <2>1, <2>2, <2>3, <2>4, <2>5, <2>6, <2>7 DEF Next, main
<1> QED BY <1>1, Invariance, PTL DEF Spec, ImageIntact

=============================================================================
