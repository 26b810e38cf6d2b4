------------------------------- MODULE Matcher -------------------------------
(***************************************************************************)
(* The boot flow of the matcher: main() of main.c with the match_board()   *)
(* of each board file that carries an archive of blobs, from the entry     *)
(* point to the kernel or to a panic, and the next start of a matcher by   *)
(* kexec, which is given the device tree of the running kernel.            *)
(*                                                                         *)
(* A blob is a record of the things the matcher reads and writes in it;    *)
(* sizes count in units of space that a property may need.  A 32-bit word  *)
(* is the sequence of its four bytes, most significant byte first.         *)
(***************************************************************************)
EXTENDS Integers, Sequences, FiniteSetsExt

CONSTANTS
    Hardware,   \* the machines: [family, machid, rev] or [family, chip]
    Archives,   \* archives of blobs, sequences of Blob
    Cmdlines,   \* command lines
    CmdLen,     \* and the space they need
    Buffer,     \* what main() passes to fdt_open_into(), 0x100000
    MaxBoots    \* bound on the number of boots by kexec

\* The absence of a string or of a word.
None == ""
NoWord == <<>>

Word == [1..4 -> 0..255]
Blob == [compatible : STRING, version : Nat, size : Nat, room : Nat,
         chosen : BOOLEAN, bootargs : Cmdlines \cup {None},
         hw_revision : Word \cup {NoWord},
         lt3593 : {"none", "disabled", "okay"}, pwm : {"none", "disabled", "okay"}]

ASSUME MatcherAssumption ==
    /\ CmdLen \in [Cmdlines -> Nat \ {0}] /\ None \notin Cmdlines
    /\ Buffer \in Nat /\ MaxBoots \in Nat

\* Only the boot loader of a Raumfeld device passes anything to match_board().
ASSUME HardwareAssumption ==
    \A h \in Hardware :
        /\ h.family \in {"raumfeld", "exynos", "bcm63xx", "dreamplug"}
        /\ h.family = "raumfeld" => h.machid \in Nat /\ h.rev \in Word

\* Blobs as dtc makes them: what is stored in them takes up space, and no
\* backlight node is enabled in a source.
ASSUME ArchiveAssumption ==
    \A a \in Archives :
        /\ a \in Seq(Blob)
        /\ \A k \in DOMAIN a :
            /\ a[k].bootargs # None => CmdLen[a[k].bootargs] <= a[k].size
            /\ "okay" \notin {a[k].lt3593, a[k].pwm}

VARIABLES
    pc,         \* where the program is
    hw,         \* the machine
    archive,    \* the archive that is linked into the matcher
    machid,     \* the arguments of main(),
    tags,       \*   a list of ATAGs or a blob
    system_rev, \* board-raumfeld.c's variables
    cmdline,
    board,      \* struct board: compatible, index of the blob, fixup
    dtb,        \* the blob handed to the kernel, at RELOCATE_DTB if relocated
    relocated,
    leds,       \* whether LED 0 and LED 1 are lit
    boots       \* the number of boots by kexec

vars == <<pc, hw, archive, machid, tags, system_rev, cmdline, board, dtb,
          relocated, leds, boots>>

-----------------------------------------------------------------------------
(* The tables of the board files.                                          *)

rboards == <<
    [machid |-> 2413, upper |-> 0, fixup |-> "controller",
     compatible |-> "raumfeld,raumfeld-controller-pxa303"],
    [machid |-> 2414, upper |-> 0, fixup |-> "common",
     compatible |-> "raumfeld,raumfeld-connector-pxa303"],
    [machid |-> 2415, upper |-> 0, fixup |-> "common",
     compatible |-> "raumfeld,raumfeld-speaker-s-pxa303"],
    [machid |-> 2415, upper |-> 1, fixup |-> "common",
     compatible |-> "raumfeld,raumfeld-speaker-m-pxa303"],
    [machid |-> 2415, upper |-> 2, fixup |-> "common",
     compatible |-> "raumfeld,raumfeld-speaker-l-pxa303"],
    [machid |-> 2415, upper |-> 4, fixup |-> "common",
     compatible |-> "raumfeld,raumfeld-speaker-one-pxa303"]>>

\* 0xe4412 and 0x43210; 0x63138 and 0x63148
exboards == <<[chip |-> 935954, compatible |-> "samsung,trats2"],
              [chip |-> 274960, compatible |-> "samsung,trats"]>>
bcmboards == <<[chip |-> 405816, compatible |-> "brcm,bcm63138"],
               [chip |-> 405832, compatible |-> "brcm,bcm63148"]>>

ChipBoards(family) == IF family = "exynos" THEN exboards ELSE bcmboards

DT_MACHID == -1     \* 0xffffffff

\* system_rev >> 8, and 32 bits read as the CPU finds them in memory.
Upper(w) == (w[1] * 256 + w[2]) * 256 + w[3]
LittleEndian(bytes) == [i \in 1..4 |-> bytes[5 - i]]

\* The loops over a table stop at the first of the rows that match.
FirstOf(table, rows) ==
    IF rows = {} THEN [compatible |-> None, fixup |-> None] ELSE table[Min(rows)]

\* The rows for a machine, a chip or a compatible string.
RowsOf(id, rev) ==
    {k \in 1..6 : rboards[k].machid = id /\ rboards[k].upper = Upper(rev)}
ChipRows(family, chip) == {k \in 1..2 : ChipBoards(family)[k].chip = chip}
RowsNamed(compatible) == {k \in 1..6 : rboards[k].compatible = compatible}

-----------------------------------------------------------------------------
(* libfdt, as far as the matcher uses it: what FdtRw shows of fdt_setprop, *)
(* fdt_open_into and fdt_pack on well-formed blobs.                        *)

fdt_open_into(b) == IF b.size > Buffer THEN b ELSE [b EXCEPT !.room = Buffer - b.size]

fdt_pack(b) == [b EXCEPT !.room = 0]

\* b with field set to value, if there is room for `need' more units.
SetProp(b, field, value, need) ==
    IF need > b.room THEN b
    ELSE [b EXCEPT ![field] = value, !.size = @ + need, !.room = @ - need]

\* find_dtb(), see Dtbs: the first blob that contains the string, or 0.
find_dtb(a, compatible) ==
    LET hits == {k \in DOMAIN a : a[k].compatible = compatible}
    IN  IF hits = {} THEN 0 ELSE Min(hits)

-----------------------------------------------------------------------------
(* board-raumfeld.c                                                        *)

\* Mutant: the revision is stored as one byte.
FixupCommonByte(b) ==
    SetProp(b, "hw_revision", <<system_rev[4]>>, IF b.hw_revision = NoWord THEN 1 ELSE 0)

\* raumfeld_fixup_dtb_common
FixupCommon(b) ==
    LET b1 == SetProp(b, "hw_revision", <<0, 0, 0, system_rev[4]>>,
                      IF b.hw_revision = NoWord THEN 1 ELSE 0)
        old == IF b.bootargs = None THEN 0 ELSE CmdLen[b.bootargs]
    IN  IF cmdline = None \/ ~b.chosen THEN b1
        ELSE SetProp(b1, "bootargs", cmdline, CmdLen[cmdline] - old)

\* Mutant: PWM is switched on whatever the revision.
FixupControllerBoth(b) ==
    LET b1 == FixupCommon(b)
        Okay(c, node) == IF c[node] = "none" THEN c ELSE SetProp(c, node, "okay", 0)
    IN  IF system_rev = <<0, 0, 0, 2>> THEN Okay(Okay(b1, "lt3593"), "pwm")
                                       ELSE Okay(b1, "pwm")

\* Mutant: revisions from 2 on have the LT3593.
FixupControllerFrom2(b) ==
    LET b1   == FixupCommon(b)
        node == IF system_rev[4] >= 2 THEN "lt3593" ELSE "pwm"
    IN  IF b1[node] = "none" THEN b1 ELSE SetProp(b1, node, "okay", 0)

\* raumfeld_fixup_dtb_controller.  "okay" replaces the longer "disabled".
FixupController(b) ==
    LET b1   == FixupCommon(b)
        node == IF system_rev = <<0, 0, 0, 2>> THEN "lt3593" ELSE "pwm"
    IN  IF b1[node] = "none" THEN b1 ELSE SetProp(b1, node, "okay", 0)

fixup_dtb(b) == CASE board.fixup = "common"     -> FixupCommon(b)
                  [] board.fixup = "controller" -> FixupController(b)

\* The last revision and the last command line in a list of ATAGs, or the value
\* so far.  A tag [rev, cmdline] is of the kind of the field that is not empty.
LastRevision(list, value) ==
    LET hits == {k \in DOMAIN list : list[k].rev # NoWord}
    IN  IF hits = {} THEN value ELSE list[Max(hits)].rev
LastCmdline(list) ==
    LET hits == {k \in DOMAIN list : list[k].cmdline # None}
    IN  IF hits = {} THEN None ELSE list[Max(hits)].cmdline

\* What match_board() does with the board it has matched.
Select(rboard) ==
    LET k == find_dtb(archive, rboard.compatible)
    IN  IF rboard.compatible = None \/ k = 0
        THEN pc' = "panic" /\ UNCHANGED board
        ELSE /\ pc' = "matched"
             /\ board' = [compatible |-> rboard.compatible, dtb |-> k,
                          fixup |-> rboard.fixup]

\* match_board() with ATAGs
match_board_atags ==
    /\ pc = "entry" /\ hw.family = "raumfeld" /\ machid # DT_MACHID
    /\ system_rev' = LastRevision(tags, system_rev)
    /\ cmdline' = LastCmdline(tags)
    /\ Select(FirstOf(rboards, RowsOf(machid, system_rev')))
    /\ UNCHANGED <<hw, archive, machid, tags, dtb, relocated, leds, boots>>

\* Mutant: the board is matched by what the device tree says of the revision.
MatchBoardByRevision ==
    /\ pc = "entry" /\ hw.family = "raumfeld" /\ machid = DT_MACHID
    /\ system_rev' = IF tags.hw_revision # NoWord
                     THEN LittleEndian(tags.hw_revision) ELSE system_rev
    /\ cmdline' = IF tags.chosen THEN tags.bootargs ELSE None
    /\ Select(FirstOf(rboards, {k \in 1..6 : rboards[k].upper = Upper(system_rev')}))
    /\ UNCHANGED <<hw, archive, machid, tags, dtb, relocated, leds, boots>>

\* Mutant: the command line of the first boot is forgotten.
MatchBoardNoCmdline ==
    /\ pc = "entry" /\ hw.family = "raumfeld" /\ machid = DT_MACHID
    /\ system_rev' = IF tags.hw_revision # NoWord
                     THEN LittleEndian(tags.hw_revision) ELSE system_rev
    /\ cmdline' = None
    /\ Select(FirstOf(rboards, RowsNamed(tags.compatible)))
    /\ UNCHANGED <<hw, archive, machid, tags, dtb, relocated, leds, boots>>

\* match_board() with a device tree from kexec
match_board_dtb ==
    /\ pc = "entry" /\ hw.family = "raumfeld" /\ machid = DT_MACHID
    /\ system_rev' = IF tags.hw_revision # NoWord
                     THEN LittleEndian(tags.hw_revision) ELSE system_rev
    /\ cmdline' = IF tags.chosen THEN tags.bootargs ELSE None
    /\ Select(FirstOf(rboards, RowsNamed(tags.compatible)))
    /\ UNCHANGED <<hw, archive, machid, tags, dtb, relocated, leds, boots>>

\* Mutant: i stays odd.
LedPanicOdd ==
    /\ pc = "panic" /\ hw.family = "raumfeld"
    /\ leds' = <<TRUE, FALSE>>
    /\ UNCHANGED <<pc, hw, archive, machid, tags, system_rev, cmdline, board,
                   dtb, relocated, boots>>

\* led_panic(): one round of its loop, i being odd or even.
led_panic ==
    /\ pc = "panic" /\ hw.family = "raumfeld"
    /\ leds' = IF leds = <<FALSE, TRUE>> THEN <<TRUE, FALSE>> ELSE <<FALSE, TRUE>>
    /\ UNCHANGED <<pc, hw, archive, machid, tags, system_rev, cmdline, board,
                   dtb, relocated, boots>>

-----------------------------------------------------------------------------
(* board-exynos.c, board-bcm63xx.c and board-dreamplug.c                   *)

match_board_chip ==
    /\ pc = "entry" /\ hw.family \in {"exynos", "bcm63xx"}
    /\ LET b == FirstOf(ChipBoards(hw.family), ChipRows(hw.family, hw.chip))
       IN  Select([compatible |-> b.compatible, fixup |-> None])
    /\ UNCHANGED <<hw, archive, machid, tags, system_rev, cmdline, dtb, relocated,
                   leds, boots>>

\* There is one board, and no panic if it has no blob.
match_board_dreamplug ==
    /\ pc = "entry" /\ hw.family = "dreamplug"
    /\ pc' = "matched"
    /\ board' = [compatible |-> "globalscale,dreamplug", fixup |-> None,
                 dtb |-> find_dtb(archive, "globalscale,dreamplug")]
    /\ UNCHANGED <<hw, archive, machid, tags, system_rev, cmdline, dtb, relocated,
                   leds, boots>>

-----------------------------------------------------------------------------
(* main.c                                                                  *)

\* The configuration for the Raumfeld boards defines RELOCATE_DTB.
RELOCATE_DTB == hw.family = "raumfeld"

\* Mutant: the blob is not copied to RELOCATE_DTB.
SetDtbInPlace ==
    /\ pc = "matched"
    /\ dtb' = IF board.dtb = 0 THEN tags ELSE archive[board.dtb]
    /\ relocated' = FALSE
    /\ pc' = "fixup"
    /\ UNCHANGED <<hw, archive, machid, tags, system_rev, cmdline, board, leds, boots>>

\* board.dtb is where the blob is; without one the tags are passed on.
SetDtb ==
    /\ pc = "matched"
    /\ dtb' = IF board.dtb = 0 THEN tags ELSE archive[board.dtb]
    /\ relocated' = (board.dtb # 0 /\ RELOCATE_DTB)
    /\ pc' = "fixup"
    /\ UNCHANGED <<hw, archive, machid, tags, system_rev, cmdline, board, leds, boots>>

\* The results of fdt_open_into and fdt_pack are ignored.
Fixup ==
    /\ pc = "fixup" /\ board.fixup # None
    /\ dtb' = fdt_pack(fixup_dtb(fdt_open_into(dtb)))
    /\ archive' = IF relocated THEN archive ELSE [archive EXCEPT ![board.dtb] = dtb']
    /\ pc' = "start"
    /\ UNCHANGED <<hw, machid, tags, system_rev, cmdline, board, relocated, leds, boots>>

\* Mutant: only a blob that has been fixed up is started with.
StartAfterFixup ==
    /\ pc = "start"
    /\ pc' = "kernel"
    /\ UNCHANGED <<hw, archive, machid, tags, system_rev, cmdline, board, dtb,
                   relocated, leds, boots>>

start_kernel ==
    /\ pc = "start" \/ (pc = "fixup" /\ board.fixup = None)
    /\ pc' = "kernel"
    /\ UNCHANGED <<hw, archive, machid, tags, system_rev, cmdline, board, dtb,
                   relocated, leds, boots>>

-----------------------------------------------------------------------------
(* The environment.                                                        *)

\* What .bss is in a matcher that has just been loaded.
ZeroRev == <<0, 0, 0, 0>>
ZeroBoard == [compatible |-> None, dtb |-> 0, fixup |-> None]

\* What the boot loader of machine h passes, with command line c or none: the
\* tags in either order.
BootTags(h, c) ==
    LET rev == [rev |-> h.rev, cmdline |-> None]
        cmd == [rev |-> NoWord, cmdline |-> c]
    IN  IF c = None THEN {<<rev>>} ELSE {<<rev, cmd>>, <<cmd, rev>>}

Init ==
    /\ hw \in Hardware /\ archive \in Archives
    /\ pc = "entry" /\ system_rev = ZeroRev /\ cmdline = None
    /\ board = ZeroBoard /\ dtb = <<>> /\ relocated = FALSE
    /\ machid = IF hw.family = "raumfeld" THEN hw.machid ELSE 0
    /\ IF hw.family = "raumfeld"
       THEN \E c \in Cmdlines \cup {None} : tags \in BootTags(hw, c)
       ELSE tags = <<>>
    /\ leds = <<FALSE, FALSE>>
    /\ boots = 0

\* kexec starts a matcher, of this build or of another, with the device tree of
\* the running kernel and possibly a new command line.
kexec ==
    /\ pc = "kernel" /\ hw.family = "raumfeld" /\ boots < MaxBoots
    /\ \E c \in Cmdlines \cup {dtb.bootargs} :
            tags' = IF dtb.chosen THEN [dtb EXCEPT !.bootargs = c] ELSE dtb
    /\ archive' \in Archives
    /\ machid' = DT_MACHID /\ boots' = boots + 1
    /\ pc' = "entry" /\ system_rev' = ZeroRev /\ cmdline' = None
    /\ board' = ZeroBoard /\ dtb' = <<>> /\ relocated' = FALSE
    /\ UNCHANGED <<hw, leds>>

match_board ==
    match_board_atags \/ match_board_dtb \/ match_board_chip \/ match_board_dreamplug

main == match_board \/ SetDtb \/ Fixup \/ start_kernel

Next == main \/ led_panic \/ kexec

\* The processor runs the program and the timer that wait() polls.
Spec == Init /\ [][Next]_vars /\ WF_vars(main) /\ WF_vars(led_panic)

-----------------------------------------------------------------------------
(* Properties.                                                             *)

TypeOK ==
    /\ pc \in {"entry", "matched", "fixup", "start", "kernel", "panic"}
    /\ hw \in Hardware
    /\ system_rev \in Word /\ cmdline \in Cmdlines \cup {None}
    /\ board.dtb \in 0 .. Len(archive)
    /\ pc = "kernel" /\ board.dtb # 0 => dtb \in Blob

\* The compatible string of a machine.
Model(h) == CASE h.family = "raumfeld" ->
                    FirstOf(rboards, RowsOf(h.machid, h.rev)).compatible
              [] h.family \in {"exynos", "bcm63xx"} ->
                    FirstOf(ChipBoards(h.family), ChipRows(h.family, h.chip)).compatible
              [] OTHER -> "globalscale,dreamplug"

\* The kernel of a machine gets the blob for that machine, the first one of the
\* archive in this matcher and not the one a former boot has used; a machine
\* without a blob is not booted.  (A dreamplug is booted with its tags.)
RightDtb ==
    pc = "kernel" =>
        \/ /\ Model(hw) # None
           /\ \E k \in DOMAIN archive :
                /\ archive[k].compatible = Model(hw)
                /\ \A j \in 1 .. k - 1 : archive[j].compatible # Model(hw)
                /\ dtb.compatible = Model(hw) /\ dtb.version = archive[k].version
        \/ hw.family = "dreamplug" /\ dtb = tags
            /\ \A k \in DOMAIN archive : archive[k].compatible # Model(hw)

\* A controller whose blob has both backlight nodes is booted with exactly one
\* of them enabled, in whatever way it was started.
OneBacklight ==
    pc = "kernel" /\ board.fixup = "controller" /\ "none" \notin {dtb.lt3593, dtb.pwm} =>
        (dtb.lt3593 = "okay") # (dtb.pwm = "okay")

\* board-raumfeld.c:45: revision 2 of the controller has the backlight
\* controlled by an LT3593, earlier and later ones by PWM.
BacklightOfRevision ==
    pc = "kernel" /\ board.fixup = "controller" =>
        /\ hw.rev = <<0, 0, 0, 2>> => dtb.pwm # "okay"
        /\ hw.rev # <<0, 0, 0, 2>> => dtb.lt3593 # "okay"

\* The same when the boot loader and not kexec has started the matcher.
ColdBacklight == boots = 0 => BacklightOfRevision

\* The command line that the matcher was started with.
Given == IF machid = DT_MACHID THEN IF tags.chosen THEN tags.bootargs ELSE None
         ELSE LastCmdline(tags)

\* The command line that the matcher was started with, as an ATAG or in the
\* device tree of the running kernel, reaches the kernel if its blob has a
\* place for it and fits the buffer.
CmdlinePassed ==
    /\ pc = "kernel" /\ hw.family = "raumfeld" /\ dtb.chosen
    /\ \A c \in Cmdlines : archive[board.dtb].size + 1 + CmdLen[c] <= Buffer
    =>  dtb.bootargs = IF Given # None THEN Given ELSE archive[board.dtb].bootargs

\* The image of the matcher, with the other blobs and the kernel behind them,
\* is never written to.
ImageIntact == [][archive' # archive => boots' = boots + 1]_vars

\* Every start ends in a kernel or in a panic.
Decides == pc = "entry" ~> pc \in {"kernel", "panic"}

\* A Raumfeld machine that is not booted shows it, for ever.
PanicBlinks == pc = "panic" /\ hw.family = "raumfeld" ~>
                    ([]<>(leds = <<TRUE, FALSE>>) /\ []<>(leds = <<FALSE, TRUE>>))

=============================================================================
