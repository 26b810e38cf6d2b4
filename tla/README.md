# pxa-impedance-matcher in TLA+

The impedance matcher is a third-stage loader: a boot loader that knows nothing
of device trees starts it, it finds out which board it runs on, takes the
device tree blob of that board from an archive linked into its own image, edits
the blob with libfdt and starts the kernel. These modules model the parts of it
that have state or searches worth reasoning about, check them with TLC on small
instances and prove the most important properties with TLAPS for every size.

    FdtBlob ── FdtTree ─┬─ FdtRw ─┬─ FdtRwTree ─(refines)─> DeviceTree
     header,    the     │  edits  │   └── MCFdtRw            what an edit promises
     tags       tree    │         ├─ FdtRwLemmas ── FdtRwProofs
                        │         └─ FdtSw ── FdtSwTree ─(refines)─> TreeBuilder
                        │            │          └── MCFdtSw  what writing promises
                        │            └─ FdtSwProofs (on FdtRwLemmas)
                        └─ FdtRo ── FdtRoTree (with FdtRwTree) ── MCFdtRo
                           searches

    TreeDoc ─┬─ FdtOverlay (edits by DeviceTree) ─(refines)─> TreeMerge
    documents└─┬────────── MCFdtOverlay                       what merging promises
               └────────── FdtOverlayProofs

    Dtbs ─┬─ MCDtbs                       archive of blobs, built and searched
          └─ DtbsProofs
    Matcher ─┬─ MCMatcher                 boot flow and boards
             └─ MatcherProofs
    Generic ─┬─ MCGeneric                 the generic board and its command line
             └─ GenericProofs
    NatLemmas: the least and the greatest of a set of numbers, for the proofs

## 1. Inventory

### Components, their state and operations

| Component | Source | State | Operations | Modules |
|---|---|---|---|---|
| read-write interface of libfdt | `libfdt/fdt_rw.c` | the bytes of one blob: header, reservation list, structure block, strings block, free space | open_into, pack, add/del_mem_rsv, set_name, setprop, appendprop, delprop, add_subnode(_namelen), del_node | FdtRw, FdtRwTree, DeviceTree |
| write-in-place interface | `libfdt/fdt_wip.c` | the same | setprop_inplace(_namelen_partial), nop_property, nop_node | FdtRw |
| tag walk | `libfdt/fdt.c` | none | next_tag, check_header, node and property offsets | FdtBlob |
| read-only interface | `libfdt/fdt_ro.c`, `fdt_addresses.c` | none | nodes, subnodes, paths, aliases, properties, phandles, values, string lists, cell counts | FdtRo, FdtRoTree |
| sequential write | `libfdt/fdt_sw.c`, `fdt_empty_tree.c` | an unfinished blob | create, resize, reservations, begin/end_node, property, finish, create_empty_tree | FdtSw, FdtSwTree, TreeBuilder |
| overlays | `libfdt/fdt_overlay.c` | two blobs, the place in the recursion | overlay_apply and its phases | FdtOverlay, TreeMerge, TreeDoc |
| archive, built | `append_dtbs.sh`, `Makefile` | input files, `dtbs.bin`, `dtbs-bin.o` | make, an interrupted make, clean | Dtbs |
| archive, searched | `dtbs.c` | the address under consideration | find_dtb, find_str | Dtbs |
| boot flow | `main.c` | board, blob, where the blob lies | match, relocate, open/fix up/pack, start the kernel | Matcher |
| boards | `board-raumfeld.c`, `-exynos.c`, `-bcm63xx.c`, `-dreamplug.c` | `system_rev`, `cmdline`, `board` | match_board by machine id, by passed tree, by chip id; fixups; led_panic | Matcher |
| generic board | `board-generic.c`, `string.c` | `genboard` | match_board by command line, gethexaddr, getaddrs | Generic |
| string functions | `string.c` | none | strlen, memmove, ... | within FdtBlob, FdtRo |
| ATAGs to FDT | `libfdt/atags_to_fdt.c` | a blob | not linked | none |
| UART, printing | `serial-*.c`, `print.c`, `register.c` | none | output | none |

### How they interact

`main()` calls `match_board()` of the one board file that is linked. That looks
at its arguments (ATAGs, the tree that kexec passed in, or a chip-id register),
finds a row of the board table and calls `find_dtb()` on the archive between
`_binary_dtbs_bin_start` and a sentinel of zeros. `main()` copies the blob to
`RELOCATE_DTB` if the configuration has one, opens it in place with a size of
0x100000, calls the board's fixup through a pointer, packs the blob and jumps.
Everything is one thread; there are no interrupts. What makes it hard is memory:
libfdt edits a packed structure in place, offsets go stale with each edit, a
call may fail half way, and errors are mostly ignored by the callers. The device
tree also carries data from one boot to the next, through kexec, and the archive
carries data from one build to the next.

The library is linked against `string.c` and not against a C library, and that
`strlen()` **counts the terminator** (`string.c:9-17`). Every caller in libfdt
that takes its result for a length is affected. Mostly the error cancels out (both
strings of a comparison are measured with it); where it does not, it shows up in
the models: comparisons and copies touch the byte behind the terminator, whose
value is a parameter (`NameTails`, `StrTails`), names of length 3 modulo 4
get one word too many, and a few searches find nothing (see Findings).

### What is hard, and the properties that make each part correct

The full list is `hazards` in `PROJECT.json`. In short:

* **Editing.** The blob is a well-formed tree after every sequence of calls,
  failed ones included (`WellFormed`); its blocks never overlap (`Layout`),
  although the code checks only part of that; nothing outside the blob is
  written (`NoOverrun`); offsets up to the edited node stay valid
  (`OffsetsStable`); and each call does to the *tree* exactly what it promises, or
  nothing (`ImplementsTree`).
* **Searching.** In a tree that has been edited, with `FDT_NOP` between its
  items, every search finds what the tree has and nothing else: nodes and their
  ancestors (`NodesAgree`), children (`SubnodesAgree`), properties
  (`PropertiesAgree`), paths and aliases (`PathsAgree`), phandles
  (`PhandlesAgree`), values and cell counts (`ValuesAgree`), strings
  (`StringsAgree`).
* **Writing.** Structure and strings grow towards each other in one buffer and
  never meet (`SwLayout`, `SwNoOverrun`); names are found while their offsets are
  still negative (`Searchable`); a call repeated after a failure, or in a larger
  buffer, gives the tree that it should have (`ImplementsBuilder`).
* **Overlays.** All or nothing, and never twice (`ImplementsMerge`); phandles
  stay unique (`UniquePhandles`) and references lead where they led
  (`ReferencesLead`); every call returns (`Returns`).
* **Archive.** Padding, alignment and sentinel agree between a shell script and a
  C loop (`InsideArchive`, `FindsBlob`, `FindsFirst`), also after interrupted and
  repeated builds; the search ends (`Terminates`); the blob found is the newest
  (`FreshBuild` after a clean; `UpToDate` fails otherwise).
* **Boot flow.** The kernel gets the right blob (`RightDtb`), with the command
  line (`CmdlinePassed`) and one backlight (`OneBacklight`, `ColdBacklight`;
  `BacklightOfRevision` fails after kexec); the image is never written
  (`ImageIntact`); the machine boots or visibly does not (`Decides`,
  `PanicBlinks`). On the generic board the last line with the parameter decides
  (`LineObeyed`).

## 2. Modules

### FdtBlob and FdtTree: memory, header, tags, the tree

Memory is a function from *word* addresses to cells; the blob starts at 0. Every
offset and size in libfdt that the model follows is a multiple of 4, so words lose
nothing. Byte counts remain byte counts: the length of a property, the length
of a name. A cell is a number, a piece of a node name, four bytes of property
data, or, in the strings block, a whole name: that block has no alignment, and
only equality and order of its entries matter. (So a name takes one word there
whatever its length, and one entry is never found as the suffix of another.)
Numbers are small, so a word that holds text is represented by a number too
large for a tag or a length (`FDT_TEXT`), and 32-bit overflow in the bounds checks
of `fdt_offset_ptr` does not arise.

`fdt_next_tag` is the code's switch. The C loops over tags (`fdt_next_node`,
`nextprop_`, the subnode search, the node's end) are all prefixes of one walk,
`Walk(m, o)`, computed by a recursive function: each search picks the first item
of the walk that satisfies its condition, and the cases in which it finds none
are the code's error returns, in the code's order.

`FdtTree` reads a device tree off the tags in a way of its own (`Decoded`): it
is the yardstick for everything that edits, writes or searches a blob.

### FdtRw: one action per call

Each C function is an operator from memory and arguments to a return value and a new
memory; helpers that fail part way return the memory as they leave it. The
action `fdt_setprop`, for instance, chooses a node offset, a name, a value and
what lies behind the name's terminator, runs `fdt_rw_check_header_` with its side
effect on the version, and then `SetProp`, which is
`fdt_setprop_placeholder`, that is `fdt_resize_property_` or
`fdt_add_property_`, and the copy. Offsets passed in are those of all nodes and
one at which there is no node. `call`, `ret` and `ops` are history: the last call,
its result and the number of calls.

`fdt_open_into` is modelled as the matcher calls it, with source and destination
the same. That is the case in which its second copy has to go behind the first.

### DeviceTree and FdtRwTree: what editing promises

`DeviceTree` knows no memory: a tree is a sequence of nodes in document order with
depth, name and properties. `Outcomes` gives, for each call, the results and
trees it may lead to: exactly the documented effect, or a documented error and
no effect. `FdtRwTree` adds to `FdtRw` the tree its memory stands for, decoded after each
call, and `ImplementsTree` says that every step of the blob is a step of `DeviceTree`, or
`AddsTwin`. That is the one departure: `fdt_add_subnode` does not see a child that `fdt_set_name` has
renamed with a non-zero byte behind the name, and adds another one of the same name (see
Findings). `AddsTwin` allows it exactly then, if every child of that name has such a byte, and with the effect of a
call that succeeds. Everything else about the tree holds with twins in it. Errors that the model of the tree cannot decide
(no space, blob not opened) are allowed whenever a call may need space or the
check; whether a property exists, a name is taken or an overwrite fits is decided
by the tree alone.

### FdtRo and FdtRoTree: searches

Each function of `fdt_ro.c` is an operator; its loop is a recursive function of
the loop's variables, its error returns in their order. The call structure is
the code's: `fdt_node_offset_by_phandle` is a loop over `fdt_next_node` and
`fdt_get_phandle`, that calls `fdt_getprop`, and so on. A name carries the length
it was measured with: `Counted` for `strlen()`, `Exactly` for a true length.
`FdtRoTree` lets the blob be edited and compares every search, for every node
and many arguments, with the decoded tree. Calls that leave memory as it was are left out of the
edits, and so are those in `NoEdits`: `fdt_set_name`, which cannot replace a name such as `aliases` without
damage to the tree (see Findings), and two functions that leave nothing behind which another one does not.

### FdtSw, FdtSwTree and TreeBuilder: writing from front to back

`FdtSw` works on the memory of `FdtRw`, so that a finished blob is handed to
`fdt_open_into`. The unfinished blob has its own magic number; offsets of names
are negative (`Unsigned`, `AsInt`) until `Finish` relocates them. The blocks start behind the
header at a multiple of the size of a reservation, at 48 bytes (`SwHeadSize`, 12 words), while `fdt_create` takes
any buffer of 40 bytes or more. In one of 40 to 47 bytes the space left is negative, and
`fdt_grab_space_` compares it as an unsigned number, which never refuses. `Resize` sees
memory around the buffer and moves the window, so that overlapping buffers in
both directions are covered. The caller keeps to the order of the interface
(`MayBegin`, `MayAddProperty`, ...), repeats calls that failed and calls
functions on a blob that is not under construction. With `AnyOrder` it also begins nodes
before the reservations have their end, which the code does not check either. `TreeBuilder` promises that a
call appends what it is given or, for want of space, nothing; for
`fdt_create_empty_tree`, the stages at which it may stop.

### FdtOverlay and TreeMerge: overlays

Here both blobs are documents, and each edit that `fdt_overlay_apply()` makes has
an outcome that `DeviceTree` allows: the effect that `ImplementsTree` gives it, or
no space. One action is one step of the code: a phase of
renumbering, the choice of a fragment's target, one property, one subnode (found
or added), the symbols. `at` and `held` are the recursion's stack; the numbers of
base nodes in `held` stay as they are when a node is added, as the code's offsets do.
Arithmetic on phandles wraps at `MaxU32`. Each error of the code is a `Fail`,
which takes both magic numbers away. Of the blobs it is assumed that they are trees
whose paths are unique (`TreeAssumption`), that the phandles of a base tree are unique
(`BaseAssumption`), and that an overlay is as dtc makes it (`OverlayAssumption`): its phandles
are unique and not 0, also between the two names for a phandle, and no
fixup or label is called `phandle`.

`TreeMerge` knows neither order nor steps: a tree maps paths to
properties, and a call either merges everything, with phandles shifted, or leaves
an unusable base. `ImplementsMerge` is the refinement, with the base tree as it
was before the call while the call runs, and without `__symbols__`.

### Dtbs: build and search of the archive

A sequence of bytes, each knowing which argument of the script it was copied from,
the version of that file and its place in it. The rule of `dtbs-bin.o` is a small program
of its own: `step` and `arg` say where it is, `pad` is one round of the first loop (the
*input* files are padded in place), `cat` one file of the second, `dd` the sentinel,
`objcopy` the end. `Interrupt` stops it anywhere: after some of the bytes of
padding or of the sentinel, which `dd` writes one at a time, or between two files;
`cat` writes a file, which is shorter than its buffer, by a single call. `Edit` is a
recompiled blob, which makes `dtbs-bin.o` stale; it does not happen while the script runs.
`find_dtb` is one iteration of the loop. Assumed of the environment: the
address of the archive is a multiple of 4 (it follows word-sized data; the linker
script aligns only the kernel), and blobs are genuine ones (`totalsize` right, at
least the two fields of a header that the search reads). `input/padd32k.bin`, named in
the Exynos configuration, is not in the repository and is left out.

### Matcher: from entry to kernel, and again

`pc` follows `main()`; `match_board` is one action per way of matching, `SetDtb`
is the relocation, `Fixup` is open, fix up, pack; `start_kernel` and `led_panic`
(one round) follow. Blobs are records of what the matcher reads and writes, with
sizes in units of space, so that a blob may be too large for the buffer or have no room; the
calls into libfdt have the effect that `FdtRw` shows of them. A 32-bit word is four
bytes, which is what makes the byte order visible. `kexec` is the environment:
the running kernel starts a matcher, of this build or another, with its own
device tree and perhaps another command line.

Assumed: the boot loader passes `ATAG_REVISION`; the list of tags and the passed
tree do not lie at `RELOCATE_DTB`; find_str finds exactly the blob whose
`compatible` is asked for (what else it may find is `Dtbs`' subject); blobs are as
dtc makes them, what is in them takes up space and no source enables a backlight
(`ArchiveAssumption`); only a Raumfeld machine has a machine id and a revision
(`HardwareAssumption`). A passed tree
without `/chosen` or `hw-revision` is included. The chip-id boards are one action,
their panic a state without steps.

### Generic: addresses from the command line

A command line is a sequence of tokens. `gethexaddr` and `getaddrs` are
operators from a line to the *set* of results, because the code reads `*end`
and a kernel address that may never have been set: then the model lets the variable hold anything.
`match_board` is one tag of `for_each_tag`; `genboard` keeps what earlier lines
have set. `RELOCATE_DTB` is 0 where it is not defined; where it is, the kernel gets that address for
any blob, and since nothing sets `dtb_size`, `main()` copies nothing to it (`main.c:49-52`). `LineObeyed` therefore speaks
of the blob's address only without it. The loop of `gethexaddr` over the digits is a recursive function of the number of
rounds (`Sum`), what the digits stand for another one from the left (`Meaning`). Where no kernel is linked
in (`AppendKernel` is FALSE), an address of 0 leaves `start_kernel` unset, so `LineObeyed`
says nothing of where the kernel is started then. No configuration in the repository selects this board.

## 3. Runs

| Run | Module | Question | Bounds |
|---|---|---|---|
| `fdt_edit` | MCFdtRw | any three edits, any nodes: TypeOK, Layout, WellFormed, NoOverrun, OffsetsStable, ImplementsTree | a tree with two nodes, one property and one reservation; 8 words free, so that one edit fits, the second may or may not, and the third usually does not; a zero or another byte behind the names that are copied; memory goes on for 4 words behind the buffer |
| `fdt_open` | MCFdtRw | opening and packing among the edits: Layout, WellFormed, NoOverrun, ImplementsTree | full, version-16 and misordered blobs; buffers below, at and at twice the blob's size; a zero or another byte behind names and strings |
| `fdt_ro` | MCFdtRo | every search in a tree that has been edited: the seven `...Agree` | four nodes on three levels, nine properties among them an alias, phandles of both names, a list of two strings and cell counts of 0, 5 and -1; two edits, which also write a cell count of 4 and values of other lengths; buffers that a path fits or does not |
| `fdt_sw` | MCFdtSw | every legal sequence of sequential writing: SwLayout, SwNoOverrun, Searchable, ImplementsBuilder | ten calls, two nodes, two property names, a byte that is not zero behind the names of nodes; buffers of 8 words, which do not hold the header, 11, which hold it but end in front of the blocks, 28, which hold a part of the tree, and 40, also moved by 3 words |
| `overlay` | MCFdtOverlay | any three calls: UniquePhandles, ReferencesLead, ImplementsMerge, Returns | two base trees; 24 overlays, one for each reason to be refused, and three that merge; phandles wrap at 15 |
| `generic` | MCGeneric | every command line and list of tags: LineObeyed | numbers in base 4 of up to two digits, fields of up to three tokens, all combinations of delimiters; three tags of seven kinds |
| `dtbs` | MCDtbs | builds, crashes, searches | three blobs, one of them with both strings and one with none; sizes of every residue modulo 4; two versions, two runs of the script between cleans, each stopped at any byte |
| `boot` | MCMatcher | every start of every machine | every row of every table and unknown machines; six archives (two versions, one without `/chosen`, one with blobs too large, one with doublets, one for another board); two boots by kexec |
| `fdt_add_subnode` | MCFdtRw | *violation:* AddSubnodeWellFormed, a name of 3 bytes | two calls |
| `fdt_resize` | MCFdtSw | *violation:* ResizeKeepsTree, a buffer moved or shrunk with nodes in it | six calls; moves by 3 words either way |
| `dtbs_stale` | MCDtbs | *violation:* UpToDate; make, edit, make | as `dtbs` |
| `kexec_backlight` | MCMatcher | *violation:* BacklightOfRevision; revision 2, started by kexec | as `boot` |

**Why the bounds are enough.** In the libfdt runs the interesting cases come from *where* an edit
happens relative to the other blocks and *whether* it fits; each
operation appears first, between and after others, succeeds and fails. Three
calls are enough to fill the blob, make one fail half way and look at what is left.
Property values have length 0, 1 and 5 between the two runs, so both aligned and unaligned appends occur;
`l2` and `l2@100` exercise the unit-address rule. The searches depend on the
tree and on what two edits leave behind: a gap, an unused string, a node more or
less, another phandle. Ten calls of the sequential interface write two nodes with
a property each, a reservation, and leave two calls for repeating what failed. For overlays, the third call
is the one that applies to a tree already renumbered twice, so that phandles collide or run out. For `Dtbs`, two runs of the
script without a clean give a sentinel in the middle, or none, and both are
searched. For `Matcher` two kexecs suffice because the state that survives one is
the tree alone; the proofs do without a bound.

**Deadlock** is checked in `dtbs`. The libfdt and overlay runs stop at their number of calls, the boot runs
in the running kernel after `MaxBoots` or in the panic of a board without LEDs,
the generic board in the kernel.

**Fairness.** `WF(find_dtb)` in Dtbs, `WF(main)` and `WF(led_panic)` in Matcher,
`WF(Step)` in FdtOverlay: the processor executes the next instruction of a loop
that nothing else can disable. Nothing is assumed of
builds, of kexec, of callers, or of a choice between actions.

### Findings

1. `board-raumfeld.c:176` reads `hw-revision` from the passed tree without a
   byte swap, though the fixup stores it big-endian. A revision 2 controller
   started by kexec gets the wrong backlight (`kexec_backlight`), and passes
   `hw-revision` 0 on. `OneBacklight` still holds: it is wrong, but only one.
2. `fdt_add_subnode()` with a name of length 3 modulo 4 corrupts the structure block
   (`fdt_add_subnode`), because of `string.c:9-17`. The boards never add nodes.
   The passing runs add and rename nodes with names of other lengths for that reason. For
   those the wrong length leaves the tree well formed, but not free of twins (see the first point below).
3. `append_dtbs.sh:18` appends to an existing `dtbs.bin`, so an incremental make
   keeps serving the old blob (`dtbs_stale`).
4. `fdt_resize()` of a blob with nodes into a buffer elsewhere leaves them
   behind (`fdt_resize`): `fdt_sw.c:117` counts the head of the blob without its
   structure block. The passing run resizes in place once there are nodes.

Further consequences of the `strlen()` that counts the terminator. The models
do as the code does, and none of these calls is made by a board:

* `fdt_set_name` copies the byte behind the new name too (`fdt_rw.c:268`). If that is not zero,
  `fdt_add_subnode` and the other functions that measure a name with `strlen()` no longer find the node, and
  a second node of that name is added, which `libfdt.h:1825` rules out. Without `AddsTwin`, TLC
  finds `ImplementsTree` violated in run `fdt_edit` by these two calls.
* `fdt_set_name` leaves a word behind names of length 3 modulo 4, as
  `fdt_add_subnode` does (`fdt_rw.c:268`).
* `fdt_path_offset("/")` finds nothing: its last component is taken to be one
  byte long (`fdt_ro.c:230`).
* `fdt_get_path` writes a terminator after the root's empty name, so that the C
  string in the buffer is empty (`fdt_ro.c:415`).
* With the true length of a name, `fdt_getprop_namelen` finds no property
  (`fdt_ro.c:88`). Overlays with references to labels are therefore always
  refused with `FDT_ERR_NOTFOUND` (`fdt_overlay.c:396`).
* `fdt_node_check_compatible` misses a string that another one follows, and
  `fdt_stringlist_search` finds none (`fdt_ro.c:556`); what they do find is right
  (`StringsAgree`).
* The symbols an overlay adds to the base end after the path of the target
  (`fdt_overlay.c:777`).

Other observations:

* The generic board, built with `RELOCATE_DTB`, hands the kernel an address to which nothing has been
  copied (`main.c:49-52`): `find_dtb()` is what sets `dtb_size` on the other boards, and this one does not call it.
* `fdt_create` accepts a buffer of 40 to 47 bytes and puts the blocks at 48; `fdt_grab_space_` then takes
  the negative space for a large one (`fdt_sw.c:81`), so that `fdt_begin_node` succeeds behind the end of
  the buffer. A caller that ends the reservations first is told that there is no space; run `fdt_sw`, whose
  callers keep to that order, includes such buffers. With `AnyOrder = TRUE` TLC
  finds `SwLayout` violated there in two calls.
* `fdt_address_cells` rejects 0 (`fdt_addresses.c:72`), though `libfdt.h:1068` has it among the values returned
  on success; by the same line 4 is excluded, which both functions return.
* `fdt_open_into`'s conversion in place reads
  `boot_cpuid_phys` after the header it belongs to has been overwritten
  (`fdt_rw.c:488`); the model has it so.
* An address at the very end of the command line is read as none, and the end
  that `getaddrs` then reads was never set (`string.c:71,116`).

## 4. Proofs

`FdtRwProofs` proves, for memory, names, values, buffers and numbers of calls of any size:

| Theorem | Statement |
|---|---|
| `TypeCorrect` | `ImagesPlaced ⊢ Spec /\ NamesReplaced => []TypeOK` |
| `LayoutKept` | `ImagesPlaced ⊢ Spec /\ NamesReplaced => []Layout` |
| `NothingOverrun` | `ImagesPlaced ⊢ Spec /\ NamesReplaced => NoOverrun` |
| `OffsetsKept` | `ImagesInOrder ⊢ Spec /\ NamesReplaced => OffsetsStable` |
| `TreeKept` | `ImagesInOrder, ImagesSound, PropsNamed, StringsReach ⊢ Spec /\ NamesFit => []WellFormed` |

*Assumptions.* `ImagesPlaced`: the header of each blob at the start places its blocks inside the blob,
behind the header, and its reservation list, terminator included, off the structure block. The blocks may be in
any order and the version may be any; the header of version 16 does not say where the structure
block ends, so nothing is assumed of that. `ImagesInOrder` is stronger: the blobs have version 17 and dtc's
block order, as the ones the matcher links in do. The blobs of run `fdt_open` satisfy the first, and
one of them the second. `NamesReplaced`: whenever
`fdt_set_name` is called on a blob it does not refuse, the name it replaces, with the two extra bytes that `strlen()`
brings about, ends inside the structure block. Without it the call would take off
more words than there are. The matcher never calls `fdt_set_name`, so for it the
assumption is no restriction.

`TreeKept` needs more, because it is about what is in the structure block. `ImagesSound`: the
blobs at the start hold a tree. `PropsNamed`: no property is given the empty name.
`StringsReach`: the strings block is short enough for an `int` offset, whose sign bit the model has at
32768. `NamesFit`: the name that `fdt_set_name` or
`fdt_add_subnode` stores, and the one that `fdt_set_name` replaces, take no more words with
the length that `strlen()` returns than with their own, which is to say that their length is not 3 modulo
4. That is exactly what finding 2 is about: with such a name the tree is damaged in one
call. `fdt_add_subnode_namelen` is given the length and nothing is assumed of it. All of these hold in
run `fdt_edit`.
The other assumptions are the `ASSUME`s of FdtBlob and FdtRw,
which TLC evaluates in each run.

*Argument.* For blobs in order the invariant `IInv` says `Good(mem)`: the memory has its type and
`InOrder` holds. `InOrder` is more than what the code checks:
`fdt_rw_check_header_` asks for room for one reservation entry in front of the structure
block, `InOrder` for the whole list and its terminator. It is inductive only in this
form, since a longer list could otherwise reach into the structure block and
change when that is edited. `Layout` says that the weaker check implies the stronger condition
in every reachable state; the check alone would not. The lemmas follow the
call graph of the code. For each function there is one that says what it does to a good blob,
in terms of `Edited` (reservations untouched, the data between structure
block and end of strings rewritten, total size kept, nothing behind it touched) or
`Safe` (good again, and nothing overrun). At the bottom are `SpliceStruct`,
`SpliceString` and `SpliceMemRsv`; on them rest the property and node functions; `Step`
has one case for each action. `FdtRwLemmas` also proves what the walk yields
(`WalkItems`, `NodeEnd`, `GetProperty`, `SubnodeNotFound`): by well-founded
reasoning on the first and last item, every offset the searches return lies inside the
structure block, on any contents, a corrupt tree included. That is why these
theorems need no well-formedness of the tree.

For blobs in any order the invariant `PInv` says `Placed(mem)`, what `ImagesPlaced` says of the blobs
at the start. `CheckedGood` ties it to the other one: a placed blob that `fdt_rw_check_header_`
accepts is good, the whole reservation list included, because the list of a placed blob lies wholly on one side of
the structure block and the check finds its first entry in front of it. So a step on a blob that the check accepts
is one of `Step`, and on any other blob (`RefusedStep`) the editing functions return at once. Two
interfaces remain that do not check. The functions of `fdt_wip.c` write only to
words that the walk has passed, which lie inside the structure block even where its end is not known
(`PlacedTag`, `PlacedWritten`). `fdt_open_into` either finishes the header where
the blob is, or packs the blocks in the new order *behind* the blob and moves the result over it:
`PackedBehind` follows the six writes and moves, none of which may touch the blob
that the next ones read, `OpenedMoved` the move, which overlaps, and the result is good. For
version 16 the size of the structure block comes from the walk (`StructSizeReached`).

`OffsetsKept` needs to know what the walk is before and after an edit, and the
walk is defined by recursion. The library's induction theorems are of no use to the
provers here, so `FdtRwLemmas` argues with the least or greatest offset at which a
statement fails (`LeastNatural`, `GreatestNatural`), since every tag leads
to a larger offset. Thus the recursive function exists and has its unfolding
(`VisitsExist`, `VisitsUnfold`); what a walk passes is a chain, in which the next of each
tag is the tag behind it (`WalkIsChain`); and a statement that holds at the start of a
walk and passes from each tag to the next holds all along (`WalkInduction`).
`SamePrefix` then says that two blobs with the same words in front of an offset
have the same walk up to it, and `SameNumbers` that the nodes have the same numbers. What
remains is one lemma for each edit, `Kept(m, m2, e)`: the first `e` words of the
structure block are as they were and the block has not become shorter than that, where `e` is
where the contents of the edited node begin. It holds because properties and
subnodes are found behind that offset (`PropertyBehind`), and for every error return
as well. `fdt_set_name` keeps one word less, the name: there the node survives because the
new name ends inside the block (`SetNameKept`, `NodeAccepted`), and the theorem says nothing
of its name. The theorem does not assume that the tree is well formed.

`TreeKept` is about what an edit does *behind* its place, where the tags are shifted by it.
`WellFormed` counts: as many nodes are closed as opened in front of any tag that needs one open,
properties stand in front of subnodes. Counts over a walk are not inductive in a useful way, so
the invariant `Sound` says the same of single tags. There are a depth `H` for each offset and a
set `A` of the offsets where a property may stand, and each tag agrees with the
next one (`Nested`): a begin tag raises the depth by one and is as long as its name, an end tag lowers
it and no property may follow, a property needs an offset of `A` and refers to the strings block, and the
block ends at depth 0 with `FDT_END`. `Sound` also says that every word of the strings block is a name.
`SoundWellFormed` gets the counts back (`TreeDepth`: the count in front of an offset is `H`; `TreeOwner`: an
offset of `A` has its node in front of it, and only properties in between).
The lemma the edits rest on is `SplicedTree`: if the words from `p` to `q` become the words from `p` to `q2`
and everything else is only shifted, then a depth and a set for the new items that agree with
the old ones at both ends make a tree of the whole (`Replaced`). For each call
it remains to say which items are new: none for the removal of a property or a whole
node (`DelPropSound`, `DelNodeSound`; `EndItem` shows that depth and kind are the same at both ends of a
node), `FDT_NOP`s for `NopPropertySound` and `NopNodeSound`, one property (`PropertyPlaced`), a begin and an end tag
(`NodeAdded`), one name (`NameChanged`). A call that fails half way is covered too:
`fdt_setprop` may have added a string, or changed a length, before it finds no room.
The reservation functions, `fdt_pack` and `fdt_open_into` carry both blocks
to other places as they are (`Carried`, `CarriedSound`).

`FdtSwProofs` proves, again for every size of memory, buffers, names, values and trees:

| Theorem | Statement |
|---|---|
| `SwLayoutKept` | `~AnyResize, ~AnyOrder ⊢ SwSpec => []SwLayout` |
| `SwNothingOverrun` | `~AnyResize, ~AnyOrder ⊢ SwSpec => SwNoOverrun` |
| `SearchableKept` | `~AnyResize, ~AnyOrder, StringsReach, NodeNamesFit ⊢ SwSpec => []Searchable` |

*Assumptions.* `~AnyResize`: a buffer that holds nodes is neither moved nor
shrunk, which is what finding 4 is about. `~AnyOrder`: no node is begun before the reservations have
their end (see the buffers of 40 to 47 bytes under Other observations). Nothing is assumed of the memory that
`fdt_create` is given, nor of the size of the buffer, nor that a call succeeds. `SearchableKept` also assumes `StringsReach`, as
`TreeKept` does, and `NodeNamesFit`: the names of nodes (not those of properties, which lie in
the strings block) are not of length 3 modulo 4. After such a name `fdt_begin_node` leaves a word that is
neither part of the name nor a tag, the walk stops there, and the invariant is lost. `Searchable` itself need not be violated
then: TLC finds no violation on an instance like `fdt_sw` with a node name of three bytes. Both assumptions hold in
run `fdt_sw`.

*Argument.* `SwInv`: the memory holds a blob under construction (`SwGood`), or a
finished one in the order that `IInv` asks for (`Good`), or none, because the
first call failed. Under construction it either has room for its blocks (`SwGood`) or is `SwSmall`: the buffer ends
in front of `SwHeadSize` and nothing has been written but the header. From there every call fails for want of
space (`SmallReserved`, `SmallEmpty`), but for `fdt_resize` into a larger buffer, which leads to `SwGood`; in `SwGood` the space
that `fdt_grab_space_` computes is never negative. `SwGood` strengthens `Apart`. The structure block begins a
whole number of reservations behind the aligned header, so that `fdt_finish` can
promise the *whole* list in front of it (`RsvListEnds`); the list has its end
before there is a node, because the caller keeps to the order of the interface;
and there are no strings before there is a node. The last is needed because
`fdt_add_reservemap_entry` compares the new entry with the total size and does
not look at the strings (`fdt_sw.c:153`). Both ways in which
the two blocks grow have a lemma (`GrabSpace`, `SwFindAddStringKept`), and
`FinishKept` follows the strings to their place behind the nodes: the names of
properties are rewritten inside the structure block (`RelocatedKept`, on
`NextTag`), whatever the walk finds there. `EmptyTreeKept` composes six of the
lemmas in the order of `fdt_create_empty_tree`, with an exit after each.

`SearchableKept` relates three pieces of the blob: the tags, the offsets stored behind them, and the strings
these lead to. The invariant is `Indexed`, in addition to `SwInv` (TLC has checked both on the
instance of `fdt_sw`). An unfinished blob is `Listed`: the walk reaches the end of the structure block
and no further (`Ended`), each name's offset, read as a signed number, is one of the strings block's,
counted from the end of the buffer, and no node has two properties of one name (`Distinct`). A finished blob is `Filed`: the same with offsets
from the start of the strings block, and a walk that has no error in it. A search finds the property
because names are distinct among the properties of its node (`SearchFinds`, on `PropsReached`: the properties of a node are
those that no other node's tag separates from it). What remains is to show that no call breaks `Indexed`. Two facts do most of it. If a blob has
the words of another in front of its end, it has the same items there (`LongerItems`), so that
`fdt_begin_node`, `fdt_end_node` and `fdt_property` add exactly one item (`ItemAppended`),
and a string that is put in front of the others leaves every name where it is relative to the end (`StringsStay`, `NameStays`).
`PropertyIsNew` takes `Distinct` from the order in which the caller may make its calls (`MayAddProperty`), and
`ResizeListed` follows the strings to the end of another buffer.
In `fdt_finish` the strings move first (`StringsMoved`), then every offset becomes `Index + size_dt_strings` (`NamesRelocated`), and
`NameMoved` shows that the new offset leads to the cell to which the old one had led. `LastOfWalk` rules out the error
branch. Whatever only changes names changes no item (`NamesChanged`), which is also how `fdt_open_into` is dealt with.

`MatcherProofs` proves, for any set of machines, archives and command lines, any
size of the buffer and any number of boots:

| Theorem | Statement |
|---|---|
| `TypesKept` | `Spec => []TypeOK` |
| `RightDtbPassed` | `Spec => []RightDtb` |
| `OneBacklightOn` | `Spec => []OneBacklight` |
| `ColdBacklightRight` | `Spec => []ColdBacklight` |
| `CmdlineReachesKernel` | `Spec => []CmdlinePassed` |
| `ImageKept` | `Spec => ImageIntact` |

*Assumptions.* The `ASSUME`s of Matcher, which TLC evaluates in `boot`. The one
that matters is `ArchiveAssumption`: if a source enabled a backlight, or a command
line took up more space than its blob, the fixup could go wrong.

*Argument.* Each property speaks of the moment the kernel starts, but what makes it
true was decided earlier, so the invariant `Inv` says at each point of the
program what has been decided. `Started`: a matcher is started by the boot
loader with the tags of its machine, or by kexec with a tree that *names the
machine's model*, because the matcher before it chose that. This is where the
proof is an induction over boots. `Matched`: the board found is the first blob for
the model, the command line is the one given, and on a cold boot the revision
is the machine's. `Placed`: the blob is at `RELOCATE_DTB` exactly if there is one
to relocate, and after the fixup it is `Fixed(archive[board.dtb])`, one
expression for all that main() does to it. `FixedBlob` then says what that expression
can be, whichever of the writes fail for want of room. `ImageKept` follows because
a board that has a fixup is a Raumfeld board with a blob, which is relocated.

`DtbsProofs` proves, for any files with any sizes and strings, any list of arguments and any
number of builds, interruptions and cleans:

| Theorem | Statement |
|---|---|
| `ArchiveTyped` | `Spec => []TypeOK` |
| `SearchStaysInside` | `Spec => []InsideArchive` |
| `SearchFindsBlob` | `Spec => []FindsBlob` |
| `SearchFindsFirst` | `Spec => []FindsFirst` |
| `FreshBuildFound` | `Spec => []FreshBuild` |
| `SearchAdvances` | `Spec => [][find_dtb /\ found' = "search" => d' >= d + 8 /\ d' + 8 <= End]_vars` |

*Assumptions.* The `ASSUME`s of Dtbs, which TLC evaluates in `dtbs`: a blob is at least 8 bytes
long, and the archive starts at a multiple of 4 (`BaseAssumption`). Without the
second, the addresses that `find_dtb()` aligns would not be those of the blobs.

*Argument.* The archive is described without the addresses of its files, so that no sum
over sizes has to be computed. `Chain`: at offset 0, and at the next multiple of 4
behind each blob, there is the first byte of the following argument, or of the first
argument of a later run, or, behind the last argument, a zero, or nothing yet. Each step of the script appends to one end of the chain, and
where it may be interrupted the chain stays one. `Closed` adds the 8 bytes of
zeros behind every blob that are there when `objcopy` is reached; it is what keeps the
search inside. `PadInv` says that the bytes `dd` has put behind an input lie in its last word,
so that a second run of the first loop, after an interruption, completes them rather than
adding a word. `SearchInv`: the search stands at a place of the chain where argument
`j` follows, and no argument in front of `j` has the string. Since the search only ever steps to the
aligned end of a blob, `FindsFirst` follows although the archive may hold
every file several times. `FreshInv` follows versions from the disk through `bin` to `obj`
during the first run after a clean. `SearchAdvances` is the variant behind `Terminates`.

`FdtOverlayProofs` proves, for any base trees and overlays, any limit of phandles and any
number of calls:

| Theorem | Statement |
|---|---|
| `PhandlesStayUnique` | `Spec => []UniquePhandles` |

*Assumptions.* `TreeAssumption`, `BaseAssumption` and `OverlayAssumption`, which say what dtc
makes. An overlay in which two nodes collide, under either of the two names for a phandle, would
break the property.

*Argument.* `delta` is the largest phandle of the base when the call begins (`DeltaInv`), and
`overlay_adjust_node_phandles()` refuses sums that wrap or reach the reserved value, so the overlay's phandles
end up `Above` it, as distinct as before. While merging (`MergeInv`), a phandle of
the base above `delta` is one of an overlay node that has been merged, and if it is one of the
node being merged then the base node that has it is the one on top of `held`. The
second half is what makes a node with both names safe, and it
needs the recursion's stack to agree with the overlay's depths (`HeldInv`). A call that fails
half way leaves a base without its magic, of which `BaseInv` says nothing; that is why the code
destroys the magic. The new `__symbols__` node and its properties
have no phandles (`SymbolInv`). The document operations come from `DeviceTree`'s outcomes, among them the
failures for want of space.

`GenericProofs` proves, for any tags, any lines, any base and any number of digits:

| Theorem | Statement |
|---|---|
| `LastLineObeyed` | `Spec => []LineObeyed` |

*Assumptions.* `GenericAssumption`, which TLC evaluates in `generic`: tokens are strings, and the digits have
values below the base and are none of the two delimiters, "x" and "appended".

*Argument.* The invariant is `Inv`, in which `Followed` says that the board has the addresses of the last line
*so far* that has the parameter. A round on a line without it changes nothing (`LineIgnored`); on
a line that has it, the board forgets what it had (`LineRead`). For that the fields must be where the
code looks for them: the first delimiter behind the parameter is the comma between the two
numbers, the next is the one behind them (`FieldRead`, `NumberAt`, `SaysWhere`). That the code's sum, the
last digit first, is the number that is written is `NumberRead`. It is an induction over data done without the
library's theorems: both recursions exist and unfold (`RoundsExist`, by the least number of rounds for which there is no
such function), and after each round the digits that are left, read from the left, times the weight
reached, plus the sum so far, is the same number. `FollowedObeyed` takes the property from the
invariant once all tags have been looked at. The proof found a mistake in an earlier form of the property, which had no
condition on `AppendKernel`.

*Only model-checked:*

* `ImplementsTree`, `ImplementsBuilder` and the seven `...Agree`: they compare with the
  decoded tree, which is built by recursion over the walk.
* `ImplementsMerge` and `ReferencesLead`: the overlay's references are folded over as paths.
* `WellFormed` and `OffsetsStable` from version-16 and misordered blobs on.
* all liveness (`Terminates`, `Returns`, `Decides`, `PanicBlinks`), which needs fairness and ENABLED.

## 5. Plan

Done: every module of the diagram, its runs, and the proofs of section 4. Left,
in this order:

1. `TreeKept` and `OffsetsKept` with `ImagesPlaced`.
2. `ReferencesLead` on top of `PhandlesStayUnique`.

## 6. Not modelled

* UART drivers and printing (output only), the link step, `genver.sh`,
  `fdt_strerror.c` (a table), `atags_to_fdt.c` (not linked), the rules of the
  Makefile that only compile. What the link step guarantees about the alignment of the
  archive is an assumption of Dtbs.
* Time: `wait()` is part of one round of `led_panic`.
* In the sequential-write interface: a property name longer than all of the buffer in front of the strings. A name
  takes one word of the model's strings block, so the unsigned comparison of `fdt_sw.c:215` sees no negative number.
* In the read-only interface: `fdt_get_mem_rsv` (two loads), values of aliases that are not
  absolute paths, `fdt_get_path` of an offset that is no node.
* Among the inputs of overlays: an empty `__symbols__` node, names of nodes of
  length 3 modulo 4 (the damage of `fdt_add_subnode`, which only `__symbols__` itself shows),
  aliases in `target-path`, a phandle for a base node that has one, and
  an offset that one list of local fixups has twice.
* Memory faults of the machine, and a kernel or boot loader that does not keep to the
  conventions named under Matcher.
