-------------------------------- MODULE Dtbs --------------------------------
(***************************************************************************)
(* The archive of device tree blobs inside the matcher: how the build puts *)
(* it together (append_dtbs.sh and the dtbs-bin.o rule of the Makefile)    *)
(* and how find_dtb() of dtbs.c walks it at boot time.                     *)
(*                                                                         *)
(* The archive is a sequence of bytes.  A byte of a blob says which        *)
(* argument of the script it was copied from, and which version of that    *)
(* file and which place in it; every other byte is zero.  Sizes are in     *)
(* bytes, because alignment is what matters.                               *)
(***************************************************************************)
EXTENDS Integers, Sequences

CONSTANTS
    Inputs,     \* APPEND_DTBS, a sequence of files
    Files,      \* the files
    Size,       \* Size[f][v]: totalsize of version v of f
    Strings,    \* Strings[f]: the strings that occur in f
    Compats,    \* strings that are looked up
    Base,       \* address of _binary_dtbs_bin_start
    MaxVersion, \* bounds: the last version of each file,
    MaxRuns     \*   runs of the script between two cleans

ASSUME InputsAssumption ==
    /\ Inputs \in Seq(Files)
    /\ MaxVersion \in Nat \ {0} /\ MaxRuns \in Nat
    /\ Size \in [Files -> [1..MaxVersion -> Nat]]
    /\ Strings \in [Files -> SUBSET Compats]
\* A blob is longer than the two header fields that find_dtb() reads.
ASSUME SizeAssumption == \A f \in Files, v \in 1..MaxVersion : Size[f][v] >= 8
\* All data that the linker puts in front of the archive consists of words.
ASSUME BaseAssumption == Base \in Nat /\ Base % 4 = 0

VARIABLES
    disk,   \* the input files: version, and bytes of padding appended
    bin,    \* dtbs.bin, <<>> if it does not exist
    obj,    \* the archive in dtbs-bin.o, <<>> if it does not exist
    stale,  \* whether some input is newer than dtbs-bin.o
    runs,   \* the number of runs of the script since the last clean
    step,   \* what the rule of dtbs-bin.o does: "none", "pad", "cat", "dd"
            \*   or "objcopy"
    arg,    \*   the argument of the script it is at
    d,      \* find_dtb: the address it looks at
    compat, \*   the string it looks for
    found   \*   "idle", "search", "null" or "dtb"

buildVars == <<disk, bin, obj, stale, runs, step, arg>>
findVars  == <<d, compat, found>>
vars == <<disk, bin, obj, stale, runs, step, arg, d, compat, found>>

-----------------------------------------------------------------------------
(* append_dtbs.sh, one file at a time                                      *)

Zero == [k |-> 0, v |-> 0, i |-> 0]
Zeros(n) == [i \in 1..n |-> Zero]

\* Mutant: a word of padding behind an aligned file.
PadAlways(size) == 4 - (size % 4)

Pad(size) == IF size % 4 # 0 THEN 4 - (size % 4) ELSE 0

FileSize(f) == Size[f][disk[f].ver] + disk[f].pad

\* n bytes of padding are appended to the file f.
PadFile(f, n) == disk' = [disk EXCEPT ![f].pad = @ + n]

\* Mutant: files are separated by the end mark.
ContentsAndSentinel(k) ==
    [i \in 1 .. Size[Inputs[k]][disk[Inputs[k]].ver]
        |-> [k |-> k, v |-> disk[Inputs[k]].ver, i |-> i]]
    \o Zeros(disk[Inputs[k]].pad + 8)

\* The bytes of the k-th argument.
Contents(k) ==
    [i \in 1 .. Size[Inputs[k]][disk[Inputs[k]].ver]
        |-> [k |-> k, v |-> disk[Inputs[k]].ver, i |-> i]]
    \o Zeros(disk[Inputs[k]].pad)

\* Mutant: the archive has no end mark.
NoSentinel == <<>>

Sentinel == Zeros(8)

\* The loop over the arguments, which are padded in place.
pad ==
    /\ step = "pad"
    /\ \/ /\ arg <= Len(Inputs)
          /\ PadFile(Inputs[arg], Pad(FileSize(Inputs[arg])))
          /\ arg' = arg + 1 /\ step' = step
       \/ /\ arg > Len(Inputs)
          /\ arg' = 1 /\ step' = "cat" /\ disk' = disk
    /\ UNCHANGED <<bin, obj, stale, runs, findVars>>

\* A file is shorter than the buffer of cat, which appends it by one write.
cat ==
    /\ step = "cat"
    /\ \/ /\ arg <= Len(Inputs)
          /\ bin' = bin \o Contents(arg)
          /\ arg' = arg + 1 /\ step' = step
       \/ /\ arg > Len(Inputs)
          /\ arg' = 1 /\ step' = "dd" /\ bin' = bin
    /\ UNCHANGED <<disk, obj, stale, runs, findVars>>

dd ==
    /\ step = "dd"
    /\ bin' = bin \o Sentinel /\ step' = "objcopy"
    /\ UNCHANGED <<disk, obj, stale, runs, arg, findVars>>

-----------------------------------------------------------------------------
(* The build.  A search runs the matcher that was built last, so the       *)
(* sources may change under it but not the archive; they stand still while *)
(* the script runs.                                                        *)

\* A new version of f is compiled.
Edit(f) ==
    /\ step = "none" /\ disk[f].ver < MaxVersion
    /\ disk' = [disk EXCEPT ![f] = [ver |-> @.ver + 1, pad |-> 0]]
    /\ stale' = TRUE
    /\ UNCHANGED <<bin, obj, runs, step, arg, findVars>>

\* The rule for dtbs-bin.o: it calls the script ...
Make ==
    /\ stale /\ runs < MaxRuns /\ step = "none" /\ found = "idle"
    /\ step' = "pad" /\ arg' = 1 /\ runs' = runs + 1
    /\ UNCHANGED <<disk, bin, obj, stale, findVars>>

\* ... and wraps its output.
objcopy ==
    /\ step = "objcopy"
    /\ obj' = bin /\ stale' = FALSE /\ step' = "none"
    /\ UNCHANGED <<disk, bin, runs, arg, findVars>>

\* The rule is stopped.  dd copies one byte at a time.
Interrupt ==
    /\ step # "none" /\ step' = "none"
    /\ \/ step = "pad" /\ arg <= Len(Inputs) /\ bin' = bin
          /\ \E n \in 0 .. Pad(FileSize(Inputs[arg])) : PadFile(Inputs[arg], n)
       \/ step = "dd" /\ disk' = disk
          /\ \E n \in 0..8 : bin' = bin \o Zeros(n)
       \/ step \in {"cat", "objcopy"} /\ UNCHANGED <<disk, bin>>
    /\ UNCHANGED <<obj, stale, runs, arg, findVars>>

\* Mutant: dtbs.bin survives.
CleanKeepsBin ==
    /\ step = "none" /\ found = "idle"
    /\ obj' = <<>> /\ stale' = TRUE /\ runs' = 0
    /\ UNCHANGED <<disk, bin, step, arg, findVars>>

\* rm -fr *.bin ... *.o
Clean ==
    /\ step = "none" /\ found = "idle"
    /\ bin' = <<>> /\ obj' = <<>> /\ stale' = TRUE /\ runs' = 0
    /\ UNCHANGED <<disk, step, arg, findVars>>

-----------------------------------------------------------------------------
(* dtbs.c                                                                  *)

End == Base + Len(obj)

\* The byte at address a; nothing is known about what follows the archive.
At(a) == IF a \in Base .. End - 1 THEN obj[a - Base + 1] ELSE Zero

IsMagic(a) == At(a).i = 1

totalsize(a) == Size[Inputs[At(a).k]][At(a).v]

\* find_str(): the blob contains the string and its terminator.
find_str(a, s) == s \in Strings[Inputs[At(a).k]]

Aligned(a) == ((a + 3) \div 4) * 4

StartFind(s) ==
    /\ step = "none" /\ found = "idle" /\ obj # <<>>
    /\ found' = "search" /\ compat' = s /\ d' = Base
    /\ UNCHANGED buildVars

\* Mutant: a blob without the string is looked at again.
FindDtbStuck ==
    /\ found = "search"
    /\ \/ ~IsMagic(d) /\ found' = "null" /\ d' = d
       \/ IsMagic(d) /\ find_str(d, compat) /\ found' = "dtb" /\ d' = d
       \/ IsMagic(d) /\ ~find_str(d, compat) /\ found' = found /\ d' = d
    /\ UNCHANGED <<compat, buildVars>>

\* Mutant: the blob behind the one with the string is returned.
FindDtbNext ==
    /\ found = "search"
    /\ d' = IF IsMagic(d) THEN Aligned(d + totalsize(d)) ELSE d
    /\ found' = IF ~IsMagic(d) THEN "null" ELSE IF find_str(d, compat) THEN "dtb" ELSE found
    /\ UNCHANGED <<compat, buildVars>>

\* One iteration of the loop.
find_dtb ==
    /\ found = "search"
    /\ \/ ~IsMagic(d) /\ found' = "null" /\ d' = d
       \/ IsMagic(d) /\ find_str(d, compat) /\ found' = "dtb" /\ d' = d
       \/ IsMagic(d) /\ ~find_str(d, compat)
            /\ found' = found /\ d' = Aligned(d + totalsize(d))
    /\ UNCHANGED <<compat, buildVars>>

\* The matcher is started again.
Reset ==
    /\ found \in {"null", "dtb"}
    /\ found' = "idle" /\ d' = Base
    /\ UNCHANGED <<compat, buildVars>>

Init ==
    /\ disk = [f \in Files |-> [ver |-> 1, pad |-> 0]]
    /\ bin = <<>> /\ obj = <<>> /\ stale = TRUE /\ runs = 0
    /\ step = "none" /\ arg = 1
    /\ d = Base /\ found = "idle" /\ compat \in Compats

Next ==
    \/ \E f \in Files : Edit(f)
    \/ Make \/ pad \/ cat \/ dd \/ objcopy \/ Interrupt \/ Clean
    \/ \E s \in Compats : StartFind(s)
    \/ find_dtb \/ Reset

\* The processor executes the loop.
Spec == Init /\ [][Next]_vars /\ WF_vars(find_dtb)

-----------------------------------------------------------------------------
(* Properties.                                                             *)

Byte ==
    {Zero} \cup {b \in [k : 1..Len(Inputs), v : 1..MaxVersion, i : Nat \ {0}] :
                    b.i <= Size[Inputs[b.k]][b.v]}

\* The padding of a file never exceeds 3 bytes, however often it is padded.
TypeOK ==
    /\ disk \in [Files -> [ver : 1..MaxVersion, pad : 0..3]]
    /\ bin \in Seq(Byte) /\ obj \in Seq(Byte)
    /\ stale \in BOOLEAN /\ runs \in 0..MaxRuns
    /\ step \in {"none", "pad", "cat", "dd", "objcopy"} /\ arg \in 1 .. Len(Inputs) + 1
    /\ d \in Nat /\ compat \in Compats
    /\ found \in {"idle", "search", "null", "dtb"}

\* Whatever was built, rebuilt or interrupted before: when find_dtb() reads a
\* header, the magic number lies inside the archive.
InsideArchive == found = "search" => d >= Base /\ d + 4 <= End

\* What find_dtb() returns is one whole blob that contains the string, of the
\* length it reports: main() copies that many bytes.
FindsBlob ==
    found = "dtb" =>
        /\ find_str(d, compat)
        /\ \A i \in 1 .. totalsize(d) : At(d + i - 1) = [At(d) EXCEPT !.i = i]

Candidates == {k \in 1..Len(Inputs) : compat \in Strings[Inputs[k]]}

\* Every blob that was linked in is reached: the search ends at the first file
\* of APPEND_DTBS that contains the string, and empty-handed only if none does.
FindsFirst ==
    /\ found = "null" => Candidates = {}
    /\ found = "dtb" => At(d).k \in Candidates /\ \A k \in Candidates : At(d).k <= k

\* An archive built in one go after a clean is searched for the blobs that
\* were on disk then.
FreshBuild ==
    found = "dtb" /\ runs = 1 /\ ~stale => At(d).v = disk[Inputs[At(d).k]].ver

\* Every search ends.
Terminates == found = "search" ~> found \in {"null", "dtb"}

\* board-raumfeld.c:164 looks a board up in the matcher's own archive "so the
\* DTB is up-to-date": what a build that make calls finished hands out is the
\* newest version of the file.
UpToDate == found = "dtb" /\ ~stale => At(d).v = disk[Inputs[At(d).k]].ver

=============================================================================
