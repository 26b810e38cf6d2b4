------------------------------- MODULE Generic -------------------------------
(***************************************************************************)
(* The generic board: kernel and blob lie where a command line among the   *)
(* ATAGs says, "loadaddrs=<kernel>,<blob>".  match_board() of              *)
(* board-generic.c, the reading of addresses in string.c, and main().      *)
(*                                                                         *)
(* A line is a sequence of tokens: the words that the code looks for,      *)
(* delimiters, the "x" of "0x" and single hexadecimal digits.  Reading     *)
(* behind its last token finds the terminator.  What a variable that is    *)
(* read before it is set may hold is left open: such an operation has      *)
(* several results.                                                        *)
(***************************************************************************)
EXTENDS Integers, SequencesExt, FiniteSetsExt

CONSTANTS
    TagLists,       \* what the boot loader passes: sequences of lines, <<>>
                    \* for a tag that is not a command line
    Radix,          \* 16
    Digit,          \* the digits among the tokens, and their values: hexlut
    AddrDigits,     \* the digits of an address: 8
    AppendKernel,   \* whether a kernel is linked into the matcher
    RELOCATE_DTB    \* where main() copies the blob to, 0 if it is not defined

ASSUME GenericAssumption ==
    /\ TagLists \subseteq Seq(Seq(STRING))
    /\ Radix \in Nat \ {0} /\ AddrDigits \in Nat /\ AppendKernel \in BOOLEAN
    /\ \A c \in DOMAIN Digit : Digit[c] \in 0 .. Radix - 1
    /\ DOMAIN Digit \cap {" ", ",", "x", "appended"} = {}
    /\ RELOCATE_DTB \in Nat

Addr == 0 .. Radix ^ AddrDigits - 1

VARIABLES
    pc,         \* where the program is
    tags,       \* the argument of main()
    t,          \* the tag that match_board() looks at
    genboard,   \* [kernel, dtb], 0 for NULL
    started     \* [at, dtb]: where the kernel was started and with what; 0 for
                \* the kernel that is linked in and for the tags

vars == <<pc, tags, t, genboard, started>>

-----------------------------------------------------------------------------
(* string.c                                                                *)

Delimiters == {" ", ","}
NUL == ""

\* The first token from i on that is one of S, 0 if there is none.
Find(line, i, S) ==
    LET hits == {j \in i .. Len(line) : line[j] \in S}
    IN  IF hits = {} THEN 0 ELSE Min(hits)

\* Mutant: the loop starts at the left.
SumFromLeft(digits) ==
    LET loop[n \in 0 .. Len(digits)] ==
            IF n = 0 THEN [addr |-> 0, unit |-> 1]
            ELSE [addr |-> loop[n - 1].addr + Digit[digits[n]] * loop[n - 1].unit,
                  unit |-> loop[n - 1].unit * Radix]
    IN  loop[Len(digits)].addr

\* The loop over the digits, the last one first, each shifted by one digit more
\* than the one before it.
Sum(digits) ==
    LET loop[n \in 0 .. Len(digits)] ==
            IF n = 0 THEN [addr |-> 0, unit |-> 1]
            ELSE [addr |-> loop[n - 1].addr
                             + Digit[digits[Len(digits) - n + 1]] * loop[n - 1].unit,
                  unit |-> loop[n - 1].unit * Radix]
    IN  loop[Len(digits)].addr

\* The values that gethexaddr() may return for the field line[i .. e - 1]: any, if
\* a character is not a digit or a digit is shifted by more than the width.
Values(line, i, e) ==
    LET x == Max({i - 1} \cup {j \in i .. e - 1 : line[j] = "x"})
        digits == SubSeq(line, x + 1, e - 1)
    IN  IF Len(digits) <= AddrDigits /\ ToSet(digits) \subseteq DOMAIN Digit
        THEN {Sum(digits)} ELSE Addr

\* gethexaddr(): the end of the field, 0 if it is not set, and the values.
gethexaddr(line, i) ==
    LET e == Find(line, i, Delimiters)
    IN  IF e = 0 THEN [end |-> 0, vals |-> {0}]
        ELSE [end |-> e, vals |-> Values(line, i, e)]

\* The character at *end; any, if end was never set.
CharAt(line, end) ==
    IF end = 0 THEN {NUL, ","} ELSE IF end > Len(line) THEN {NUL} ELSE {line[end]}

\* getaddrs(): the [kernel, dtb] that it may leave where board has been.
getaddrs(line, board) ==
    LET s        == Find(line, 1, {"loadaddrs="}) + 1
        appended == s <= Len(line) /\ line[s] = "appended"
        k        == IF appended THEN [end |-> s + 1, vals |-> {0}] ELSE gethexaddr(line, s)
        d(c)     == IF c # "," THEN {board.dtb}
                    ELSE IF k.end = 0 THEN Addr
                    ELSE gethexaddr(line, k.end + 1).vals
    IN  IF s = 1 THEN {board}
        ELSE UNION {[kernel : k.vals, dtb : d(c)] : c \in CharAt(line, k.end)}

-----------------------------------------------------------------------------
(* board-generic.c and main.c                                              *)

\* One round of for_each_tag.
match_board ==
    /\ pc = "match" /\ t <= Len(tags)
    /\ genboard' \in getaddrs(tags[t], genboard)
    /\ t' = t + 1
    /\ UNCHANGED <<pc, tags, started>>

matched ==
    /\ pc = "match" /\ t > Len(tags)
    /\ pc' = "start"
    /\ UNCHANGED <<tags, t, genboard, started>>

\* start_kernel is not set if no line gives it and no kernel is linked in.
\* Nothing sets genboard.fixup_dtb, nor genboard.dtb_size: what main() copies to
\* RELOCATE_DTB is no bytes.
start_kernel ==
    /\ pc = "start"
    /\ \E at \in IF genboard.kernel # 0 \/ AppendKernel THEN {genboard.kernel} ELSE Addr :
            started' = [at |-> at, dtb |-> IF genboard.dtb # 0 /\ RELOCATE_DTB # 0
                                           THEN RELOCATE_DTB ELSE genboard.dtb]
    /\ pc' = "kernel"
    /\ UNCHANGED <<tags, t, genboard>>

main == match_board \/ matched \/ start_kernel

Init == /\ tags \in TagLists /\ pc = "match" /\ t = 1
        /\ genboard = [kernel |-> 0, dtb |-> 0]
        /\ started = [at |-> 0, dtb |-> 0]

Spec == Init /\ [][main]_vars

-----------------------------------------------------------------------------
(* Properties.                                                             *)

\* A number as it is written, "x" and one digit or more.
Numbers == {<<"x">> \o ds : ds \in UNION {[1 .. n -> DOMAIN Digit] : n \in 1 .. AddrDigits}}

\* What a field stands for: a number from its first digit on, 0 for "appended".
Meaning(field) ==
    LET value[n \in 0 .. Len(field)] ==
            IF n = 0 THEN 0
            ELSE IF field[n] \in DOMAIN Digit THEN Radix * value[n - 1] + Digit[field[n]]
            ELSE value[n - 1]
    IN  value[Len(field)]

Mentions(line) == Find(line, 1, {"loadaddrs="}) # 0

\* The line has the parameter for this kernel and this blob, with a delimiter
\* behind it.
Says(line, kernel, dtb) ==
    LET said == SubSeq(line, Find(line, 1, {"loadaddrs="}) + 1, Len(line))
    IN  /\ Mentions(line)
        /\ \E c \in Delimiters : IsPrefix(kernel \o <<",">> \o dtb \o <<c>>, said)

\* Line n says so, and no later line says anything.
LastSays(n, kernel, dtb) ==
    /\ Says(tags[n], kernel, dtb)
    /\ \A m \in n + 1 .. Len(tags) : ~Mentions(tags[m])

Kernels == Numbers \cup {<<"appended">>}

\* The kernel is started at the address, and with the blob, that the last line
\* with the parameter gives, whatever other lines and whatever else on the line
\* there is, if a delimiter ends it; with neither if no line has the parameter.
\* (Where RELOCATE_DTB is defined, the kernel gets that address instead of the
\* blob's.  Where no kernel is linked in, an address of 0 leaves start_kernel unset.
\* An address that the end of the line ends is not read: gethexaddr() returns
\* NULL then, and leaves the end that getaddrs() goes on to read unset.)
LineObeyed ==
    pc = "kernel" =>
        /\ \A n \in DOMAIN tags, k \in Kernels, d \in Numbers :
                LastSays(n, k, d) =>
                    /\ RELOCATE_DTB = 0 => started.dtb = Meaning(d)
                    /\ Meaning(k) # 0 \/ AppendKernel => started.at = Meaning(k)
        /\ AppendKernel /\ (\A n \in DOMAIN tags : ~Mentions(tags[n])) =>
                started.at = 0 /\ started.dtb = 0
=============================================================================
