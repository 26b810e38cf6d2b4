CONSTANTS
    TagLists <- MCTagLists
    Radix = 4
    Digit <- MCDigit
    AddrDigits = 2
    AppendKernel = TRUE
    RELOCATE_DTB = 0
SPECIFICATION Spec
INVARIANT LineObeyed
CHECK_DEADLOCK FALSE
