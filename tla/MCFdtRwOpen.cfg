CONSTANTS
    MemSize = 74
    BufSize = 70
    BufSizes = {34, 40, 70}
    Names <- MCNames
    NameLen <- MCNameLen
    BaseName <- MCBaseName
    Byte <- MCByte
    Images <- MCOpenImages
    NodeNames = {"l2"}
    PropNames = {"reg"}
    Vals <- MCVals
    Rsvs <- MCRsvs
    NameTails = {0, 1}
    StrTails = {0, 1}
    MaxOps = 3
SPECIFICATION TreeSpec
INVARIANTS Layout WellFormed
PROPERTIES NoOverrun ImplementsTree
CHECK_DEADLOCK FALSE
