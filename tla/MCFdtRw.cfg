CONSTANTS
    MemSize = 46
    BufSize = 42
    BufSizes = {40}
    Names <- MCNames
    NameLen <- MCNameLen
    BaseName <- MCBaseName
    Byte <- MCByte
    Images <- MCImages
    NodeNames = {"l2"}
    PropNames = {"reg", "status"}
    Vals <- MCFewVals
    Rsvs <- MCOneRsv
    NameTails = {0, 1}
    StrTails = {0}
    MaxOps = 3
SPECIFICATION TreeSpec
INVARIANTS TypeOK Layout WellFormed
PROPERTIES NoOverrun OffsetsStable ImplementsTree
CHECK_DEADLOCK FALSE
