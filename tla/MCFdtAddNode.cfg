CONSTANTS
    MemSize = 46
    BufSize = 42
    BufSizes = {40}
    Names <- MCNames
    NameLen <- MCNameLen
    BaseName <- MCBaseName
    Byte <- MCByte
    Images <- MCImages
    NodeNames = {"led"}
    PropNames = {"reg", "status"}
    Vals <- MCFewVals
    Rsvs <- MCOneRsv
    NameTails = {0}
    StrTails = {0}
    MaxOps = 2
SPECIFICATION TreeSpec
PROPERTY AddSubnodeWellFormed
CHECK_DEADLOCK FALSE
