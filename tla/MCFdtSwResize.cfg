CONSTANTS
    MemSize = 44
    BufSize = 40
    BufSizes = {40}
    Names <- SwNames
    NameLen <- SwNameLen
    BaseName <- SwBaseName
    Byte = {0, 1, 2}
    Images <- NoImages
    NodeNames = {"l2"}
    PropNames = {"reg", "status"}
    Vals <- SwVals
    Rsvs <- SwRsvs
    NameTails = {0}
    StrTails = {0}
    MaxOps = 6
    SwSizes = {8, 28, 40}
    Shifts <- AllShifts
    AnyOrder = FALSE
    AnyResize = TRUE
    MaxDepth = 2
    MaxNodes = 2
SPECIFICATION SwTreeSpec
PROPERTY ResizeKeepsTree
CHECK_DEADLOCK FALSE
