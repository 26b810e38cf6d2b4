CONSTANTS
    MemSize = 44
    BufSize = 40
    BufSizes = {40}
    Names <- SwNames
    NameLen <- SwNameLen
    BaseName <- SwBaseName
    Byte = {0, 1, 2}
    Images <- NoImages
    NodeNames = {"l2"}
    PropNames = {"reg", "status"}
    Vals <- SwVals
    Rsvs <- SwRsvs
    NameTails = {1}
    StrTails = {0}
    MaxOps = 10
    SwSizes = {8, 11, 28, 40}
    Shifts <- MCShifts
    AnyOrder = FALSE
    AnyResize = FALSE
    MaxDepth = 2
    MaxNodes = 2
SPECIFICATION SwTreeSpec
INVARIANTS SwLayout Searchable
PROPERTIES SwNoOverrun ImplementsBuilder
CHECK_DEADLOCK FALSE
