CONSTANTS
    MemSize = 104
    BufSize = 100
    BufSizes = {}
    Names <- RoNames
    NameLen <- RoNameLen
    BaseName <- RoBaseName
    Byte = {0, 1, 2, 3}
    ByteBase = 4
    ReadPath <- RoReadPath
    Images <- RoImages
    NodeNames = {"l2"}
    PropNames = {"phandle", "#size-cells"}
    Vals <- RoVals
    Rsvs <- Nothing
    NameTails = {0}
    StrTails = {0}
    MaxOps = 2
    Strings <- RoListStrings
    Phandles = {0, 1, 4, 255}
    BufLens = {15, 50}
SPECIFICATION RoSpec
INVARIANTS NodesAgree SubnodesAgree PathsAgree PropertiesAgree PhandlesAgree ValuesAgree StringsAgree
CHECK_DEADLOCK FALSE
