CONSTANTS
    Inputs <- MCInputs
    Files <- MCFiles
    Size <- MCSize
    Strings <- MCStrings
    Compats <- MCCompats
    Base = 16
    MaxVersion = 2
    MaxRuns = 2
SPECIFICATION Spec
INVARIANTS TypeOK InsideArchive FindsBlob FindsFirst FreshBuild
PROPERTIES Terminates
