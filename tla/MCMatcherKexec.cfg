CONSTANTS
    Hardware <- MCHardware
    Archives <- MCArchives
    Cmdlines <- MCCmdlines
    CmdLen <- MCCmdLen
    Buffer = 8
    MaxBoots = 2
SPECIFICATION Spec
INVARIANTS BacklightOfRevision
CHECK_DEADLOCK FALSE
