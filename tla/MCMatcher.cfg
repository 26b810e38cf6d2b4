CONSTANTS
    Hardware <- MCHardware
    Archives <- MCArchives
    Cmdlines <- MCCmdlines
    CmdLen <- MCCmdLen
    Buffer = 8
    MaxBoots = 2
SPECIFICATION Spec
INVARIANTS TypeOK RightDtb OneBacklight ColdBacklight CmdlinePassed
PROPERTIES ImageIntact Decides PanicBlinks
CHECK_DEADLOCK FALSE
