CONSTANTS
    Bases <- MCBases
    Overlays <- MCOverlays
    BaseName <- MCBaseName
    MaxU32 = 15
    MaxCalls = 3
    References <- LocalReferences
SPECIFICATION Spec
INVARIANTS UniquePhandles ReferencesLead
PROPERTIES ImplementsMerge Returns
CHECK_DEADLOCK FALSE
