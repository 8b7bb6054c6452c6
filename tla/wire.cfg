\* Both pumps, the tap, the store and the end of the session, with store
\* errors, peers that exit at any time, kills and lines over the limit.
SPECIFICATION Spec
CONSTANTS
    r1 = r1
    r2 = r2
    NoId = NoId
    RawIds = {r1, r2}
    Keys = {r1, r2}
    Str <- MCStr
    MaxStoreErrors = 1
    Kinds <- MCKinds
    MaxSent <- MCSent
    PipeSize <- MCPipe
    HighWater <- MCHigh
    LowWater <- MCLow
    Faults = {"exit", "kill"}
SYMMETRY MCIds
INVARIANTS
    TypeOK
    TapFollowsWire
    PairingSound
    OnceRecorded
    Accounted
    AnsweredPaired
    CleanExitKeepsEverything
    CapturedAsAsked
    DivergesOnlyOverGaps
PROPERTY
    ImplementsChannel
