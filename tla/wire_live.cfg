\* What the event loop's scheduling brings about when both peers read and
\* nobody exits early; the store may fail once.
SPECIFICATION FairSpec
CONSTANTS
    r1 = r1
    r2 = r2
    NoId = NoId
    RawIds = {r1, r2}
    Keys = {r1, r2}
    Str <- MCStr
    MaxStoreErrors = 1
    Kinds <- MCLiveKinds
    MaxSent <- MCSent
    PipeSize <- MCPipe
    HighWater <- MCLiveHigh
    LowWater <- MCLow
    Faults = {}
PROPERTIES
    Delivered
    Shutdown
