\* A client that is slow to read when the server has ended.
SPECIFICATION Spec
CONSTANTS
    r1 = r1
    r2 = r2
    NoId = NoId
    RawIds = {r1, r2}
    Keys = {r1, r2}
    Str <- MCStr
    MaxStoreErrors = 0
    Kinds <- MCLiveKinds
    MaxSent <- MCSent
    PipeSize <- MCPipe
    HighWater <- MCTailHigh
    LowWater <- MCLow
    Faults = {}
INVARIANT
    ReturnDelivers
