\* A server that exits under a client that goes on sending: the flush of
\* proxy/tap.py is never reached.
SPECIFICATION Spec
CONSTANTS
    r1 = r1
    r2 = r2
    NoId = NoId
    RawIds = {r1, r2}
    Keys = {r1, r2}
    Str <- MCStr
    MaxStoreErrors = 0
    Kinds <- MCLiveKinds
    MaxSent <- MCSent
    PipeSize <- MCPipe
    HighWater <- MCHigh
    LowWater <- MCLow
    Faults = {"exit"}
INVARIANT
    UnansweredPersisted
