\* A line longer than the StreamReader's limit.
SPECIFICATION Spec
CONSTANTS
    r1 = r1
    r2 = r2
    NoId = NoId
    RawIds = {r1, r2}
    Keys = {r1, r2}
    Str <- MCStr
    MaxStoreErrors = 0
    Kinds <- MCKinds
    MaxSent <- MCSent
    PipeSize <- MCPipe
    HighWater <- MCHigh
    LowWater <- MCLow
    Faults = {"exit"}
INVARIANT
    PumpsForwardEveryLine
