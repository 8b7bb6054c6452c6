\* A run of up to three events, read while it is written or after, and
\* replayed for up to two rounds.
SPECIFICATION Spec
CONSTANTS
    c1 = c1
    c2 = c2
    c2Token = c2Token
    c2Twice = c2Twice
    v1 = v1
    v2 = v2
    Stub = Stub
    NoResult = NoResult
    FinalKey = FinalKey
    NoKey = NoKey
    NoIndex = NoIndex
    Calls = {c1, c2}
    Values = {v1}
    Asked = {c1, c2, c2Token}
    Tokens = {c2Token}
    Redact <- MCRedact
    Policies = {"stop", "stub"}
    MaxEvents = 3
    MaxSteps = 2
    MaxBatch = 1
    MaxStoreErrors = 1
INVARIANTS
    TypeOK
    CapturedIsWhatHappened
    ToldWhatTheAgentWasTold
    ForkIsUncovered
    VerdictIsTrue
PROPERTY
    CapturedGrows
CHECK_DEADLOCK FALSE
