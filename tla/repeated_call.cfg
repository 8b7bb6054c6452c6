\* One call, made twice by the agent with two results.
SPECIFICATION Spec
CONSTANTS
    c1 = c1
    c2 = c2
    c2Token = c2Token
    c2Twice = c2Twice
    v1 = v1
    v2 = v2
    Stub = Stub
    NoResult = NoResult
    FinalKey = FinalKey
    NoKey = NoKey
    NoIndex = NoIndex
    Calls = {c1}
    Values = {v1, v2}
    Asked = {c1}
    Tokens = {c2Token}
    Redact <- MCRedact
    Policies = {"stop"}
    MaxEvents = 3
    MaxSteps = 3
    MaxBatch = 1
    MaxStoreErrors = 0
INVARIANT
    SameOutputs
CHECK_DEADLOCK FALSE
