\* A model that repeats a call by the token it is shown, which redaction takes
\* for a telephone number.
SPECIFICATION Spec
CONSTANTS
    c1 = c1
    c2 = c2
    c2Token = c2Token
    c2Twice = c2Twice
    v1 = v1
    v2 = v2
    Stub = Stub
    NoResult = NoResult
    FinalKey = FinalKey
    NoKey = NoKey
    NoIndex = NoIndex
    Calls = {c1, c2}
    Values = {v1}
    Asked = {c1, c2, c2Token, c2Twice}
    Tokens = {c2Token, c2Twice}
    Redact <- MCByPattern
    Policies = {"stop"}
    MaxEvents = 2
    MaxSteps = 2
    MaxBatch = 1
    MaxStoreErrors = 0
INVARIANT
    RepeatsAlign
CHECK_DEADLOCK FALSE
