\* Every run of the engine of up to two rounds of up to two calls, under each
\* policy, for three recordings.
SPECIFICATION FairSpec
CONSTANTS
    c1 = c1
    c2 = c2
    c2Token = c2Token
    v1 = v1
    v2 = v2
    v2Token = v2Token
    Stub = Stub
    Calls = {c1, c2}
    Values = {v1, v2}
    Recordings <- MCRecordings
    Policies = {"stop", "stub", "live", "bogus"}
    MaxSteps = 2
    MaxBatch = 2
    Narrates = {TRUE, FALSE}
    Redact <- MCRedact
INVARIANTS
    TypeOK
    ConversationWellFormed
    NothingFabricated
    LiveIsLastResort
    EndingHonest
    StepsMirrorConversation
    ProvidersAccept
    SameConversation
PROPERTIES
    ImplementsAgentLoop
    Terminates
