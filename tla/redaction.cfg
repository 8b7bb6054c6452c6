\* Every text of up to four pieces, redacted twice.
SPECIFICATION Spec
CONSTANTS
    Pieces <- MCPieces
    MaxPieces = 4
    MaxPasses = 2
INVARIANTS
    TypeOK
    NothingLeft
    DatesSurvive
    CardsAreCards
    AuditMatches
CHECK_DEADLOCK FALSE
