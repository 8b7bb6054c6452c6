\* The diff of every pair of trajectories of up to three steps, as they grow.
SPECIFICATION Spec
CONSTANTS
    Keys = {k1, k2}
    FinalKey = FinalKey
    NoKey = NoKey
    NoIndex = NoIndex
    MaxSteps = 3
SYMMETRY CallSymmetry
INVARIANTS
    TypeOK
    KindIsExact
    ComparableAgrees
    Symmetric
PROPERTY
    VerdictStable
CHECK_DEADLOCK FALSE
