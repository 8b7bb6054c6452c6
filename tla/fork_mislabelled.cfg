\* A run that forks after it has diverged.
SPECIFICATION Spec
CONSTANTS
    Keys = {k1, k2}
    FinalKey = FinalKey
    NoKey = NoKey
    NoIndex = NoIndex
    MaxSteps = 3
SYMMETRY CallSymmetry
INVARIANT
    ForkIsTheDivergence
CHECK_DEADLOCK FALSE
