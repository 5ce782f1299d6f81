SPECIFICATION FairSpec
CONSTANTS
    MaxRuns = 1
    Variants = 3
    PrepPlan <- SmallPrep
    Mirrors = 2
INVARIANTS TypeOK BuiltIsBuilt MatrixStops
PROPERTIES CancelStops
CHECK_DEADLOCK FALSE
