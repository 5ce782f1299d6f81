SPECIFICATION Spec
CONSTANTS
    MaxRuns = 2
    Variants = 1
    PrepPlan <- SmallPrep
    Mirrors = 1
INVARIANTS OneOwner LogLeads StuckOnlyAtBirth
PROPERTIES ClosedForGood
CHECK_DEADLOCK FALSE
