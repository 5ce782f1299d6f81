SPECIFICATION FairSpec
CONSTANTS
    Lines <- OneLine
    Profiles <- NoProfile
    Diagnostics = 1
    Rounds = 3
    Single = TRUE
    Timeout = 1
INVARIANTS TypeOK PassedIsVerifiable FailedStageIsStopped StagesExclude StateFollowsSummary
PROPERTIES NotPassedBeside AttemptEnds
CHECK_DEADLOCK FALSE
