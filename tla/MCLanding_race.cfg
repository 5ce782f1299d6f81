SPECIFICATION Spec
CONSTANTS
    l1 = l1
    f0 = f0
    f1 = f1
    LeadPatches = {l1}
    FollowerPatches = {f0, f1}
    NoPatch = NoPatch
    Before <- Moved
    PathOf <- Docs
    NoGatePaths = {"docs"}
    RequireGate = TRUE
    MaxRewrites = 1
    Gates = {"torch"}
    NoCommit = NoCommit
    MaxCi = 2
    MaxKills = 1
PROPERTIES CommitIsVerified
CHECK_DEADLOCK FALSE
