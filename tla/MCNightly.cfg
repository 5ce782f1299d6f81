SPECIFICATION Spec
CONSTANTS
    Checks = {"rootfs_static"}
    Prefixes = {"native_prefixes"}
    Pipeline <- Stages3
    Profiles = {"torch"}
    Lines = {"cu130", "cu129"}
    Matrix <- Torch
    Cuttable <- Cu130
    KeepGreen = 2
    Past = 3
    MaxNights = 4
    MaxMoves = 1
    MaxKills = 1
    MaxCuts = 1
INVARIANTS ReleasedIsProven GreenRanAll NewestGreenKept ReleasedKept
PROPERTIES NightEnds
CHECK_DEADLOCK FALSE
