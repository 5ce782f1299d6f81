SPECIFICATION Spec
CONSTANTS
    c1 = c1
    c2 = c2
    c3 = c3
    here = here
    there = there
    Clients = {c1, c2}
    Host <- LocalHost
    Resources = {gpu, cpu}
    Exclusive = {}
    Gpu = gpu
    HostCpu = cpu
    Ids = {i1, i2}
    Capacities = {1, 2}
    Budgets = {1, 3}
    TTLs = {1}
    Timeouts = {0}
    MaxTime = 0
    Nobody = Nobody
    NoId = NoId
SYMMETRY IdSymmetry
INVARIANTS HoldersExclude SharesSplitBudget
