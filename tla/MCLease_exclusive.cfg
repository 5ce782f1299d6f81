SPECIFICATION FairSpec
CONSTANTS
    c1 = c1
    c2 = c2
    c3 = c3
    here = here
    there = there
    Clients = {c1, c2}
    Host <- TwoHosts
    Resources = {net}
    Exclusive = {net}
    Gpu = gpu
    HostCpu = cpu
    Ids = {i1, i2, i3}
    Capacities = {1}
    Budgets = {1}
    TTLs = {1, 2}
    Timeouts = {0, 1}
    MaxTime = 2
    Nobody = Nobody
    NoId = NoId
INVARIANTS TypeOK HoldersExclude InForceRecorded
PROPERTIES GrantsSpec AcquireReturns
