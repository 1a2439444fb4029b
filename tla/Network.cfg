SPECIFICATION MCSpec
CONSTANTS
    None = None
    VmNodes = {v1, v2}
    HwNodes = {m1}
    PortIds = {p1, p2, p3, p4, p5, p6}
    FirstIp = 1
    LastIp = 3
    Targets <- MCTargets
    Room = 2
    MaxFaults = 2
    Careful = TRUE
    NoRow = NoRow
    Vhosts = {h1, h2}
    Routes = {r1}
    Pools = {b1}
    Listens <- MCListens
    MaxSize = 2
    Requesters = {q1, q2}
    MaxOrders = 2
    Unlocked = FALSE
    ToCore = FALSE
INVARIANTS
    PoolExcludesTaken
    BalancerSound
PROPERTIES
    LeasesHonoured
    PortsConverge
    BalancerConverges
