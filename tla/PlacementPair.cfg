SPECIFICATION Spec
CONSTANTS
    n1 = n1
    n2 = n2
    p1 = p1
    p2 = p2
    v1 = v1
    v2 = v2
    v3 = v3
    s1 = s1
    s2 = s2
    durable = durable
    ephemeral = ephemeral
    None = None
    Nodes = {n1, n2}
    Pools = {p1, p2}
    Classes = {durable, ephemeral}
    Volumes = {v1, v2, v3}
    Spares = {s1, s2}
    Need <- MCNeed
    Cap <- PairCap
    Size <- PairSize
    Class <- PairClass
    Disks <- PairDisks
    Home <- PairHome
    Owner <- PairOwner
    Root = {v1, v2}
    Group = {n1, n2}
    Attachable = {}
INVARIANTS
    NeverOverdrawn
    MemoryBalanced
    VolumeInPoolOfMachine
    PeersApart
