SPECIFICATION FairSpec
CONSTANTS
    n1 = n1
    n2 = n2
    p1 = p1
    p2 = p2
    v1 = v1
    v2 = v2
    v3 = v3
    s1 = s1
    s2 = s2
    durable = durable
    ephemeral = ephemeral
    None = None
    Nodes = {n1, n2}
    Pools = {p1, p2}
    Classes = {durable}
    Volumes = {v1, v2}
    Spares = {}
    Need <- MCNeed
    Cap <- TightCap
    Size <- TightSize
    Class <- TightClass
    Disks <- TightDisks
    Home <- NoSpares
    Owner <- TightOwner
    Root = {v1, v2}
    Group = {}
    Attachable = {}
PROPERTIES
    ReturnedIsPlacedAgain
