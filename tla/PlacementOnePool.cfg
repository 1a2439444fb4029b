SPECIFICATION FairSpec
CONSTANTS
    n1 = n1
    n2 = n2
    p1 = p1
    p2 = p2
    v1 = v1
    v2 = v2
    v3 = v3
    s1 = s1
    s2 = s2
    durable = durable
    ephemeral = ephemeral
    None = None
    Nodes = {n1, n2}
    Pools = {p1}
    Classes = {durable}
    Volumes = {v1, v2}
    Spares = {}
    Need <- MCNeed
    Cap <- OnePoolCap
    Size <- OnePoolSize
    Class <- OnePoolClass
    Disks <- OnePoolDisks
    Home <- NoSpares
    Owner <- OnePoolOwner
    Root = {v1, v2}
    Group = {n1, n2}
    Attachable <- OnePoolAttachable
PROPERTIES
    EventuallyPlaced
    AttachmentFollowed
