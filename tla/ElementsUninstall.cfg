SPECIFICATION MCFairSpec
CONSTANTS
    p = p
    c = c
    p1 = p1
    p2 = p2
    p3 = p3
    c1 = c1
    node = node
    spare = spare
    config = config
    w1 = w1
    w2 = w2
    None = None
    Elements = {p, c}
    Manifests = {p1, p2, p3, c1}
    Resources = {node, spare, config}
    Workers = {w1, w2}
    Parts = {"replace"}
    Name <- Names
    Owner <- Owners
    Provider <- Providers
    Declares <- AllDeclares
    Exports <- AllExports
    Imports <- AllImports
    Requires <- AllRequires
    Link <- Links
    MaxFacts = 1
    MaxRequests = 4
PROPERTY
    RequiredStays
