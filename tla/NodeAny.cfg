SPECIFICATION Spec
CONSTANTS
    a = a
    b = b
    ua = ua
    ub = ub
    w1 = w1
    w2 = w2
    None = None
    Images <- MCImages
    Uris <- MCUris
    Resolve <- MCResolve
    Workers = {w1, w2}
    Scenarios <- AnyScenarios
SYMMETRY WorkerSymmetry
INVARIANTS
    RebootOnlyOnRequest
    BootAndPortAgree
