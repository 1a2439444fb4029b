SPECIFICATION MCSpec
CONSTANTS
    None = None
    Absent = Absent
    Keys <- MCKeys
    Requires <- MCRequires
    MaxRequests = 5
    Careful = TRUE
    Versions = {1, 2, 3, 4}
    StableVersions = {1, 2, 3}
    Periodic = TRUE
    MaxChanges = 2
    MaxCalls = 2
    MaxFailures = 1
    Racing = FALSE
    Bulk = FALSE
    Nothing = Nothing
    ValueIds = {v1, v2}
    Profiles = {p1, p2, p3}
    InSetter = {p1, p2}
    Clients = {c1, c2}
    MaxEdits = 4
    Overlapping = FALSE
INVARIANTS
    DependencyKept
    LatestIsGreatest
PROPERTIES
    NoGapInUpgrade
    RepoConverges
    CatalogueConverges
    ValuesSettle
