SPECIFICATION MCSpec
CONSTANTS
    None = None
    Workers = {w1, w2}
    Sessions = {s1, s2}
    Managed = {m1}
    Grants = {g1}
    Lifetime = 1
    RefreshLifetime = 1
    GrantLifetime = 1
    Lifetimes = {5, 6}
    Budgets <- MCBudgets
    MaxLag = 1
    Overlapping = FALSE
    Users = {u1, u2}
    Orgs = {o1, o2}
    Projects = {p1, p2}
    MaxCode = 3
    Acts = 4
INVARIANTS
    CodeRedeemedOnce
    RegeneratedRefused
    StandingTokenServed
    SessionBounded
    OneWorkspace
    EmailedCodeWorks
PROPERTIES
    RevokedStaysRevoked
    CodesCleared
CHECK_DEADLOCK FALSE
