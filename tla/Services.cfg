SPECIFICATION MCSpec
CONSTANTS
    Void = Void
    MaxNodes = 3
    MaxReplicas = 2
    MaxVersion = 2
    MaxResizes = 1
    Early = FALSE
    Racing = FALSE
    Nil = Nil
    Given = {a, b}
    MaxWrites = 2
    MaxTicks = 1
    MaxLost = 1
    Careless = FALSE
    Blank = Blank
    Own = {r1, r2}
    Foreign = {f1}
    MaxEdits = 3
    MaxFaults = 1
    MaxTroubles = 3
    Torn = FALSE
INVARIANTS
    ActiveMeansReached
    NewValueForAReason
    ThroughMeansComplete
PROPERTIES
    ForeignKept
    RolloutConverges
    StoreConverges
    RecordsConverge
    ScriptEnds
CHECK_DEADLOCK FALSE
