CONSTANTS
    i1 = i1
    i2 = i2
    i3 = i3
    i4 = i4
    Instance = {i1, i2, i3, i4}
    NoInstance = NoInstance
    Known <- MCKnown
    MigrateOnStart = {i1, i2, i3}
    MaxStarts = 2
SPECIFICATION Spec
CHECK_DEADLOCK FALSE
INVARIANTS
    TypeOK
    AppliedOnce
    NeverConflicting
    ServesMigrated
PROPERTIES
    MigratesAtomically
    EveryStartEnds
