SPECIFICATION FairSpec
CONSTANTS
    Thread = {t1, t2}
    None = None
    Key <- MCKey
    PerKindArg = "true"
    ShardMin = 1
    ShardRange = 1
    Defaults = {"kind"}
    KindLines <- MCNone
    IndexLines <- MCIndexes
    Clears = {TRUE, FALSE}
    InitDisk <- MCOnDisk
    MaxCalls = 4
    MaxStarts = 1
INVARIANTS
    TypeOK
    MapsTellOpen
    Colocated
    NeverForgotten
PROPERTY
    EveryCallReturns
    ImplementsDirectory
CHECK_DEADLOCK FALSE
