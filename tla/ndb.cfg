SPECIFICATION FairSpec
CONSTANTS
    Thread = {t1, t2}
    Key <- MCKey
    Blob <- MCBlob
    InitDb <- MCInitDb
    Call <- MCCall
    Absent = Absent
    None = None
    NoCall = NoCall
    CounterMod = 16
    ShortMod = 4
    MaxCalls = 3
    MaxCrashes = 1
    gen = gen
    cnt = cnt
    ent = ent
    bad = bad
    blob = blob
    blob2 = blob2
INVARIANTS
    TypeOK
    LocksFollowCalls
    ReadStaysCurrent
    IdsIncrease
PROPERTIES
    Linearizable
    EveryCallReturns
CHECK_DEADLOCK FALSE
