SPECIFICATION FairSpec
CONSTANTS
    Thread = {t1, t2}
    Key <- MCKey
    Blob <- MCBlob
    InitDb <- MCInitDb
    Call <- MCCall
    Query <- MCQuery
    Count <- MCCount
    Db <- MCDb
    DbOf <- MCDbOf
    NoDb = NoDb
    Absent = Absent
    NoCall = NoCall
    CounterMod = 16
    ShortMod = 4
    MaxRequests = 3
    MaxCrashes = 1
    gen = gen
    ent = ent
    idx = idx
    bad = bad
    blob = blob
    blob2 = blob2
    data = data
    index = index
INVARIANTS
    TypeOK
    RefusedWritesNothing
    OkMeansAllWritten
    SplitAsOne
PROPERTY
    EveryRequestHandled
CHECK_DEADLOCK FALSE
