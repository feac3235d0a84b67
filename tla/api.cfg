SPECIFICATION FairSpec
CONSTANTS
    Thread = {t1, t2}
    None = None
    Op = {"open", "get", "get_multi", "update", "query"}
    Sizes = {"long", "short"}
    SeqMod = 3
    MaxCalls = 4
INVARIANTS
    TypeOK
    HeldStaysLive
    HandlesOpen
    NothingLeaks
PROPERTY
    EveryCallReturns
CHECK_DEADLOCK FALSE
