SPECIFICATION Spec
CONSTANTS
    Thread = {t1, t2}
    None = None
    Op = {"open", "get_multi", "query"}
    Sizes = {"long", "short"}
    SeqMod = 16
    MaxCalls = 3
INVARIANT
    BackingKept
CHECK_DEADLOCK FALSE
