SPECIFICATION FairSpec
CONSTANTS
    Script <- MCScript
    Good <- MCGood
    HeaderSize = 3
    Base = 4
    Increment = 2
    Wrapped = Wrapped
    ReplySize = 2
    SendBuffer = 1
    FirstPiece = 3
    MaxSignals = 1
    MaxConns = 2
INVARIANTS
    TypeOK
    HandedWhole
    RepliesInOrder
PROPERTIES
    EveryRequestAnswered
    CallsEnd
    ImplementsSession
CHECK_DEADLOCK FALSE
