SPECIFICATION Spec
CONSTANTS
    Script <- MCLong
    Good <- MCGood
    HeaderSize = 3
    Base = 4
    Increment = 2
    Wrapped = Wrapped
    ReplySize = 3
    SendBuffer = 2
    FirstPiece = 3
    MaxSignals = 0
    MaxConns = 1
INVARIANTS
    NotBeforeItsEnd
CHECK_DEADLOCK FALSE
