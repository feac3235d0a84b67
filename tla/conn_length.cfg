SPECIFICATION Spec
CONSTANTS
    Script <- MCPlain
    Good <- MCGood
    HeaderSize = 3
    Base = 4
    Increment = 2
    Wrapped = Wrapped
    ReplySize = 3
    SendBuffer = 2
    FirstPiece = 99
    MaxSignals = 0
    MaxConns = 1
INVARIANTS
    LengthAsSent
CHECK_DEADLOCK FALSE
