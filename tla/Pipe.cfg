SPECIFICATION LiveSpec
CONSTANTS
    a = a
    b = b
    c = c
    NoMessage = NoMessage
    Message <- AllMessages
    Heavy <- HeavyMessages
    BatchSize <- Sizes
    DefaultMax = 1
INVARIANTS Safe DataHolds
PROPERTY Progresses
CHECK_DEADLOCK FALSE
