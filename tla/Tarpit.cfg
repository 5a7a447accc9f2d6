SPECIFICATION Spec
CONSTANTS
    Conns = {c1, c2}
    Capacity = 1
    Lines = 3
    LineSize = 2
    BufferSize = 3
    MaxConnections = 1
INVARIANTS
    TypeOK
    HeldOnce
PROPERTIES
    NobodyIsLetGo
    EndlessForReaders
    EveryoneIsHeld
    RunReturns
CHECK_DEADLOCK FALSE
