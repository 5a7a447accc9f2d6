SPECIFICATION Spec
CONSTANTS
    Conns = {c1, c2}
    m1 = m1
    m2 = m2
    m3 = m3
    other = other
    Machines <- ThreeMachines
    Addrs <- MCAddrs
    Capacity = 1
    UsizeMax = 1000000
    NoMachine = NoMachine
    NoDest = NoDest
INVARIANTS
    TypeOK
    OneOwner
    AttemptsAccounted
    NoLeakedSocket
    ServedByAllowedMachine
    ReceiverOutlivesSenders
    FreshConnections
PROPERTIES
    ForwardedIsSettled
    RunReturns
    GiveUpOnlyWhenExhausted
    TurnsRunOut
CHECK_DEADLOCK FALSE
