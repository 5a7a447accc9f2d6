SPECIFICATION Spec
CONSTANTS
    Conns = {c1, c2}
    m1 = m1
    m2 = m2
    m3 = m3
    other = other
    Machines <- TwoMachines
    Addrs <- MCAddrs
    Capacity = 1
    UsizeMax = 1000000
    NoMachine = NoMachine
    NoDest = NoDest
PROPERTIES
    BestMachineFirst
CHECK_DEADLOCK FALSE
