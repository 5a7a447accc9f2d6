SPECIFICATION Spec
CONSTANTS
    m1 = m1
    m2 = m2
    other = other
    any_port = any_port
    one_port = one_port
    Conns = {c1}
    Machines = {m1, m2}
    Addrs = {m1, m2, other}
    Capacity = 1
    UsizeMax = 1000000
    NoMachine = NoMachine
    NoDest = NoDest
    TcpListeners = {one_port}
    TlsListeners = {tls_port}
    Mortal = {}
    Requests <- ManyRequests
    HttpBuffer = 12
    NoName = NoName
    NoListener = NoListener
    NoRequest = NoRequest
    Limits = {2}
    TcpDestination <- MCOneTcpDestination
    DestinationProvider <- MCDestinationProvider
PROPERTIES
    KnownHost
CHECK_DEADLOCK FALSE
