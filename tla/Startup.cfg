SPECIFICATION Spec
CONSTANTS
    any4 = any4
    any6 = any6
    loopback = loopback
    key25 = key25
    key025 = key025
    key80 = key80
    bad_key = bad_key
    Addrs = {any4, any6, loopback}
    Overlapping <- MCOverlapping
    Ports = {25, 80, 443}
    Keys = {key25, key025, key80, bad_key}
    PortOf <- MCPortOf
    Files <- MCFiles
    DefaultTlsPorts <- MCDefaultTlsPorts
    UsizeMax = 7
    Absent = Absent
    Malformed = Malformed
    NoConfig = NoConfig
INVARIANTS
    TypeOK
    ListensAsConfigured
PROPERTIES
    StartsUnlessContended
    StartsOrStops
    PanicsOnlyFirstOrLast
CHECK_DEADLOCK FALSE
