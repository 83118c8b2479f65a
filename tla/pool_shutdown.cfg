SPECIFICATION Spec
CONSTANTS
    Requests = {r1, r2, p1}
    Probes = {p1}
    Conns = {c1, c2}
    Keys = {k1}
    KeyOf <- MCOneKey
    NoConn = NoConn
    NoRequest = NoRequest
    MaxHTTP2Retries = 0
    StableALPN = FALSE
    Expirations = {}
    Shutdowns = {"Close", "CloseGraceful", "Refresh"}
SYMMETRY Symmetric
CHECK_DEADLOCK FALSE
INVARIANT ShutdownSound
