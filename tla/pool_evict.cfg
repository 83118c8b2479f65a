SPECIFICATION Spec
CONSTANTS
    Requests = {r1, r2, p1}
    Probes = {p1}
    Conns = {c1, c2}
    Keys = {k1}
    KeyOf <- MCOneKey
    NoConn = NoConn
    NoRequest = NoRequest
    MaxHTTP2Retries = 1
    StableALPN = TRUE
    Expirations = {"age"}
    Shutdowns = {}
SYMMETRY Symmetric
INVARIANTS TypeOK InFlightExact PooledServable OpenConnTracked DeferredCloseTracked OnlyLateArrivalsYanked RetryAvoidsFailed
