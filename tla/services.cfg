SPECIFICATION ServicesSpec
CONSTANTS
    Requests = {r1, r2}
    Conns = {c1}
    Pools = {p1}
    Keys = {k1}
    KeyOf <- MCOneKey
    NoConn = NoConn
    NoPool = NoPool
    MaxConns = 0
    Profiles = {chrome}
    Proxies = {direct}
    Expirations = {"stall"}
    Operations = {"cleanup", "CloseAllPools"}
    Names = {a, e}
    EchNames = {e}
    Resolvers = {r1, r2}
    Families = {"both", "ip4"}
    MaxEvents = 2
    MaxHandles = 2
    Threads = {t1}
    Calls = {k1}
    MaxSyncCalls = 1
    BackendUsers = {u1, u2}
    MaxRequests = 2
    Clients = {c1, c2}
    Stoppers = {st1, st2}
    SessionIds = {"s1"}
    HostSessions = {hs1}
    NoSession = NoSession
    ProxyRequests <- MCProxyRequests
    Upstream = "http"
    MaxConnections = 1
    Addresses = 3
    ProxyAttempts = 2
INVARIANTS ServicesTypeOK TablesSettled
PROPERTIES MappedConnReclaimed SharedLookup CallAnswered BackendWaitEnds StopSound DialSettles
CHECK_DEADLOCK FALSE
