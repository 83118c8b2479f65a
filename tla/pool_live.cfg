SPECIFICATION FairSpec
CONSTANTS
    Requests = {r1, r2}
    Probes = {}
    Conns = {c1, c2}
    Keys = {k1}
    KeyOf <- MCOneKey
    NoConn = NoConn
    NoRequest = NoRequest
    MaxHTTP2Retries = 0
    StableALPN = TRUE
    Expirations = {"stall"}
    Shutdowns = {}
PROPERTIES RequestAnswered EveryConnReclaimed
