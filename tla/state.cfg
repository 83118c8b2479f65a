SPECIFICATION StateSpec
CONSTANTS
    Sessions = {s1, s2}
    FirstSession = s1
    Requests = {q1}
    Urls <- MCUrls
    Calls <- MCCalls
    Answers <- MCAnswers
    Changes = {"close", "graceful", "refresh", "cache", "hints", "follow", "fork", "cookies"}
    MaxRedirects = 2
    MaxRetries = 1
    MaxCalls = 1
    MaxChanges = 1
    CookieHosts <- MCHosts
    CookieDomains <- MCDomains
    CookiePaths <- MCPaths
    CookieNames = {n}
    MaxCookies = 2
    MaxClock = 1
    Ids = {i1, i2, i3}
    Workers = {r1, r2}
    MaxSessions = 2
    NoId = NoId
    Caches = {t1}
    TicketKeys = {c1, c2, c3}
    Identifiers = {i1}
    CacheMaxSize = 1
    BackendFails = TRUE
    MaxTickets = 3
    MaxMoves = 1
    Hosts = {r1, r2}
    NoHost = NoHost
    MaxChunks = 2
    Dialers = {r1, r2}
    HeaderUnits = 2
    HeaderLimit = 2
    ServerUnits = 3
    QUICConns = {c1}
    NoQUICConn = NoQUICConn
    QUICRequests = {r1, r2}
    MaxManagers = 2
    MaxPools = 2
    MaxShutdowns = 1
    H3Requests = {r1}
    Origins = {o}
    H3Routes = {"direct", "socks"}
    MaxH3Conns = 3
    MaxRotations = 2
    MaxAdmin = 1
    TunnelDialers = {r1, r2}
    TunnelTargets = {"a", "b"}
    ProxyAddrs = 2
    MaxTunnelSockets = 3
    DatagramCap = 1
    MaxResets = 1
    ClientCalls <- MCClientCalls
    ClientOrigins = {c1, c2}
    PlainOrigin = plain
    MaxClientRetries = 1
    MaxHops = 2
    MaxClientCalls = 1
    MaxDigest = 1
    SwapUsers = {u1}
    SwapPresets = {chrome, firefox}
    FirstPreset = chrome
    PresetCallers = {p1}
    SwapProxies = {"masque"}
    MaxSwaps = 2
CHECK_DEADLOCK FALSE
INVARIANTS StateTypeOK ChainSound JarSound NoSessionLeaked OrderMatchesCache CompleteMeansFinished TunnelStreamIntact TransportSound TunnelOwned SentAsMeant SwapSound
PROPERTY QUICKeepsLease
