SPECIFICATION Spec
CONSTANTS
    Requests = {r1, r2}
    Conns = {c1, c2}
    Pools = {p1, p2}
    Keys = {k1}
    KeyOf <- MCOneKey
    NoConn = NoConn
    NoPool = NoPool
    MaxConns = 1
    Profiles = {chrome, firefox}
    Proxies = {direct}
    Expirations = {"age"}
    Operations = {"cleanup", "SetPreset", "SetProxy", "CloseAllPools", "Close"}
SYMMETRY Symmetric
INVARIANTS HostPoolSound SwitchSound
PROPERTY HostKeepsLease
