SPECIFICATION Spec
CONSTANTS
    Requests = {r1, r2}
    Conns = {c1, c2}
    Keys = {k1}
    KeyOf <- MCKeyOf
    Modes <- MCModes
    Handoffs = {}
    Replayable = {r1, r2}
    NoConn = NoConn
    MaxIdle = 2
    Presets = {chrome}
    Proxies = {direct, relay}
    Operations = {"SetProxy"}
SYMMETRY Symmetric
INVARIANTS PooledProxyCurrent
CHECK_DEADLOCK FALSE
