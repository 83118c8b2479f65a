SPECIFICATION FairSpec
CONSTANTS
    Requests = {r1, r2}
    Conns = {c1, c2, c3}
    Keys = {k1}
    KeyOf <- MCKeyOf
    Modes <- MCModes
    Handoffs = {r2}
    Replayable = {r1}
    NoConn = NoConn
    MaxIdle = 1
    Presets = {chrome}
    Proxies = {direct}
    Operations = {"cleanup", "Refresh", "SetPreset", "SetProxy", "Close", "abandon"}
INVARIANTS OneUser PoolReusable RepeatsBounded
PROPERTY ExchangesEnd
CHECK_DEADLOCK FALSE
