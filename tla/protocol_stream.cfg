SPECIFICATION Spec
CONSTANTS
    Requests = {feed}
    Hosts = {h1}
    HostOf <- MCOneHost
    Streaming = {feed}
    Idempotent = {feed}
    OneShot = {}
    Proxies = {"http", "quic", "quicNoH3"}
    Presets = {"h3"}
    Operations = {}
    MaxOps = 0
INVARIANT NeverDirectBehindProxy
CHECK_DEADLOCK FALSE
