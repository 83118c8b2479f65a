SPECIFICATION Spec
CONSTANTS
    Requests = {post, feed}
    Hosts = {h1}
    HostOf <- MCOneHost
    Streaming = {feed}
    Idempotent = {feed}
    OneShot = {}
    Proxies = {"none", "http", "quic", "udponly", "quicNoH3", "udponlyNoH3"}
    Presets = {"h3", "h1"}
    Operations = {"SetProxy", "RefreshWithProtocol", "SetDisableHTTP3"}
    MaxOps = 1
INVARIANTS ResendGuarded SelectionSound RaceSettles
CHECK_DEADLOCK FALSE
