SPECIFICATION Spec
CONSTANTS
    Requests = {post}
    Hosts = {h1}
    HostOf <- MCOneHost
    Streaming = {}
    Idempotent = {}
    OneShot = {}
    Proxies = {"none", "http", "quic"}
    Presets = {"h3"}
    Operations = {}
    MaxOps = 0
INVARIANT SentOnOneProtocol
CHECK_DEADLOCK FALSE
