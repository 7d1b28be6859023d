CONSTANTS
    k1 = k1
    k2 = k2
    k3 = k3
    s1 = s1
    s2 = s2
    NoServer = NoServer
    Conns = {k1}
    Chars = {x1}
    Servers = {s1, s2}
    AddrOf <- FromAddr
    Listed = {s1, s2}
    Loads = {"ok", "failed"}
    Relocks = FALSE
    BufRoom = 1
    MaxMsgs = 2
SPECIFICATION Spec
PROPERTY FailedLoadUnlocks
