SPECIFICATION Spec
CONSTANTS
    k1 = k1  k2 = k2  k3 = k3
    s1 = s1  s2 = s2
    NoServer = NoServer
    Conns = {k1, k2, k3}
    Chars = {x1}
    Servers = {s1, s2}
    AddrOf <- FromAddr
    Listed = {s1, s2}
    Loads = {"ok"}
    Relocks = TRUE
    BufRoom = 2
    MaxMsgs = 2
SYMMETRY Symmetry
INVARIANTS
    GrantsLocked
    NoOrphanLock
PROPERTIES
    LeaseSpec
