SPECIFICATION FairSpec
CONSTANTS
    c1 = c1  c2 = c2  c3 = c3
    n1 = n1  n2 = n2
    k1 = k1  k2 = k2
    p1 = p1
    Clients = {c1, c2}
    Names = {n1, n2}
    Servers = {1}
    Links = {k1}
    ServerOf <- OneLink
    Kinds = {"ok"}
    Players = {}
    Capacities = {1}
    NoName = NoName
    NoLink = NoLink
    GsRoom = 1
    MaxSq = 1
    IdlePurge = TRUE
    MaxMsgs = 1
PROPERTIES
    PlacesReclaimed
    QueueServed
