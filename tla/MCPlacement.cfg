SPECIFICATION Spec
CONSTANTS
    s1 = s1
    s2 = s2
    h1 = h1
    h2 = h2
    h3 = h3
    d1 = d1
    d2 = d2
    c1 = c1
    Cluster = {c1}
    Pool = {"pool"}
    Net = {"net"}
    NoCluster = NoCluster
    None = None
    Server = {s1, s2}
    Host = {h1, h2, h3}
    Datastore = {d1, d2}
    MaxFaults = 1
    Request <- MCRequest
    Worlds <- MCWorlds
INVARIANTS
    TypeOK
    ChoosesBest
    OvercommitsLast
    RoomUnlessRaced
CHECK_DEADLOCK FALSE
