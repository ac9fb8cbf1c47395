CONSTANTS
    Keys = {k1, k2}
    Handlers = {c1, c2}
    Uids = {u1, u2, u3}
    Sockets = {s1, s2}
    None = None
    MaxReconnect = 1
    MaxFetches = 2
    MaxFaults = 1
    MaxInits = 1
SPECIFICATION Spec
INVARIANTS TypeOK OneLiveConnection ServerAgrees OwnersRelease
SYMMETRY Symmetric
CHECK_DEADLOCK FALSE
