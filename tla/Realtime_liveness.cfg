CONSTANTS
    Keys = {k1}
    Handlers = {c1}
    Uids = {u1, u2}
    Sockets = {s1, s2}
    None = None
    MaxReconnect = 1
    MaxFetches = 1
    MaxFaults = 2
    MaxInits = 1
SPECIFICATION FairSpec
PROPERTY RegisteredGoesLive
CHECK_DEADLOCK FALSE
