SPECIFICATION Spec
CONSTANTS
    up1 = up1
    t3 = t3
    TunnelNames = {t1}
    Upstreams = {up1}
    Pin <- MCPin
    None = None
    Users = {u1}
    Sync = Sync
    Binds = {b1, b2}
    MaxQueued = 2
INVARIANT
    StoppedStaysStopped
