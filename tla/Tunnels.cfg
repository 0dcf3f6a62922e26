SPECIFICATION FairSpec
CONSTANTS
    up1 = up1
    t3 = t3
    TunnelNames = {t1, t3}
    Upstreams = {up1}
    Pin <- MCPin
    None = None
    Users = {u1}
    Sync = Sync
    Binds = {b1, b2}
    MaxQueued = 2
INVARIANTS
    TypeOK
    DownIsNoticed
    UpIsNoticed
    PortFreeOnRebind
    ServedIsKnown
PROPERTY
    TunnelFollows
