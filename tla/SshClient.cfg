SPECIFICATION FairSpec
CONSTANTS
    Requests = {r1}
    Users = {u1}
    Conns = {k1, k2}
    NoThread = NoThread
    NoConn = NoConn
INVARIANTS
    OneHandshake
    StateIsFaithful
    NothingLeaks
    DownSeesDial
    HeldStaysDown
    AnsweredNeverDials
PROPERTIES
    LateWakersSpareLiveConn
    ImplementsLink
    EveryCallReturns
    DeadConnDropped
