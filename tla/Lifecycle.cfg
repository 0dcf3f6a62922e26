SPECIFICATION FairSpec
CONSTANTS
    Starters = {boot, ui}
    Stoppers = {ui, quit}
    Runs = {r1, r2}
    NoRun = NoRun
INVARIANTS
    StateIsFaithful
    PortFreeOnStart
    LatestIsLive
PROPERTY
    CancelledRunEnds
