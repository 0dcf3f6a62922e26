SPECIFICATION FairSpec
CONSTANTS
    Requests = {r1}
    Users = {u1}
    Procs = {p1, p2}
    NoThread = NoThread
    NoProc = NoProc
    Tun = TRUE
INVARIANTS
    OneProcess
    NoOrphan
    HeldStaysDown
    DownSeesStart
    AnsweredNeverStarts
    RunningIsShown
PROPERTIES
    ImplementsLink
    EveryCallReturns
