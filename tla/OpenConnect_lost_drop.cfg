SPECIFICATION Spec
CONSTANTS
    Requests = {r1, r2}
    Users = {u1}
    Procs = {p1, p2}
    NoThread = NoThread
    NoProc = NoProc
    Tun = TRUE
INVARIANT
    DropIsReported
