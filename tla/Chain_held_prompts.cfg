SPECIFICATION Spec
CONSTANTS
    s1 = s1
    v = v
    ConnNames <- MCConnNames
    Ssh = {s1}
    Via <- MCVia
    Requests = {r1}
    Clicks = {c1}
    User = user
    Hooks = {h1}
    NoVia = NoVia
    NoThread = NoThread
    NoUp = NoUp
PROPERTY
    HeldNeverPrompts
CHECK_DEADLOCK FALSE
