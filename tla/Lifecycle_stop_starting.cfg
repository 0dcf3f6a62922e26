SPECIFICATION FairSpec
CONSTANTS
    Starters = {boot}
    Stoppers = {quit}
    Runs = {r1, r2}
    NoRun = NoRun
PROPERTY
    StopStops
