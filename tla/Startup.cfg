SPECIFICATION FairSpec
CONSTANTS
    Names = {"a", "b", "c", "d"}
    NoUp = NoUp
    Addrs = {"default", "p0", "p1", "p2"}
    Files <- MCFiles
    FlagSets <- MCFlagSets
    Machines <- MCMachines
    Hosts <- MCHosts
    Lower <- MCLower
    MaxListeners = 2
INVARIANTS
    RoutedByRules
    StartsWhole

    
CHECK_DEADLOCK FALSE
