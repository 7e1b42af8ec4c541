CONSTANTS
    l1 = l1
    h1 = h1
    h2 = h2
    NoOne = NoOne
    Launchers <- OneLauncher
    Hosts <- TwoHosts
    Recovering <- Toggled
    MaxRecords = 2
    MaxSessions = 2
    MaxFaults = 3
SPECIFICATION FairSpec
INVARIANTS QuietCleaning Covered WithinBudget
PROPERTIES RetiredClean RetriedUnlessHusk
