CONSTANTS
    l1 = l1
    h1 = h1
    h2 = h2
    NoOne = NoOne
    Launchers <- OneLauncher
    Hosts <- OneHost
    Recovering <- AlwaysOn
    MaxRecords = 2
    MaxSessions = 2
    MaxFaults = 1
SPECIFICATION FairSpec
PROPERTY Retried
