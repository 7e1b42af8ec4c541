CONSTANTS
    w1 = w1
    w2 = w2
    h1 = h1
    h2 = h2
    a1 = a1
    a2 = a2
    k1 = k1
    k2 = k2
    f1 = f1
    f2 = f2
    NoOne = NoOne
    Workers <- TwoWorkers
    Hosts <- OneHost
    Places <- TwoPlaces
    Keys <- TwoKeys
    Forms <- TwoForms
    MaxEntries = 1
    MaxActs = 4
    MaxFaults = 2
SPECIFICATION FairSpec
INVARIANTS Restorable Reopens
PROPERTIES Spared StaysOff Rerouted
