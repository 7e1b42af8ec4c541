CONSTANTS
    TTL = 2
    Day = 2
    Week = 3
    Epoch = 4
    Span = 3
    MaxVersion = 2
    MaxExtension = 2
    MaxFaults = 1
    Targets <- MCTargets
SPECIFICATION FairSpec
INVARIANT KeptCurrent
PROPERTIES NeverBack Progress
