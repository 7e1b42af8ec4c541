CONSTANTS
    l1 = l1
    l2 = l2
    x64 = x64
    arm64 = arm64
    NoOne = NoOne
    NoTarget = NoTarget
    Launchers <- MCLaunchers
    Versions <- MCVersions
    Targets <- MCTargets
    Modes <- AllModes
    MaxFaults = 2
SPECIFICATION FairSpec
INVARIANTS HolderOnly MarkerTellsTruth Recovered
PROPERTY LockReleased
