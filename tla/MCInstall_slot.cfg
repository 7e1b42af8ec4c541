CONSTANTS
    l1 = l1
    l2 = l2
    x64 = x64
    arm64 = arm64
    NoOne = NoOne
    NoTarget = NoTarget
    Launchers <- MCLaunchers
    Versions <- ThreeVersions
    Targets <- BothTargets
    Modes <- CheckingModes
    MaxFaults = 3
SPECIFICATION Spec
PROPERTIES ImplementsSlot CopyNeverLost
