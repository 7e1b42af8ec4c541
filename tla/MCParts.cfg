CONSTANTS
    MaxSaves = 2
    MaxFileFaults = 2
    Reports <- TwoReports
    Attachments <- OneAttachment
    RecentLinks <- OneLink
    Thumbs <- OneThumb
    MaxEvents = 3
    WatchedKeys <- TwoKeys
    MaxBytes = 2
    MaxAttempts = 3
    IconPrograms <- ExeAndDll
    LogoPaks <- OnePak
    MaxOverlay = 2
    MaxRounds = 3
    Launchers <- ThreeLaunchers
    Ids <- ThreeIds
    FamilyNames <- TwoFamilies
    MaxClaimFaults = 3
SPECIFICATION Spec
CHECK_DEADLOCK FALSE
INVARIANTS
    ProfileKept
    SettingsKept
    TracesOwn
    RegistrationsWatched
    PackagesContained
    OverlayTrue
    ReleasesTrusted
    InputsMean
    KeptApart
PROPERTIES
    ConsentKept
    OthersKept
    FileReplaced
    ImplementsOwner
