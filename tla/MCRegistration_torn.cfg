CONSTANTS
    f1 = f1
    f2 = f2
    here = here
    there = there
    elsewhere = elsewhere
    Nowhere = Nowhere
    Folders <- TwoFolders
    Places <- ThreePlaces
    MaxMoves = 1
    MaxFaults = 1
SPECIFICATION Spec
INVARIANT Retryable
