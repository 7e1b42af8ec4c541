CONSTANTS
    f1 = f1
    f2 = f2
    here = here
    there = there
    elsewhere = elsewhere
    Nowhere = Nowhere
    Folders <- TwoFolders
    Places <- ThreePlaces
    MaxMoves = 2
    MaxFaults = 2
SPECIFICATION Spec
SYMMETRY Symmetry
INVARIANT Covered
PROPERTIES OthersIntact AdvertisedLast RecordsKept
