CONSTANTS
    l1 = l1
    l2 = l2
    l3 = l3
    chromium = chromium
    helium = helium
    unnamed = unnamed
    Launchers <- ThreeLaunchers
    Ids <- ThreeIds
    FamilyNames <- TwoFamilies
    MaxClaimFaults = 1
SPECIFICATION ClaimSpec
INVARIANT OneFamily
