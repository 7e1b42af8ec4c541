CONSTANTS
    Origins <- AllOrigins
    MaxFaults = 3
SPECIFICATION FairSpec
INVARIANT NeverStranded
PROPERTIES Consent Answered Closes
CHECK_DEADLOCK FALSE
