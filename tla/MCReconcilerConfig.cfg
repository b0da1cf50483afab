CONSTANTS
    Specs <- ConfigSpecs
    MaxGen = 3
    MaxUid = 1
    MaxFaults = 0
SPECIFICATION FairSpec
PROPERTIES EventuallyConverged
CHECK_DEADLOCK FALSE
