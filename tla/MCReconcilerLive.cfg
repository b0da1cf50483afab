CONSTANTS
    Specs <- PgSpecs
    MaxGen = 1
    MaxUid = 1
    MaxFaults = 1
SPECIFICATION FairSpec
PROPERTIES EventuallyConverged DeletionCompletes
CHECK_DEADLOCK FALSE
