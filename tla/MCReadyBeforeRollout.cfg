CONSTANTS
    Specs <- LocalSpecs
    MaxGen = 2
    MaxUid = 1
    MaxFaults = 0
SPECIFICATION Spec
INVARIANTS ReadyMeansRolledOut
CHECK_DEADLOCK FALSE
