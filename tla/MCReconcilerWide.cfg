CONSTANTS
    Specs <- WideSpecs
    MaxGen = 1
    MaxUid = 1
    MaxFaults = 0
SPECIFICATION Spec
INVARIANTS IInv
CHECK_DEADLOCK FALSE
