CONSTANTS
    Specs <- PgSpecs
    MaxGen = 1
    MaxUid = 1
    MaxFaults = 0
SPECIFICATION Spec
INVARIANTS SecretFinalized
CHECK_DEADLOCK FALSE
