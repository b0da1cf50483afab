CONSTANTS
    Modes = {"auto", "url"}
    MaxUid = 2
    MaxURL = 2
    MaxFaults = 1
    Patient = TRUE
SPECIFICATION FairSpec
INVARIANTS TypeOK
PROPERTIES PasswordsAgree KeyStable
CHECK_DEADLOCK FALSE
