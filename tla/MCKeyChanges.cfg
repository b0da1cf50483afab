CONSTANTS
    Modes = {"auto"}
    MaxUid = 2
    MaxURL = 0
    MaxFaults = 1
    Patient = FALSE
SPECIFICATION Spec
PROPERTIES KeyStable
CHECK_DEADLOCK FALSE
