CONSTANTS
    Requests = {r1}
    Templates = {t1}
    NoRequest = NoRequest
    MaxEdits = 1
    MaxFaults = 0
SPECIFICATION Spec
INVARIANTS RestoreOnce
