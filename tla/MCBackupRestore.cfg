CONSTANTS
    Requests = {r1, r2}
    Templates = {t1, t2}
    NoRequest = NoRequest
    MaxEdits = 4
    MaxFaults = 1
SPECIFICATION FairSpec
INVARIANTS TypeOK RestoreOncePerJob
PROPERTIES EditsApplied RequestHonoured
