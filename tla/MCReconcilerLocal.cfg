CONSTANTS
    Specs <- LocalSpecs
    MaxGen = 2
    MaxUid = 1
    MaxFaults = 1
SPECIFICATION Spec
INVARIANTS TypeOK ReadyMeansApplied ConditionsBacked FinalizerFirst DeploymentAfterInputs
PROPERTIES StatusNeverRestarts EditsSurvive ImplementsContract
CHECK_DEADLOCK FALSE
