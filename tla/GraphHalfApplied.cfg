SPECIFICATION GraphSpec
CONSTANTS
    Writers = {w1, w2}
    Nobody = Nobody
    Boot = Boot
    Driver = Driver
    Operator = Operator
    EventKinds <- AllKinds
    MinNew = 1
    Keep = 1
    TornApply = TRUE
    Errs = FALSE
    TornFiles = FALSE
    TornRevert = FALSE
    MaxEvents = 3
    MaxBatch = 2
    MaxFaults = 1
    MaxOps = 2
INVARIANT BootNeverFails
CHECK_DEADLOCK FALSE
