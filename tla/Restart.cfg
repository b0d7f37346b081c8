SPECIFICATION RestartSpec
CONSTANTS
    Writers = {w1, w2}
    Nobody = Nobody
    Boot = Boot
    Driver = Driver
    Operator = Operator
    EventKinds <- Projected
    MinNew = 1
    Keep = 1
    TornApply = TRUE
    Errs = TRUE
    TornFiles = TRUE
    TornRevert = TRUE
    MaxEvents = 3
    MaxBatch = 2
    MaxFaults = 1
    MaxOps = 2
    Conversations = {c1}
    None = None
    Sweeper = Sweeper
    Checkpointer = Checkpointer
    Gap = 1
    FlushMin = 2
    MinDelta = 1
    Cooldown = 1
    CheckpointOn = FALSE
    FlushOnOpen = TRUE
    SlowTurns = TRUE
    MaxNow = 3
    MaxArrivals = 3
    MaxAsides = 1
    MaxCrashes = 1
SYMMETRY Tasks
INVARIANTS
    ServesEveryCommit
    OneSessionAtATime
    PromptTurnKeepsItsSession
    PromptTurnsAreFlushed
PROPERTY SnapshotsStand
CHECK_DEADLOCK FALSE
