SPECIFICATION StuckSpec
CONSTANTS
    Conversations = {c1, c2}
    None = None
    Sweeper = Sweeper
    Checkpointer = Checkpointer
    Gap = 0
    FlushMin = 2
    MinDelta = 1
    Cooldown = 1
    CheckpointOn = FALSE
    FlushOnOpen = TRUE
    SlowTurns = FALSE
    MaxNow = 1
    MaxArrivals = 2
    MaxAsides = 0
    MaxCrashes = 0
PROPERTIES
    OthersAreClosed
CHECK_DEADLOCK FALSE
