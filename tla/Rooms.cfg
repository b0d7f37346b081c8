SPECIFICATION RoomsSpec
CONSTANTS
    Conversation = {1}
    Batch = {b1, b2, b3}
    Room <- OneRoom
    Time = {0, 2}
    Window = {0, 1}
    Conversations = {c1, c2}
    None = None
    Sweeper = Sweeper
    Checkpointer = Checkpointer
    Gap = 0
    FlushMin = 2
    MinDelta = 1
    Cooldown = 1
    CheckpointOn = TRUE
    FlushOnOpen = TRUE
    SlowTurns = FALSE
    MaxNow = 1
    MaxArrivals = 2
    MaxAsides = 1
    MaxCrashes = 1
INVARIANTS
    NewestNeverYields
    WatermarkIsHonest
PROPERTIES
    BurstOriginIsOldestUnanswered
    ImplementsTurnSlot
    EveryTicketIsServed
    SupersededIsAnswered
    EveryTurnEnds
    AbandonedIsClosed
CHECK_DEADLOCK FALSE
