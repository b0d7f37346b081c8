SPECIFICATION ServicesSpec
CONSTANTS
    Parts = {"reminders", "describer", "sweeps", "index", "genesis", "blobs", "mcp", "connector", "projections", "replica", "suite", "eval"}
    Memory = {1, 2, 3}
    Agent = Agent
    Bootstrap = Bootstrap
    Day = 2
    Hour = 1
    MonthStart <- MCMonthStart
    MaxScan = 4
    Item = {1, 2}
    Note <- MCNote
    Dates <- MCDates
    Dated <- MCDated
    Room = {1, 2}
    Present <- MCPresent
    Times = {2, 4}
    Cap = 1
    MaxActs = 3
    Mem = {1, 2}
    Entry = {1, 2, 3}
    On <- MCOn
    PostureOf <- MCPostureOf
    States <- MCStates
    Authored <- MCAuthored
    Passes = {"driver", "open"}
    Scope <- MCScope
    Today = 3
    Readings <- MCReadings
    MaxChanges = 3
    MaxWalks = 3
    Sweep = {"infer", "consolidate", "canonicalize"}
    MinActivity <- MCMinActivity
    MaxWrites = 2
    MaxSweeps = 2
    IndexEntry = {1, 2}
    IndexMem = {1}
    IndexOn <- MCIndexOn
    Models = {"a", "b"}
    MaxIndexLog = 4
    MaxCrashes = 1
    Defaults <- MCDefaults
    Vocabulary <- MCVocabulary
    Editor = {1, 2}
    Bodies = {"x", "y"}
    Snapshots <- MCSnapshots
    Context = 10
    DefaultBudget = 24
    DefaultCarryover = 4
    MaxGenesisActs = 5
    Hash = {1, 2}
    Size <- MCSize
    Mimes = {"text/plain", "image/png", "other"}
    MaxUpload = 3
    MaxCount = 2
    MaxBytes = 5
    TextBudget = 3
    Offset = {0, 1, 2, 3}
    MaxBlobActs = 5
    Tool = {"a", "b", "c"}
    Escaped <- MCEscaped
    Configs <- MCConfigs
    MaxProcs = 3
    MaxCalls = 2
    Message = {1, 2, 3}
    About <- MCAbout
    Allowed = {"c"}
    ReplyToAll = FALSE
    SeeBots = TRUE
    MaxBots = 1
    MaxFiles = 1
    MaxLeaves = 1
    Attr = 2
    Value = {"x", "y"}
    MaxEdits = 3
    MaxFaults = 1
INVARIANTS
    RaisedExactlyOnce
    DescribedOncePerChange
    NothingUnswept
    IndexFollowsTheLog
    AttachmentsStand
    McpContained
    NothingSaidIsLost
    MirrorIsExact
    ReplicaIsExact
    EvalsAreExact
PROPERTY GenesisHolds
CHECK_DEADLOCK FALSE
