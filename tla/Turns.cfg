SPECIFICATION TurnsSpec
CONSTANTS
    Stub = stub
    Profile = profile
    NoOp = NoOp
    Conversation = {1, 2}
    Stubs = {stub, profile}
    Primary <- StubAndProfile
    NewName = {n}
    MaxAttempts = 2
    MaxOps = 2
    MaxBlocks = 2
    MaxForeign = 1
    Agent = Agent
    Bootstrap = Bootstrap
    NoName = NoName
    Unset = Unset
    Components = {"block", "turn", "room", "recall", "memory", "script", "fetch", "backend"}
    Memory = {1, 2, 3, 4, 5, 6, 7}
    Entry = {1, 2, 3, 4, 5}
    Name <- MemoryNames
    PersonName <- People
    Qualified <- MetNames
    Relation = {"knows"}
    Symmetric = {"knows"}
    Actor = {"turn", "pass"}
    MayActAs <- MayAct
    Speaker = {3, 4}
    SelfName = "self"
    OperatorName = "person/operator"
    Asked <- AskedFor
    Seed <- Remembered
    MaxSteps = 2
    Handle <- MetNames
    ContextName = {"context/x/room"}
    Deletable = {4, 5}
    ToldBy = {Agent}
    Nameable = {"person/bob", "context/x/room"}
    Addressed = {1, 2, 4}
    Linkable = {3, 4}
    MergePair <- Merges
    Person = {1, 2}
    Room = {1}
    MaxRoomLog = 5
    Reach = 1
    Scripted = {1, 2, 3}
    ScriptName = {"dave", "davina", "dee", "room"}
    Stood <- MCStood
    Query = {"davina", "who"}
    Naming <- MCNaming
    Unmintable = {"room"}
    ListCap = 1
    MaxScriptActs = 4
    HostName = {"n"}
    AllowPrivate = FALSE
    MaxRedirects = 2
    MaxBytes = 3
    MaxChars = 2
    ChunkSize = 2
    ContextLength = 3
    InputLength = 9
    Density = {1, 5, 12, 40}
INVARIANTS
    BlocksAreSerial
    TurnsEndWhole
    AudienceKept
    RecallKeepsSecrets
    ClassesAreClosure
    AccountsFitTheirEntry
    NoFuzzyWrite
    OutboundIsBounded
PROPERTIES
    ConfidenceStands
    SelfIsTheOperators
CHECK_DEADLOCK FALSE
