SPECIFICATION ProgressSpec
CONSTANTS
    TurnCalls = {t1, t2}
    BackgroundCalls = {b1}
    Calls = {t1, t2, b1}
    Threshold = 2
    MaxAttempts = 2
    MaxCount = 3
    Stub = stub
    Profile = profile
    NoOp = NoOp
    Nobody = Nobody
    Boot = Boot
    Driver = Driver
    Operator = Operator
    Writer = w1
INVARIANT
    NoLostWakeup
PROPERTIES
    OvertakenOnce
    ClientServes
    EveryBlockEnds
    ConsoleIsServed
    LogIsServed
CHECK_DEADLOCK FALSE
