SPECIFICATION TimeoutSpec
CONSTANTS
    MaxRetries = 2
    PingTicks = 2
    MaxMissed = 1
    OutMax = 1
    InMax = 2
    MaxPi = 3
    MaxPosts = 1
    MaxBreaks = 1
    Timeout = 2
INVARIANTS
    TypeOK
    AttemptsBounded
    PingsStopOnlyMissed
    TimerRuns
    Resources
PROPERTIES
    OnlyHelloRevives
    EndsOrRevived
    GivesUp
    AnsweredOrStopped
CHECK_DEADLOCK FALSE
