SPECIFICATION FairSpec
CONSTANTS
    MaxRetries = 2
    PingTicks = 2
    MaxMissed = 1
    OutMax = 1
    InMax = 1
    MaxPi = 3
    MaxPosts = 0
    MaxBreaks = 0
PROPERTY LossNoticed
CHECK_DEADLOCK FALSE
