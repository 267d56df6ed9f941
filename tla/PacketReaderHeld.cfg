SPECIFICATION Spec
CONSTANTS
    BufferSize = 4
    Header = 2
    Lengths = {0, 1, 2, 3}
    PoolSize = 4
    CountMod = 5
    IdMod = 3
    MaxPackets = 3
    MaxLost = 1
    MaxFail = 1
INVARIANT HeldIntact
CHECK_DEADLOCK FALSE
