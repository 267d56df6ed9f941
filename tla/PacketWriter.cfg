SPECIFICATION FairSpec
CONSTANTS
    b1 = b1  b2 = b2  b3 = b3
    NoBuf = NoBuf
    OutBufs = {b1, b2, b3}
    MaxPackets = 4
    BufferSize = 6
    Header = 2
    Keep = 1
    IdMod = 4
    PACKET_ID = 5
    Lengths = {2, 3, 6}
    MaxAccept = 5
    MaxFail = 1
INVARIANTS
    TypeOK
    KeptInLive
    WrittenBufferHeld
    PadInside
PROPERTIES
    InOrder
    LeaksOnlyLeaving
    AllHanded
CHECK_DEADLOCK FALSE
