SPECIFICATION Spec
CONSTANTS
    k1 = k1  k2 = k2  ctl = ctl  a = a  b = b  o1 = o1  o2 = o2  o3 = o3
    Ctl = ctl
    NoReq = NoReq
    CtlTimeout = 2
    Clients = {k1, k2}
    Careless = {k1}
    Slots = {ctl}
    Objects = {o1, o2, o3}
    IdMod = 3
    Timeouts = {2}
    Lengths = {1}
    OutMax = 1
    InMax = 1
    MaxOpens = 3
    MaxData = 0
SYMMETRY ObjectSymmetry
INVARIANTS
    TypeOK
    UniqueIds
