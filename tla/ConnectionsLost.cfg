SPECIFICATION Spec
CONSTANTS
    k1 = k1  k2 = k2  ctl = ctl  a = a  b = b  o1 = o1  o2 = o2  o3 = o3
    Ctl = ctl
    NoReq = NoReq
    CtlTimeout = 2
    Clients = {k1}
    Careless = {}
    Slots = {ctl, a}
    Objects = {o1, o2}
    IdMod = 65536
    Timeouts = {2}
    Lengths = {1}
    OutMax = 1
    InMax = 1
    MaxOpens = 1
    MaxData = 1
INVARIANT NoReadLost
