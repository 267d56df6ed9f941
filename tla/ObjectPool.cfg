SPECIFICATION Spec
CONSTANTS
    t1 = t1
    t2 = t2
    b1 = b1
    b2 = b2
    b3 = b3
    b4 = b4
    Ids = {t1, t2}
    Objs = {b1, b2, b3, b4}
    Limits <- MCLimits
    MaxFail = 2
INVARIANTS
    TypeOK
    Accounted
PROPERTY Implements
CHECK_DEADLOCK FALSE
