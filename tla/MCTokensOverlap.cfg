SPECIFICATION Spec
CONSTANTS
    Party = {p1, p2}
    Uid = {u1}
    Type = {rfid, app}
    Contract = {k1, k2}
    Whitelist = {always}
    Text = {}
    Null = Null
    MaxTime = 0
    Req = {r1, r2, r3}
    Overlap = TRUE
SYMMETRY MCSymmetry
INVARIANTS
    TypeOK
    IdentityOfOnePut
CHECK_DEADLOCK FALSE
