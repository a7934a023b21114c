SPECIFICATION Spec
CONSTANTS
    Party = {p1}
    Uid = {u1}
    Type = {rfid, app}
    Contract = {k1}
    Whitelist = {always, never}
    Text = {x1}
    Null = Null
    MaxTime = 1
    Req = {r1, r2, r3}
    Overlap = FALSE
SYMMETRY MCSymmetry
PROPERTIES
    RequestsAreAtomic
    InvalidationHolds
CHECK_DEADLOCK FALSE
