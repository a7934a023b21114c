SPECIFICATION FairSpec
CONSTANTS
    Party = {p1}
    Uid = {u1}
    Type = {rfid}
    Contract = {k1}
    Whitelist = {always}
    Text = {x1}
    Null = Null
    MaxTime = 0
    Req = {r1, r2, r3}
    Overlap = TRUE
PROPERTY
    InvalidationHolds
CHECK_DEADLOCK FALSE
