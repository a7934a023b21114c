SPECIFICATION FairSpec
CONSTANTS
    Loc = {l1}
    Base = {b1}
    Opt = {x1}
    Blind = {y1}
    Facilities = {none, f1}
    NoFacilities = none
    Null = Null
    Req = {r1, r2}
    MaxTime = 0
PROPERTY
    PutReplaces
CHECK_DEADLOCK FALSE
