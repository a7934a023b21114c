SPECIFICATION Spec
CONSTANTS
    Loc = {l1}
    Base = {b1}
    Opt = {x1}
    Blind = {y1, y2}
    Facilities = {none}
    NoFacilities = none
    Null = Null
    Req = {r1, r2, r3}
    MaxTime = 1
SYMMETRY MCSymmetry
INVARIANT
    TypeOK
PROPERTIES
    OnlyPutsEmpty
    BlindColumnsNotReverted
    UndisturbedIsAtomic
CHECK_DEADLOCK FALSE
