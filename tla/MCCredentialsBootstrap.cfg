SPECIFICATION FairSpec
CONSTANTS
    BootToken = {a1}
    Party = {p1, p2}
    Nobody = Nobody
    Admin = Admin
    Never = Never
    Lifetimes = {1}
    MaxTime = 2
    Req = {r1, r2}
    Creds = {c1}
    Token = {t1, t2}
    m1 = m1
    unknown = unknown
    Module <- MCModule
    Known <- MCKnown
    Listings <- MCBoth
    Null = Null
    Overlap = TRUE
INVARIANTS
    SpentOnlyOnRegistration
    AnsweredPostSpentToken
PROPERTIES
    RefusedForever
    ValidRowsStay
    EveryRequestEnds
