SPECIFICATION FairSpec
CONSTANTS
    BootToken = {a1}
    Party = {p1}
    Nobody = Nobody
    Admin = Admin
    Never = Never
    Lifetimes = {}
    MaxTime = 0
    Req = {r1, r2}
    Creds = {c1}
    Token = {t1, t2, t3}
    m1 = m1
    unknown = unknown
    Module <- MCModule
    Known <- MCKnown
    Listings <- MCPlain
    Null = Null
    Overlap = TRUE
INVARIANT
    SingleUse
