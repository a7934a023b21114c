SPECIFICATION PartsSpec
CONSTANTS
    Null = Null
    MaxTime = 2
    Amount <- MCAmount
    Preference = {f1}
    MaxPeriods = 2
    MaxDims = 1
    EvseUid = {e1, e2}
    ConnectorId = {c1, c2}
    EvseStatus = {available}
    MaxEvses = 2
    MaxConnectors = 2
    MaxPushed = 1
    Controller <- MCController
SYMMETRY MCSymmetry
CONSTRAINT
    MCCareful
INVARIANTS
    SessionTypeOK
    CompletedHasEnded
    TreeTypeOK
    IdsIdentify
    ParentsAreNewest
    MissedOnlyIfOvertaken
    VersionsTypeOK
    CatalogIsBuild
    OfferedIsDetailed
PROPERTIES
    OverIsFinal
    PeriodEnergyNeverFalls
    ChangesSurface
CHECK_DEADLOCK FALSE
