CONSTANTS
    Handlers = {h1, h2}
    MaxTokens = 2
    NoToken = NoToken

    Addresses = {a1}
    Attempts = {i1, i2, i3}
    Nowhere = Nowhere
    MaxTime = 9
    loginMaxFails = 2
    loginWindow = 3
    loginLockoutBase = 1
    loginLockoutMax = 3

    Schedule = {s1}
    Schedulers = {p1, p2}
    Intervals = {1, 2}
    Editors = {e1}
    LastInstant = 2
    Nil = Nil

    Hosts = {x1, x2}
    Credentials = {k1}
    Unparsed = {}
    Cron = {c1}
    Cohorts = {"debian-13"}
    minFleetHosts = 2
    rareShare = 20
    Cascades = TRUE
    MaxHostChanges = 2
    NoHost = NoHost

    t1 = t1
    t2 = t2
    FleetHosts = {y1, y2}
    Techniques = {t1, t2}
    LabDatasets <- Datasets
    minPerClass = 2
    MaxFolds = 2
    Levels = 2
    MaxLabels = 4
    Nothing = Nothing

    r1 = r1
    shipped = shipped
    Rules = {r1, r2}
    Definitions = {shipped, mine, garbled, typeless}
    Uploads = {mine, garbled, typeless}
    NotCEL = {garbled}
    NotBoolean = {typeless}
    Shipped <- ShippedRules
    Clients = {n1}
    RuleScans = {z1}
    NoRule = NoRule

    MaxRow = 3
    LastTime = 3
    maxPage = 2
    fallback = 1
    NoRow = NoRow

    previous = previous
    Servers = {previous, new1, new2}
    MaxVersion = 3
    Embedded <- Binaries
SPECIFICATION Spec
SYMMETRY Symmetric
INVARIANTS
    FailuresLockOut
    SharingIsNoticed
    SeparateGroupsAreValidated
    AreaCountsPairs
    TrustIsEarnedOnTheFleet
    FindingsCarryTheirRule
    SteadyRowsListedOnce
    RecordMatchesSchema
PROPERTIES
    RotationHasNoGap
    OperationSettles
    FiringsAreSpaced
    OnlyOvertakenPatchesRevert
CHECK_DEADLOCK FALSE
CONSTRAINT KeyStaysPinned
