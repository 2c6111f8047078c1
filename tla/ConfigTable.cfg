SPECIFICATION Spec
CONSTANTS
    None = None
    s1 = s1
    s2 = s2
    h = h
    p1 = p1
    a = a
    b = b
    k1 = k1
    c1 = c1
    c2 = c2
    Schedules = {s1, s2, h}
    Hand = {p1}
    Contents = {a, b}
    Templates <- Deployed
    MaxPeriods = 2
    Stacks = {k1}
    Clients = {c1, c2}
    CliRequests <- Asks
    FaultKinds = {"reject", "timer", "killed", "other"}
    MaxFaults = 1
    MaxDeploys = 3
    MaxAsks = 4
SYMMETRY AlikeClients
CHECK_DEADLOCK FALSE
INVARIANTS
    TypeOK
    StackSchedulesComplete
    ReferencesKept
    AtRest
