SPECIFICATION SpecRequests
CONSTANTS
    None = None
    s1 = s1
    s2 = s2
    h = h
    p1 = p1
    a = a
    b = b
    t1 = t1
    k1 = k1
    c1 = c1
    c2 = c2
    Schedules = {s1, s2, h}
    Hand = {p1}
    Contents = {a, b}
    Templates <- Parsed
    MaxPeriods = 2
    Stacks = {k1}
    Clients = {c1}
    CliRequests <- Own
    FaultKinds = {"other", "invoke"}
    MaxFaults = 1
    MaxDeploys = 2
    MaxAsks = 3
    Targets = {t1}
    Tagged <- TaggedAll
    Payloads = {"all", "schedules", "neither"}
    MaxCycles = 1
CHECK_DEADLOCK FALSE
INVARIANTS
    DroppedOnlyIfErased
    
