SPECIFICATION FairSpec
CONSTANTS
    None = None
    i1 = i1
    large = large
    r1 = r1
    s1 = s1
    small = small
    w1 = w1
    Instances = {i1}
    Schedules = {s1}
    Sizes = {small, large}
    Workers = {w1}
    Resizers = {r1}
    FlagsOf <- AllEnforcing
    Preferred <- InOrder
    Phases <- SizedOrOff
    UserActs = {"modify"}
    TagsAtStart <- AllTagged
    TagChoices = {}
    FaultKinds = {"crash", "ice", "resize", "duplicate"}
    MaxFaults = 1
    MaxRequests = 1
    MaxAttempts = 2
PROPERTIES
    PeriodSizeConverges
