SPECIFICATION Spec
CONSTANTS
    None = None
    i1 = i1
    s1 = s1
    s2 = s2
    small = small
    w1 = w1
    w2 = w2
    Instances = {i1}
    Schedules = {s1, s2}
    Sizes = {small}
    Workers = {w1, w2}
    Resizers = {}
    FlagsOf <- AdoptingAndPlain
    Preferred <- NoPreference
    Phases <- OnOff
    UserActs = {}
    TagsAtStart <- AllTagged
    TagChoices <- RetagToOther
    FaultKinds = {"crash"}
    MaxFaults = 1
    MaxRequests = 2
    MaxAttempts = 2
INVARIANTS
    TypeOK
    RetainOnlyWhereAsked
