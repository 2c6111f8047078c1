SPECIFICATION FairSpec
CONSTANTS
    None = None
    i1 = i1
    i2 = i2
    s1 = s1
    s2 = s2
    small = small
    w1 = w1
    Instances = {i1, i2}
    Schedules = {s1, s2}
    Sizes = {small}
    Workers = {w1}
    Resizers = {}
    FlagsOf <- AllPlain
    Preferred <- NoPreference
    Phases <- Unconcerned
    UserActs = {}
    TagsAtStart <- AllTagged
    TagChoices <- RetagOne
    FaultKinds = {"crash", "duplicate"}
    MaxFaults = 1
    MaxRequests = 1
    MaxAttempts = 2
PROPERTIES
    RegistryFollowsTags
    TaggedIsRegistered
