SPECIFICATION FairSpec
CONSTANTS
    None = None
    i1 = i1
    s1 = s1
    s2 = s2
    small = small
    large = large
    w1 = w1
    Instances = {i1}
    Schedules = {s1, s2}
    Sizes = {small, large}
    Workers = {w1}
    Resizers = {}
    FlagsOf <- RetainingAndEnforcing
    Preferred <- NoPreference
    Phases <- OnOffWindow
    UserActs = {"start", "stop", "modify"}
    TagsAtStart <- AnyTags
    TagChoices = {}
    FaultKinds = {"start", "stop", "ice"}
    MaxFaults = 2
    MaxRequests = 1
    MaxAttempts = 2
INVARIANTS
    RetainedIsUserStarted
    StoredIsLastAction
PROPERTIES
    StopsOnTransition
    StartsOnTransition
    TransitionsReachInstance
    EnforcedConverges
    CyclesAreAtomic
