SPECIFICATION FairSpec
CONSTANTS
    None = None
    Zero = Zero
    Corrupt = Corrupt
    g1 = g1
    s1 = s1
    p1 = p1
    t1 = t1
    t2 = t2
    big = big
    w1 = w1
    Groups = {g1}
    Schedules = {s1}
    Periods = {p1}
    Times = {t1, t2}
    Sizes = {big}
    Workers = {w1}
    Definitions <- Two
    Incompatible = {}
    Edits <- Edited
    InfoTagging = TRUE
    DefinedAtStart <- AllOffice
    TagAtStart <- AllTagged
    TagChoices = {None, s1}
    MetaAtStart <- NoMeta
    SizesAtStart = {big}
    MdmChoices = {}
    SizeChoices = {}
    FaultKinds = {"crash", "registrar", "delete", "put", "duplicate"}
    MaxFaults = 1
    MaxRequests = 1
    MaxAttempts = 2
INVARIANTS
    StartIsNeverStop
PROPERTIES
    RulesFollowSchedule
    UntaggedIsClean
