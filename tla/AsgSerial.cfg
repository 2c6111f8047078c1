SPECIFICATION Spec
CONSTANTS
    None = None
    Zero = Zero
    Corrupt = Corrupt
    g1 = g1
    s1 = s1
    p1 = p1
    t1 = t1
    t2 = t2
    big = big
    w1 = w1
    Groups = {g1}
    Schedules = {s1}
    Periods = {p1}
    Times = {t1, t2}
    Sizes = {big}
    Workers = {w1}
    Definitions <- WithNth
    Incompatible <- OnlyNth
    Edits <- ByDetours
    InfoTagging = FALSE
    DefinedAtStart <- AllOffice
    TagAtStart <- AllTagged
    TagChoices = {}
    MetaAtStart <- AllMeta
    SizesAtStart = {big, Zero}
    MdmChoices = {Corrupt}
    SizeChoices = {big}
    FaultKinds = {"registrar", "delete", "put", "tag", "duplicate"}
    MaxFaults = 2
    MaxRequests = 1
    MaxAttempts = 2
INVARIANTS
    TypeOK
    ConfiguredIsInstalled
    
