SPECIFICATION Spec
CONSTANTS
    DayLength = 8
    Calendar <- MonthEnd
    NoSize = NoSize
    Early = 1
    Kinds = {"ec2", "rds"}
    Definitions <- Written
    Intervals = {2, 3}
    Windows = {w1, w2}
    Plans <- Windowed
    FirstPlans <- Firsts
    NoPlan = NoPlan
    None = None
    Preferred <- Preferences
    Start = 20
    Horizon = 36
    MaxEdits = 1
    MaxTouches = 1
    MaxFaults = 1
INVARIANTS
    TypeOK
    
    UpOnlyForWindow
    PreferredAsWritten
    FollowsWindows
