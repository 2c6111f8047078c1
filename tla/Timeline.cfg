SPECIFICATION Spec
CONSTANTS
    DayLength = 8
    Calendar <- LeapWeek
    NoSize = NoSize
    Definitions <- Written
    Intervals = {1, 3}
    Start = 8
    Horizon = 63
    Sizes = {"small", "large"}
    MaxTouches = 2
    NoAnswer = NoAnswer
INVARIANTS
    TypeOK
    AsksAsWritten
    FollowsSchedule
    GroupAgreesWithInstance
