SPECIFICATION Spec
CONSTANTS
    DayLength = 8
    Calendar <- LeapWeek
    NoSize = NoSize
    Definitions <- Fortnightly
    Intervals = {1, 3}
    Start = 8
    Horizon = 63
    Sizes = {"small", "large"}
    MaxTouches = 2
    NoAnswer = NoAnswer
INVARIANTS
    AsksAsWritten
