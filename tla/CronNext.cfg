SPECIFICATION FairSpec
CONSTANTS
    SecondsPerMinute = 2
    MinutesPerHour = 3
    HoursPerDay = 4
    DaysPerWeek = 3
    MonthDays <- TwoMonths
    SearchYears = 1
    Specs <- SomeSpecs
    Exprs <- SomeExprs
    Starts <- OneYear
INVARIANTS
    TypeOK
    NoMatchPassed
    NeverLate
PROPERTY
    SearchEnds
