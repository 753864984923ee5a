------------------------------- MODULE CronNext -------------------------------
(***************************************************************************)
(* When a schedule is due next: CronSpec.Next (pkg/runtime/execution/      *)
(* schedule/parser.go), behind the gateway's schedule endpoints, and       *)
(* CronExpr.Next (scheduler.go), which the scheduler uses.  Both search    *)
(* forward from one second after the given time; an action is one round of *)
(* the search.                                                             *)
(*                                                                         *)
(* Times are seconds since the first second of a year.  The calendar is a  *)
(* parameter: every year has the same months, and there is no summer time. *)
(***************************************************************************)
EXTENDS Integers, Sequences, FiniteSets

CONSTANTS
    SecondsPerMinute, MinutesPerHour, HoursPerDay, DaysPerWeek,
    MonthDays,     \* days of each month, a sequence
    SearchYears,   \* years after which CronSpec.Next gives up (4 in the code)
    Specs,         \* bound: parsed schedules given to CronSpec.Next
    Exprs,         \* bound: parsed schedules given to CronExpr.Next
    Starts         \* bound: the times given to either

ASSUME CalendarAssumption ==
    /\ \A n \in {SecondsPerMinute, MinutesPerHour, HoursPerDay, DaysPerWeek,
                 SearchYears} : n \in Nat \ {0}
    /\ MonthDays \in Seq(Nat \ {0}) \ {<<>>}
    /\ Starts \subseteq Nat

Months == 1 .. Len(MonthDays)

(* A parsed field is the set of its values; {-1} matches everything.  A    *)
(* "*" is parsed to the whole range of the field, only "@every" and        *)
(* CronExpr have {-1}.                                                     *)
Wildcard == {-1}

(* In CronExpr a field has one value.                                      *)
ValueOf(f) == CHOOSE v \in f : TRUE

(* parseField checks the range of every value and refuses a field without  *)
(* any; "@every" has a wildcard in each field.                             *)
AllWildcards(s) ==
    /\ s.minute = Wildcard /\ s.hour = Wildcard /\ s.month = Wildcard
    /\ s.dayOfMonth = Wildcard /\ s.dayOfWeek = Wildcard

InRange(s) ==
    /\ s.minute # {} /\ s.minute \subseteq 0 .. MinutesPerHour - 1
    /\ s.hour # {} /\ s.hour \subseteq 0 .. HoursPerDay - 1
    /\ s.month # {} /\ s.month \subseteq Months

(* ParseCronExpr takes any five numbers.                                   *)
IsSingle(f) == \E v \in f : v \in Int /\ f = {v}

ASSUME ScheduleAssumption ==
    /\ \A s \in Specs : AllWildcards(s) \/ InRange(s)
    /\ \A s \in Exprs : IsSingle(s.minute) /\ IsSingle(s.hour)

VARIABLES
    kind,       \* which of the two functions searches
    schedule,   \* minute, hour, dayOfMonth, month, dayOfWeek
    from,       \* the argument t
    current,    \* the candidate
    phase       \* "searching", or how the search has ended

given == <<kind, schedule, from>>
vars  == <<given, current, phase>>

-----------------------------------------------------------------------------
(* Package time.                                                           *)
HourLength == SecondsPerMinute * MinutesPerHour
DayLength  == HourLength * HoursPerDay

(* Days of the year before month m; after the last month, of the year.     *)
DaysBefore[m \in 1 .. Len(MonthDays) + 1] ==
    IF m = 1 THEN 0 ELSE DaysBefore[m - 1] + MonthDays[m - 1]

YearDays == DaysBefore[Len(MonthDays) + 1]

Minute(x)  == (x \div SecondsPerMinute) % MinutesPerHour
Hour(x)    == (x \div HourLength) % HoursPerDay
DayOf(x)   == x \div DayLength
YearOf(x)  == DayOf(x) \div YearDays
Month(x)   == CHOOSE m \in Months : /\ DaysBefore[m] <= DayOf(x) % YearDays
                                    /\ DayOf(x) % YearDays < DaysBefore[m + 1]
Day(x)     == (DayOf(x) % YearDays) - DaysBefore[Month(x)] + 1
Weekday(x) == DayOf(x) % DaysPerWeek

(* time.Date for the first second of a month, and for a time of day.       *)
MonthStart(y, m) == (y * YearDays + DaysBefore[m]) * DayLength
TimeOfDay(day, hour, minute) ==
    day * DayLength + hour * HourLength + minute * SecondsPerMinute

-----------------------------------------------------------------------------
Matches(f, v) == f = Wildcard \/ v \in f

(* nextValue: the values a field has after v, and the first of them.       *)
Later(f, v) == IF f = Wildcard THEN {} ELSE {x \in f : x > v}
NextValue(f, v) == CHOOSE x \in Later(f, v) : \A y \in Later(f, v) : x <= y

(* When both day fields are restricted either may match.                   *)
DayMatches(x) ==
    LET dom == Matches(schedule.dayOfMonth, Day(x))
        dow == Matches(schedule.dayOfWeek, Weekday(x)) IN
    IF schedule.dayOfMonth # Wildcard /\ schedule.dayOfWeek # Wildcard
    THEN dom \/ dow
    ELSE dom /\ dow

Init ==
    /\ \/ kind = "spec" /\ schedule \in Specs
       \/ kind = "expr" /\ schedule \in Exprs
    /\ from \in Starts
    /\ current = from + 1
    /\ phase = "searching"

Goto(x) == current' = x /\ UNCHANGED <<given, phase>>

-----------------------------------------------------------------------------
(* CronSpec.Next.                                                          *)
Deadline == from + SearchYears * YearDays * DayLength

Searching == kind = "spec" /\ phase = "searching" /\ current < Deadline

(* Slip: the first month of the list is taken in the same year.            *)
JumpMonthSameYear ==
    /\ Searching
    /\ ~ Matches(schedule.month, Month(current))
    /\ IF Later(schedule.month, Month(current)) = {}
       THEN Goto(MonthStart(YearOf(current), NextValue(schedule.month, -1)))
       ELSE Goto(MonthStart(YearOf(current),
                            NextValue(schedule.month, Month(current))))

JumpMonth ==
    /\ Searching
    /\ ~ Matches(schedule.month, Month(current))
    /\ IF Later(schedule.month, Month(current)) = {}
       THEN Goto(MonthStart(YearOf(current) + 1, NextValue(schedule.month, -1)))
       ELSE Goto(MonthStart(YearOf(current),
                            NextValue(schedule.month, Month(current))))

RightMonth == Searching /\ Matches(schedule.month, Month(current))

(* Slip: a day is added, and the time of day kept.                         *)
JumpDayKeepingTime ==
    /\ RightMonth
    /\ ~ DayMatches(current)
    /\ Goto(current + DayLength)

JumpDay ==
    /\ RightMonth
    /\ ~ DayMatches(current)
    /\ Goto(TimeOfDay(DayOf(current) + 1, 0, 0))

RightDay == RightMonth /\ DayMatches(current)

JumpHour ==
    /\ RightDay
    /\ ~ Matches(schedule.hour, Hour(current))
    /\ IF Later(schedule.hour, Hour(current)) = {}
       THEN Goto(TimeOfDay(DayOf(current) + 1, 0, 0))
       ELSE Goto(TimeOfDay(DayOf(current),
                           NextValue(schedule.hour, Hour(current)), 0))

RightHour == RightDay /\ Matches(schedule.hour, Hour(current))

JumpMinute ==
    LET minutes == Later(schedule.minute, Minute(current))
        hours   == Later(schedule.hour, Hour(current) + 1) IN
    /\ RightHour
    /\ ~ Matches(schedule.minute, Minute(current))
    /\ \/ /\ minutes # {}
          /\ Goto(TimeOfDay(DayOf(current), Hour(current),
                            NextValue(schedule.minute, Minute(current))))
       \/ /\ minutes = {} /\ hours # {}
          /\ Goto(TimeOfDay(DayOf(current),
                            NextValue(schedule.hour, Hour(current) + 1), 0))
       \/ /\ minutes = {} /\ hours = {}
          /\ Goto(TimeOfDay(DayOf(current) + 1, 0, 0))

ReturnMatch ==
    /\ RightHour
    /\ Matches(schedule.minute, Minute(current))
    /\ phase' = "found"
    /\ UNCHANGED <<given, current>>

(* Slip: the search never gives up.                                        *)
KeepSearching ==
    /\ kind = "spec"
    /\ phase = "searching"
    /\ current >= Deadline
    /\ UNCHANGED vars

(* The zero time: there is no match within SearchYears.                    *)
ReturnZero ==
    /\ kind = "spec"
    /\ phase = "searching"
    /\ current >= Deadline
    /\ phase' = "none"
    /\ UNCHANGED <<given, current>>

SpecNext == \/ JumpMonth \/ JumpDay \/ JumpHour \/ JumpMinute
            \/ ReturnMatch \/ ReturnZero

-----------------------------------------------------------------------------
(* CronExpr.Next.                                                          *)
ExprSearching == kind = "expr" /\ phase = "searching"

ExprJumpMonth ==
    /\ ExprSearching
    /\ ~ Matches(schedule.month, Month(current))
    /\ Goto(IF Month(current) = Len(MonthDays)
            THEN MonthStart(YearOf(current) + 1, 1)
            ELSE MonthStart(YearOf(current), Month(current) + 1))

ExprDayMatches(x) ==
    /\ Matches(schedule.month, Month(x))
    /\ Matches(schedule.dayOfMonth, Day(x))
    /\ Matches(schedule.dayOfWeek, Weekday(x))

(* Slip: a whole week is added.                                            *)
ExprJumpWeek ==
    /\ ExprSearching
    /\ Matches(schedule.month, Month(current))
    /\ ~ ExprDayMatches(current)
    /\ Goto(TimeOfDay(DayOf(current) + DaysPerWeek, ValueOf(schedule.hour),
                      ValueOf(schedule.minute)))

ExprJumpDay ==
    /\ ExprSearching
    /\ Matches(schedule.month, Month(current))
    /\ ~ ExprDayMatches(current)
    /\ Goto(TimeOfDay(DayOf(current) + 1, ValueOf(schedule.hour),
                      ValueOf(schedule.minute)))

(* On the right day: go forward to the hour and minute when they are still *)
(* to come, and return.                                                    *)
ExprReturn ==
    LET hour   == ValueOf(schedule.hour)
        minute == ValueOf(schedule.minute)
        early  == \/ Hour(current) < hour
                  \/ Hour(current) = hour /\ Minute(current) < minute
        next   == IF early THEN TimeOfDay(DayOf(current), hour, minute)
                           ELSE current IN
    /\ ExprSearching
    /\ ExprDayMatches(current)
    /\ IF next > from
       THEN current' = next /\ phase' = "found" /\ UNCHANGED given
       ELSE Goto(next + DayLength)

ExprNext == ExprJumpMonth \/ ExprJumpDay \/ ExprReturn

-----------------------------------------------------------------------------
Returned == phase # "searching" /\ UNCHANGED vars

Next == SpecNext \/ ExprNext \/ Returned

Spec == Init /\ [][Next]_vars

(* The search is a loop without any wait.                                  *)
FairSpec == Spec /\ WF_vars(Next)

-----------------------------------------------------------------------------
Passed == from + 1 .. current - 1

(* Every variable holds a value the code can give it.  The candidate of    *)
(* CronSpec.Next is always after the given time, and so is every answer;   *)
(* CronExpr.Next may search before it when the hour is out of range.       *)
TypeOK ==
    /\ kind \in {"spec", "expr"}
    /\ schedule \in Specs \union Exprs
    /\ from \in Starts
    /\ current \in Int
    /\ phase \in {"searching", "found", "none"}
    /\ (kind = "spec" \/ phase = "found") => current > from

SpecMatches(x) ==
    /\ Matches(schedule.month, Month(x))
    /\ DayMatches(x)
    /\ Matches(schedule.hour, Hour(x))
    /\ Matches(schedule.minute, Minute(x))

(* The days of a schedule as Next's comment states them, whatever Next     *)
(* makes of it: a field is restricted when it leaves out a value it could  *)
(* have; of two restricted fields either may match, a single one must.     *)
AnyDay == {d \in 1 .. YearDays : \E m \in Months : d <= MonthDays[m]}
AnyWeekday == 0 .. DaysPerWeek - 1

StatedDay(x) ==
    LET domRestricted == schedule.dayOfMonth \notin {Wildcard, AnyDay}
        dowRestricted == schedule.dayOfWeek \notin {Wildcard, AnyWeekday} IN
    domRestricted \/ dowRestricted =>
        \/ domRestricted /\ Day(x) \in schedule.dayOfMonth
        \/ dowRestricted /\ Weekday(x) \in schedule.dayOfWeek

StatedMatch(x) ==
    /\ Matches(schedule.month, Month(x))
    /\ StatedDay(x)
    /\ Matches(schedule.hour, Hour(x))
    /\ Matches(schedule.minute, Minute(x))

(* CronSpec.Next passes over no match, neither one by its own rule for the *)
(* days nor one by the rule its comment states, but for those in an hour   *)
(* that comes right after an hour of the schedule: so its answer is the    *)
(* first match, and the zero time means that there is none, for every      *)
(* schedule without consecutive hours.                                     *)
NoMatchPassed ==
    kind = "spec" =>
        \A x \in Passed : SpecMatches(x) \/ StatedMatch(x) =>
                             Hour(x) - 1 \in schedule.hour

(* For a schedule without consecutive hours, the answer of CronSpec.Next   *)
(* is the first match, and the zero time means that there is none within   *)
(* SearchYears.                                                            *)
HoursApart == \A h \in schedule.hour : h + 1 \notin schedule.hour

FirstMatch ==
    kind = "spec" /\ HoursApart =>
        /\ phase = "found" =>
              SpecMatches(current) /\ \A x \in Passed : ~ SpecMatches(x)
        /\ phase = "none" =>
              \A x \in from + 1 .. Deadline - 1 : ~ SpecMatches(x)

(* Every round of CronSpec.Next that does not end it moves the candidate   *)
(* forward, so there are no more rounds than seconds until the deadline.   *)
RoundAdvances == [][kind = "spec" /\ phase' = "searching" => current' > current]_vars

(* The hour may be left open ("@hourly"), the minute may not: -1 is no      *)
(* minute.                                                                 *)
ExprMatches(x) ==
    /\ ExprDayMatches(x)
    /\ Matches(schedule.hour, Hour(x))
    /\ Minute(x) \in schedule.minute

(* CronExpr.Next is never late: the first match is not passed over, for    *)
(* any five numbers.                                                       *)
NeverLate ==
    kind = "expr" => \A x \in Passed : ~ ExprMatches(x)

(* Both searches end.  CronSpec.Next gives up at its deadline.  CronExpr.   *)
(* Next has none; it ends if some day has the month, the day and the        *)
(* weekday of the schedule, and if either every day of the month will do,   *)
(* or the hour and minute set on the next day leave it on that day.  It     *)
(* need not end otherwise: an hour of -1 leads back to the day before, and  *)
(* "0 -1 2 -1 -1" goes round on one day for ever; an hour of 24 leads on by *)
(* two days, and "0 24 2 1 -1" misses the second of January every year.     *)
SomeDayExists ==
    \E d \in 0 .. YearDays * DaysPerWeek - 1 : ExprDayMatches(d * DayLength)

KeepsTheDay ==
    \/ schedule.dayOfMonth = Wildcard /\ schedule.dayOfWeek = Wildcard
    \/ TimeOfDay(0, ValueOf(schedule.hour), ValueOf(schedule.minute))
          \in 0 .. DayLength - 1

SearchEnds ==
    (kind = "expr" => SomeDayExists /\ KeepsTheDay) => <>(phase # "searching")

(* "Next returns the next time after t that matches the cron spec."        *)
NextIsNext ==
    kind = "spec" /\ phase = "found" => \A x \in Passed : ~ SpecMatches(x)

(* "If only one is restricted, that one must match": a schedule for some   *)
(* days of the week, with "*" as its day of the month, is due on no other. *)
OnlyOneRestricted ==
    kind = "spec" /\ phase = "found" /\ schedule.dayOfMonth = AnyDay =>
        Matches(schedule.dayOfWeek, Weekday(current))

(* ParseSchedule: "@daily" is "0 0 * * *", so a task is due at a time that *)
(* has the minute and the hour of its schedule.                            *)
DueOnSchedule ==
    kind = "expr" /\ phase = "found" => ExprMatches(current)
=============================================================================
