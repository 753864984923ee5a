----------------------------- MODULE CronNextProofs -----------------------------
(***************************************************************************)
(* Proofs about CronNext for every calendar, every schedule and every      *)
(* starting time: that CronSpec.Next only passes over the matches that     *)
(* NoMatchPassed excepts, and CronExpr.Next over none.                     *)
(*                                                                         *)
(* A round of either search goes from current to a time that is the first  *)
(* of a minute, an hour, a day or a month.  So every proof asks where a    *)
(* time x between the two can lie, which DivLess answers: x is before the  *)
(* start of a unit exactly when the unit of x is a smaller one.  The       *)
(* calendar is the function DaysBefore, defined by recursion; that it is   *)
(* well defined and increasing is proved by looking at the least month     *)
(* where it is not (Least).                                                *)
(***************************************************************************)
EXTENDS CronNext, SequenceTheorems, WellFoundedInduction, TLAPS

-----------------------------------------------------------------------------
(* A set of natural numbers has a least element.                           *)
LEMMA Least ==
    ASSUME NEW T \in SUBSET Nat, T # {}
    PROVE  \E m \in T : \A n \in T : m <= n
<1>1. PICK m \in T : \A n \in T : <<n, m>> \notin OpToRel(<, Nat)
  BY NatLessThanWellFounded, WFMin
<1>2. \A n \in T : ~(n < m)
  BY <1>1 DEF OpToRel
<1> QED
  BY <1>2

(* Division by a unit of time.                                             *)
LEMMA DivMod ==
    ASSUME NEW a \in Int, NEW d \in Nat \ {0}
    PROVE  /\ a \div d \in Int
           /\ a % d \in 0 .. d - 1
           /\ a = d * (a \div d) + (a % d)
OBVIOUS

LEMMA DivLess ==
    ASSUME NEW a \in Int, NEW d \in Nat \ {0}, NEW k \in Int
    PROVE  a \div d < k <=> a < d * k
OBVIOUS

LEMMA DivMonotone ==
    ASSUME NEW a \in Int, NEW b \in Int, NEW d \in Nat \ {0}, a <= b
    PROVE  a \div d <= b \div d
<1> DEFINE k == b \div d + 1
<1>1. k \in Int /\ b \div d \in Int /\ a \div d \in Int
  BY DivMod
<1>2. b < d * k
  BY <1>1, DivLess
<1>3. d * k \in Int
  BY <1>1
<1> HIDE DEF k
<1>4. a < d * k
  BY <1>1, <1>2, <1>3
<1>5. a \div d < k
  BY <1>1, <1>4, DivLess
<1> QED
  BY <1>1, <1>5 DEF k

(* A number within the d numbers from d * q on has the quotient q.         *)
LEMMA DivIs ==
    ASSUME NEW q \in Int, NEW d \in Nat \ {0}, NEW r \in 0 .. d - 1
    PROVE  /\ (d * q + r) \div d = q
           /\ (d * q + r) % d = r
OBVIOUS

(* The unit of a unit: the day of an hour is the day of its seconds.       *)
LEMMA DivDiv ==
    ASSUME NEW a \in Int, NEW d \in Nat \ {0}, NEW e \in Nat \ {0},
           NEW c \in Nat \ {0}, c = d * e
    PROVE  a \div c = (a \div d) \div e
<1> DEFINE q == (a \div d) \div e
           p == a \div d
<1>1. p \in Int /\ q \in Int
  BY DivMod
<1>2. e * q <= p /\ p < e * (q + 1)
  BY <1>1, DivMod
<1>3. d * p <= a /\ a < d * (p + 1)
  BY DivMod
<1> HIDE DEF p, q
<1>4. d * (e * q) <= d * p
  BY <1>1, <1>2
<1>5. d * (p + 1) <= d * (e * (q + 1))
  <2>1. p + 1 <= e * (q + 1)
    BY <1>1, <1>2
  <2> QED
    BY <1>1, <2>1
<1>6. c * q <= a /\ a < c * (q + 1)
  <2>1. d * (e * q) = c * q /\ d * (e * (q + 1)) = c * (q + 1)
    BY <1>1
  <2> QED
    BY <1>1, <1>3, <1>4, <1>5, <2>1
<1>7. ~(a \div c < q) /\ a \div c < q + 1
  BY <1>1, <1>6, DivLess
<1>8. a \div c \in Int
  BY DivMod
<1> QED
  BY <1>1, <1>7, <1>8 DEF p, q

-----------------------------------------------------------------------------
(* Minutes, hours and days since the first second of a year.               *)
MinuteIndex(x) == x \div SecondsPerMinute
HourIndex(x)   == x \div HourLength

LEMMA Units ==
    /\ SecondsPerMinute \in Nat \ {0} /\ MinutesPerHour \in Nat \ {0}
    /\ HoursPerDay \in Nat \ {0}      /\ DaysPerWeek \in Nat \ {0}
    /\ HourLength \in Nat \ {0}       /\ DayLength \in Nat \ {0}
<1>1. /\ SecondsPerMinute \in Nat \ {0} /\ MinutesPerHour \in Nat \ {0}
      /\ HoursPerDay \in Nat \ {0} /\ DaysPerWeek \in Nat \ {0}
  BY CalendarAssumption
<1>2. HourLength \in Nat \ {0}
  BY <1>1 DEF HourLength
<1>3. DayLength \in Nat \ {0}
  BY <1>1, <1>2 DEF DayLength
<1> QED
  BY <1>1, <1>2, <1>3

LEMMA IndexType ==
    ASSUME NEW x \in Int
    PROVE  /\ MinuteIndex(x) \in Int /\ HourIndex(x) \in Int
           /\ DayOf(x) \in Int
BY Units, DivMod DEF MinuteIndex, HourIndex, DayOf

(* The hour and the minute of a time are what is left of its index.        *)
LEMMA HourOfIndex ==
    ASSUME NEW x \in Int
    PROVE  /\ Hour(x) \in 0 .. HoursPerDay - 1
           /\ HourIndex(x) = HoursPerDay * DayOf(x) + Hour(x)
<1>0. /\ HoursPerDay \in Nat \ {0} /\ HourLength \in Nat \ {0}
      /\ DayLength \in Nat \ {0}
  BY Units
<1>1. \A d \in Nat \ {0}, e \in Nat \ {0}, c \in Nat \ {0} :
         c = d * e => x \div c = (x \div d) \div e
  BY DivDiv
<1>2. DayLength = HourLength * HoursPerDay
  BY DEF DayLength
<1>3. DayOf(x) = HourIndex(x) \div HoursPerDay
  BY <1>0, <1>1, <1>2 DEF DayOf, HourIndex
<1>4. Hour(x) = HourIndex(x) % HoursPerDay
  BY DEF Hour, HourIndex
<1>5. HourIndex(x) \in Int
  BY IndexType
<1> QED
  BY <1>0, <1>3, <1>4, <1>5, DivMod

LEMMA MinuteOfIndex ==
    ASSUME NEW x \in Int
    PROVE  /\ Minute(x) \in 0 .. MinutesPerHour - 1
           /\ MinuteIndex(x) = MinutesPerHour * HourIndex(x) + Minute(x)
<1>0. /\ MinutesPerHour \in Nat \ {0} /\ SecondsPerMinute \in Nat \ {0}
      /\ HourLength \in Nat \ {0}
  BY Units
<1>1. \A d \in Nat \ {0}, e \in Nat \ {0}, c \in Nat \ {0} :
         c = d * e => x \div c = (x \div d) \div e
  BY DivDiv
<1>2. HourLength = SecondsPerMinute * MinutesPerHour
  BY DEF HourLength
<1>3. HourIndex(x) = MinuteIndex(x) \div MinutesPerHour
  BY <1>0, <1>1, <1>2 DEF HourIndex, MinuteIndex
<1>4. Minute(x) = MinuteIndex(x) % MinutesPerHour
  BY DEF Minute, MinuteIndex
<1>5. MinuteIndex(x) \in Int
  BY IndexType
<1> QED
  BY <1>0, <1>3, <1>4, <1>5, DivMod

(* Later times have no smaller index.                                      *)
LEMMA IndexMonotone ==
    ASSUME NEW x \in Int, NEW y \in Int, x <= y
    PROVE  /\ MinuteIndex(x) <= MinuteIndex(y)
           /\ HourIndex(x) <= HourIndex(y)
           /\ DayOf(x) <= DayOf(y)
BY Units, DivMonotone DEF MinuteIndex, HourIndex, DayOf

(* Before the start of a minute, an hour, a day: TimeOfDay, whatever the   *)
(* numbers it is given (time.Date normalises them).                        *)
LEMMA BeforeDay ==
    ASSUME NEW x \in Int, NEW d \in Int
    PROVE  /\ TimeOfDay(d, 0, 0) = DayLength * d
           /\ x < TimeOfDay(d, 0, 0) <=> DayOf(x) < d
<1>1. TimeOfDay(d, 0, 0) = DayLength * d
  BY Units DEF TimeOfDay
<1> QED
  BY <1>1, Units, DivLess DEF DayOf

LEMMA HourStart ==
    ASSUME NEW d \in Int, NEW h \in Int
    PROVE  TimeOfDay(d, h, 0) = HourLength * (HoursPerDay * d + h)
<1>1. d * DayLength = HourLength * (HoursPerDay * d)
  BY Units DEF DayLength
<1>2. h * HourLength = HourLength * h /\ 0 * SecondsPerMinute = 0
  BY Units
<1>3. HoursPerDay * d \in Int
  BY Units
<1>4. HourLength * (HoursPerDay * d + h) = HourLength * (HoursPerDay * d) + HourLength * h
  BY <1>3, Units
<1>5. HourLength * (HoursPerDay * d) \in Int /\ HourLength * h \in Int
  BY <1>3, Units
<1> QED
  BY <1>1, <1>2, <1>4, <1>5 DEF TimeOfDay

LEMMA MinuteStart ==
    ASSUME NEW d \in Int, NEW h \in Int, NEW m \in Int
    PROVE  TimeOfDay(d, h, m)
             = SecondsPerMinute * (MinutesPerHour * (HoursPerDay * d + h) + m)
<1> DEFINE j == HoursPerDay * d + h
<1>1. j \in Int
  BY Units
<1>2. TimeOfDay(d, h, m) = TimeOfDay(d, h, 0) + SecondsPerMinute * m
  <2>1. d * DayLength \in Int /\ h * HourLength \in Int
        /\ m * SecondsPerMinute = SecondsPerMinute * m /\ 0 * SecondsPerMinute = 0
        /\ SecondsPerMinute * m \in Int
    BY Units
  <2> QED
    BY <2>1 DEF TimeOfDay
<1>3. TimeOfDay(d, h, 0) = HourLength * j
  BY HourStart
<1> HIDE DEF j
<1>4. HourLength * j = SecondsPerMinute * (MinutesPerHour * j)
  BY <1>1, Units DEF HourLength
<1>5. MinutesPerHour * j \in Int
  BY <1>1, Units
<1>6. TimeOfDay(d, h, m) = SecondsPerMinute * (MinutesPerHour * j + m)
  BY <1>2, <1>3, <1>4, <1>5, Units
<1> QED
  BY <1>6 DEF j

LEMMA BeforeHour ==
    ASSUME NEW x \in Int, NEW d \in Int, NEW h \in Int
    PROVE  /\ TimeOfDay(d, h, 0) \in Int
           /\ x < TimeOfDay(d, h, 0) <=> HourIndex(x) < HoursPerDay * d + h
<1> DEFINE k == HoursPerDay * d + h
<1>1. k \in Int
  BY Units
<1>2. TimeOfDay(d, h, 0) = HourLength * k
  BY HourStart
<1> HIDE DEF k
<1>3. x < HourLength * k <=> HourIndex(x) < k
  BY <1>1, Units, DivLess DEF HourIndex
<1>4. HourLength * k \in Int
  BY <1>1, Units
<1> QED
  BY <1>2, <1>3, <1>4 DEF k

LEMMA BeforeMinute ==
    ASSUME NEW d \in Int, NEW h \in Int, NEW m \in Int
    PROVE  /\ TimeOfDay(d, h, m) \in Int
           /\ \A x \in Int :
                 x < TimeOfDay(d, h, m)
                 <=> MinuteIndex(x) < MinutesPerHour * (HoursPerDay * d + h) + m
<1> DEFINE k == MinutesPerHour * (HoursPerDay * d + h) + m
<1>1. k \in Int
  BY Units
<1>2. TimeOfDay(d, h, m) = SecondsPerMinute * k
  BY MinuteStart
<1> HIDE DEF k
<1>3. \A x \in Int : x < SecondsPerMinute * k <=> MinuteIndex(x) < k
  BY <1>1, Units, DivLess DEF MinuteIndex
<1>4. SecondsPerMinute * k \in Int
  BY <1>1, Units
<1> QED
  BY <1>2, <1>3, <1>4 DEF k

-----------------------------------------------------------------------------
(* The calendar.                                                           *)
LEMMA MonthsAre ==
    /\ Len(MonthDays) \in Nat \ {0}
    /\ \A m \in Months : MonthDays[m] \in Nat \ {0}
BY CalendarAssumption, EmptySeq DEF Months

Sums(k) == {f \in [1 .. k -> Nat] :
                /\ f[1] = 0
                /\ \A m \in 2 .. k : f[m] = f[m - 1] + MonthDays[m - 1]}

LEMMA SumsExist == \A k \in 1 .. Len(MonthDays) + 1 : Sums(k) # {}
<1> DEFINE T == {k \in 1 .. Len(MonthDays) + 1 : Sums(k) = {}}
<1> SUFFICES ASSUME T # {} PROVE FALSE
  OBVIOUS
<1>0. T \in SUBSET Nat
  BY MonthsAre
<1>1. PICK k \in T : \A n \in T : k <= n
  BY <1>0, Least
<1>2. k # 1
  <2>1. [m \in 1 .. 1 |-> 0] \in Sums(1)
    BY DEF Sums
  <2> QED
    BY <1>1, <2>1
<1>3. k \in Nat /\ k - 1 \in 1 .. Len(MonthDays) + 1 /\ k - 1 \in Months /\ k - 1 \notin T
  BY <1>1, <1>2, MonthsAre DEF Months
<1>4. PICK f \in [1 .. k - 1 -> Nat] :
            /\ f[1] = 0
            /\ \A m \in 2 .. k - 1 : f[m] = f[m - 1] + MonthDays[m - 1]
  BY <1>3 DEF Sums
<1> DEFINE g == [m \in 1 .. k |-> IF m = k THEN f[k - 1] + MonthDays[k - 1] ELSE f[m]]
<1>5. MonthDays[k - 1] \in Nat
  BY <1>3, MonthsAre
<1>6. g \in [1 .. k -> Nat]
  BY <1>3, <1>4, <1>5
<1>7. g[1] = 0
  BY <1>2, <1>3, <1>4
<1>8. ASSUME NEW m \in 2 .. k PROVE g[m] = g[m - 1] + MonthDays[m - 1]
  BY <1>2, <1>3, <1>4
<1>9. g \in Sums(k)
  BY <1>6, <1>7, <1>8 DEF Sums
<1> QED
  BY <1>1, <1>9

LEMMA DaysBeforeIs ==
    /\ DaysBefore[1] = 0
    /\ \A m \in 2 .. Len(MonthDays) + 1 :
          DaysBefore[m] = DaysBefore[m - 1] + MonthDays[m - 1]
<1> DEFINE Def(f) == f = [m \in 1 .. Len(MonthDays) + 1 |->
                            IF m = 1 THEN 0 ELSE f[m - 1] + MonthDays[m - 1]]
<1>1. PICK f \in [1 .. Len(MonthDays) + 1 -> Nat] :
            /\ f[1] = 0
            /\ \A m \in 2 .. Len(MonthDays) + 1 : f[m] = f[m - 1] + MonthDays[m - 1]
  <2>1. Len(MonthDays) + 1 \in 1 .. Len(MonthDays) + 1
    BY MonthsAre
  <2>2. Sums(Len(MonthDays) + 1) # {}
    BY <2>1, SumsExist
  <2> QED
    BY <2>2, SMTT(30) DEF Sums
<1>2. Def(f)
  <2>1. \A m \in 1 .. Len(MonthDays) + 1 :
           f[m] = IF m = 1 THEN 0 ELSE f[m - 1] + MonthDays[m - 1]
    BY <1>1, MonthsAre
  <2> QED
    BY <1>1, <2>1
<1>3. DaysBefore = CHOOSE h : Def(h)
  BY DEF DaysBefore
<1>4. Def(DaysBefore)
  BY <1>2, <1>3, Zenon
<1> HIDE DEF Def
<1>5. ASSUME NEW h, Def(h), NEW m \in 1 .. Len(MonthDays) + 1
      PROVE  h[m] = IF m = 1 THEN 0 ELSE h[m - 1] + MonthDays[m - 1]
  BY <1>5 DEF Def
<1>6. \A m \in 1 .. Len(MonthDays) + 1 :
         DaysBefore[m] = IF m = 1 THEN 0 ELSE DaysBefore[m - 1] + MonthDays[m - 1]
  BY <1>4, <1>5
<1> QED
  BY <1>6, MonthsAre

LEMMA DaysBeforeType == \A m \in 1 .. Len(MonthDays) + 1 : DaysBefore[m] \in Nat
<1> DEFINE T == {m \in 1 .. Len(MonthDays) + 1 : DaysBefore[m] \notin Nat}
<1> SUFFICES ASSUME T # {} PROVE FALSE
  OBVIOUS
<1>0. T \in SUBSET Nat
  BY MonthsAre
<1>1. PICK m \in T : \A n \in T : m <= n
  BY <1>0, Least
<1>2. m # 1
  BY <1>1, DaysBeforeIs
<1>3. m \in 2 .. Len(MonthDays) + 1 /\ m - 1 \in Months
  BY <1>1, <1>2, MonthsAre DEF Months
<1>4. DaysBefore[m - 1] \in Nat
  BY <1>1, <1>3, MonthsAre
<1> QED
  BY <1>1, <1>3, <1>4, DaysBeforeIs, MonthsAre

(* Each month has a day, so later months begin later.                      *)
LEMMA DaysBeforeIncreases ==
    ASSUME NEW m \in 1 .. Len(MonthDays) + 1, NEW n \in 1 .. Len(MonthDays) + 1,
           m < n
    PROVE  DaysBefore[m] < DaysBefore[n]
<1> DEFINE T == {k \in m + 1 .. Len(MonthDays) + 1 : ~(DaysBefore[m] < DaysBefore[k])}
<1> SUFFICES ASSUME n \in T PROVE FALSE
  BY MonthsAre
<1>1. PICK k \in T : \A j \in T : k <= j
  <2>1. T \in SUBSET Nat
    BY MonthsAre
  <2>2. T # {}
    OBVIOUS
  <2> QED
    BY <2>1, <2>2, Least
<1>2. k \in 2 .. Len(MonthDays) + 1 /\ k - 1 \in Months
  BY <1>1, MonthsAre DEF Months
<1>3. DaysBefore[k] = DaysBefore[k - 1] + MonthDays[k - 1] /\ MonthDays[k - 1] \in Nat \ {0}
  BY <1>2, DaysBeforeIs, MonthsAre
<1>4. DaysBefore[m] <= DaysBefore[k - 1]
  <2>1. k - 1 \notin T
    BY <1>1, <1>2
  <2>2. DaysBefore[k - 1] \in Nat /\ DaysBefore[m] \in Nat
    BY <1>2, DaysBeforeType, MonthsAre DEF Months
  <2> QED
    BY <1>1, <1>2, <2>1, <2>2 DEF Months
<1>5. DaysBefore[m] \in Nat /\ DaysBefore[k - 1] \in Nat
  BY <1>2, DaysBeforeType, MonthsAre DEF Months
<1> QED
  BY <1>1, <1>3, <1>4, <1>5

LEMMA YearDaysType == YearDays \in Nat \ {0}
<1>1. 1 \in 1 .. Len(MonthDays) + 1 /\ Len(MonthDays) + 1 \in 1 .. Len(MonthDays) + 1
      /\ 1 < Len(MonthDays) + 1
  BY MonthsAre
<1>2. DaysBefore[1] < DaysBefore[Len(MonthDays) + 1]
  BY <1>1, DaysBeforeIncreases
<1> QED
  BY <1>1, <1>2, DaysBeforeIs, DaysBeforeType DEF YearDays

(* Every day of the year is in a month.                                    *)
LEMMA MonthExists ==
    ASSUME NEW d \in 0 .. YearDays - 1
    PROVE  \E m \in Months : DaysBefore[m] <= d /\ d < DaysBefore[m + 1]
<1> DEFINE T == {m \in Months : d < DaysBefore[m + 1]}
<1>1. Len(MonthDays) \in T
  BY MonthsAre, YearDaysType DEF Months, YearDays
<1>2. PICK m \in T : \A n \in T : m <= n
  <2>1. T \in SUBSET Nat
    BY MonthsAre DEF Months
  <2>2. T # {}
    BY <1>1
  <2> QED
    BY <2>1, <2>2, Least
<1>3. CASE m = 1
  BY <1>2, <1>3, DaysBeforeIs
<1>4. CASE m # 1
  <2>1. m - 1 \in Months /\ m \in 1 .. Len(MonthDays) + 1 /\ m - 1 + 1 = m
    BY <1>2, <1>4, MonthsAre DEF Months
  <2>2. m - 1 \notin T
    BY <1>2, <2>1
  <2>3. DaysBefore[m] \in Nat
    BY <2>1, DaysBeforeType
  <2>4. ~(d < DaysBefore[m])
    BY <2>1, <2>2
  <2> QED
    BY <1>2, <2>3, <2>4, YearDaysType
<1> QED
  BY <1>3, <1>4

DayInYear(x) == DayOf(x) % YearDays

(* The year and the month of a time.                                       *)
LEMMA YearOfDay ==
    ASSUME NEW x \in Int
    PROVE  /\ YearOf(x) \in Int
           /\ DayInYear(x) \in 0 .. YearDays - 1
           /\ DayOf(x) = YearDays * YearOf(x) + DayInYear(x)
<1>1. DayOf(x) \in Int
  BY IndexType
<1> QED
  BY <1>1, YearDaysType, DivMod DEF YearOf, DayInYear

LEMMA MonthOfDay ==
    ASSUME NEW x \in Int
    PROVE  /\ Month(x) \in Months
           /\ DaysBefore[Month(x)] <= DayInYear(x)
           /\ DayInYear(x) < DaysBefore[Month(x) + 1]
<1>1. \E m \in Months : /\ DaysBefore[m] <= DayInYear(x)
                        /\ DayInYear(x) < DaysBefore[m + 1]
  BY YearOfDay, MonthExists
<1> QED
  BY <1>1 DEF Month, DayInYear

(* Later days of a year are in no earlier month.                           *)
LEMMA MonthMonotone ==
    ASSUME NEW x \in Int, NEW y \in Int, DayInYear(x) <= DayInYear(y)
    PROVE  Month(x) <= Month(y)
<1>1. /\ Month(x) \in Months /\ Month(y) \in Months
      /\ DaysBefore[Month(x)] <= DayInYear(x)
      /\ DayInYear(y) < DaysBefore[Month(y) + 1]
  BY MonthOfDay
<1>2. DayInYear(x) \in Int /\ DayInYear(y) \in Int
  BY YearOfDay
<1>3. /\ Month(x) \in 1 .. Len(MonthDays) + 1 /\ Month(y) + 1 \in 1 .. Len(MonthDays) + 1
      /\ Month(x) \in Int /\ Month(y) \in Int
  BY <1>1, MonthsAre DEF Months
<1>4. DaysBefore[Month(x)] \in Nat /\ DaysBefore[Month(y) + 1] \in Nat
  BY <1>3, DaysBeforeType
<1>5. SUFFICES ASSUME Month(y) + 1 <= Month(x) PROVE FALSE
  BY <1>3
<1>6. DaysBefore[Month(y) + 1] <= DaysBefore[Month(x)]
  <2>1. CASE Month(y) + 1 = Month(x)
    BY <2>1, <1>4
  <2>2. CASE Month(y) + 1 < Month(x)
    BY <2>2, <1>3, <1>4, DaysBeforeIncreases
  <2> QED
    BY <1>3, <1>5, <2>1, <2>2
<1> QED
  BY <1>1, <1>2, <1>4, <1>6

(* Before a month of the year: an earlier month.                           *)
LEMMA EarlierMonth ==
    ASSUME NEW x \in Int, NEW m \in 1 .. Len(MonthDays) + 1,
           DayInYear(x) < DaysBefore[m]
    PROVE  Month(x) < m
<1>1. Month(x) \in Months /\ DaysBefore[Month(x)] <= DayInYear(x)
  BY MonthOfDay
<1>2. DayInYear(x) \in Int
  BY YearOfDay
<1>3. Month(x) \in 1 .. Len(MonthDays) + 1 /\ Month(x) \in Int
  BY <1>1, MonthsAre DEF Months
<1>4. DaysBefore[Month(x)] \in Nat /\ DaysBefore[m] \in Nat
  BY <1>3, DaysBeforeType
<1>5. SUFFICES ASSUME m <= Month(x) PROVE FALSE
  BY <1>3
<1>6. DaysBefore[m] <= DaysBefore[Month(x)]
  <2>1. CASE m = Month(x)
    BY <2>1, <1>4
  <2>2. CASE m < Month(x)
    BY <2>2, <1>3, <1>4, DaysBeforeIncreases
  <2> QED
    BY <1>3, <1>5, <2>1, <2>2
<1> QED
  BY <1>1, <1>2, <1>4, <1>6

(* Before the start of a month.                                            *)
LEMMA BeforeMonth ==
    ASSUME NEW x \in Int, NEW y \in Int, NEW m \in 1 .. Len(MonthDays) + 1
    PROVE  /\ MonthStart(y, m) \in Int
           /\ x < MonthStart(y, m) <=> DayOf(x) < YearDays * y + DaysBefore[m]
<1> DEFINE k == YearDays * y + DaysBefore[m]
<1>1. k \in Int
  BY YearDaysType, DaysBeforeType
<1>2. MonthStart(y, m) = DayLength * k
  BY YearDaysType, DaysBeforeType, Units DEF MonthStart
<1> HIDE DEF k
<1>3. x < DayLength * k <=> DayOf(x) < k
  BY <1>1, Units, DivLess DEF DayOf
<1>4. DayLength * k \in Int
  BY <1>1, Units
<1> QED
  BY <1>2, <1>3, <1>4 DEF k

-----------------------------------------------------------------------------
(* Numbers of two digits are in the order of their first digits, then of   *)
(* their second.                                                           *)
LEMMA Digits ==
    ASSUME NEW n \in Nat \ {0}, NEW p \in Int, NEW q \in Int,
           NEW r \in 0 .. n - 1, NEW s \in 0 .. n - 1,
           n * p + r <= n * q + s
    PROVE  p < q \/ (p = q /\ r <= s)
<1>1. CASE q < p
  <2>1. n * (q + 1) <= n * p
    BY <1>1
  <2>2. n * (q + 1) = n * q + n /\ n * q \in Int /\ n * p \in Int
    OBVIOUS
  <2> QED
    BY <2>1, <2>2
<1>2. CASE p = q
  <2>1. n * p \in Int
    OBVIOUS
  <2> QED
    BY <1>2, <2>1
<1> QED
  BY <1>1, <1>2

(* nextValue: the first value of the field after v.                        *)
LEMMA NextValueIs ==
    ASSUME NEW f \in SUBSET Nat, NEW v \in Int, Later(f, v) # {}
    PROVE  /\ NextValue(f, v) \in f
           /\ v < NextValue(f, v)
           /\ \A y \in f : v < y => NextValue(f, v) <= y
<1>1. Later(f, v) \in SUBSET Nat
  BY DEF Later
<1>2. \E x \in Later(f, v) : \A y \in Later(f, v) : x <= y
  BY <1>1, Least
<1>3. /\ NextValue(f, v) \in Later(f, v)
      /\ \A y \in Later(f, v) : NextValue(f, v) <= y
  BY <1>2 DEF NextValue
<1>4. f # Wildcard
  BY DEF Wildcard
<1> QED
  BY <1>3, <1>4 DEF Later

(* Two times of one day have the same month, day and weekday.              *)
LEMMA SameDay ==
    ASSUME NEW x \in Int, NEW y \in Int, DayOf(x) = DayOf(y)
    PROVE  /\ Month(x) = Month(y) /\ Day(x) = Day(y)
           /\ Weekday(x) = Weekday(y) /\ YearOf(x) = YearOf(y)
<1>1. Month(x) = Month(y)
  BY DEF Month
<1> QED
  BY <1>1 DEF Day, Weekday, YearOf

(* What is known of the year of a time.                                    *)
LEMMA YearFacts ==
    ASSUME NEW x \in Int
    PROVE  /\ YearOf(x) \in Int /\ DayOf(x) \in Int
           /\ DayInYear(x) \in 0 .. YearDays - 1
           /\ DayOf(x) = YearDays * YearOf(x) + DayInYear(x)
           /\ YearDays * YearOf(x) \in Int
<1>1. YearOf(x) \in Int /\ DayOf(x) \in Int
  BY YearOfDay, IndexType
<1> QED
  BY <1>1, YearOfDay, YearDaysType

-----------------------------------------------------------------------------
(* Where the times before the next candidate lie.                          *)
LEMMA UntilNextDay ==
    ASSUME NEW c \in Int, NEW t, t = TimeOfDay(DayOf(c) + 1, 0, 0)
    PROVE  /\ t \in Int
           /\ c < t
           /\ \A x \in c .. t - 1 : DayOf(x) = DayOf(c)
<1>1. DayOf(c) \in Int
  BY IndexType
<1>2. t \in Int
  BY <1>1, BeforeHour
<1>3. c < t
  BY <1>1, BeforeDay
<1>4. ASSUME NEW x \in c .. t - 1 PROVE DayOf(x) = DayOf(c)
  <2>1. x \in Int /\ c <= x /\ x < t
    BY <1>2
  <2>2. DayOf(c) <= DayOf(x) /\ DayOf(x) \in Int
    BY <2>1, IndexMonotone, IndexType
  <2>3. DayOf(x) < DayOf(c) + 1
    BY <1>1, <2>1, BeforeDay
  <2> QED
    BY <1>1, <2>2, <2>3
<1> QED
  BY <1>2, <1>3, <1>4

LEMMA UntilMonth ==
    ASSUME NEW c \in Int, NEW m \in 1 .. Len(MonthDays) + 1, Month(c) < m,
           NEW t, t = MonthStart(YearOf(c), m)
    PROVE  /\ t \in Int
           /\ c < t
           /\ \A x \in c .. t - 1 : Month(c) <= Month(x) /\ Month(x) < m
<1>1. /\ YearOf(c) \in Int /\ DayOf(c) \in Int
      /\ DayInYear(c) \in 0 .. YearDays - 1
      /\ DayOf(c) = YearDays * YearOf(c) + DayInYear(c)
      /\ YearDays * YearOf(c) \in Int
  BY YearFacts
<1>2. t \in Int
  BY <1>1, BeforeMonth
<1>3. DaysBefore[m] \in Nat /\ DaysBefore[m] <= YearDays
  <2>1. DaysBefore[m] \in Nat
    BY DaysBeforeType
  <2>2. Len(MonthDays) + 1 \in 1 .. Len(MonthDays) + 1
    BY MonthsAre
  <2>3. m # Len(MonthDays) + 1 => DaysBefore[m] < DaysBefore[Len(MonthDays) + 1]
    BY <2>2, MonthsAre, DaysBeforeIncreases
  <2> QED
    BY <2>1, <2>3, YearDaysType DEF YearDays
<1>4. DayInYear(c) < DaysBefore[m]
  <2>1. Month(c) \in Months /\ DayInYear(c) < DaysBefore[Month(c) + 1]
    BY MonthOfDay
  <2>2. Month(c) + 1 \in 1 .. Len(MonthDays) + 1 /\ Month(c) + 1 <= m
    BY <2>1, MonthsAre DEF Months
  <2>3. DaysBefore[Month(c) + 1] <= DaysBefore[m]
    <3>1. DaysBefore[Month(c) + 1] \in Nat
      BY <2>2, DaysBeforeType
    <3>2. CASE Month(c) + 1 = m
      BY <3>2, <1>3
    <3>3. CASE Month(c) + 1 < m
      BY <3>3, <3>1, <2>2, <1>3, DaysBeforeIncreases
    <3> QED
      BY <2>2, <3>2, <3>3
  <2>4. DaysBefore[Month(c) + 1] \in Nat
    BY <2>2, DaysBeforeType
  <2> QED
    BY <1>1, <1>3, <2>1, <2>3, <2>4
<1>5. c < t
  <2>1. DayOf(c) < YearDays * YearOf(c) + DaysBefore[m]
    BY <1>1, <1>3, <1>4
  <2> QED
    BY <1>1, <2>1, BeforeMonth
<1>6. ASSUME NEW x \in c .. t - 1 PROVE Month(c) <= Month(x) /\ Month(x) < m
  <2>1. x \in Int /\ c <= x /\ x < t
    BY <1>2
  <2>2. /\ YearOf(x) \in Int /\ DayOf(x) \in Int
        /\ DayInYear(x) \in 0 .. YearDays - 1
        /\ DayOf(x) = YearDays * YearOf(x) + DayInYear(x)
        /\ YearDays * YearOf(x) \in Int
    BY <2>1, YearFacts
  <2>3. DayOf(c) <= DayOf(x)
    BY <2>1, IndexMonotone
  <2>4. DayOf(x) < YearDays * YearOf(c) + DaysBefore[m]
    BY <1>1, <2>1, BeforeMonth
  <2>5. YearOf(x) = YearOf(c)
    <3>1. YearOf(c) <= YearOf(x)
      <4>1. YearDays * YearOf(c) + DayInYear(c) <= YearDays * YearOf(x) + DayInYear(x)
        BY <1>1, <2>2, <2>3
      <4>2. YearOf(c) < YearOf(x) \/ (YearOf(c) = YearOf(x) /\ DayInYear(c) <= DayInYear(x))
        BY <1>1, <2>2, <4>1, YearDaysType, Digits
      <4> QED
        BY <1>1, <2>2, <4>2
    <3>2. DaysBefore[m] - 1 \in 0 .. YearDays - 1
      BY SMTT(30), <1>1, <1>3, <1>4, YearDaysType
    <3>3. YearDays * YearOf(x) + DayInYear(x) <= YearDays * YearOf(c) + (DaysBefore[m] - 1)
      BY SMTT(30), <1>1, <1>3, <2>2, <2>4
    <3>4. \/ YearOf(x) < YearOf(c)
          \/ YearOf(x) = YearOf(c) /\ DayInYear(x) <= DaysBefore[m] - 1
      BY <1>1, <2>2, <3>2, <3>3, YearDaysType, Digits
    <3> QED
      BY <1>1, <2>2, <3>1, <3>4
  <2>6. YearDays * YearOf(x) = YearDays * YearOf(c)
    BY <2>5
  <2>7. DayInYear(c) <= DayInYear(x) /\ DayInYear(x) < DaysBefore[m]
    BY SMTT(30), <1>1, <1>3, <2>2, <2>3, <2>4, <2>6
  <2> QED
    BY <2>1, <2>7, MonthMonotone, EarlierMonth
<1> QED
  BY <1>2, <1>5, <1>6

LEMMA UntilMonthOfNextYear ==
    ASSUME NEW c \in Int, NEW m \in Months,
           NEW t, t = MonthStart(YearOf(c) + 1, m)
    PROVE  /\ t \in Int
           /\ c < t
           /\ \A x \in c .. t - 1 : Month(c) <= Month(x) \/ Month(x) < m
<1>0. m \in 1 .. Len(MonthDays) + 1
  BY MonthsAre DEF Months
<1>1. /\ YearOf(c) \in Int /\ DayOf(c) \in Int
      /\ DayInYear(c) \in 0 .. YearDays - 1
      /\ DayOf(c) = YearDays * YearOf(c) + DayInYear(c)
      /\ YearDays * YearOf(c) \in Int
  BY YearFacts
<1>6. YearDays * (YearOf(c) + 1) = YearDays * YearOf(c) + YearDays
  BY <1>1, YearDaysType
<1>2. t \in Int
  BY <1>0, <1>1, BeforeMonth
<1>3. DaysBefore[m] \in Nat /\ DaysBefore[m] < YearDays
  <2>1. Len(MonthDays) + 1 \in 1 .. Len(MonthDays) + 1 /\ m < Len(MonthDays) + 1
    BY MonthsAre DEF Months
  <2> QED
    BY <1>0, <2>1, DaysBeforeType, DaysBeforeIncreases DEF YearDays
<1>4. c < t
  <2>1. DayOf(c) < YearDays * (YearOf(c) + 1) + DaysBefore[m]
    BY <1>1, <1>3, <1>6, YearDaysType
  <2> QED
    BY <1>0, <1>1, <2>1, BeforeMonth
<1>5. ASSUME NEW x \in c .. t - 1 PROVE Month(c) <= Month(x) \/ Month(x) < m
  <2>1. x \in Int /\ c <= x /\ x < t
    BY <1>2
  <2>2. /\ YearOf(x) \in Int /\ DayOf(x) \in Int
        /\ DayInYear(x) \in 0 .. YearDays - 1
        /\ DayOf(x) = YearDays * YearOf(x) + DayInYear(x)
        /\ YearDays * YearOf(x) \in Int
    BY <2>1, YearFacts
  <2>3. DayOf(c) <= DayOf(x)
    BY <2>1, IndexMonotone
  <2>4. DayOf(x) < YearDays * (YearOf(c) + 1) + DaysBefore[m]
    BY SMTT(30), <1>0, <1>1, <2>1, BeforeMonth
  <2>5. YearOf(x) = YearOf(c) \/ YearOf(x) = YearOf(c) + 1
    <3>1. YearOf(c) <= YearOf(x)
      <4>1. YearDays * YearOf(c) + DayInYear(c) <= YearDays * YearOf(x) + DayInYear(x)
        BY <1>1, <2>2, <2>3
      <4>2. YearOf(c) < YearOf(x) \/ (YearOf(c) = YearOf(x) /\ DayInYear(c) <= DayInYear(x))
        BY <1>1, <2>2, <4>1, YearDaysType, Digits
      <4> QED
        BY <1>1, <2>2, <4>2
    <3>2. DaysBefore[m] \in 0 .. YearDays - 1 /\ YearOf(c) + 1 \in Int
      BY <1>1, <1>3, YearDaysType
    <3>3. YearDays * YearOf(x) + DayInYear(x) <= YearDays * (YearOf(c) + 1) + DaysBefore[m]
      BY <1>1, <1>3, <1>6, <2>2, <2>4, YearDaysType
    <3>4. \/ YearOf(x) < YearOf(c) + 1
          \/ YearOf(x) = YearOf(c) + 1 /\ DayInYear(x) <= DaysBefore[m]
      BY <1>1, <2>2, <3>2, <3>3, YearDaysType, Digits
    <3> QED
      BY <1>1, <2>2, <3>1, <3>4
  <2>6. CASE YearOf(x) = YearOf(c)
    <3>1. YearDays * YearOf(x) = YearDays * YearOf(c)
      BY <2>6
    <3>2. DayInYear(c) <= DayInYear(x)
      BY <1>1, <2>2, <2>3, <3>1
    <3> QED
      BY <2>1, <3>2, MonthMonotone
  <2>7. CASE YearOf(x) = YearOf(c) + 1
    <3>1. YearDays * YearOf(x) = YearDays * (YearOf(c) + 1)
      BY <2>7
    <3>2. DayInYear(x) < DaysBefore[m]
      BY <1>1, <1>3, <1>6, <2>2, <2>4, <3>1, YearDaysType
    <3> QED
      BY <1>0, <2>1, <3>2, EarlierMonth
  <2> QED
    BY <2>5, <2>6, <2>7
<1> QED
  BY <1>2, <1>4, <1>5

LEMMA UntilHour ==
    ASSUME NEW c \in Int, NEW h \in 0 .. HoursPerDay - 1, Hour(c) < h,
           NEW t, t = TimeOfDay(DayOf(c), h, 0)
    PROVE  /\ t \in Int
           /\ c < t
           /\ \A x \in c .. t - 1 :
                 /\ Hour(c) <= Hour(x) /\ Hour(x) < h
                 /\ Hour(x) = Hour(c) => Minute(c) <= Minute(x)
<1>0. HoursPerDay \in Nat \ {0} /\ MinutesPerHour \in Nat \ {0}
  BY Units
<1>1. /\ DayOf(c) \in Int /\ Hour(c) \in 0 .. HoursPerDay - 1 /\ HourIndex(c) \in Int
      /\ HourIndex(c) = HoursPerDay * DayOf(c) + Hour(c)
      /\ Minute(c) \in 0 .. MinutesPerHour - 1
      /\ MinuteIndex(c) = MinutesPerHour * HourIndex(c) + Minute(c)
      /\ HoursPerDay * DayOf(c) \in Int
  BY <1>0, IndexType, HourOfIndex, MinuteOfIndex
<1>2. t \in Int
  BY <1>1, BeforeHour
<1>3. c < t
  <2>1. HourIndex(c) < HoursPerDay * DayOf(c) + h
    BY <1>0, <1>1
  <2> QED
    BY <1>1, <2>1, BeforeHour
<1>4. ASSUME NEW x \in c .. t - 1
      PROVE  /\ Hour(c) <= Hour(x) /\ Hour(x) < h
             /\ Hour(x) = Hour(c) => Minute(c) <= Minute(x)
  <2>1. x \in Int /\ c <= x /\ x < t
    BY <1>2
  <2>2. /\ DayOf(x) \in Int /\ Hour(x) \in 0 .. HoursPerDay - 1 /\ HourIndex(x) \in Int
        /\ HourIndex(x) = HoursPerDay * DayOf(x) + Hour(x)
        /\ Minute(x) \in 0 .. MinutesPerHour - 1
        /\ MinuteIndex(x) = MinutesPerHour * HourIndex(x) + Minute(x)
        /\ HoursPerDay * DayOf(x) \in Int
    BY <1>0, <2>1, IndexType, HourOfIndex, MinuteOfIndex
  <2>3. HourIndex(x) < HoursPerDay * DayOf(c) + h
    BY <1>1, <2>1, BeforeHour
  <2>4. DayOf(c) <= DayOf(x) /\ HourIndex(c) <= HourIndex(x) /\ MinuteIndex(c) <= MinuteIndex(x)
    BY <2>1, IndexMonotone
  <2>5. DayOf(x) < DayOf(c) \/ (DayOf(x) = DayOf(c) /\ Hour(x) <= h)
    BY SMTT(30), <1>0, <1>1, <2>2, <2>3, Digits
  <2>6. DayOf(x) = DayOf(c)
    BY <1>1, <2>2, <2>4, <2>5
  <2>7. Hour(c) <= Hour(x) /\ Hour(x) < h
    BY <1>0, <1>1, <2>2, <2>3, <2>4, <2>6
  <2>8. ASSUME Hour(x) = Hour(c) PROVE Minute(c) <= Minute(x)
    <3>1. HourIndex(x) = HourIndex(c)
      BY <1>1, <2>2, <2>6, <2>8
    <3>2. MinutesPerHour * HourIndex(c) \in Int
      BY <1>0, <1>1
    <3> QED
      BY <1>0, <1>1, <2>2, <2>4, <3>1, <3>2
  <2> QED
    BY <2>7, <2>8
<1> QED
  BY <1>2, <1>3, <1>4

LEMMA UntilMinute ==
    ASSUME NEW c \in Int, NEW m \in 0 .. MinutesPerHour - 1, Minute(c) < m,
           NEW t, t = TimeOfDay(DayOf(c), Hour(c), m)
    PROVE  /\ t \in Int
           /\ c < t
           /\ \A x \in c .. t - 1 : Minute(c) <= Minute(x) /\ Minute(x) < m
<1>0. HoursPerDay \in Nat \ {0} /\ MinutesPerHour \in Nat \ {0}
  BY Units
<1>1. /\ DayOf(c) \in Int /\ Hour(c) \in Int /\ HourIndex(c) \in Int
      /\ HourIndex(c) = HoursPerDay * DayOf(c) + Hour(c)
      /\ Minute(c) \in 0 .. MinutesPerHour - 1
      /\ MinuteIndex(c) = MinutesPerHour * HourIndex(c) + Minute(c)
      /\ MinutesPerHour * HourIndex(c) \in Int
  BY <1>0, IndexType, HourOfIndex, MinuteOfIndex
<1>2. t \in Int
  BY <1>0, <1>1, BeforeMinute
<1>5. \A x \in Int : x < t <=> MinuteIndex(x) < MinutesPerHour * HourIndex(c) + m
  <2>1. \A x \in Int : x < TimeOfDay(DayOf(c), Hour(c), m)
           <=> MinuteIndex(x) < MinutesPerHour * (HoursPerDay * DayOf(c) + Hour(c)) + m
    <3>1. m \in Int
      BY <1>0
    <3> QED
      BY <1>1, <3>1, BeforeMinute, Zenon
  <2> QED
    BY <1>1, <2>1
<1>3. c < t
  <2>1. MinuteIndex(c) < MinutesPerHour * HourIndex(c) + m
    BY <1>0, <1>1
  <2> QED
    BY <1>5, <2>1
<1>4. ASSUME NEW x \in c .. t - 1
      PROVE  Minute(c) <= Minute(x) /\ Minute(x) < m
  <2>1. x \in Int /\ c <= x /\ x < t
    BY <1>2
  <2>2. /\ HourIndex(x) \in Int /\ Minute(x) \in 0 .. MinutesPerHour - 1
        /\ MinuteIndex(x) = MinutesPerHour * HourIndex(x) + Minute(x)
        /\ MinutesPerHour * HourIndex(x) \in Int
    BY <1>0, <2>1, IndexType, MinuteOfIndex
  <2>3. MinuteIndex(x) < MinutesPerHour * HourIndex(c) + m
    BY <1>5, <2>1
  <2>4. HourIndex(c) <= HourIndex(x) /\ MinuteIndex(c) <= MinuteIndex(x)
    BY <2>1, IndexMonotone
  <2>5. HourIndex(x) < HourIndex(c) \/ (HourIndex(x) = HourIndex(c) /\ Minute(x) <= m)
    BY <1>0, <1>1, <2>2, <2>3, Digits
  <2>6. HourIndex(x) = HourIndex(c)
    BY <1>1, <2>2, <2>4, <2>5
  <2>7. MinutesPerHour * HourIndex(x) = MinutesPerHour * HourIndex(c)
    BY <2>6
  <2> QED
    BY <1>0, <1>1, <2>2, <2>3, <2>4, <2>7
<1> QED
  BY <1>2, <1>3, <1>4

(* Later on the same day the hour is no smaller, nor, within the hour, the *)
(* minute.                                                                 *)
LEMMA HourNotEarlier ==
    ASSUME NEW c \in Int, NEW x \in Int, c <= x, DayOf(x) = DayOf(c)
    PROVE  /\ Hour(c) <= Hour(x)
           /\ Hour(x) = Hour(c) => Minute(c) <= Minute(x)
<1>0. /\ DayOf(c) \in Int /\ HourIndex(c) \in Int
      /\ Hour(c) \in 0 .. HoursPerDay - 1 /\ Hour(x) \in 0 .. HoursPerDay - 1
      /\ Minute(c) \in 0 .. MinutesPerHour - 1 /\ Minute(x) \in 0 .. MinutesPerHour - 1
  BY IndexType, HourOfIndex, MinuteOfIndex
<1>1. /\ Hour(c) \in Int /\ Hour(x) \in Int /\ Minute(c) \in Int /\ Minute(x) \in Int
      /\ HoursPerDay * DayOf(c) \in Int /\ HourIndex(c) \in Int
      /\ MinutesPerHour * HourIndex(c) \in Int
  BY <1>0, Units
<1>2. /\ HourIndex(c) = HoursPerDay * DayOf(c) + Hour(c)
      /\ HourIndex(x) = HoursPerDay * DayOf(c) + Hour(x)
      /\ MinuteIndex(c) = MinutesPerHour * HourIndex(c) + Minute(c)
      /\ MinuteIndex(x) = MinutesPerHour * HourIndex(x) + Minute(x)
  BY HourOfIndex, MinuteOfIndex
<1>3. HourIndex(c) <= HourIndex(x) /\ MinuteIndex(c) <= MinuteIndex(x)
  BY IndexMonotone
<1>4. Hour(c) <= Hour(x)
  BY <1>1, <1>2, <1>3
<1>5. ASSUME Hour(x) = Hour(c) PROVE Minute(c) <= Minute(x)
  <2>1. HourIndex(x) = HourIndex(c)
    BY <1>2, <1>5
  <2>2. MinuteIndex(x) = MinutesPerHour * HourIndex(c) + Minute(x)
    BY <1>2, <2>1
  <2> QED
    BY <1>1, <1>2, <1>3, <2>2
<1> QED
  BY <1>4, <1>5

-----------------------------------------------------------------------------
(* CronSpec.Next.  Of the times it passes over, only those in an hour      *)
(* right after an hour of the schedule can match.                          *)
MayPass(x) == SpecMatches(x) => {Hour(x) - 1, Hour(x)} \subseteq schedule.hour

Jumps(t) == /\ t \in Int
            /\ current < t
            /\ \A x \in current .. t - 1 : MayPass(x)

(* What holds of the search: TypeOK and NoMatchPassed, and that each       *)
(* function is given its own kind of schedule.                             *)
Given ==
    /\ from \in Starts
    /\ current \in Int
    /\ phase \in {"searching", "found", "none"}

SpecInv == kind = "spec" =>
    /\ schedule \in Specs
    /\ current > from
    /\ phase = "found" => SpecMatches(current)
    /\ phase = "none" => current >= Deadline
    /\ \A x \in from + 1 .. current - 1 : MayPass(x)

LEMMA FromType == Given => from \in Int
BY CalendarAssumption DEF Given

(* A schedule that constrains anything has all its fields in range.        *)
LEMMA Constrained ==
    ASSUME schedule \in Specs, ~ AllWildcards(schedule)
    PROVE  /\ schedule.minute \in SUBSET (0 .. MinutesPerHour - 1)
           /\ schedule.minute # {} /\ schedule.minute # Wildcard
           /\ schedule.hour \in SUBSET (0 .. HoursPerDay - 1)
           /\ schedule.hour # {} /\ schedule.hour # Wildcard
           /\ schedule.month \in SUBSET Months
           /\ schedule.month # {} /\ schedule.month # Wildcard
<1>1. InRange(schedule)
  BY ScheduleAssumption
<1>2. -1 \notin 0 .. MinutesPerHour - 1 /\ -1 \notin 0 .. HoursPerDay - 1
  BY Units
<1>3. -1 \notin Months
  BY MonthsAre DEF Months
<1> QED
  BY <1>1, <1>2, <1>3 DEF InRange, Wildcard

LEMMA GotoKeeps ==
    ASSUME Given, SpecInv, kind = "spec", phase = "searching",
           NEW t, Jumps(t), Goto(t)
    PROVE  Given' /\ SpecInv'
<1>1. /\ current' = t /\ schedule' = schedule /\ from' = from /\ phase' = phase
      /\ kind' = kind
  BY DEF Goto, given
<1>2. from \in Int /\ current \in Int
  BY FromType DEF Given
<1>3. Given'
  BY <1>1 DEF Given, Jumps
<1>4. \A x : MayPass(x)' = MayPass(x)
  BY <1>1 DEF MayPass, SpecMatches, DayMatches
<1>5. \A x \in from + 1 .. t - 1 : MayPass(x)
  <2> SUFFICES ASSUME NEW x \in from + 1 .. t - 1 PROVE MayPass(x)
    OBVIOUS
  <2>1. CASE x < current
    BY <1>2, <2>1 DEF SpecInv, Jumps
  <2>2. CASE current <= x
    BY <1>2, <2>2 DEF Jumps
  <2> QED
    BY <1>2, <2>1, <2>2 DEF Jumps
<1>6. t > from
  BY <1>2 DEF SpecInv, Jumps
<1>7. \A x \in from' + 1 .. current' - 1 : MayPass(x)'
  BY <1>1, <1>4, <1>5
<1> QED
  BY <1>1, <1>3, <1>6, <1>7 DEF SpecInv

LEMMA JumpMonthSkips ==
    ASSUME Given, SpecInv, JumpMonth
    PROVE  \E t : Jumps(t) /\ Goto(t)
<1> DEFINE c == current
           f == schedule.month
<1>1. kind = "spec" /\ schedule \in Specs /\ c \in Int
  BY DEF JumpMonth, Searching, SpecInv, Given
<1>2. ~ Matches(f, Month(c))
  BY DEF JumpMonth
<1>3. f \in SUBSET Months /\ f # {} /\ f # Wildcard
  <2>1. ~ AllWildcards(schedule)
    BY <1>2 DEF AllWildcards, Matches
  <2> QED
    BY <1>1, <2>1, Constrained
<1>4. f \in SUBSET Nat /\ Month(c) \in Months /\ Month(c) \in Int
  <2>1. \A k \in Months : k \in Nat /\ k \in Int
    BY MonthsAre DEF Months
  <2>2. Month(c) \in Months
    BY <1>1, MonthOfDay
  <2>3. Month(c) \in Int
    BY <2>1, <2>2
  <2>4. f \in SUBSET Nat
    BY <1>3, <2>1
  <2> QED
    BY <2>2, <2>3, <2>4
<1>5. \A x : MayPass(x) \/ Month(x) \in f
  BY <1>3 DEF MayPass, SpecMatches, Matches
<1>6. Month(c) \notin f
  BY <1>2 DEF Matches
<1>7. CASE Later(f, Month(c)) = {}
  <2> DEFINE m == NextValue(f, -1)
             t == MonthStart(YearOf(c) + 1, m)
  <2>1. Goto(t)
    BY <1>7 DEF JumpMonth
  <2>2. Later(f, -1) # {}
    BY <1>3, <1>4 DEF Later
  <2>3. m \in f /\ \A y \in f : m <= y
    <3> DEFINE v == -1
    <3>0. v \in Int
      OBVIOUS
    <3>1. m \in f /\ \A y \in f : v < y => m <= y
      <4> HIDE DEF v
      <4>1. NextValue(f, v) \in f /\ \A y \in f : v < y => NextValue(f, v) <= y
        BY <1>4, <2>2, <3>0, NextValueIs DEF v
      <4> QED
        BY <4>1 DEF v
    <3> QED
      BY <1>4, <3>1
  <2>4. \A y \in f : ~(Month(c) < y)
    BY <1>3, <1>7 DEF Later
  <2>5. m \in Months
    BY <1>3, <2>3
  <2> HIDE DEF m
  <2>6. /\ t \in Int /\ c < t
        /\ \A x \in c .. t - 1 : Month(c) <= Month(x) \/ Month(x) < m
    BY <1>1, <2>5, UntilMonthOfNextYear
  <2> HIDE DEF t
  <2>7. ASSUME NEW x \in c .. t - 1 PROVE MayPass(x)
    <3>1. SUFFICES Month(x) \notin f
      BY <1>5
    <3>2. Month(x) \in Int
      BY <1>1, <2>6, MonthOfDay, MonthsAre DEF Months
    <3>3. Month(c) <= Month(x) \/ Month(x) < m
      BY <2>6
    <3>4. m \in Int
      BY <2>5 DEF Months
    <3> QED
      BY <1>4, <1>6, <2>3, <2>4, <3>2, <3>3, <3>4
  <2> QED
    BY <2>1, <2>6, <2>7 DEF Jumps
<1>8. CASE Later(f, Month(c)) # {}
  <2> DEFINE m == NextValue(f, Month(c))
             t == MonthStart(YearOf(c), m)
  <2>1. Goto(t)
    BY <1>8 DEF JumpMonth
  <2>2. m \in f /\ Month(c) < m /\ \A y \in f : Month(c) < y => m <= y
    BY <1>4, <1>8, NextValueIs
  <2>3. m \in 1 .. Len(MonthDays) + 1 /\ m \in Int
    BY <1>3, <2>2, MonthsAre DEF Months
  <2> HIDE DEF m
  <2>4. /\ t \in Int /\ c < t
        /\ \A x \in c .. t - 1 : Month(c) <= Month(x) /\ Month(x) < m
    BY <1>1, <2>2, <2>3, UntilMonth
  <2> HIDE DEF t
  <2>5. ASSUME NEW x \in c .. t - 1 PROVE MayPass(x)
    <3>1. SUFFICES Month(x) \notin f
      BY <1>5
    <3>2. Month(x) \in Int
      BY <1>1, <2>4, MonthOfDay, MonthsAre DEF Months
    <3>3. Month(c) <= Month(x) /\ Month(x) < m
      BY <2>4
    <3> QED
      BY <1>4, <1>6, <2>2, <2>3, <3>2, <3>3
  <2> QED
    BY <2>1, <2>4, <2>5 DEF Jumps
<1> QED
  BY <1>7, <1>8

LEMMA JumpDaySkips ==
    ASSUME Given, SpecInv, JumpDay
    PROVE  \E t : Jumps(t) /\ Goto(t)
<1> DEFINE t == TimeOfDay(DayOf(current) + 1, 0, 0)
<1>1. Goto(t) /\ ~ DayMatches(current) /\ current \in Int
  BY DEF JumpDay, Given
<1>2. /\ t \in Int /\ current < t
      /\ \A x \in current .. t - 1 : DayOf(x) = DayOf(current)
  BY <1>1, UntilNextDay
<1> HIDE DEF t
<1>3. ASSUME NEW x \in current .. t - 1 PROVE MayPass(x)
  <2>1. Month(x) = Month(current) /\ Day(x) = Day(current) /\ Weekday(x) = Weekday(current)
    BY <1>1, <1>2, SameDay
  <2>2. ~ DayMatches(x)
    BY <1>1, <2>1 DEF DayMatches
  <2> QED
    BY <2>2 DEF MayPass, SpecMatches
<1> QED
  BY <1>1, <1>2, <1>3 DEF Jumps

LEMMA JumpHourSkips ==
    ASSUME Given, SpecInv, JumpHour
    PROVE  \E t : Jumps(t) /\ Goto(t)
<1> DEFINE c == current
           f == schedule.hour
<1>1. kind = "spec" /\ schedule \in Specs /\ c \in Int
  BY DEF JumpHour, RightDay, RightMonth, Searching, SpecInv, Given
<1>2. ~ Matches(f, Hour(c))
  BY DEF JumpHour
<1>3. f \in SUBSET (0 .. HoursPerDay - 1) /\ f # {} /\ f # Wildcard
  <2>1. ~ AllWildcards(schedule)
    BY <1>2 DEF AllWildcards, Matches
  <2> QED
    BY <1>1, <2>1, Constrained
<1>4. f \in SUBSET Nat /\ Hour(c) \in 0 .. HoursPerDay - 1 /\ Hour(c) \in Int
  BY <1>1, <1>3, HourOfIndex, Units
<1>5. \A x : MayPass(x) \/ Hour(x) \in f
  BY <1>3 DEF MayPass, SpecMatches, Matches
<1>6. Hour(c) \notin f
  BY <1>2 DEF Matches
<1>7. CASE Later(f, Hour(c)) = {}
  <2> DEFINE t == TimeOfDay(DayOf(c) + 1, 0, 0)
  <2>1. Goto(t)
    BY <1>7 DEF JumpHour
  <2>2. \A y \in f : ~(Hour(c) < y)
    BY <1>3, <1>7 DEF Later
  <2>3. /\ t \in Int /\ c < t
        /\ \A x \in c .. t - 1 : DayOf(x) = DayOf(c)
    BY <1>1, UntilNextDay
  <2> HIDE DEF t
  <2>4. ASSUME NEW x \in c .. t - 1 PROVE MayPass(x)
    <3>1. SUFFICES Hour(x) \notin f
      BY <1>5
    <3>2. Hour(c) <= Hour(x) /\ Hour(x) \in Int
      BY <1>1, <2>3, HourNotEarlier, HourOfIndex, Units
    <3> QED
      BY <1>4, <1>6, <2>2, <3>2
  <2> QED
    BY <2>1, <2>3, <2>4 DEF Jumps
<1>8. CASE Later(f, Hour(c)) # {}
  <2> DEFINE h == NextValue(f, Hour(c))
             t == TimeOfDay(DayOf(c), h, 0)
  <2>1. Goto(t)
    BY <1>8 DEF JumpHour
  <2>2. h \in f /\ Hour(c) < h /\ \A y \in f : Hour(c) < y => h <= y
    BY <1>4, <1>8, NextValueIs
  <2>3. h \in 0 .. HoursPerDay - 1 /\ h \in Int
    BY <1>3, <2>2, Units
  <2> HIDE DEF h
  <2>4. /\ t \in Int /\ c < t
        /\ \A x \in c .. t - 1 : Hour(c) <= Hour(x) /\ Hour(x) < h
    BY <1>1, <2>2, <2>3, UntilHour
  <2> HIDE DEF t
  <2>5. ASSUME NEW x \in c .. t - 1 PROVE MayPass(x)
    <3>1. SUFFICES Hour(x) \notin f
      BY <1>5
    <3>2. Hour(x) \in Int
      BY <1>1, <2>4, HourOfIndex, Units
    <3>3. Hour(c) <= Hour(x) /\ Hour(x) < h
      BY <2>4
    <3> QED
      BY <1>4, <1>6, <2>2, <2>3, <3>2, <3>3
  <2> QED
    BY <2>1, <2>4, <2>5 DEF Jumps
<1> QED
  BY <1>7, <1>8

(* The only jump that may pass over a match: no minute of this hour is     *)
(* left, and the next hour is not considered.                              *)
LEMMA JumpMinuteSkips ==
    ASSUME Given, SpecInv, JumpMinute
    PROVE  \E t : Jumps(t) /\ Goto(t)
<1> DEFINE c == current
           f == schedule.minute
           h == schedule.hour
<1>1. /\ kind = "spec" /\ schedule \in Specs /\ c \in Int
      /\ ~ Matches(f, Minute(c)) /\ Matches(h, Hour(c))
  BY DEF JumpMinute, RightHour, RightDay, RightMonth, Searching, SpecInv, Given
<1>2. /\ f \in SUBSET (0 .. MinutesPerHour - 1) /\ f # {} /\ f # Wildcard
      /\ h \in SUBSET (0 .. HoursPerDay - 1) /\ h # {} /\ h # Wildcard
  <2>1. ~ AllWildcards(schedule)
    BY <1>1 DEF AllWildcards, Matches
  <2> QED
    BY <1>1, <2>1, Constrained
<1>3. /\ f \in SUBSET Nat /\ h \in SUBSET Nat
      /\ Hour(c) \in 0 .. HoursPerDay - 1 /\ Hour(c) \in Int
      /\ Minute(c) \in 0 .. MinutesPerHour - 1 /\ Minute(c) \in Int
  BY <1>1, <1>2, HourOfIndex, MinuteOfIndex, Units
<1>4. \A x : MayPass(x) \/ (Hour(x) \in h /\ Minute(x) \in f)
  BY <1>2 DEF MayPass, SpecMatches, Matches
<1>5. Minute(c) \notin f /\ Hour(c) \in h
  BY <1>1, <1>2 DEF Matches
<1>6. \A x : Hour(x) - 1 = Hour(c) => MayPass(x)
  BY <1>2, <1>5 DEF MayPass, SpecMatches, Matches
<1>7. Later(f, Minute(c)) = {} => \A y \in f : ~(Minute(c) < y)
  BY <1>2 DEF Later
<1>8. CASE Later(f, Minute(c)) # {}
  <2> DEFINE m == NextValue(f, Minute(c))
             t == TimeOfDay(DayOf(c), Hour(c), m)
  <2>1. Goto(t)
    BY <1>8 DEF JumpMinute
  <2>2. m \in f /\ Minute(c) < m /\ \A y \in f : Minute(c) < y => m <= y
    BY <1>3, <1>8, NextValueIs
  <2>3. m \in 0 .. MinutesPerHour - 1 /\ m \in Int
    BY <1>2, <2>2, Units
  <2> HIDE DEF m
  <2>4. /\ t \in Int /\ c < t
        /\ \A x \in c .. t - 1 : Minute(c) <= Minute(x) /\ Minute(x) < m
    BY <1>1, <2>2, <2>3, UntilMinute
  <2> HIDE DEF t
  <2>5. ASSUME NEW x \in c .. t - 1 PROVE MayPass(x)
    <3>1. SUFFICES Minute(x) \notin f
      BY <1>4
    <3>2. Minute(x) \in Int
      BY <1>1, <2>4, MinuteOfIndex, Units
    <3>3. Minute(c) <= Minute(x) /\ Minute(x) < m
      BY <2>4
    <3> QED
      BY <1>3, <1>5, <2>2, <2>3, <3>2, <3>3
  <2> QED
    BY <2>1, <2>4, <2>5 DEF Jumps
<1>9. CASE Later(f, Minute(c)) = {} /\ Later(h, Hour(c) + 1) # {}
  <2> DEFINE n == NextValue(h, Hour(c) + 1)
             t == TimeOfDay(DayOf(c), n, 0)
  <2>1. Goto(t)
    BY <1>9 DEF JumpMinute
  <2>2. n \in h /\ Hour(c) + 1 < n /\ \A y \in h : Hour(c) + 1 < y => n <= y
    <3>1. Hour(c) + 1 \in Int
      BY <1>3
    <3> QED
      BY <1>3, <1>9, <3>1, NextValueIs
  <2>3. n \in 0 .. HoursPerDay - 1 /\ n \in Int /\ Hour(c) < n
    BY <1>2, <1>3, <2>2, Units
  <2> HIDE DEF n
  <2>4. /\ t \in Int /\ c < t
        /\ \A x \in c .. t - 1 : /\ Hour(c) <= Hour(x) /\ Hour(x) < n
                                 /\ Hour(x) = Hour(c) => Minute(c) <= Minute(x)
    BY <1>1, <2>3, UntilHour
  <2> HIDE DEF t
  <2>5. ASSUME NEW x \in c .. t - 1 PROVE MayPass(x)
    <3>1. Hour(x) \in Int /\ Minute(x) \in Int
      BY <1>1, <2>4, HourOfIndex, MinuteOfIndex, Units
    <3>2. /\ Hour(c) <= Hour(x) /\ Hour(x) < n
          /\ Hour(x) = Hour(c) => Minute(c) <= Minute(x)
      BY <2>4
    <3>3. CASE Hour(x) = Hour(c)
      <4>1. Minute(x) \notin f
        BY <1>3, <1>5, <1>7, <1>9, <3>1, <3>2, <3>3
      <4> QED
        BY <1>4, <4>1
    <3>4. CASE Hour(x) = Hour(c) + 1
      BY <1>3, <1>6, <3>4
    <3>5. CASE Hour(c) + 1 < Hour(x)
      <4>1. Hour(x) \notin h
        BY <2>2, <2>3, <3>1, <3>2, <3>5
      <4> QED
        BY <1>4, <4>1
    <3> QED
      BY <1>3, <3>1, <3>2, <3>3, <3>4, <3>5
  <2> QED
    BY <2>1, <2>4, <2>5 DEF Jumps
<1>10. CASE Later(f, Minute(c)) = {} /\ Later(h, Hour(c) + 1) = {}
  <2> DEFINE t == TimeOfDay(DayOf(c) + 1, 0, 0)
  <2>1. Goto(t)
    BY <1>10 DEF JumpMinute
  <2>2. \A y \in h : ~(Hour(c) + 1 < y)
    BY <1>2, <1>10 DEF Later
  <2>3. /\ t \in Int /\ c < t
        /\ \A x \in c .. t - 1 : DayOf(x) = DayOf(c)
    BY <1>1, UntilNextDay
  <2> HIDE DEF t
  <2>4. ASSUME NEW x \in c .. t - 1 PROVE MayPass(x)
    <3>1. Hour(x) \in Int /\ Minute(x) \in Int
      BY <1>1, <2>3, HourOfIndex, MinuteOfIndex, Units
    <3>2. /\ Hour(c) <= Hour(x)
          /\ Hour(x) = Hour(c) => Minute(c) <= Minute(x)
      BY <1>1, <2>3, HourNotEarlier
    <3>3. CASE Hour(x) = Hour(c)
      <4>1. Minute(x) \notin f
        BY <1>3, <1>5, <1>7, <1>10, <3>1, <3>2, <3>3
      <4> QED
        BY <1>4, <4>1
    <3>4. CASE Hour(x) = Hour(c) + 1
      BY <1>3, <1>6, <3>4
    <3>5. CASE Hour(c) + 1 < Hour(x)
      <4>1. Hour(x) \notin h
        BY <2>2, <3>1, <3>5
      <4> QED
        BY <1>4, <4>1
    <3> QED
      BY <1>3, <3>1, <3>2, <3>3, <3>4, <3>5
  <2> QED
    BY <2>1, <2>3, <2>4 DEF Jumps
<1> QED
  BY <1>8, <1>9, <1>10

-----------------------------------------------------------------------------
(* CronExpr.Next, for any five numbers.  The candidate is after the given  *)
(* time; or an hour of -1 takes the search back, over and over, to the     *)
(* same time of a day that does not match; or nothing ever matches.        *)
DueOn(d) == TimeOfDay(d, ValueOf(schedule.hour), ValueOf(schedule.minute))

Hopeless == \A x \in Int : ~ ExprMatches(x)

Stuck == /\ current = DueOn(DayOf(current) + 1)
         /\ Matches(schedule.month, Month(current))
         /\ ~ ExprDayMatches(current)

Forward == current > from \/ Stuck \/ Hopeless

ExprInv == kind = "expr" =>
    /\ schedule \in Exprs
    /\ Forward
    /\ phase = "found" => current > from
    /\ \A x \in from + 1 .. current - 1 : ~ ExprMatches(x)

LEMMA OneValue ==
    ASSUME schedule \in Exprs
    PROVE  /\ ValueOf(schedule.hour) \in Int
           /\ schedule.hour = {ValueOf(schedule.hour)}
           /\ ValueOf(schedule.minute) \in Int
           /\ schedule.minute = {ValueOf(schedule.minute)}
<1>1. ASSUME NEW f, IsSingle(f) PROVE ValueOf(f) \in Int /\ f = {ValueOf(f)}
  BY <1>1 DEF IsSingle, ValueOf
<1> QED
  BY <1>1, ScheduleAssumption

(* A match has the minute of the schedule, and its hour if it has one.     *)
LEMMA MatchValues ==
    ASSUME schedule \in Exprs, NEW x \in Int, ExprMatches(x)
    PROVE  /\ ValueOf(schedule.hour) = -1 \/ ValueOf(schedule.hour) = Hour(x)
           /\ ValueOf(schedule.minute) = Minute(x)
BY OneValue DEF ExprMatches, Matches, Wildcard

(* A candidate that passes over no match keeps the invariant.              *)
LEMMA StepKeeps ==
    ASSUME Given, ExprInv, kind = "expr", phase = "searching",
           NEW t \in Int, Goto(t),
           \A x \in current .. t - 1 : ~ ExprMatches(x),
           \/ t > from
           \/ /\ t = DueOn(DayOf(t) + 1)
              /\ Matches(schedule.month, Month(t))
              /\ ~ ExprDayMatches(t)
           \/ Hopeless
    PROVE  Given' /\ ExprInv'
<1>1. /\ current' = t /\ schedule' = schedule /\ from' = from /\ phase' = phase
      /\ kind' = kind
  BY DEF Goto, given
<1>2. from \in Int /\ current \in Int
  BY FromType DEF Given
<1>3. Given'
  BY <1>1 DEF Given
<1>4. \A x : /\ ExprMatches(x)' = ExprMatches(x)
            /\ ExprDayMatches(x)' = ExprDayMatches(x)
            /\ DueOn(x)' = DueOn(x)
  BY <1>1 DEF ExprMatches, ExprDayMatches, DueOn
<1>5. \A x \in from + 1 .. t - 1 : ~ ExprMatches(x)
  <2> SUFFICES ASSUME NEW x \in from + 1 .. t - 1 PROVE ~ ExprMatches(x)
    OBVIOUS
  <2>1. CASE x < current
    BY <1>2, <2>1 DEF ExprInv
  <2>2. CASE current <= x
    BY <1>2, <2>2
  <2> QED
    BY <1>2, <2>1, <2>2
<1>6. Forward'
  <2>1. CASE t > from
    BY <1>1, <2>1 DEF Forward
  <2>2. CASE /\ t = DueOn(DayOf(t) + 1)
             /\ Matches(schedule.month, Month(t))
             /\ ~ ExprDayMatches(t)
    <3>1. Stuck'
      BY <1>1, <2>2 DEF Stuck, DueOn, ExprDayMatches
    <3> QED
      BY <3>1 DEF Forward
  <2>3. CASE Hopeless
    BY <1>4, <2>3 DEF Forward, Hopeless
  <2> QED
    BY <2>1, <2>2, <2>3
<1>7. \A x \in from' + 1 .. current' - 1 : ~ ExprMatches(x)'
  BY <1>1, <1>4, <1>5
<1> QED
  BY <1>1, <1>3, <1>6, <1>7 DEF ExprInv

LEMMA ExprJumpMonthKeeps ==
    ASSUME Given, ExprInv, ExprJumpMonth
    PROVE  Given' /\ ExprInv'
<1> DEFINE c == current
           y == IF Month(c) = Len(MonthDays) THEN YearOf(c) + 1 ELSE YearOf(c)
           m == IF Month(c) = Len(MonthDays) THEN 1 ELSE Month(c) + 1
           t == MonthStart(y, m)
<1>1. /\ kind = "expr" /\ phase = "searching" /\ c \in Int /\ schedule \in Exprs
      /\ ~ Matches(schedule.month, Month(c))
  BY DEF ExprJumpMonth, ExprSearching, Given, ExprInv
<1>2. Goto(t)
  BY DEF ExprJumpMonth
<1>3. t \in Int /\ c < t /\ \A x \in c .. t - 1 : Month(x) = Month(c)
  <2>1. Month(c) \in Months /\ Month(c) \in 1 .. Len(MonthDays) /\ Len(MonthDays) \in Nat
    BY <1>1, MonthOfDay, MonthsAre DEF Months
  <2>2. CASE Month(c) = Len(MonthDays)
    <3>1. 1 \in Months /\ t = MonthStart(YearOf(c) + 1, 1)
      BY <2>1, <2>2 DEF Months
    <3> HIDE DEF t
    <3>2. /\ t \in Int /\ c < t
          /\ \A x \in c .. t - 1 : Month(c) <= Month(x) \/ Month(x) < 1
      BY <1>1, <3>1, UntilMonthOfNextYear
    <3>3. ASSUME NEW x \in c .. t - 1 PROVE Month(x) = Month(c)
      <4>1. Month(x) \in 1 .. Len(MonthDays)
        <5>1. x \in Int
          BY <1>1, <3>2
        <5> QED
          BY <5>1, MonthOfDay DEF Months
      <4> QED
        BY <2>1, <2>2, <3>2, <4>1
    <3> QED
      BY <3>2, <3>3
  <2>3. CASE Month(c) # Len(MonthDays)
    <3>1. /\ Month(c) + 1 \in 1 .. Len(MonthDays) + 1 /\ Month(c) < Month(c) + 1
          /\ t = MonthStart(YearOf(c), Month(c) + 1)
      BY <2>1, <2>3
    <3> HIDE DEF t
    <3>2. /\ t \in Int /\ c < t
          /\ \A x \in c .. t - 1 : Month(c) <= Month(x) /\ Month(x) < Month(c) + 1
      BY <1>1, <3>1, UntilMonth
    <3>3. ASSUME NEW x \in c .. t - 1 PROVE Month(x) = Month(c)
      <4>1. Month(x) \in 1 .. Len(MonthDays)
        <5>1. x \in Int
          BY <1>1, <3>2
        <5> QED
          BY <5>1, MonthOfDay DEF Months
      <4> QED
        BY <2>1, <3>2, <4>1
    <3> QED
      BY <3>2, <3>3
  <2> QED
    BY <2>2, <2>3
<1> HIDE DEF t
<1>4. \A x \in c .. t - 1 : ~ ExprMatches(x)
  BY <1>1, <1>3 DEF ExprMatches, ExprDayMatches
<1>5. t > from \/ Hopeless
  <2>1. c > from \/ Hopeless
    BY <1>1 DEF ExprInv, Forward, Stuck
  <2> QED
    BY <1>1, <1>3, <2>1, FromType
<1> QED
  BY <1>1, <1>2, <1>3, <1>4, <1>5, StepKeeps

(* No match lies between a time of day d and the due time of that day,     *)
(* whatever the numbers of the schedule.                                   *)
LEMMA NoMatchUntilDue ==
    ASSUME schedule \in Exprs, NEW d \in Int,
           NEW x \in Int, d <= DayOf(x), x < DueOn(d)
    PROVE  ~ ExprMatches(x)
<1> DEFINE h == ValueOf(schedule.hour)
           m == ValueOf(schedule.minute)
<1> SUFFICES ASSUME ExprMatches(x) PROVE FALSE
  OBVIOUS
<1>1. h \in Int /\ m \in Int
  BY OneValue
<1>2. (h = -1 \/ h = Hour(x)) /\ m = Minute(x)
  BY MatchValues
<1>3. MinuteIndex(x) < MinutesPerHour * (HoursPerDay * d + h) + m
  BY <1>1, BeforeMinute DEF DueOn
<1> HIDE DEF h, m
<1>4. /\ DayOf(x) \in Int /\ HourIndex(x) \in Int /\ Hour(x) \in Nat /\ Minute(x) \in Int
      /\ HourIndex(x) = HoursPerDay * DayOf(x) + Hour(x)
      /\ MinuteIndex(x) = MinutesPerHour * HourIndex(x) + Minute(x)
  BY IndexType, HourOfIndex, MinuteOfIndex, Units
<1>5. HoursPerDay * d <= HoursPerDay * DayOf(x)
      /\ HoursPerDay * d \in Int /\ HoursPerDay * DayOf(x) \in Int
  BY <1>4, Units
<1>6. HoursPerDay * d + h <= HourIndex(x) /\ HoursPerDay * d + h \in Int
  BY <1>1, <1>2, <1>4, <1>5
<1>7. MinutesPerHour * (HoursPerDay * d + h) <= MinutesPerHour * HourIndex(x)
      /\ MinutesPerHour * (HoursPerDay * d + h) \in Int
      /\ MinutesPerHour * HourIndex(x) \in Int
  BY <1>4, <1>6, Units
<1> QED
  BY <1>1, <1>2, <1>3, <1>4, <1>7

(* The due time of the day after is not before the day itself, if the      *)
(* schedule can match at all.                                              *)
LEMMA DueNotBefore ==
    ASSUME schedule \in Exprs, ~ Hopeless, NEW d \in Int
    PROVE  /\ DueOn(d + 1) \in Int
           /\ d <= DayOf(DueOn(d + 1))
<1> DEFINE h == ValueOf(schedule.hour)
           m == ValueOf(schedule.minute)
           t == DueOn(d + 1)
<1>1. h \in Int /\ m \in Int
  BY OneValue
<1>2. t \in Int
  BY <1>1, BeforeMinute DEF DueOn
<1>3. PICK x \in Int : ExprMatches(x)
  BY DEF Hopeless
<1>4. (h = -1 \/ h = Hour(x)) /\ m = Minute(x)
  BY <1>3, MatchValues
<1>5. Hour(x) \in Nat /\ Minute(x) \in Nat
  BY <1>3, HourOfIndex, MinuteOfIndex, Units
<1>6. t = SecondsPerMinute * (MinutesPerHour * (HoursPerDay * (d + 1) + h) + m)
  BY <1>1, MinuteStart DEF DueOn
<1>7. TimeOfDay(d, 0, 0) = SecondsPerMinute * (MinutesPerHour * (HoursPerDay * d + 0) + 0)
  BY MinuteStart
<1> HIDE DEF t, h, m
<1>8. HoursPerDay * d <= HoursPerDay * (d + 1) + h
      /\ HoursPerDay * d \in Int /\ HoursPerDay * (d + 1) + h \in Int
  <2>1. HoursPerDay * (d + 1) = HoursPerDay * d + HoursPerDay /\ HoursPerDay * d \in Int
    BY Units
  <2> QED
    BY <1>1, <1>4, <1>5, <2>1, Units
<1>9. MinutesPerHour * (HoursPerDay * d) <= MinutesPerHour * (HoursPerDay * (d + 1) + h)
      /\ MinutesPerHour * (HoursPerDay * d) \in Int
      /\ MinutesPerHour * (HoursPerDay * (d + 1) + h) \in Int
  BY <1>8, Units
<1>10. SecondsPerMinute * (MinutesPerHour * (HoursPerDay * d)) <= t
  <2> DEFINE p == MinutesPerHour * (HoursPerDay * d)
             q == MinutesPerHour * (HoursPerDay * (d + 1) + h) + m
  <2>1. p <= q /\ p \in Int /\ q \in Int
    BY <1>1, <1>4, <1>5, <1>9
  <2>2. t = SecondsPerMinute * q
    BY <1>6
  <2> HIDE DEF p, q
  <2>3. SecondsPerMinute * p <= SecondsPerMinute * q
    BY <2>1, Units
  <2> QED
    BY <2>2, <2>3 DEF p
<1>11. ~(t < TimeOfDay(d, 0, 0))
  <2>1. TimeOfDay(d, 0, 0) = SecondsPerMinute * (MinutesPerHour * (HoursPerDay * d))
    BY <1>7, <1>8, <1>9
  <2>2. TimeOfDay(d, 0, 0) \in Int
    BY BeforeHour
  <2> QED
    BY <1>2, <1>10, <2>1, <2>2
<1>12. ~(DayOf(t) < d)
  BY <1>2, <1>11, BeforeDay
<1>13. DayOf(t) \in Int
  BY <1>2, IndexType
<1> QED
  BY <1>2, <1>12, <1>13 DEF t

LEMMA ExprJumpDayKeeps ==
    ASSUME Given, ExprInv, ExprJumpDay
    PROVE  Given' /\ ExprInv'
<1> DEFINE c == current
           t == DueOn(DayOf(c) + 1)
<1>1. /\ kind = "expr" /\ phase = "searching" /\ c \in Int /\ schedule \in Exprs
      /\ Matches(schedule.month, Month(c)) /\ ~ ExprDayMatches(c)
      /\ Forward /\ from \in Int
  BY FromType DEF ExprJumpDay, ExprSearching, Given, ExprInv
<1>2. Goto(t)
  BY DEF ExprJumpDay, DueOn
<1>3. DayOf(c) \in Int
  BY <1>1, IndexType
<1>4. t \in Int
  BY <1>1, <1>3, OneValue, BeforeMinute DEF DueOn
<1>5. ASSUME NEW x \in Int, DayOf(x) = DayOf(c)
      PROVE  /\ Matches(schedule.month, Month(x))
             /\ ~ ExprDayMatches(x)
  <2>1. Month(x) = Month(c) /\ Day(x) = Day(c) /\ Weekday(x) = Weekday(c)
    BY <1>1, <1>5, SameDay
  <2> QED
    BY <1>1, <2>1 DEF ExprDayMatches
<1>6. ASSUME NEW x \in c .. t - 1 PROVE ~ ExprMatches(x)
  <2>1. x \in Int /\ c <= x /\ x < t
    BY <1>1, <1>4
  <2>2. DayOf(c) <= DayOf(x) /\ DayOf(x) \in Int
    BY <1>1, <2>1, IndexMonotone, IndexType
  <2>3. CASE DayOf(x) = DayOf(c)
    BY <1>5, <2>1, <2>3 DEF ExprMatches
  <2>4. CASE DayOf(c) + 1 <= DayOf(x)
    BY <1>1, <1>3, <2>1, <2>4, NoMatchUntilDue
  <2> QED
    BY <1>3, <2>2, <2>3, <2>4
<1>7. \/ t > from
      \/ /\ t = DueOn(DayOf(t) + 1)
         /\ Matches(schedule.month, Month(t))
         /\ ~ ExprDayMatches(t)
      \/ Hopeless
  <2>1. SUFFICES ASSUME ~ Hopeless
                 PROVE  t > from \/ DayOf(t) = DayOf(c)
    BY <1>4, <1>5
  <2>2. DayOf(c) <= DayOf(t) /\ DayOf(t) \in Int
    BY <1>1, <1>3, <1>4, <2>1, DueNotBefore, IndexType
  <2>3. CASE DayOf(c) < DayOf(t)
    <3>1. ~(t <= c)
      <4>1. t <= c => DayOf(t) <= DayOf(c)
        BY <1>1, <1>4, IndexMonotone
      <4> QED
        BY <1>3, <2>2, <2>3, <4>1
    <3>2. ~ Stuck
      BY <1>1, <1>4, <3>1 DEF Stuck
    <3> QED
      BY <1>1, <1>4, <2>1, <3>1, <3>2 DEF Forward
  <2> QED
    BY <1>3, <2>2, <2>3
<1> HIDE DEF t
<1> QED
  BY <1>1, <1>2, <1>4, <1>6, <1>7, StepKeeps

(* On the right day nothing is passed over, and the branch that adds a day *)
(* is only reached by a schedule that never matches.                       *)
LEMMA ExprReturnKeeps ==
    ASSUME Given, ExprInv, ExprReturn
    PROVE  Given' /\ ExprInv'
<1> DEFINE c == current
           h == ValueOf(schedule.hour)
           m == ValueOf(schedule.minute)
           early == Hour(c) < h \/ (Hour(c) = h /\ Minute(c) < m)
           next == IF early THEN DueOn(DayOf(c)) ELSE c
<1>1. /\ kind = "expr" /\ phase = "searching" /\ c \in Int /\ schedule \in Exprs
      /\ ExprDayMatches(c) /\ Forward /\ from \in Int
      /\ h \in Int /\ m \in Int
  BY FromType, OneValue DEF ExprReturn, ExprSearching, Given, ExprInv
<1>2. IF next > from
      THEN current' = next /\ phase' = "found" /\ UNCHANGED given
      ELSE Goto(next + DayLength)
  BY DEF ExprReturn, DueOn
<1>3. /\ DayOf(c) \in Int /\ Hour(c) \in Int /\ Minute(c) \in 0 .. MinutesPerHour - 1
      /\ HourIndex(c) = HoursPerDay * DayOf(c) + Hour(c) /\ HourIndex(c) \in Int
      /\ MinuteIndex(c) = MinutesPerHour * HourIndex(c) + Minute(c)
  BY <1>1, IndexType, HourOfIndex, MinuteOfIndex, Units
<1>4. next \in Int
  BY <1>1, <1>3, BeforeMinute DEF DueOn
<1>5. c > from \/ Hopeless
  BY <1>1 DEF Forward, Stuck
<1>6. ASSUME NEW x \in c .. next - 1 PROVE ~ ExprMatches(x)
  <2>1. x \in Int /\ c <= x /\ x < next
    BY <1>1, <1>4
  <2>2. early
    BY <1>1, <2>1
  <2>3. DayOf(c) <= DayOf(x)
    BY <1>1, <2>1, IndexMonotone
  <2> QED
    BY <1>1, <1>3, <2>1, <2>2, <2>3, NoMatchUntilDue
<1>7. c <= next \/ Hopeless
  <2> SUFFICES ASSUME early, ~ Hopeless PROVE c < DueOn(DayOf(c))
    <3>1. CASE ~ early
      BY <1>1, <3>1
    <3>2. CASE early
      <4>1. next = DueOn(DayOf(c))
        BY <3>2
      <4> QED
        BY <1>1, <1>4, <3>2, <4>1
    <3> QED
      BY <3>1, <3>2
  <2>1. PICK x \in Int : ExprMatches(x)
    BY DEF Hopeless
  <2>2. (h = -1 \/ h = Hour(x)) /\ m = Minute(x)
    BY <1>1, <2>1, MatchValues
  <2>3. m \in 0 .. MinutesPerHour - 1
    BY <2>1, <2>2, MinuteOfIndex
  <2> HIDE DEF h, m
  <2>4. HoursPerDay * DayOf(c) \in Int /\ MinutesPerHour * HourIndex(c) \in Int
    BY <1>3, Units
  <2>5. MinuteIndex(c) < MinutesPerHour * (HoursPerDay * DayOf(c) + h) + m
    <3>1. CASE Hour(c) < h
      <4>1. HourIndex(c) + 1 <= HoursPerDay * DayOf(c) + h
        BY <1>1, <1>3, <2>4, <3>1
      <4>2. MinutesPerHour * (HourIndex(c) + 1)
              <= MinutesPerHour * (HoursPerDay * DayOf(c) + h)
        <5> DEFINE p == HourIndex(c) + 1
                   q == HoursPerDay * DayOf(c) + h
        <5>1. p <= q /\ p \in Int /\ q \in Int
          BY <1>1, <1>3, <2>4, <4>1
        <5> HIDE DEF p, q
        <5>2. MinutesPerHour * p <= MinutesPerHour * q
          BY <5>1, Units
        <5> QED
          BY <5>2 DEF p, q
      <4>3. MinutesPerHour * (HourIndex(c) + 1) = MinutesPerHour * HourIndex(c) + MinutesPerHour
        BY <1>3, Units
      <4>4. MinutesPerHour * (HoursPerDay * DayOf(c) + h) \in Int
        BY <1>1, <2>4, Units
      <4> QED
        BY <1>1, <1>3, <2>3, <2>4, <4>2, <4>3, <4>4, Units
    <3>2. CASE Hour(c) = h /\ Minute(c) < m
      <4>1. HoursPerDay * DayOf(c) + h = HourIndex(c)
        BY <1>3, <3>2
      <4> QED
        BY <1>1, <1>3, <2>4, <3>2, <4>1
    <3> QED
      BY <3>1, <3>2
  <2> QED
    BY <1>1, <1>3, <2>5, BeforeMinute DEF DueOn, h, m
<1> HIDE DEF next, early
<1>8. CASE next > from
  <2>1. /\ current' = next /\ phase' = "found" /\ schedule' = schedule
        /\ from' = from /\ kind' = kind
    BY <1>2, <1>8 DEF given
  <2>2. \A x : ExprMatches(x)' = ExprMatches(x)
    BY <2>1 DEF ExprMatches, ExprDayMatches
  <2>3. \A x \in from + 1 .. next - 1 : ~ ExprMatches(x)
    <3> SUFFICES ASSUME NEW x \in from + 1 .. next - 1 PROVE ~ ExprMatches(x)
      OBVIOUS
    <3>1. CASE x < c
      BY <1>1, <1>4, <3>1 DEF ExprInv
    <3>2. CASE c <= x
      BY <1>1, <1>4, <1>6, <3>2
    <3> QED
      BY <1>1, <1>4, <3>1, <3>2
  <2>4. \A x \in from' + 1 .. current' - 1 : ~ ExprMatches(x)'
    BY <2>1, <2>2, <2>3
  <2> QED
    BY <1>1, <1>4, <1>8, <2>1, <2>4 DEF Given, ExprInv, Forward
<1>9. CASE ~(next > from)
  <2>1. Hopeless
    BY <1>1, <1>4, <1>5, <1>7, <1>9
  <2>2. next + DayLength \in Int /\ Goto(next + DayLength)
    BY <1>2, <1>4, <1>9, Units
  <2>3. \A x \in c .. (next + DayLength) - 1 : ~ ExprMatches(x)
    BY <1>1, <2>1, <2>2 DEF Hopeless
  <2> QED
    BY <1>1, <2>1, <2>2, <2>3, StepKeeps
<1> QED
  BY <1>8, <1>9

-----------------------------------------------------------------------------
(* The inductive invariant of both searches.                               *)
IInv == kind \in {"spec", "expr"} /\ Given /\ SpecInv /\ ExprInv

LEMMA InitInv == Init => IInv
<1> SUFFICES ASSUME Init PROVE IInv
  OBVIOUS
<1>1. from \in Int /\ from \in Starts /\ current = from + 1 /\ phase = "searching"
  BY CalendarAssumption DEF Init
<1>2. Given /\ current > from
  BY <1>1 DEF Given
<1>3. from + 1 .. current - 1 = {}
  BY <1>1
<1>4. kind \in {"spec", "expr"} /\ (kind = "spec" => schedule \in Specs)
      /\ (kind = "expr" => schedule \in Exprs)
  BY DEF Init
<1> QED
  BY <1>1, <1>2, <1>3, <1>4 DEF IInv, SpecInv, ExprInv, Forward

LEMMA StepInv == IInv /\ [Next]_vars => IInv'
<1> SUFFICES ASSUME IInv, [Next]_vars PROVE IInv'
  OBVIOUS
<1>0. Given /\ SpecInv /\ ExprInv /\ kind \in {"spec", "expr"}
  BY DEF IInv
<1>1. ASSUME kind = "spec", phase = "searching", NEW t, Jumps(t), Goto(t) PROVE IInv'
  <2>1. Given' /\ SpecInv'
    BY <1>0, <1>1, GotoKeeps
  <2>2. kind' = kind
    BY <1>1 DEF Goto, given
  <2> QED
    BY <1>1, <2>1, <2>2 DEF IInv, ExprInv
<1>2. ASSUME kind = "expr", Given', ExprInv', kind' = kind PROVE IInv'
  BY <1>2 DEF IInv, SpecInv
<1>3. CASE JumpMonth
  <2>1. kind = "spec" /\ phase = "searching"
    BY <1>3 DEF JumpMonth, Searching
  <2> QED
    BY <1>0, <1>1, <1>3, <2>1, JumpMonthSkips
<1>4. CASE JumpDay
  <2>1. kind = "spec" /\ phase = "searching"
    BY <1>4 DEF JumpDay, RightMonth, Searching
  <2> QED
    BY <1>0, <1>1, <1>4, <2>1, JumpDaySkips
<1>5. CASE JumpHour
  <2>1. kind = "spec" /\ phase = "searching"
    BY <1>5 DEF JumpHour, RightDay, RightMonth, Searching
  <2> QED
    BY <1>0, <1>1, <1>5, <2>1, JumpHourSkips
<1>6. CASE JumpMinute
  <2>1. kind = "spec" /\ phase = "searching"
    BY <1>6 DEF JumpMinute, RightHour, RightDay, RightMonth, Searching
  <2> QED
    BY <1>0, <1>1, <1>6, <2>1, JumpMinuteSkips
<1>7. CASE ReturnMatch \/ ReturnZero
  <2>1. /\ kind = "spec" /\ kind' = kind /\ schedule' = schedule /\ from' = from
        /\ current' = current /\ phase' \in {"found", "none"}
    BY <1>7 DEF ReturnMatch, ReturnZero, RightHour, RightDay, RightMonth, Searching, given
  <2>2. /\ phase' = "found" => SpecMatches(current)
        /\ phase' = "none" => current >= Deadline
    BY <1>7 DEF ReturnMatch, ReturnZero, RightHour, RightDay, RightMonth, SpecMatches
  <2>3. \A x : MayPass(x)' = MayPass(x) /\ SpecMatches(x)' = SpecMatches(x)
    BY <2>1 DEF MayPass, SpecMatches, DayMatches
  <2>4. SpecMatches(current)' = SpecMatches(current) /\ Deadline' = Deadline
    BY <2>1 DEF SpecMatches, DayMatches, Deadline
  <2> QED
    BY <1>0, <2>1, <2>2, <2>3, <2>4 DEF IInv, Given, SpecInv, ExprInv
<1>8. CASE ExprJumpMonth
  <2>1. kind = "expr" /\ kind' = kind
    BY <1>8 DEF ExprJumpMonth, ExprSearching, Goto, given
  <2> QED
    BY <1>0, <1>2, <1>8, <2>1, ExprJumpMonthKeeps
<1>9. CASE ExprJumpDay
  <2>1. kind = "expr" /\ kind' = kind
    BY <1>9 DEF ExprJumpDay, ExprSearching, Goto, given
  <2> QED
    BY <1>0, <1>2, <1>9, <2>1, ExprJumpDayKeeps
<1>10. CASE ExprReturn
  <2>1. kind = "expr" /\ kind' = kind
    BY <1>10 DEF ExprReturn, ExprSearching, Goto, given
  <2> QED
    BY <1>0, <1>2, <1>10, <2>1, ExprReturnKeeps
<1>11. CASE UNCHANGED vars
  <2>1. /\ kind' = kind /\ schedule' = schedule /\ from' = from
        /\ current' = current /\ phase' = phase
    BY <1>11 DEF vars, given
  <2>2. \A x : /\ MayPass(x)' = MayPass(x) /\ ExprMatches(x)' = ExprMatches(x)
               /\ ExprDayMatches(x)' = ExprDayMatches(x) /\ DueOn(x)' = DueOn(x)
    BY <2>1 DEF MayPass, SpecMatches, DayMatches, ExprMatches, ExprDayMatches, DueOn
  <2>3. Hopeless' = Hopeless
    BY <2>2 DEF Hopeless
  <2>4. Stuck' = Stuck
    BY <2>1 DEF Stuck, DueOn, ExprDayMatches
  <2>5. SpecMatches(current)' = SpecMatches(current) /\ Deadline' = Deadline
    BY <2>1 DEF SpecMatches, DayMatches, Deadline
  <2> QED
    BY <1>0, <2>1, <2>2, <2>3, <2>4, <2>5 DEF IInv, Given, SpecInv, ExprInv, Forward
<1> QED
  BY <1>3, <1>4, <1>5, <1>6, <1>7, <1>8, <1>9, <1>10, <1>11
     DEF Next, SpecNext, ExprNext, Returned

THEOREM Invariance == Spec => []IInv
BY InitInv, StepInv, PTL DEF Spec

(* The candidate of CronSpec.Next, and the answer of either function, is   *)
(* after the given time.                                                   *)
THEOREM CronTypes == Spec => []TypeOK
<1>1. IInv => TypeOK
  BY DEF IInv, Given, SpecInv, ExprInv, TypeOK
<1> QED
  BY <1>1, Invariance, PTL

(* A day that the comment of CronSpec.Next allows is one the code takes:   *)
(* "*" as the day of the month, or of the week, leaves out no day there is. *)
LEMMA StatedDayMatches ==
    ASSUME NEW x \in Int, StatedDay(x)
    PROVE  DayMatches(x)
<1>1. Day(x) \in AnyDay
  <2> DEFINE m == Month(x)
             d == DayInYear(x)
  <2>1. m \in Months /\ DaysBefore[m] <= d /\ d < DaysBefore[m + 1]
    BY MonthOfDay
  <2>2. d \in Int /\ d < YearDays /\ Day(x) = d - DaysBefore[m] + 1
    <3>1. d \in 0 .. YearDays - 1 /\ YearDays \in Nat
      BY YearOfDay, YearDaysType
    <3>2. Day(x) = d - DaysBefore[m] + 1
      BY DEF Day, DayInYear
    <3> QED
      BY <3>1, <3>2
  <2>3. /\ m \in 1 .. Len(MonthDays) + 1 /\ m + 1 \in 2 .. Len(MonthDays) + 1
        /\ m + 1 \in 1 .. Len(MonthDays) + 1 /\ m + 1 - 1 = m
    BY <2>1, MonthsAre DEF Months
  <2>4. DaysBefore[m] \in Nat /\ DaysBefore[m + 1] \in Nat /\ YearDays \in Nat
    BY <2>3, DaysBeforeType, YearDaysType
  <2>5. DaysBefore[m + 1] = DaysBefore[m] + MonthDays[m]
    BY <2>3, DaysBeforeIs
  <2>6. MonthDays[m] \in Nat
    BY <2>1, MonthsAre
  <2> HIDE DEF m, d
  <2>7. Day(x) \in 1 .. YearDays /\ Day(x) <= MonthDays[m]
    BY <2>1, <2>2, <2>4, <2>5, <2>6
  <2> QED
    BY <2>1, <2>7 DEF AnyDay
<1>2. Weekday(x) \in AnyWeekday
  <2>1. DayOf(x) \in Int /\ DaysPerWeek \in Nat \ {0}
    BY Units, IndexType
  <2> QED
    BY <2>1 DEF Weekday, AnyWeekday
<1> QED
  BY <1>1, <1>2 DEF StatedDay, DayMatches, Matches

(* CronSpec.Next passes over no match but in an hour right after one of    *)
(* the schedule, on every calendar and for every schedule that the parser  *)
(* accepts, whether its days are read as the code reads them or as its     *)
(* comment states them.                                                    *)
THEOREM FewMatchesPassed == Spec => []NoMatchPassed
<1>1. IInv => NoMatchPassed
  <2> SUFFICES ASSUME IInv, kind = "spec", NEW x \in Passed,
                      SpecMatches(x) \/ StatedMatch(x)
               PROVE  Hour(x) - 1 \in schedule.hour
    BY DEF NoMatchPassed
  <2>1. Given /\ SpecInv
    BY DEF IInv
  <2>2. x \in Int
    BY <2>1, FromType DEF Passed, Given
  <2>3. SpecMatches(x)
    BY <2>2, StatedDayMatches DEF StatedMatch, SpecMatches
  <2> QED
    BY <2>1, <2>3 DEF SpecInv, MayPass, Passed
<1> QED
  BY <1>1, Invariance, PTL

(* Without consecutive hours CronSpec.Next answers with the first match,   *)
(* and with the zero time only if there is none before its deadline.       *)
THEOREM FirstMatchFound == Spec => []FirstMatch
<1>1. IInv => FirstMatch
  <2> SUFFICES ASSUME IInv, kind = "spec", HoursApart
               PROVE  /\ phase = "found" =>
                            SpecMatches(current) /\ \A x \in Passed : ~ SpecMatches(x)
                      /\ phase = "none" =>
                            \A x \in from + 1 .. Deadline - 1 : ~ SpecMatches(x)
    BY DEF FirstMatch
  <2>1. Given /\ SpecInv
    BY DEF IInv
  <2>2. current \in Int /\ from \in Int
    BY <2>1, FromType DEF Given
  <2>3. Deadline \in Int
    <3>1. SearchYears \in Nat
      BY CalendarAssumption
    <3>2. SearchYears * YearDays \in Int
      BY <3>1, YearDaysType
    <3>3. SearchYears * YearDays * DayLength \in Int
      BY <3>2, Units
    <3> QED
      BY <2>2, <3>3 DEF Deadline
  <2>4. ASSUME NEW x \in Int, MayPass(x) PROVE ~ SpecMatches(x)
    <3> SUFFICES ASSUME SpecMatches(x) PROVE FALSE
      OBVIOUS
    <3>1. Hour(x) - 1 \in schedule.hour /\ Hour(x) \in schedule.hour
      BY <2>4 DEF MayPass
    <3>2. Hour(x) \in Int
      BY HourOfIndex, Units
    <3>3. (Hour(x) - 1) + 1 = Hour(x)
      BY <3>2
    <3> QED
      BY <3>1, <3>3 DEF HoursApart
  <2>5. \A x \in from + 1 .. current - 1 : ~ SpecMatches(x)
    BY <2>1, <2>2, <2>4 DEF SpecInv
  <2>6. phase = "none" => \A x \in from + 1 .. Deadline - 1 : ~ SpecMatches(x)
    BY <2>1, <2>2, <2>3, <2>5 DEF SpecInv
  <2> QED
    BY <2>1, <2>5, <2>6 DEF SpecInv, Passed
<1> QED
  BY <1>1, Invariance, PTL

(* Every round of CronSpec.Next moves its candidate forward.               *)
THEOREM RoundsAdvance == Spec => RoundAdvances
<1>1. IInv /\ [Next]_vars =>
          [kind = "spec" /\ phase' = "searching" => current' > current]_vars
  <2> SUFFICES ASSUME IInv, Next, kind = "spec", phase' = "searching", ~ UNCHANGED vars
               PROVE  current' > current
    OBVIOUS
  <2>0. Given /\ SpecInv /\ current \in Int
    BY DEF IInv, Given
  <2>1. JumpMonth \/ JumpDay \/ JumpHour \/ JumpMinute
    BY DEF Next, SpecNext, ExprNext, Returned, ReturnMatch, ReturnZero, ExprJumpMonth,
           ExprJumpDay, ExprReturn, ExprSearching
  <2>2. PICK t : Jumps(t) /\ Goto(t)
    BY <2>0, <2>1, JumpMonthSkips, JumpDaySkips, JumpHourSkips, JumpMinuteSkips
  <2> QED
    BY <2>0, <2>2 DEF Jumps, Goto
<1> QED
  BY <1>1, Invariance, PTL DEF Spec, RoundAdvances

(* CronExpr.Next passes over no match, for any five numbers.               *)
THEOREM ExprNeverLate == Spec => []NeverLate
<1>1. IInv => NeverLate
  BY DEF IInv, ExprInv, NeverLate, Passed
<1> QED
  BY <1>1, Invariance, PTL
=============================================================================
