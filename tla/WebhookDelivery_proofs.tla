------------------------ MODULE WebhookDelivery_proofs ------------------------
(***************************************************************************)
(* Proofs about WebhookDelivery, for any retry configuration, statuses,    *)
(* events and network, and that it implements DeliveryContract; and about  *)
(* WebhookPayload, for every instant and sender: the civil dates of        *)
(* webhooks/payload.rs are those of the Gregorian calendar, before and     *)
(* after the epoch, and the sender of an event is the address the native   *)
(* filters test.                                                           *)
(***************************************************************************)
EXTENDS WebhookDelivery, FiniteSetTheorems, SequenceTheorems,
        WellFoundedInduction, TLAPS

-----------------------------------------------------------------------------
(* A year that begins on 1 March, and the days of its era before it *)

YearOfEra(doe) ==
  (doe - doe \div 1460 + doe \div 36524 - doe \div 146096) \div 365

DaysBeforeYear(yoe) == 365 * yoe + yoe \div 4 - yoe \div 100

\* The position of a day in an era determines the year, and the day of the
\* year; the 366th day exists before a leap day only.
LEMMA DayOfEra ==
  ASSUME NEW doe \in Int, 0 <= doe, doe <= 146096
  PROVE  LET yoe == YearOfEra(doe)
             doy == doe - DaysBeforeYear(yoe)
         IN /\ yoe \in Int /\ 0 <= yoe /\ yoe <= 399
            /\ doy \in Int /\ 0 <= doy /\ doy <= 365
<1>1. YearOfEra(doe) \in Int
  BY DEF YearOfEra
<1>2. 0 <= YearOfEra(doe) /\ YearOfEra(doe) <= 399
  BY DEF YearOfEra
<1>3. DaysBeforeYear(YearOfEra(doe)) \in Int
  BY <1>1 DEF DaysBeforeYear
<1>4. /\ 0 <= doe - DaysBeforeYear(YearOfEra(doe))
      /\ doe - DaysBeforeYear(YearOfEra(doe)) <= 365
  BY DEF YearOfEra, DaysBeforeYear
<1> QED BY <1>1, <1>2, <1>3, <1>4

\* A year that begins on 1 March is as long as the next 29 February makes it.
LEMMA LastDayOfYear ==
  ASSUME NEW doe \in Int, 0 <= doe, doe <= 146096,
         doe - DaysBeforeYear(YearOfEra(doe)) = 365
  PROVE  LET next == YearOfEra(doe) + 1
         IN next % 4 = 0 /\ (next % 100 = 0 => next % 400 = 0)
BY DEF YearOfEra, DaysBeforeYear

-----------------------------------------------------------------------------
(* Months *)

MonthOf(mp) == IF mp < 10 THEN mp + 3 ELSE mp - 9

\* The days of such a year before its month mp, counted from March.
DaysBefore(mp) == (153 * mp + 2) \div 5

\* The months' beginnings are those of the calendar.
LEMMA MonthsOfYear ==
  ASSUME NEW doy \in Int, 0 <= doy, doy <= 365
  PROVE  LET mp == (5 * doy + 2) \div 153
         IN /\ mp \in Int /\ 0 <= mp /\ mp <= 11
            /\ DaysBefore(mp) <= doy /\ (mp < 11 => doy < DaysBefore(mp + 1))
BY DEF DaysBefore

\* The days before a month, counted from 1 March.
LEMMA DaysBeforeTable ==
  /\ DaysBefore(0) = 0 /\ DaysBefore(1) = 31 /\ DaysBefore(2) = 61
  /\ DaysBefore(3) = 92 /\ DaysBefore(4) = 122 /\ DaysBefore(5) = 153
  /\ DaysBefore(6) = 184 /\ DaysBefore(7) = 214 /\ DaysBefore(8) = 245
  /\ DaysBefore(9) = 275 /\ DaysBefore(10) = 306 /\ DaysBefore(11) = 337
BY DEF DaysBefore

\* The calendar's days before a month, by the days since 1 March.
LEMMA MonthTable ==
  ASSUME NEW year \in Int, NEW mp \in Int, 0 <= mp, mp <= 11
  PROVE  /\ MonthOf(mp) \in 1..12
         /\ mp < 10 => DaysBeforeMonth(year, MonthOf(mp)) =
                         59 + DaysBefore(mp) + (IF IsLeap(year) THEN 1 ELSE 0)
         /\ mp >= 10 => DaysBeforeMonth(year, MonthOf(mp)) = DaysBefore(mp) - 306
         /\ mp < 11 => MonthLength(year, MonthOf(mp)) = DaysBefore(mp + 1) - DaysBefore(mp)
         /\ mp = 11 => MonthLength(year, MonthOf(mp)) = IF IsLeap(year) THEN 29 ELSE 28
<1> DEFINE table == << 0, 31, 59, 90, 120, 151, 181, 212, 243, 273, 304, 334 >>
<1>1. /\ table[1] = 0 /\ table[2] = 31 /\ table[3] = 59 /\ table[4] = 90
      /\ table[5] = 120 /\ table[6] = 151 /\ table[7] = 181 /\ table[8] = 212
      /\ table[9] = 243 /\ table[10] = 273 /\ table[11] = 304 /\ table[12] = 334
  OBVIOUS
<1>2. \A month : DaysBeforeMonth(year, month) =
                   table[month] + (IF month > 2 /\ IsLeap(year) THEN 1 ELSE 0)
  BY DEF DaysBeforeMonth
<1> HIDE DEF table
<1>3. \/ mp = 0 \/ mp = 1 \/ mp = 2 \/ mp = 3 \/ mp = 4 \/ mp = 5
      \/ mp = 6 \/ mp = 7 \/ mp = 8 \/ mp = 9 \/ mp = 10 \/ mp = 11
  OBVIOUS
<1>4. MonthOf(mp) \in 1..12
  BY <1>3 DEF MonthOf
<1>5. mp < 10 => DaysBeforeMonth(year, MonthOf(mp)) =
                   59 + DaysBefore(mp) + (IF IsLeap(year) THEN 1 ELSE 0)
  BY <1>1, <1>2, <1>3, DaysBeforeTable DEF MonthOf
<1>6. mp >= 10 => DaysBeforeMonth(year, MonthOf(mp)) = DaysBefore(mp) - 306
  BY <1>1, <1>2, <1>3, DaysBeforeTable DEF MonthOf
<1>7. mp < 11 => MonthLength(year, MonthOf(mp)) = DaysBefore(mp + 1) - DaysBefore(mp)
  BY <1>3, DaysBeforeTable DEF MonthOf, MonthLength
<1>8. mp = 11 => MonthLength(year, MonthOf(mp)) = IF IsLeap(year) THEN 29 ELSE 28
  BY DEF MonthOf, MonthLength
<1> QED BY <1>4, <1>5, <1>6, <1>7, <1>8

-----------------------------------------------------------------------------
(* Dates *)

\* The leap days before a date, by eras and the years of an era.
LEMMA LeapDays ==
  ASSUME NEW era \in Int, NEW yoe \in Int, 0 <= yoe, yoe <= 399
  PROVE  LET march == yoe + 400 * era
         IN /\ march \div 4 - march \div 100 + march \div 400 =
                 yoe \div 4 - yoe \div 100 + 97 * era
            /\ LeapsBefore(march + 1) = yoe \div 4 - yoe \div 100 + 97 * era
            /\ LeapsBefore(march) + (IF IsLeap(march) THEN 1 ELSE 0) =
                 yoe \div 4 - yoe \div 100 + 97 * era
            /\ IsLeap(march + 1) <=>
                 (yoe + 1) % 4 = 0 /\ ((yoe + 1) % 100 = 0 => (yoe + 1) % 400 = 0)
<1> DEFINE march == yoe + 400 * era
<1>1. /\ march \in Int
      /\ march \div 4 = (yoe \div 4) + 100 * era
      /\ march \div 100 = (yoe \div 100) + 4 * era
      /\ march \div 400 = era
  OBVIOUS
<1>2. LeapsBefore(march + 1) = march \div 4 - march \div 100 + march \div 400
  BY DEF LeapsBefore
<1>3. LeapsBefore(march) + (IF IsLeap(march) THEN 1 ELSE 0) =
        march \div 4 - march \div 100 + march \div 400
  <2>1. (march - 1) \div 4 + (IF march % 4 = 0 THEN 1 ELSE 0) = march \div 4
    BY <1>1
  <2>2. (march - 1) \div 100 + (IF march % 100 = 0 THEN 1 ELSE 0) = march \div 100
    BY <1>1
  <2>3. (march - 1) \div 400 + (IF march % 400 = 0 THEN 1 ELSE 0) = march \div 400
    BY <1>1
  <2>4. /\ march % 100 = 0 => march % 4 = 0
        /\ march % 400 = 0 => march % 100 = 0
    BY <1>1
  <2> QED BY <1>1, <2>1, <2>2, <2>3, <2>4 DEF LeapsBefore, IsLeap
<1>4. IsLeap(march + 1) <=>
        (yoe + 1) % 4 = 0 /\ ((yoe + 1) % 100 = 0 => (yoe + 1) % 400 = 0)
  <2>1. /\ (march + 1) % 4 = (yoe + 1) % 4
        /\ (march + 1) % 100 = (yoe + 1) % 100
        /\ (march + 1) % 400 = (yoe + 1) % 400
    OBVIOUS
  <2> QED BY <2>1 DEF IsLeap
<1> QED BY <1>1, <1>2, <1>3, <1>4

\* The date computed of any day, before or after the epoch, exists, and is
\* that day's (webhooks/payload.rs, civil_from_days).
THEOREM CivilDatesAreRight ==
  ASSUME NEW days \in Int
  PROVE  LET date == CivilFromDays(days)
         IN  IsCivil(date) /\ DayNumber(date) = days
<1> DEFINE z   == days + 719468
           era == z \div 146097
           doe == z % 146097
           yoe == YearOfEra(doe)
           doy == doe - DaysBeforeYear(yoe)
           mp  == (5 * doy + 2) \div 153
           month == MonthOf(mp)
           year  == yoe + 400 * era + (IF month <= 2 THEN 1 ELSE 0)
           day   == doy - DaysBefore(mp) + 1
           date  == CivilFromDays(days)
<1>1. /\ era \in Int /\ doe \in Int /\ 0 <= doe /\ doe <= 146096
      /\ days = 146097 * era + doe - 719468
  BY SMT
<1>2. /\ date.year = yoe + era * 400 + (IF month <= 2 THEN 1 ELSE 0)
      /\ date.month = month /\ date.day = day
  <2>1. CivilFromDays(days).year = yoe + era * 400 + (IF month <= 2 THEN 1 ELSE 0)
    BY SMT DEF CivilFromDays, YearOfEra, DaysBeforeYear, MonthOf
  <2>2. CivilFromDays(days).month = month
    BY SMT DEF CivilFromDays, YearOfEra, DaysBeforeYear, MonthOf
  <2>3. CivilFromDays(days).day = day
    BY SMT DEF CivilFromDays, YearOfEra, DaysBeforeYear, DaysBefore
  <2> QED BY SMT, <2>1, <2>2, <2>3
<1>3. /\ yoe \in Int /\ 0 <= yoe /\ yoe <= 399
      /\ doy \in Int /\ 0 <= doy /\ doy <= 365
  BY SMT, <1>1, DayOfEra
<1>4. doe = doy + 365 * yoe + yoe \div 4 - yoe \div 100
  BY SMT, <1>1, <1>3 DEF DaysBeforeYear
<1>5. doy = 365 => (yoe + 1) % 4 = 0 /\ ((yoe + 1) % 100 = 0 => (yoe + 1) % 400 = 0)
  BY SMT, <1>1, LastDayOfYear
<1> HIDE DEF yoe, doe, era, doy
<1>6. /\ mp \in Int /\ 0 <= mp /\ mp <= 11
      /\ DaysBefore(mp) <= doy /\ (mp < 11 => doy < DaysBefore(mp + 1))
  BY SMT, <1>3, MonthsOfYear
<1> HIDE DEF mp
<1>7. month \in 1..12 /\ (month <= 2 <=> mp >= 10) /\ (month > 2 <=> mp < 10)
  BY SMT, <1>6 DEF MonthOf
<1>8. date.year = year /\ date.month = month /\ date.day = day /\ year \in Int
  BY SMT, <1>1, <1>2, <1>3
<1>9. /\ DaysBefore(mp) \in Int /\ day \in Int
      /\ LeapsBefore(1970) = 477
  BY SMT, <1>3, <1>6 DEF DaysBefore, LeapsBefore
<1>10. IsCivil(date)
  <2>1. day \in 1..MonthLength(year, month)
    <3>1. CASE mp < 11
      <4>1. MonthLength(year, month) = DaysBefore(mp + 1) - DaysBefore(mp)
        BY SMT, <1>6, <1>8, <3>1, MonthTable
      <4>2. DaysBefore(mp + 1) \in Int
        BY SMT, <1>6 DEF DaysBefore
      <4> HIDE DEF month, year
      <4> QED BY SMT, <1>3, <1>6, <1>9, <3>1, <4>1, <4>2
    <3>2. CASE mp = 11
      <4>1. year = yoe + 400 * era + 1
        BY SMT, <1>6, <1>7, <3>2
      <4>2. DaysBefore(mp) = 337
        BY SMT, <3>2, DaysBeforeTable
      <4>3. IsLeap(year) <=>
              (yoe + 1) % 4 = 0 /\ ((yoe + 1) % 100 = 0 => (yoe + 1) % 400 = 0)
        BY SMT, <1>1, <1>3, <4>1, LeapDays
      <4>4. MonthLength(year, month) = IF IsLeap(year) THEN 29 ELSE 28
        BY SMT, <1>6, <1>8, <3>2, MonthTable
      <4> QED BY SMT, <1>3, <1>5, <1>6, <1>9, <4>2, <4>3, <4>4
    <3> QED BY SMT, <1>6, <3>1, <3>2
  <2> QED BY SMT, <1>7, <1>8, <2>1 DEF IsCivil
<1>11. DayNumber(date) = days
  <2> DEFINE leaps == yoe \div 4 - yoe \div 100 + 97 * era
  <2>1. leaps \in Int /\ DayNumber(date) =
          365 * (year - 1970) + LeapsBefore(year) - 477
            + DaysBeforeMonth(year, month) + day - 1
    BY SMT, <1>1, <1>3, <1>8, <1>9 DEF DayNumber
  <2>2. days = 146097 * era + doy + 365 * yoe + (leaps - 97 * era) - 719468
    BY SMT, <1>1, <1>3, <1>4
  <2>3. CASE mp < 10
    <3>1. year = yoe + 400 * era
      BY SMT, <1>1, <1>3, <1>7, <2>3
    <3>2. LeapsBefore(year) + (IF IsLeap(year) THEN 1 ELSE 0) = leaps
      BY SMT, <1>1, <1>3, <3>1, LeapDays
    <3>3. DaysBeforeMonth(year, month) =
            59 + DaysBefore(mp) + (IF IsLeap(year) THEN 1 ELSE 0)
      BY SMT, <1>6, <1>8, <2>3, MonthTable
    <3>4. LeapsBefore(year) \in Int
      BY SMT, <1>8 DEF LeapsBefore
    <3> HIDE DEF year, month, leaps
    <3> QED
      BY SMT, <1>1, <1>3, <1>9, <2>1, <2>2, <3>1, <3>2, <3>3, <3>4
  <2>4. CASE mp >= 10
    <3>1. year = yoe + 400 * era + 1
      BY SMT, <1>1, <1>3, <1>7, <2>4
    <3>2. LeapsBefore(year) = leaps
      BY SMT, <1>1, <1>3, <3>1, LeapDays
    <3>3. DaysBeforeMonth(year, month) = DaysBefore(mp) - 306
      BY SMT, <1>6, <1>8, <2>4, MonthTable
    <3> HIDE DEF year, month, leaps
    <3> QED
      BY SMT, <1>1, <1>3, <1>9, <2>1, <2>2, <3>1, <3>2, <3>3
  <2> QED BY SMT, <1>6, <2>3, <2>4
<1> QED BY SMT, <1>10, <1>11

-----------------------------------------------------------------------------
\* Hours, minutes and seconds of a number of seconds of the day.
LEMMA ClockOfDay ==
  ASSUME NEW n \in Int, 0 <= n, n < 86400
  PROVE  /\ n \div 3600 \in 0..23
         /\ (n % 3600) \div 60 \in 0..59
         /\ n % 60 \in 0..59
         /\ n = 3600 * (n \div 3600) + 60 * ((n % 3600) \div 60) + (n % 60)
  BY SMT

\* The timestamps of an event name the instants they are made of: a civil date
\* and a time of day, at most a second before the instant, whatever the instant,
\* before 1970 too (epoch_ms_to_rfc3339: div_euclid and rem_euclid).
THEOREM StampsAreRight ==
  ASSUME NEW instant \in [day : Int, ms : Int]
  PROVE  Stamps(EpochMsToRfc3339(instant), instant)
<1> DEFINE secs == instant.ms \div 1000
           rest == secs % 86400
           carry == secs \div 86400
           stamp == EpochMsToRfc3339(instant)
<1>1. /\ instant.day \in Int /\ instant.ms \in Int
      /\ secs \in Int /\ 1000 * secs <= instant.ms /\ instant.ms < 1000 * secs + 1000
  BY SMT
<1>2. /\ rest \in Int /\ 0 <= rest /\ rest < 86400
      /\ carry \in Int /\ secs = 86400 * carry + rest
  <2> HIDE DEF secs
  <2> QED BY SMT, <1>1 DEF rest, carry
<1>3. /\ stamp.date = CivilFromDays(instant.day + carry)
      /\ stamp.hour = rest \div 3600
      /\ stamp.minute = (rest % 3600) \div 60
      /\ stamp.second = rest % 60
  BY SMT DEF EpochMsToRfc3339
<1> HIDE DEF secs, rest, carry, stamp
<1>4. IsCivil(stamp.date) /\ DayNumber(stamp.date) = instant.day + carry
  <2>1. instant.day + carry \in Int
    BY SMT, <1>1, <1>2
  <2> QED BY SMT, <1>3, <2>1, CivilDatesAreRight
<1>5. /\ stamp.hour \in 0..23 /\ stamp.minute \in 0..59 /\ stamp.second \in 0..59
      /\ rest = 3600 * stamp.hour + 60 * stamp.minute + stamp.second
  <2>1. /\ rest \div 3600 \in 0..23
        /\ (rest % 3600) \div 60 \in 0..59
        /\ rest % 60 \in 0..59
        /\ rest = 3600 * (rest \div 3600) + 60 * ((rest % 3600) \div 60) + (rest % 60)
    BY ONLY <1>2, ClockOfDay
  <2> QED BY ONLY <1>3, <2>1
<1>6. 86400 * (DayNumber(stamp.date) - instant.day)
        + 3600 * stamp.hour + 60 * stamp.minute + stamp.second = secs
  <2>1. /\ DayNumber(stamp.date) - instant.day = carry
        /\ stamp.hour \in Int /\ stamp.minute \in Int /\ stamp.second \in Int
    BY SMT, <1>1, <1>2, <1>4, <1>5
  <2> QED BY SMT, <1>2, <1>5, <2>1
<1>7. Stamps(stamp, instant)
  BY SMT, <1>1, <1>4, <1>5, <1>6 DEF Stamps
<1> QED BY <1>7 DEF stamp

-----------------------------------------------------------------------------
(* The sender *)

\* A finite set of integers has a greatest element.
LEMMA FiniteHasMax ==
  ASSUME NEW T \in SUBSET Int, IsFiniteSet(T), T # {}
  PROVE  \E x \in T : \A y \in T : x >= y
<1> DEFINE Above(x) == {y \in T : y > x}
           Aboves == {Above(x) : x \in T}
<1>1. IsWellFoundedOn(StrictSubsetOrdering(T), SUBSET T)
  BY FS_StrictSubsetOrderingWellFounded, FS_FiniteSubsetsOfFinite
<1>2. Aboves \subseteq SUBSET T /\ Aboves # {}
  OBVIOUS
<1>3. \E a \in Aboves : \A b \in Aboves : <<b, a>> \notin StrictSubsetOrdering(T)
  <2> HIDE DEF Aboves
  <2> QED BY <1>1, <1>2, WFMin
<1>4. PICK x \in T : \A y \in T : <<Above(y), Above(x)>> \notin StrictSubsetOrdering(T)
  BY <1>3
<1>5. ASSUME NEW y \in T, y > x PROVE FALSE
  <2>1. \A z \in T : z > y => z > x
    BY <1>5
  <2>2. y \in Above(x) /\ ~(y > y)
    BY <1>5
  <2>3. <<Above(y), Above(x)>> \in StrictSubsetOrdering(T)
    BY <2>1, <2>2 DEF StrictSubsetOrdering
  <2> QED BY <1>4, <2>3
<1> QED BY <1>5

\* LastOf is the position of the last such token, or 0.
LEMMA LastOfIsLast ==
  ASSUME NEW S, NEW s \in Seq(S), NEW token
  PROVE  /\ LastOf(s, token) \in 0..Len(s)
         /\ LastOf(s, token) # 0 => s[LastOf(s, token)] = token
         /\ \A i \in 1..Len(s) : s[i] = token => i <= LastOf(s, token)
<1> DEFINE T == {i \in 1..Len(s) : s[i] = token}
<1>1. Len(s) \in Nat
  OBVIOUS
<1>2. LastOf(s, token) = IF T # {} THEN CHOOSE x \in T : \A y \in T : x >= y ELSE 0
  BY DEF LastOf, SelectLastInSeq, Max
<1>3. CASE T = {}
  BY <1>1, <1>2, <1>3
<1>4. CASE T # {}
  <2>1. IsFiniteSet(T)
    <3>1. T \in SUBSET (1..Len(s)) /\ IsFiniteSet(1..Len(s))
      BY <1>1, FS_Interval
    <3> HIDE DEF T
    <3> QED BY <3>1, FS_Subset
  <2>2. \E x \in T : \A y \in T : x >= y
    <3>1. T \in SUBSET Int
      BY <1>1
    <3> HIDE DEF T
    <3> QED BY <1>4, <2>1, <3>1, FiniteHasMax
  <2>3. LastOf(s, token) \in T /\ \A y \in T : LastOf(s, token) >= y
    BY <1>2, <1>4, <2>2
  <2> QED BY <1>1, <2>3
<1> QED BY <1>3, <1>4

\* FirstOf finds the only such token, and says 0 when there is none.
LEMMA FirstOfOnly ==
  ASSUME NEW S, NEW s \in Seq(S), NEW token
  PROVE  /\ (\A j \in 1..Len(s) : s[j] # token) => FirstOf(s, token) = 0
         /\ \A i \in 1..Len(s) :
              (\A j \in 1..Len(s) : s[j] = token <=> j = i) => FirstOf(s, token) = i
<1> DEFINE T == {j \in 1..Len(s) : s[j] = token}
<1>1. FirstOf(s, token) = IF T # {} THEN CHOOSE x \in T : \A y \in T : x <= y ELSE 0
  BY DEF FirstOf, SelectInSeq, Min
<1>2. ASSUME \A j \in 1..Len(s) : s[j] # token PROVE FirstOf(s, token) = 0
  BY <1>1, <1>2
<1>3. ASSUME NEW i \in 1..Len(s), \A j \in 1..Len(s) : s[j] = token <=> j = i
      PROVE  FirstOf(s, token) = i
  <2>1. T = {i}
    BY <1>3
  <2>2. \E x \in T : \A y \in T : x <= y
    BY <2>1
  <2> HIDE DEF T
  <2> QED BY <1>1, <2>1, <2>2
<1> QED BY <1>2, <1>3

\* Without a quote there is nothing to trim.
LEMMA NothingToTrim ==
  ASSUME NEW S, NEW s \in Seq(S), \A i \in DOMAIN s : s[i] # "quote"
  PROVE  TrimQuotes(s) = s
<1> DEFINE kept  == {i \in DOMAIN s : s[i] # "quote"}
           first == CHOOSE i \in kept : \A j \in kept : i <= j
           last  == CHOOSE i \in kept : \A j \in kept : i >= j
<1>1. kept = DOMAIN s
  OBVIOUS
<1>2. TrimQuotes(s) = IF kept = {} THEN <<>> ELSE SubSeq(s, first, last)
  BY DEF TrimQuotes
<1> HIDE DEF kept
<1>3. DOMAIN s = 1..Len(s) /\ Len(s) \in Nat
  OBVIOUS
<1>4. CASE DOMAIN s = {}
  <2>1. Len(s) = 0
    BY <1>3, <1>4
  <2> QED BY <1>1, <1>2, <1>4, <2>1, EmptySeq
<1>5. CASE DOMAIN s # {}
  <2>1. Len(s) >= 1
    BY <1>3, <1>5
  <2>2. 1 \in DOMAIN s /\ \A j \in DOMAIN s : 1 <= j
    BY <1>3, <2>1
  <2>3. Len(s) \in DOMAIN s /\ \A j \in DOMAIN s : Len(s) >= j
    BY <1>3, <2>1
  <2>4. first \in DOMAIN s /\ \A j \in DOMAIN s : first <= j
    BY <1>1, <2>2
  <2>5. last \in DOMAIN s /\ \A j \in DOMAIN s : last >= j
    BY <1>1, <2>3
  <2> HIDE DEF first, last
  <2>6. first = 1 /\ last = Len(s)
    BY <1>3, <2>1, <2>2, <2>3, <2>4, <2>5
  <2> QED BY <1>1, <1>2, <1>5, <2>6, SubSeqFull
<1> QED BY <1>4, <1>5

\* The payload names the sender the native filters test: with at most one ">"
\* in the From, and no quote in the address, ParsedAddress::parse and the
\* filters' extract_address read the same.
THEOREM SenderIsTheFilters ==
  ASSUME NEW S, NEW raw \in Seq(S),
         \A i, j \in DOMAIN raw : raw[i] = ">" /\ raw[j] = ">" => i = j,
         ~Contains(FilterAddress(raw), "quote")
  PROVE  ParseAddress(raw).email = FilterAddress(raw)
<1> DEFINE open == LastOf(raw, "<")
           gt   == LastOf(raw, ">")
           rest == SubSeq(raw, open, Len(raw))
           close == open - 1 + FirstOf(rest, ">")
<1>1. /\ Len(raw) \in Nat /\ DOMAIN raw = 1..Len(raw)
      /\ open \in 0..Len(raw) /\ gt \in 0..Len(raw)
      /\ open # 0 => raw[open] = "<"
      /\ gt # 0 => raw[gt] = ">"
      /\ \A i \in 1..Len(raw) : raw[i] = ">" => i = gt
  <2>1. /\ open \in 0..Len(raw) /\ gt \in 0..Len(raw)
        /\ open # 0 => raw[open] = "<"
        /\ gt # 0 => raw[gt] = ">"
        /\ \A i \in 1..Len(raw) : raw[i] = ">" => i <= gt
    BY LastOfIsLast
  <2> HIDE DEF open, gt
  <2>2. \A i \in 1..Len(raw) : raw[i] = ">" => i = gt
    BY <2>1
  <2> QED BY <2>1, <2>2
<1>2. FilterAddress(raw) =
        IF open # 0 /\ gt # 0 /\ open < gt THEN SubSeq(raw, open + 1, gt - 1) ELSE raw
  BY DEF FilterAddress, Between
<1>3. ParseAddress(raw).email =
        IF open # 0 /\ close > open THEN SubSeq(raw, open + 1, close - 1)
                                    ELSE TrimQuotes(raw)
  BY DEF ParseAddress
<1> HIDE DEF open, gt
<1>4. ASSUME open # 0
      PROVE  /\ rest \in Seq(S) /\ Len(rest) = Len(raw) - open + 1
             /\ \A i \in 1..Len(rest) : rest[i] = raw[open + i - 1]
  <2>1. open \in Int /\ Len(raw) \in Int /\ open <= Len(raw)
        /\ \A i \in open..Len(raw) : raw[i] \in S
    BY <1>1, <1>4
  <2>2. /\ rest \in Seq(S)
        /\ Len(rest) = IF open <= Len(raw) THEN Len(raw) - open + 1 ELSE 0
        /\ \A i \in 1..(Len(raw) - open + 1) : rest[i] = raw[open + i - 1]
    BY <2>1, SubSeqProperties
  <2> QED BY <2>1, <2>2
<1> HIDE DEF rest
<1>5. CASE open # 0 /\ gt # 0 /\ open < gt
  <2> DEFINE k == gt - open + 1
  <2>1. k \in 1..Len(rest) /\ rest[k] = ">"
    BY <1>1, <1>4, <1>5, SMTT(30)
  <2>2. \A j \in 1..Len(rest) : rest[j] = ">" => j = k
    <3> SUFFICES ASSUME NEW j \in 1..Len(rest), rest[j] = ">" PROVE j = k
      OBVIOUS
    <3>1. open + j - 1 \in 1..Len(raw) /\ raw[open + j - 1] = ">"
      BY <1>1, <1>4, <1>5
    <3>2. open + j - 1 = gt
      BY <1>1, <3>1
    <3> QED BY <1>1, <3>2
  <2>3. FirstOf(rest, ">") = k
    <3> HIDE DEF k
    <3> QED BY <1>4, <1>5, <2>1, <2>2, FirstOfOnly
  <2>4. close = gt
    BY <1>1, <2>3
  <2> HIDE DEF close
  <2> QED BY <1>2, <1>3, <1>5, <2>4
<1>6. CASE ~(open # 0 /\ gt # 0 /\ open < gt)
  <2>1. open # 0 => ~(close > open)
    <3> SUFFICES ASSUME open # 0 PROVE ~(close > open)
      OBVIOUS
    <3>1. \A j \in 1..Len(rest) : rest[j] # ">"
      <4> SUFFICES ASSUME NEW j \in 1..Len(rest), rest[j] = ">" PROVE FALSE
        OBVIOUS
      <4>1. open + j - 1 \in 1..Len(raw) /\ raw[open + j - 1] = ">"
        BY <1>1, <1>4
      <4>2. open + j - 1 = gt
        BY <1>1, <4>1
      <4>3. j = 1
        BY <1>1, <1>4, <1>6, <4>1, <4>2
      <4> QED BY <1>1, <4>1, <4>3
    <3>2. FirstOf(rest, ">") = 0
      BY <1>4, <3>1, FirstOfOnly
    <3> QED BY <1>1, <3>2
  <2>2. FilterAddress(raw) = raw /\ ParseAddress(raw).email = TrimQuotes(raw)
    BY <1>2, <1>3, <1>6, <2>1
  <2>3. \A i \in DOMAIN raw : raw[i] # "quote"
    BY <1>1, <2>2 DEF Contains
  <2> QED BY <2>2, <2>3, NothingToTrim
<1> QED BY <1>5, <1>6

-----------------------------------------------------------------------------
(* The inductive invariant *)

Reports == [http_status : Status \cup {None, 0}, attempts : Nat, succeeded : BOOLEAN]

Configured ==
  /\ webhook \in [max_attempts : MaxAttempts, exponential : BOOLEAN,
                  valid_method : BOOLEAN, renders : BOOLEAN]
  /\ event \in Events

\* There is a report when there is something to record, and a row at the end.
ReportedAtTheEnd ==
  /\ pc = "record" => report # None
  /\ pc \notin {"record", "end"} => report = None
  /\ pc # "end" => row = None

\* A sleep after every attempt that was not the last.
SleptBetween ==
  /\ \A i \in DOMAIN waits : waits[i] = BackoffDelay(i)
  /\ pc \in {"render", "post", "wait"} => Len(waits) = attempt - 1
  /\ pc = "backoff" => Len(waits) = attempt /\ attempt < Budget
  /\ report # None => report.attempts = attempt /\ Len(waits) = attempt - 1

\* Each attempt is one request.
SentEach ==
  /\ pc \in {"render", "post"} => sent = attempt - 1
  /\ pc \in {"wait", "backoff"} => sent = attempt
  /\ sent <= attempt
  /\ inflight \subseteq 1..sent /\ accepted \subseteq 1..sent

\* A 2xx in hand was answered to the attempt under way.
ReplyIsToThisAttempt ==
  pc = "wait" /\ reply # None /\ IsSuccess(reply) => attempt \in accepted

Inv ==
  /\ TypeOK /\ Configured /\ ReportedAtTheEnd /\ SleptBetween /\ SentEach
  /\ ReplyIsToThisAttempt /\ SuccessIsReal /\ FailureUsedBudget

-----------------------------------------------------------------------------
\* At least one attempt is made, whatever the configuration says.
LEMMA BudgetIsPositive ==
  ASSUME Configured
  PROVE  Budget \in Nat \ {0}
<1>1. MaxAttempts \subseteq Nat
  BY DeliveryAssumption
<1>2. webhook.max_attempts \in MaxAttempts
  BY DEF Configured
<1>3. webhook.max_attempts \in Nat
  BY <1>1, <1>2
<1>4. Budget = IF webhook.max_attempts = 0 THEN 1 ELSE webhook.max_attempts
  BY DEF Budget
<1> QED BY <1>3, <1>4

\* Delays are whole seconds.
LEMMA BackoffIsNat ==
  ASSUME NEW n \in Nat \ {0}
  PROVE  BackoffDelay(n) \in Nat
<1>1. /\ 4^0 \in Nat /\ 4^1 \in Nat /\ 4^2 \in Nat /\ 4^3 \in Nat
      /\ 4^4 \in Nat /\ 4^5 \in Nat /\ 4^6 \in Nat /\ 4^7 \in Nat
      /\ 4^8 \in Nat /\ 4^9 \in Nat /\ 4^10 \in Nat
  OBVIOUS
<1> DEFINE k == IF n - 1 < 10 THEN n - 1 ELSE 10
<1>2. \/ k = 0 \/ k = 1 \/ k = 2 \/ k = 3 \/ k = 4 \/ k = 5
      \/ k = 6 \/ k = 7 \/ k = 8 \/ k = 9 \/ k = 10
  OBVIOUS
<1>3. BackoffDelay(n) = IF webhook.exponential THEN 4^k ELSE 1
  BY DEF BackoffDelay
<1> HIDE DEF k
<1>4. 4^k \in Nat
  BY <1>1, <1>2
<1> QED BY <1>3, <1>4

-----------------------------------------------------------------------------
\* A delivery starts in the invariant.
LEMMA InitInv == Init => Inv
<1> SUFFICES ASSUME Init PROVE Inv
  OBVIOUS
<1>1. Configured
  BY DEF Init, Configured
<1>2. Budget \in Nat \ {0}
  BY <1>1, BudgetIsPositive
<1>3. waits \in Seq(Nat) /\ DOMAIN waits = {} /\ Len(waits) = 0
  BY EmptySeq DEF Init
<1> QED
  BY <1>1, <1>2, <1>3
     DEF Init, Inv, TypeOK, ReportedAtTheEnd, SleptBetween, SentEach,
         ReplyIsToThisAttempt, SuccessIsReal, FailureUsedBudget

\* What a report says of the last attempt.
Justified(status, succeeded) ==
  IF succeeded THEN IsSuccess(status) /\ attempt \in accepted
  ELSE status = None \/ IsRetryable(status) => attempt = Budget

\* A justified report of the attempt under way ends the loop.
LEMMA ReportStep ==
  ASSUME Inv, pc \in {"post", "wait"}, pc' = "record",
         NEW status \in Status \cup {None, 0}, NEW succeeded \in BOOLEAN,
         report' = Report(status, attempt, succeeded),
         Justified(status, succeeded),
         last_status' \in Status \cup {None}, reply' \in Status \cup {None},
         UNCHANGED <<webhook, event, body, attempt, waits, row, inflight,
                     accepted, sent>>
  PROVE  Inv'
<1> USE DEF Inv
<1>1. UNCHANGED Budget /\ Budget \in Nat \ {0}
  BY BudgetIsPositive DEF Budget
<1>2. \A n : BackoffDelay(n)' = BackoffDelay(n)
  BY DEF BackoffDelay
<1>3. /\ report'.http_status = status /\ report'.attempts = attempt
      /\ report'.succeeded = succeeded
  BY DEF Report
<1>4. attempt \in 1..Budget
  BY DEF TypeOK
<1>5. /\ report' \in [http_status : Status \cup {None, 0}, attempts : 1..Budget,
                      succeeded : BOOLEAN]
      /\ report' \in Reports
  BY <1>1, <1>4 DEF Report, Reports
<1>6. report' # None
  BY <1>5, NoneIsNone DEF Reports
<1>7. Configured'
  BY DEF Configured
<1>8. row = None
  BY DEF ReportedAtTheEnd
<1>9. TypeOK'
  BY <1>1, <1>5, <1>8 DEF TypeOK
<1>10. ReportedAtTheEnd'
  BY <1>6, <1>8 DEF ReportedAtTheEnd
<1>11. Len(waits) = attempt - 1
  BY DEF SleptBetween
<1>12. SleptBetween'
  BY <1>1, <1>2, <1>3, <1>11 DEF SleptBetween
<1>13. SentEach' /\ ReplyIsToThisAttempt'
  BY DEF SentEach, ReplyIsToThisAttempt
<1>14. SuccessIsReal'
  BY <1>3 DEF SuccessIsReal, Justified
<1>15. FailureUsedBudget'
  BY <1>1, <1>2, <1>3, <1>11 DEF FailureUsedBudget, Justified, SleptBetween
<1> QED
  BY <1>7, <1>9, <1>10, <1>12, <1>13, <1>14, <1>15

\* A transient failure sleeps and goes on, or used the budget up.
LEMMA RetryableStep ==
  ASSUME Inv, pc = "wait", NEW status \in Status \cup {None},
         status = None \/ IsRetryable(status), Retryable(status)
  PROVE  Inv'
<1> USE DEF Inv
<1>1. UNCHANGED Budget /\ Budget \in Nat \ {0}
  BY BudgetIsPositive DEF Budget, Retryable
<1>2. \A n : BackoffDelay(n)' = BackoffDelay(n)
  BY DEF BackoffDelay, Retryable
<1>3. attempt \in 1..Budget
  BY DEF TypeOK
<1>4. CASE attempt < Budget
  <2>1. /\ pc' = "backoff" /\ waits' = Append(waits, BackoffDelay(attempt))
        /\ UNCHANGED <<report, webhook, event, body, attempt, row, consumer, sent>>
        /\ last_status' = status
    BY <1>4 DEF Retryable
  <2>2. BackoffDelay(attempt) \in Nat
    BY <1>3, BackoffIsNat
  <2>3. waits \in Seq(Nat) /\ Len(waits) \in Nat /\ DOMAIN waits = 1..Len(waits)
    BY LenProperties DEF TypeOK
  <2>4. /\ waits' \in Seq(Nat) /\ Len(waits') = Len(waits) + 1
        /\ \A i \in 1..Len(waits) : waits'[i] = waits[i]
        /\ waits'[Len(waits) + 1] = BackoffDelay(attempt)
    BY <2>1, <2>2, <2>3, AppendProperties
  <2>5. DOMAIN waits' = 1..(Len(waits) + 1)
    BY <2>4, LenProperties
  <2>6. Len(waits) = attempt - 1 /\ report = None
    BY DEF SleptBetween, ReportedAtTheEnd
  <2>7. \A i \in DOMAIN waits' : waits'[i] = BackoffDelay(i)
    <3>1. SUFFICES ASSUME NEW i \in 1..(Len(waits) + 1)
                   PROVE  waits'[i] = BackoffDelay(i)
      BY <2>5
    <3>2. CASE i \in 1..Len(waits)
      BY <2>3, <2>4, <3>2 DEF SleptBetween
    <3>3. CASE i = Len(waits) + 1
      <4>1. i = attempt
        BY <1>3, <2>6, <3>3
      <4> QED BY <2>4, <3>3, <4>1
    <3> QED BY <2>3, <3>2, <3>3
  <2>8. TypeOK' /\ Configured' /\ ReportedAtTheEnd'
    BY <1>1, <2>1, <2>4 DEF TypeOK, Configured, ReportedAtTheEnd, consumer
  <2>9. SleptBetween'
    <3>1. \A i \in DOMAIN waits' : waits'[i] = BackoffDelay(i)'
      BY <1>2, <2>7
    <3>2. Len(waits') = attempt' /\ attempt' < Budget' /\ report' = None
      BY <1>1, <1>3, <1>4, <2>1, <2>4, <2>6
    <3> QED BY <2>1, <3>1, <3>2 DEF SleptBetween
  <2>10. SentEach' /\ ReplyIsToThisAttempt'
    BY <2>1 DEF SentEach, ReplyIsToThisAttempt, consumer
  <2>11. SuccessIsReal' /\ FailureUsedBudget'
    BY <2>1, <2>6 DEF SuccessIsReal, FailureUsedBudget
  <2> QED BY <2>8, <2>9, <2>10, <2>11
<1>5. CASE ~(attempt < Budget)
  <2>1. Justified(status, FALSE)
    BY <1>1, <1>3, <1>5 DEF Justified
  <2>2. /\ pc' = "record" /\ report' = Report(status, attempt, FALSE)
        /\ UNCHANGED <<waits, webhook, event, body, attempt, row, inflight,
                       accepted, reply, sent>>
        /\ last_status' = status
    BY <1>5 DEF Retryable, consumer
  <2>3. reply' \in Status \cup {None} /\ last_status' \in Status \cup {None}
    BY <2>2 DEF TypeOK
  <2>4. FALSE \in BOOLEAN
    OBVIOUS
  <2> QED BY <2>1, <2>2, <2>3, <2>4, ReportStep
<1> QED BY <1>4, <1>5

\* Sending a request keeps the invariant.
LEMMA PostStep ==
  ASSUME Inv, Post
  PROVE  Inv'
<1> USE DEF Inv
<1>1. CASE webhook.valid_method
  <2>1. /\ pc = "post" /\ pc' = "wait" /\ inflight' = inflight \cup {attempt}
        /\ sent' = sent + 1 /\ reply' = None
        /\ UNCHANGED <<webhook, event, body, attempt, last_status, waits, report,
                       row, accepted>>
    BY <1>1 DEF Post, daemon
  <2>2. UNCHANGED Budget /\ Budget \in Nat \ {0}
    BY <2>1, BudgetIsPositive DEF Budget
  <2>3. \A n : BackoffDelay(n)' = BackoffDelay(n)
    BY <2>1 DEF BackoffDelay
  <2>4. sent = attempt - 1 /\ attempt \in 1..Budget
    BY <2>1 DEF SentEach, TypeOK
  <2>5. TypeOK' /\ Configured' /\ ReportedAtTheEnd'
    BY <2>1, <2>2, <2>4 DEF TypeOK, Configured, ReportedAtTheEnd
  <2>6. SleptBetween' /\ SuccessIsReal' /\ FailureUsedBudget'
    BY <2>1, <2>2, <2>3
       DEF SleptBetween, SuccessIsReal, FailureUsedBudget, ReportedAtTheEnd
  <2>7. SentEach' /\ ReplyIsToThisAttempt'
    BY <2>1, <2>2, <2>4 DEF SentEach, ReplyIsToThisAttempt
  <2> QED BY <2>5, <2>6, <2>7
<1>2. CASE ~webhook.valid_method
  <2>1. /\ pc = "post" /\ pc' = "record" /\ report' = Report(0, attempt, FALSE)
        /\ reply' = None
        /\ UNCHANGED <<webhook, event, body, attempt, last_status, waits, row,
                       inflight, accepted, sent>>
    BY <1>2 DEF Post, Conclude
  <2>2. Justified(0, FALSE)
    BY DeliveryAssumption DEF Justified, IsRetryable
  <2>3. last_status' \in Status \cup {None}
    BY <2>1 DEF TypeOK
  <2>4. FALSE \in BOOLEAN
    OBVIOUS
  <2> QED BY <2>1, <2>2, <2>3, <2>4, ReportStep
<1> QED BY <1>1, <1>2

\* An answer keeps the invariant.
LEMMA AnsweredStep ==
  ASSUME Inv, Answered
  PROVE  Inv'
<1> USE DEF Inv
<1>1. pc = "wait" /\ reply # None /\ reply \in Status
  BY DEF Answered, TypeOK
<1>2. /\ TRUE \in BOOLEAN /\ FALSE \in BOOLEAN
      /\ last_status \in Status \cup {None} /\ reply \in Status \cup {None, 0}
  BY <1>1 DEF TypeOK
<1>3. CASE IsSuccess(reply) /\ Conclude(Report(reply, attempt, TRUE))
           /\ UNCHANGED <<consumer, sent>>
  <2>1. Justified(reply, TRUE)
    BY <1>1, <1>3 DEF Justified, ReplyIsToThisAttempt
  <2> QED
    BY <1>1, <1>2, <1>3, <2>1, ReportStep DEF Conclude, consumer
<1>4. CASE ~IsSuccess(reply) /\ ~IsRetryable(reply)
           /\ Conclude(Report(reply, attempt, FALSE)) /\ UNCHANGED <<consumer, sent>>
  <2>1. Justified(reply, FALSE)
    BY <1>1, <1>4 DEF Justified
  <2> QED
    BY <1>1, <1>2, <1>4, <2>1, ReportStep DEF Conclude, consumer
<1>5. CASE IsRetryable(reply) /\ Retryable(reply)
  BY <1>1, <1>5, RetryableStep
<1> QED BY <1>3, <1>4, <1>5 DEF Answered

\* A request handled by the endpoint keeps the invariant.
LEMMA HandleStep ==
  ASSUME Inv, NEW n \in inflight, NEW s \in Status, Handle(n, s)
  PROVE  Inv'
<1> USE DEF Inv
<1>1. /\ inflight' = inflight \ {n}
      /\ accepted' = IF IsSuccess(s) THEN accepted \cup {n} ELSE accepted
      /\ reply' = IF pc = "wait" /\ n = attempt THEN s ELSE reply
      /\ UNCHANGED <<pc, webhook, event, body, attempt, last_status, waits,
                     report, row, sent>>
  BY DEF Handle, daemon
<1>2. UNCHANGED Budget
  BY <1>1 DEF Budget
<1>3. \A i : BackoffDelay(i)' = BackoffDelay(i)
  BY <1>1 DEF BackoffDelay
<1>4. accepted \subseteq accepted' /\ accepted' \subseteq accepted \cup {n}
  BY <1>1
<1>5. TypeOK' /\ Configured' /\ ReportedAtTheEnd'
  BY <1>1, <1>2, <1>4 DEF TypeOK, Configured, ReportedAtTheEnd
<1>6. SleptBetween' /\ FailureUsedBudget'
  BY <1>1, <1>2, <1>3 DEF SleptBetween, FailureUsedBudget
<1>7. SentEach' /\ SuccessIsReal'
  BY <1>1, <1>4 DEF SentEach, SuccessIsReal
<1>8. ReplyIsToThisAttempt'
  BY <1>1, <1>4 DEF ReplyIsToThisAttempt
<1> QED BY <1>5, <1>6, <1>7, <1>8

\* Every step keeps the invariant.
LEMMA InvStep ==
  ASSUME Inv, [Next]_vars
  PROVE  Inv'
<1> USE DEF Inv
<1> DEFINE Quiet == UNCHANGED <<webhook, event, waits, attempt, report>>
<1>1. ASSUME Quiet
      PROVE  /\ UNCHANGED Budget /\ Configured'
             /\ \A i : BackoffDelay(i)' = BackoffDelay(i)
  BY <1>1 DEF Budget, Configured, BackoffDelay
<1>2. CASE Render
  <2>1. Quiet
    BY <1>2 DEF Render
  <2>2. pc' = "post" => body' # None
    BY <1>2, NoneIsNone DEF Render, Configured
  <2> QED
    BY <1>1, <1>2, <2>1, <2>2
       DEF Render, consumer, TypeOK, ReportedAtTheEnd, SleptBetween, SentEach,
           ReplyIsToThisAttempt, SuccessIsReal, FailureUsedBudget
<1>3. CASE Post
  BY <1>3, PostStep
<1>4. CASE Answered
  BY <1>4, AnsweredStep
<1>5. CASE TransportError
  BY <1>5, RetryableStep DEF TransportError
<1>6. CASE BackoffEnds
  <2>1. /\ pc = "backoff" /\ pc' = "post" /\ attempt' = attempt + 1
        /\ UNCHANGED <<webhook, event, body, last_status, waits, report, row,
                       inflight, accepted, reply, sent>>
    BY <1>6 DEF BackoffEnds, consumer
  <2>2. UNCHANGED Budget /\ Budget \in Nat \ {0} /\ Configured'
    BY <2>1, BudgetIsPositive DEF Budget, Configured
  <2>3. \A i : BackoffDelay(i)' = BackoffDelay(i)
    BY <2>1 DEF BackoffDelay
  <2>4. report = None
    BY <2>1 DEF ReportedAtTheEnd
  <2> QED
    BY <2>1, <2>2, <2>3, <2>4
       DEF TypeOK, ReportedAtTheEnd, SleptBetween, SentEach,
           ReplyIsToThisAttempt, SuccessIsReal, FailureUsedBudget
<1>7. CASE Record
  <2>1. Quiet
    BY <1>7 DEF Record
  <2> QED
    BY <1>1, <1>7, <2>1
       DEF Record, consumer, TypeOK, ReportedAtTheEnd, SleptBetween, SentEach,
           ReplyIsToThisAttempt, SuccessIsReal, FailureUsedBudget
<1>8. CASE Crash
  <2>1. Quiet
    BY <1>8 DEF Crash, daemon
  <2> QED
    BY <1>1, <1>8, <2>1
       DEF Crash, daemon, consumer, TypeOK, ReportedAtTheEnd, SleptBetween,
           SentEach, ReplyIsToThisAttempt, SuccessIsReal, FailureUsedBudget
<1>9. ASSUME NEW n \in inflight, RequestLost(n) PROVE Inv'
  <2>1. Quiet
    BY <1>9 DEF RequestLost, daemon
  <2> QED
    BY <1>1, <1>9, <2>1
       DEF RequestLost, daemon, TypeOK, ReportedAtTheEnd, SleptBetween,
           SentEach, ReplyIsToThisAttempt, SuccessIsReal, FailureUsedBudget
<1>10. ASSUME NEW n \in inflight, NEW s \in Status, Handle(n, s) PROVE Inv'
  BY <1>10, HandleStep
<1>11. CASE UNCHANGED vars
  <2>1. Quiet
    BY <1>11 DEF vars, daemon
  <2> QED
    BY <1>1, <1>11, <2>1
       DEF vars, daemon, consumer, TypeOK, ReportedAtTheEnd, SleptBetween,
           SentEach, ReplyIsToThisAttempt, SuccessIsReal, FailureUsedBudget
<1> QED
  BY <1>2, <1>3, <1>4, <1>5, <1>6, <1>7, <1>8, <1>9, <1>10, <1>11
     DEF Next, Deliver, Consumer

\* The invariant holds in every reachable state.
THEOREM InvInductive == Spec => []Inv
<1>1. Inv /\ [Next]_vars => Inv'
  BY InvStep
<1> QED BY <1>1, InitInv, PTL DEF Spec

\* The delivery's state keeps its types: attempts stay within the budget and
\* the audit row is the report or nothing (webhooks/emitter.rs).
THEOREM TypeCorrect == Spec => []TypeOK
<1>1. Inv => TypeOK
  BY DEF Inv
<1> QED BY <1>1, InvInductive, PTL

\* A success is reported only of an attempt the consumer did accept, however
\* late answers and retries overtake each other (webhooks/emitter.rs, deliver).
THEOREM SuccessIsAccepted == Spec => []SuccessIsReal
<1>1. Inv => SuccessIsReal
  BY DEF Inv
<1> QED BY <1>1, InvInductive, PTL

\* A transient failure is reported only once the budget is used up, with the
\* prescribed sleep between attempts (webhooks/emitter.rs, deliver).
THEOREM FailureHasUsedBudget == Spec => []FailureUsedBudget
<1>1. Inv => FailureUsedBudget
  BY DEF Inv
<1> QED BY <1>1, InvInductive, PTL

-----------------------------------------------------------------------------
(* The event *)

\* What is posted, at every attempt, is the event built of this message.
BodyIsBuilt ==
  /\ event \in Events
  /\ body # None => body = Build(event.context, event.now)

\* The body sent is the one built from the event.
LEMMA BodyStaysBuilt == Spec => []BodyIsBuilt
<1>1. Init => BodyIsBuilt
  BY DEF Init, BodyIsBuilt
<1>2. BodyIsBuilt /\ [Next]_vars => BodyIsBuilt'
  <2> SUFFICES ASSUME BodyIsBuilt, [Next]_vars PROVE BodyIsBuilt'
    OBVIOUS
  <2>1. CASE Render
    BY <2>1 DEF Render, BodyIsBuilt
  <2>2. ASSUME UNCHANGED <<event, body>> PROVE BodyIsBuilt'
    BY <2>2 DEF BodyIsBuilt
  <2>3. CASE Post \/ Answered \/ TransportError
    BY <2>2, <2>3 DEF Post, Conclude, Answered, TransportError, Retryable, daemon
  <2>4. CASE BackoffEnds \/ Record \/ Crash \/ UNCHANGED vars
    BY <2>2, <2>4 DEF BackoffEnds, Record, Crash, vars, daemon
  <2>5. CASE Consumer
    BY <2>2, <2>5 DEF Consumer, RequestLost, Handle, daemon
  <2> QED BY <2>1, <2>3, <2>4, <2>5 DEF Next, Deliver
<1> QED BY <1>1, <1>2, PTL DEF Spec

\* One position of a token at most, unless there are several.
LEMMA AtMostOne ==
  ASSUME NEW S, NEW s \in Seq(S), NEW token,
         ~(Cardinality({i \in DOMAIN s : s[i] = token}) > 1)
  PROVE  \A i, j \in DOMAIN s : s[i] = token /\ s[j] = token => i = j
<1> DEFINE T == {i \in DOMAIN s : s[i] = token}
<1> SUFFICES ASSUME NEW i \in T, NEW j \in T, i # j PROVE FALSE
  OBVIOUS
<1>1. T \in SUBSET (1..Len(s)) /\ IsFiniteSet(1..Len(s))
  BY FS_Interval
<1> DEFINE pair == {i} \cup {j}
<1>2. pair \in SUBSET T /\ ~(Cardinality(T) > 1)
  OBVIOUS
<1>3. IsFiniteSet({i}) /\ Cardinality({i}) = 1 /\ j \notin {i}
  BY FS_Singleton
<1>4. Cardinality(pair) = IF j \in {i} THEN Cardinality({i}) ELSE Cardinality({i}) + 1
  BY <1>3, FS_AddElement, Zenon
<1> HIDE DEF T, pair
<1>5. IsFiniteSet(T) /\ Cardinality(T) \in Nat
  BY <1>1, FS_Subset, FS_CardinalityType
<1>6. Cardinality(pair) <= Cardinality(T)
  BY <1>2, <1>5, FS_Subset
<1>7. Cardinality(pair) = 2
  BY <1>3, <1>4
<1> QED BY <1>2, <1>5, <1>6, <1>7

\* An event's dates are those of its instants, and its sender the address the
\* native filters test, for any message (webhooks/payload.rs).
THEOREM AnnouncesTheTruth == Spec => []EventIsTrue
<1>1. BodyIsBuilt => EventIsTrue
  <2> SUFFICES ASSUME BodyIsBuilt, body # None PROVE EventIsTrue
    BY DEF EventIsTrue
  <2> DEFINE envelope == event.context.envelope
             from     == envelope.from
             closing  == {i \in DOMAIN from : from[i] = ">"}
  <2>1. /\ event.now \in [day : Int, ms : Int]
        /\ envelope.date \in [day : Int, ms : Int] /\ from \in Seq(STRING)
    BY EventsAssumption DEF BodyIsBuilt
  <2>2. /\ body.timestamp = EpochMsToRfc3339(event.now)
        /\ body.message.date = EpochMsToRfc3339(envelope.date)
        /\ body.message.from.email = ParseAddress(from).email
    BY DEF BodyIsBuilt, Build
  <2>3. /\ Stamps(EpochMsToRfc3339(event.now), event.now)
        /\ Stamps(EpochMsToRfc3339(envelope.date), envelope.date)
    BY <2>1, StampsAreRight
  <2>4. ASSUME ~(Cardinality(closing) > 1), ~Contains(FilterAddress(from), "quote")
        PROVE  ParseAddress(from).email = FilterAddress(from)
    <3> HIDE DEF from
    <3>1. \A i, j \in DOMAIN from : from[i] = ">" /\ from[j] = ">" => i = j
      BY <2>1, <2>4, AtMostOne
    <3> QED BY <2>1, <2>4, <3>1, SenderIsTheFilters
  <2> QED BY <2>2, <2>3, <2>4 DEF EventIsTrue
<1> QED BY <1>1, BodyStaysBuilt, PTL

-----------------------------------------------------------------------------
(* The delivery implements its contract *)

\* The refinement mapping.
Verdict ==
  CASE report = None /\ pc # "end" -> "none"
    [] report = None /\ pc = "end" -> "lost"
    [] report # None -> IF report.succeeded THEN "succeeded" ELSE "failed"

seen == <<Budget, sent, Cardinality(accepted), Verdict>>

\* Answers are counted: one more, or the same.
LEMMA AcceptedCount ==
  ASSUME Inv
  PROVE  /\ IsFiniteSet(accepted) /\ Cardinality(accepted) \in Nat
         /\ accepted # {} => Cardinality(accepted) > 0
         /\ \A n \in 1..sent : n \notin accepted =>
              /\ Cardinality(accepted) < sent
              /\ Cardinality(accepted \cup {n}) = Cardinality(accepted) + 1
<1>1. sent \in Nat /\ accepted \subseteq 1..sent
  BY BudgetIsPositive DEF Inv, SentEach, TypeOK
<1>2. IsFiniteSet(1..sent) /\ Cardinality(1..sent) = sent
  BY <1>1, FS_Interval
<1>3. IsFiniteSet(accepted) /\ Cardinality(accepted) \in Nat
  BY <1>1, <1>2, FS_Subset, FS_CardinalityType
<1>4. accepted # {} => Cardinality(accepted) > 0
  BY <1>3, FS_EmptySet
<1>5. ASSUME NEW n \in 1..sent, n \notin accepted
      PROVE  /\ Cardinality(accepted) < sent
             /\ Cardinality(accepted \cup {n}) = Cardinality(accepted) + 1
  <2>1. Cardinality(accepted \cup {n}) = Cardinality(accepted) + 1
    BY <1>3, <1>5, FS_AddElement
  <2>2. Cardinality(accepted \cup {n}) <= sent
    BY <1>1, <1>2, <1>5, FS_Subset
  <2> QED BY <1>1, <1>3, <2>1, <2>2
<1> QED BY <1>3, <1>4, <1>5

\* A step of the daemon that leaves the consumer alone and has no verdict
\* before it is a try, a conclusion or nothing.
LEMMA VerdictNone ==
  ASSUME Inv, pc \notin {"record", "end"}
  PROVE  report = None /\ Verdict = "none"
BY DEF Inv, ReportedAtTheEnd, Verdict

\* Reporting is the contract's conclusion.
LEMMA ConcludeRefines ==
  ASSUME Inv, pc \notin {"record", "end"}, pc' = "record",
         NEW status \in Status \cup {None, 0}, NEW succeeded \in BOOLEAN,
         report' = Report(status, attempt, succeeded),
         succeeded => attempt \in accepted,
         UNCHANGED <<webhook, accepted, sent>>
  PROVE  Contract!Next
<1>1. Verdict = "none"
  BY VerdictNone
<1>2. attempt \in Nat
  BY BudgetIsPositive DEF Inv, TypeOK
<1>3. report' \in Reports /\ report'.succeeded = succeeded
  BY <1>2 DEF Report, Reports
<1>4. report' # None
  BY <1>3, NoneIsNone DEF Reports
<1>5. Verdict' = IF succeeded THEN "succeeded" ELSE "failed"
  BY <1>3, <1>4 DEF Verdict
<1>6. succeeded => Cardinality(accepted) > 0
  BY AcceptedCount
<1>7. UNCHANGED <<Budget, sent, Cardinality(accepted)>>
  BY DEF Budget
<1>8. Contract!Conclude
  BY <1>1, <1>5, <1>6, <1>7 DEF Contract!Conclude, Verdict
<1> QED BY <1>8 DEF Contract!Next

\* Every delivery keeps the contract: attempts within the budget, one verdict,
\* success only when accepted (webhooks/emitter.rs).
THEOREM ImplementsDeliveryContract == Spec => ImplementsContract
<1>1. Init => Contract!Init
  <2> SUFFICES ASSUME Init PROVE Contract!Init
    OBVIOUS
  <2>1. Budget \in Nat \ {0}
    BY InitInv, BudgetIsPositive DEF Inv
  <2>2. Cardinality(accepted) = 0
    BY FS_EmptySet DEF Init
  <2> QED BY <2>1, <2>2 DEF Init, Contract!Init
<1>2. Inv /\ [Next]_vars => [Contract!Next]_(Contract!contractVars)
  <2> SUFFICES ASSUME Inv, [Next]_vars
               PROVE  Contract!Next \/ UNCHANGED seen
    BY DEF Contract!contractVars, seen, Verdict
  <2> USE DEF Inv
  <2>1. ASSUME UNCHANGED <<webhook, accepted, sent, report>>,
               (pc # "end" /\ pc' # "end") \/ report # None \/ UNCHANGED pc
        PROVE  UNCHANGED seen
    BY <2>1 DEF seen, Verdict, Budget
  <2>2. ASSUME UNCHANGED <<webhook, accepted, sent, report>>,
               report = None, pc # "end", pc' = "end"
        PROVE  Contract!Next
    <3>1. Verdict = "none" /\ Verdict' = "lost" /\ UNCHANGED Budget
      BY <2>2 DEF Verdict, Budget
    <3>2. Contract!Conclude
      BY <2>2, <3>1 DEF Contract!Conclude, Verdict
    <3> QED BY <3>2 DEF Contract!Next
  <2>3. TRUE \in BOOLEAN /\ FALSE \in BOOLEAN
    OBVIOUS
  <2>4. ASSUME pc = "wait", NEW status \in Status \cup {None}, Retryable(status)
        PROVE  Contract!Next \/ UNCHANGED seen
    <3>1. CASE attempt < Budget
      BY <2>1, <2>4, <3>1 DEF Retryable, consumer
    <3>2. CASE ~(attempt < Budget)
      <4>1. /\ pc' = "record" /\ report' = Report(status, attempt, FALSE)
            /\ UNCHANGED <<webhook, accepted, sent>>
        BY <2>4, <3>2 DEF Retryable, consumer
      <4> QED BY <2>3, <2>4, <4>1, ConcludeRefines
    <3> QED BY <3>1, <3>2
  <2>5. CASE Render
    BY <2>1, <2>2, <2>5 DEF Render, consumer, ReportedAtTheEnd
  <2>6. CASE Post
    <3>1. CASE webhook.valid_method
      <4>1. /\ pc = "post" /\ pc' = "wait" /\ sent' = sent + 1
            /\ UNCHANGED <<webhook, report, accepted>>
        BY <2>6, <3>1 DEF Post, daemon
      <4>2. Verdict = "none" /\ report = None
        BY <4>1, VerdictNone
      <4>3. Verdict' = "none" /\ UNCHANGED Budget
        BY <4>1, <4>2 DEF Verdict, Budget
      <4>4. sent < Budget
        BY <4>1, BudgetIsPositive DEF SentEach, TypeOK
      <4>5. Contract!Try
        BY <4>1, <4>2, <4>3, <4>4 DEF Contract!Try, Verdict
      <4> QED BY <4>5 DEF Contract!Next
    <3>2. CASE ~webhook.valid_method
      BY <2>3, <2>6, <3>2, ConcludeRefines DEF Post, Conclude
    <3> QED BY <3>1, <3>2
  <2>7. CASE Answered
    <3>1. pc = "wait" /\ reply # None /\ reply \in Status
      BY <2>7 DEF Answered, TypeOK
    <3>2. CASE IsSuccess(reply) /\ Conclude(Report(reply, attempt, TRUE))
               /\ UNCHANGED <<consumer, sent>>
      BY <2>3, <3>1, <3>2, ConcludeRefines
         DEF Conclude, consumer, ReplyIsToThisAttempt
    <3>3. CASE Conclude(Report(reply, attempt, FALSE)) /\ UNCHANGED <<consumer, sent>>
      BY <2>3, <3>1, <3>3, ConcludeRefines DEF Conclude, consumer
    <3>4. CASE Retryable(reply)
      BY <2>4, <3>1, <3>4
    <3> QED BY <2>7, <3>2, <3>3, <3>4 DEF Answered
  <2>8. CASE TransportError
    BY <2>4, <2>8 DEF TransportError
  <2>9. CASE BackoffEnds
    BY <2>1, <2>9 DEF BackoffEnds, consumer
  <2>10. CASE Record
    BY <2>1, <2>10 DEF Record, consumer, ReportedAtTheEnd
  <2>11. CASE Crash
    BY <2>1, <2>2, <2>11 DEF Crash, daemon, consumer
  <2>12. ASSUME NEW n \in inflight, RequestLost(n) PROVE UNCHANGED seen
    BY <2>1, <2>12 DEF RequestLost, daemon
  <2>13. ASSUME NEW n \in inflight, NEW s \in Status, Handle(n, s)
         PROVE  Contract!Next \/ UNCHANGED seen
    <3>1. UNCHANGED <<pc, webhook, report, sent>>
      BY <2>13 DEF Handle, daemon
    <3>2. UNCHANGED <<Budget, Verdict>>
      BY <3>1 DEF Budget, Verdict
    <3>3. CASE accepted' = accepted
      BY <2>1, <3>1, <3>3
    <3>4. CASE accepted' = accepted \cup {n} /\ n \notin accepted
      <4>1. n \in 1..sent
        BY DEF SentEach
      <4>2. /\ Cardinality(accepted) < sent
            /\ Cardinality(accepted)' = Cardinality(accepted) + 1
        BY <3>4, <4>1, AcceptedCount
      <4>3. Contract!Accept
        BY <3>1, <3>2, <4>2 DEF Contract!Accept, Verdict
      <4> QED BY <4>3 DEF Contract!Next
    <3> QED BY <2>13, <3>3, <3>4 DEF Handle
  <2>14. CASE UNCHANGED vars
    BY <2>1, <2>14 DEF vars, daemon, consumer
  <2> QED
    BY <2>5, <2>6, <2>7, <2>8, <2>9, <2>10, <2>11, <2>12, <2>13, <2>14
       DEF Next, Deliver, Consumer
<1> QED
  BY <1>1, <1>2, InvInductive, PTL DEF Spec, ImplementsContract, Contract!Spec
=============================================================================
