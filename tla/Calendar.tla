------------------------------ MODULE Calendar ------------------------------
(***************************************************************************)
(* Which days a report is about, and which days it is made on: the periods *)
(* of app/reports/periods.py, the months of trends.py and                  *)
(* posture_effectiveness.py, the cron days of app/scheduler.py and the     *)
(* default schedules of app/reports/registry.py, followed day by day.      *)
(*                                                                         *)
(* A day is a number; day 0 is 1 January of FirstYear, a Sunday.           *)
(***************************************************************************)
EXTENDS Integers, FiniteSets, FiniteSetsExt, Sequences, SequencesExt

CONSTANTS FirstYear, FirstDay, LastDay

ASSUME CalendarConstants ==
  /\ FirstYear = 2023 /\ {FirstDay, LastDay} \subseteq 0..1095 /\ FirstDay >= 366

VARIABLES
  today,
  covered  \* covered[r]: the period of the last report of a default schedule

CalendarVars == <<today, covered>>

-----------------------------------------------------------------------------
(* The calendar (Python's datetime) *)

LengthOf(k) ==
  LET year == FirstYear + k \div 12 IN
  CASE k % 12 = 1 -> IF year % 4 = 0 THEN 29 ELSE 28
    [] k % 12 \in {3, 5, 8, 10} -> 30
    [] OTHER -> 31

\* The first day of the k-th month since January of FirstYear
FirstOf[k \in 0..36] == IF k = 0 THEN 0 ELSE FirstOf[k - 1] + LengthOf(k - 1)

MonthAt == [d \in 0..1095 |-> CHOOSE k \in 0..35 : FirstOf[k] <= d /\ d < FirstOf[k + 1]]
DayOfMonth(d) == d - FirstOf[MonthAt[d]] + 1
MonthNumber(d) == (MonthAt[d] % 12) + 1
Date(year, month) == FirstOf[(year - FirstYear) * 12 + month - 1]
Year(d) == FirstYear + MonthAt[d] \div 12

\* date.weekday(): Monday is 0
Weekday(d) == (d + 6) % 7

-----------------------------------------------------------------------------
(* period_for: the last complete period before a day *)

MonthStart(d) == FirstOf[MonthAt[d]]
PrevMonthStart(d) == MonthStart(MonthStart(d) - 1)
QuarterStart(d) == Date(Year(d), ((MonthNumber(d) - 1) \div 3) * 3 + 1)

PrevQuarterStart(d) ==
  LET start == QuarterStart(d)
      month == MonthNumber(start) - 3
  IN IF month <= 0 THEN Date(Year(start) - 1, month + 12) ELSE Date(Year(start), month)

Ending(start, end, prev) == [start |-> start, end |-> end, prevStart |-> prev, prevEnd |-> start]

PeriodFor(kind, d) ==
  CASE kind = "daily" -> Ending(d - 1, d, d - 2)
    [] kind = "weekly" -> LET monday == d - Weekday(d) IN Ending(monday - 7, monday, monday - 14)
    [] kind = "quarterly" -> LET start == PrevQuarterStart(d) IN
                               Ending(start, QuarterStart(d), PrevQuarterStart(start))
    [] kind = "monthly" -> LET start == PrevMonthStart(d) IN
                               Ending(start, MonthStart(d), PrevMonthStart(start))

\* months_ending: whole months, the last one up to the end of the report
MonthsEnding(endDay, count) ==
  LET k == MonthAt[endDay] IN
  [i \in 1..count |-> LET j == k - count + i IN
     [first |-> FirstOf[j], last |-> IF i = count THEN endDay ELSE FirstOf[j + 1] - 1]]

-----------------------------------------------------------------------------
(* The day-of-week field of a cron expression *)

\* A token is a number or a name; a step of 0 is none
DayTokens == [day : 0..7, name : {FALSE}] \union [day : {0, 1, 5}, name : {TRUE}]
Steps == {0, 1, 2}
Fields == [form : {"any"}, step : Steps]
          \union [form : {"single"}, first : DayTokens, step : Steps]
          \union [form : {"range"}, first : DayTokens, last : DayTokens, step : Steps]

\* "fri-sun" ends on Sunday = 7
CronDay(token, upper) == IF token.name /\ token.day = 0 /\ upper THEN 7 ELSE token.day

Low(part) == IF part.form = "any" THEN 0 ELSE CronDay(part.first, FALSE)
High(part) ==
  CASE part.form = "any" -> 6
    [] part.form = "range" -> CronDay(part.last, TRUE)
    [] part.form = "single" -> IF part.step > 0 THEN 7 ELSE Low(part)

\* A range that runs backwards is refused
Accepted(part) == High(part) >= Low(part)

\* cron_days: Sunday is 0, and 7 is Sunday again
CronDays(part) ==
  {(Low(part) + i * Max({1, part.step})) % 7 : i \in
     {n \in 0..7 : Low(part) + n * Max({1, part.step}) <= High(part)}}

\* Mutant: the numbers are passed on, and Monday is 0 to APScheduler
Unchanged(part) == {day % 7 : day \in CronDays(part)}

\* APScheduler gets names, so it fires on that very day
TriggerDays(part) == {(day + 6) % 7 : day \in CronDays(part)}

-----------------------------------------------------------------------------
(* The reports with their default schedules *)

Monday == [form |-> "single", first |-> [day |-> 1, name |-> FALSE], step |-> 0]
EveryDay == [form |-> "any", step |-> 0]
AnyMonth == 1..12

Default(kind, days, months, dow) == [kind |-> kind, days |-> days, months |-> months, dow |-> dow]

\* The default schedules of the registry, without the time of day
Reports ==
  {Default("daily", 1..31, AnyMonth, EveryDay),                \* health_check, campaigns, ...
   Default("weekly", 1..31, AnyMonth, Monday),                 \* exposure, techniques, ...
   Default("monthly", {1}, AnyMonth, EveryDay),                \* executive_summary, trends, ...
   Default("monthly", {2}, AnyMonth, EveryDay),                \* auth_posture
   Default("quarterly", {1}, {1, 4, 7, 10}, EveryDay)}         \* posture_effectiveness

\* cron_trigger: every field must agree
Fires(r, d) ==
  /\ DayOfMonth(d) \in r.days /\ MonthNumber(d) \in r.months
  /\ Weekday(d) \in TriggerDays(r.dow)

None == [start |-> -1, end |-> -1, prevStart |-> -1, prevEnd |-> -1]

CoveredOn(old, d) == [r \in Reports |-> IF Fires(r, d) THEN PeriodFor(r.kind, d) ELSE old[r]]

CalendarInit ==
  /\ today = FirstDay
  /\ covered = [r \in Reports |-> None]

CalendarNext ==
  /\ today < LastDay
  /\ today' = today + 1
  /\ covered' = CoveredOn(covered, today')

-----------------------------------------------------------------------------
(* Properties *)

\* Standard cron: a day matches when one of its numbers, 0 and 7 for Sunday, lies
\* in the field's range and on its step
Matches(part, d) ==
  LET w == (d % 7)
      numbers == IF w = 0 THEN {0, 7} ELSE {w}
      start == IF part.form = "any" THEN 0 ELSE part.first.day
      every == Max({1, part.step})
      end == CASE part.form = "any" -> 6
               [] part.form = "range" -> IF part.last.name /\ part.last.day = 0 THEN 7 ELSE part.last.day
               [] part.form = "single" -> IF part.step > 0 THEN 7 ELSE start
  IN \E n \in numbers : n >= start /\ n <= end /\ (n - start) % every = 0

\* scheduler.py:67-71: a job fires on the days standard cron gives its field,
\* although APScheduler counts from Monday; every accepted field has some.  Each
\* day of a week stands for its weekday.
FiresOnItsDays ==
  today - FirstDay \in 1..7 =>
    \A field \in Fields : Accepted(field) =>
      /\ Weekday(today) \in TriggerDays(field) <=> Matches(field, today)
      /\ TriggerDays(field) # {}

\* The reports of a default schedule follow on from one another: no day is left
\* out and none reported twice, and each compares itself with the report before it;
\* the twelve months a monthly report goes back to are those of the one before,
\* moved on by one (registry.py, scheduler.py:94, periods.py:108, trends.py:60).
ReportsAdjoin ==
  \A r \in Reports : Fires(r, today') /\ covered[r] # None =>
    /\ covered'[r].start = covered[r].end
    /\ covered'[r].prevStart = covered[r].start /\ covered'[r].prevEnd = covered[r].end
    /\ r.kind = "monthly" =>
         Tail(MonthsEnding(covered[r].end - 1, 12)) = Front(MonthsEnding(covered'[r].end - 1, 12))

\* What is reported, and when, hangs together over leap years, month ends and weeks:
\* after every midnight both statements above hold
CalendarHolds == [][FiresOnItsDays' /\ ReportsAdjoin]_CalendarVars
=============================================================================
