---------------------------- MODULE Effectiveness ---------------------------
(***************************************************************************)
(* The quarterly score (app/reports/posture_effectiveness.py) of a tenant  *)
(* that may have been added in the course of the quarter, while the        *)
(* collectors bring in its convicted messages and statistics.              *)
(*                                                                         *)
(* On a day at most one threat arrives.  What the checks read besides the  *)
(* collected data are the facts: see Facts.                                *)
(***************************************************************************)
EXTENDS DomainChecks, FiniteSets, FiniteSetsExt

CONSTANTS
  PeriodStart, PeriodEnd,  \* the period: PeriodStart..PeriodEnd - 1
  LastQuarterDay,            \* bound on the days
  InitialDays, RescanDays, BackfillDays, KeptDays, \* of the collectors
  Answers                    \* what DNS may say of an own domain (CheckDomain)

ASSUME EffectivenessConstants ==
  /\ {PeriodStart, PeriodEnd, LastQuarterDay, InitialDays, RescanDays, BackfillDays, KeptDays} \subseteq Nat
  /\ 0 < PeriodStart /\ PeriodStart < PeriodEnd /\ PeriodEnd <= LastQuarterDay

VARIABLES
  quarterDay,  \* the day, of which nothing is collected yet
  threats,     \* days on which a threat was sent and convicted
  stored,      \* convicted messages: those of them that have been collected
  collectedAt, \* convictions_collected_at and the watermark; 0 before
  filledTo,    \* backfill_cursor; 0 before
  statDays     \* days with statistics

EffectivenessVars == <<quarterDay, threats, stored, collectedAt, filledTo, statDays>>

Quarter == PeriodStart..PeriodEnd - 1
Reachable == Max({quarterDay - KeptDays, 0})

EffectivenessInit ==
  /\ quarterDay = 1
  /\ threats = {} /\ stored = {} /\ collectedAt = 0 /\ filledTo = 0 /\ statDays = {}

DayPasses ==
  /\ quarterDay < LastQuarterDay /\ quarterDay' = quarterDay + 1
  /\ threats' \in {threats, threats \union {quarterDay}}
  /\ UNCHANGED <<stored, collectedAt, filledTo, statDays>>

\* collect_convictions: the first days, then from the watermark less rescan_days
CollectThreats ==
  LET from == Max({Reachable, IF collectedAt = 0 THEN quarterDay - InitialDays ELSE collectedAt - RescanDays}) IN
  /\ stored' = stored \union {d \in threats : d >= from}
  /\ collectedAt' = quarterDay
  /\ UNCHANGED <<quarterDay, threats, filledTo, statDays>>

\* backfill_convictions: one window further back
FillBack ==
  LET end == IF filledTo # 0 THEN filledTo
             ELSE IF stored # {} THEN Min(stored) ELSE Max({collectedAt, 1})
      start == Max({end - BackfillDays, Reachable, 1}) IN
  /\ end > Reachable
  /\ stored' = stored \union {d \in threats : d >= start /\ d < end}
  /\ filledTo' = start
  /\ UNCHANGED <<quarterDay, threats, collectedAt, statDays>>

CollectStats ==
  /\ statDays' = statDays \union {d \in 1..quarterDay - 1 : d >= Reachable}
  /\ UNCHANGED <<quarterDay, threats, stored, collectedAt, filledTo>>

EffectivenessNext == DayPasses \/ CollectThreats \/ FillBack \/ CollectStats

-----------------------------------------------------------------------------
(* The checks *)

\* What else a check reads: how the threats that were found were dealt with (in
\* percent, and the median time of exposure), the rules that matched, what
\* DNS answered of the own domains, the hours of logs collected and the share of false positives
\* (-1 for none)
Facts ==
  [acted : {89, 100}, automatic : {60, 100}, exposed : {"none", "long"}, rules : {"none", "other"},
   own : SUBSET Answers, logs : {-1, 100}, error : BOOLEAN,
   vips : BOOLEAN, falsePositives : {-1, 1}]

InQuarter == stored \intersect Quarter

\* _conviction_gap
Gap ==
  \/ collectedAt = 0 \/ collectedAt < PeriodEnd
  \/ statDays \intersect threats \intersect Quarter # {} /\ InQuarter = {}

\* The status of a check about threats
AboutThreats(status) == IF Gap THEN "unknown" ELSE IF InQuarter = {} THEN "na" ELSE status

AtLeast(value, ok, warning) ==
  IF value >= ok THEN "ok" ELSE IF value >= warning THEN "warning" ELSE "critical"

\* The weight of each check
Weight ==
  [dmarc |-> 20, spf |-> 5, tls |-> 5, remediated |-> 20, automatic |-> 10, dwell |-> 10, allow |-> 10,
   logs |-> 10, data |-> 5, vips |-> 5, false |-> 5]

\* Without an answer for any own domain the three checks become one unknown one
DnsChecks(own) ==
  IF own = {} THEN [dmarc |-> "unknown", spf |-> "left_out", tls |-> "left_out"]
  ELSE [dmarc |-> IF \A c \in own : c.dmarc.level = "ok" THEN "ok"
                  ELSE IF \E c \in own : c.dmarc.policy \in {"", "none"} THEN "critical" ELSE "warning",
        spf |-> IF \A c \in own : c.spf = "ok" THEN "ok"
                ELSE IF \E c \in own : c.spf = "critical" THEN "critical" ELSE "warning",
        tls |-> IF \A c \in own : c.sts /\ c.tls THEN "ok"
                ELSE IF \E c \in own : c.sts /\ c.tls THEN "warning" ELSE "critical"]

DaysPct == (Cardinality(statDays \intersect Quarter) * 100) \div (PeriodEnd - PeriodStart)

\* The status of each check
Checks(f) ==
  [dmarc |-> DnsChecks(f.own).dmarc, spf |-> DnsChecks(f.own).spf, tls |-> DnsChecks(f.own).tls,
   remediated |-> AboutThreats(AtLeast(f.acted, 99, 90)),
   automatic |-> AboutThreats(AtLeast(f.automatic, 90, 70)),
   dwell |-> IF f.exposed = "none" /\ ~Gap THEN "na" ELSE AboutThreats("critical"),
   allow |-> AboutThreats(IF f.rules = "none" THEN "unknown" ELSE "ok"),
   logs |-> AtLeast(f.logs, 95, 50),
   data |-> IF DaysPct >= 95 /\ ~f.error THEN "ok" ELSE IF DaysPct >= 70 THEN "warning" ELSE "critical",
   vips |-> IF f.vips THEN "ok" ELSE "warning",
   false |-> IF f.falsePositives = -1 \/ InQuarter = {} THEN "unknown"
             ELSE IF f.falsePositives <= 2 THEN "ok" ELSE "critical"]

-----------------------------------------------------------------------------
(* The score and the grade *)

SumOf(v) ==
  v.dmarc + v.spf + v.tls + v.remediated + v.automatic + v.dwell + v.allow + v.logs + v.data + v.vips + v.false

\* The weight of the checks with one of the statuses
WeightOf(checks, statuses) == SumOf([n \in DOMAIN Weight |-> IF checks[n] \in statuses THEN Weight[n] ELSE 0])

Assessed(checks) == WeightOf(checks, {"ok", "warning", "critical"})

\* STATUS_FACTOR, doubled
Factor(status) == CASE status = "ok" -> 2 [] status = "warning" -> 1 [] OTHER -> 0

\* Python's round: halves to the even number
Rounded(n, whole) ==
  LET q == n \div whole
      double == 2 * (n % whole)
  IN IF double > whole \/ (double = whole /\ q % 2 = 1) THEN q + 1 ELSE q

Points(checks) == SumOf([n \in DOMAIN Weight |-> Weight[n] * Factor(checks[n])])

Score(checks) == Rounded(Points(checks) * 50, Assessed(checks))

\* Mutant: what is not known is not weighed
EvidenceOfAssessed(checks) == Rounded(Assessed(checks) * 100, Assessed(checks))

\* The share of the weight that could be assessed, of what applies
Evidence(checks) == Rounded(Assessed(checks) * 100, Assessed(checks) + WeightOf(checks, {"unknown"}))

\* EVIDENCE_FOR_GRADE
Graded(checks) == Evidence(checks) >= 80

GradeOf(checks) ==
  LET score == Score(checks) IN
  IF ~Graded(checks) THEN "none"
  ELSE IF score >= 90 THEN "A" ELSE IF score >= 75 THEN "B" ELSE IF score >= 60 THEN "C"
  ELSE IF score >= 40 THEN "D" ELSE "F"

-----------------------------------------------------------------------------

\* posture_effectiveness.py:18-24: no quarter gets a grade of which the convicted
\* messages were not collected to its end, or contradict the statistics, or of whose
\* own domains DNS said nothing, whatever else is known; and a tenant whose threats
\* stayed in the inboxes and whose domains are open to anybody gets no A or B.
GradeNeedsEvidence ==
  quarterDay >= PeriodEnd => \A f \in Facts : LET grade == GradeOf(Checks(f)) IN
    /\ grade # "none" => ~Gap /\ f.own # {}
    /\ grade \in {"A", "B"} =>
         ~(f.acted < 90 /\ InQuarter # {} /\ \A c \in f.own : c.dmarc.level = "critical")
=============================================================================
