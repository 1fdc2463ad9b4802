------------------------------- MODULE Trends -------------------------------
(***************************************************************************)
(* The six months a trend compares (app/reports/trends.py), of each tenant *)
(* and of all tenants together.  Traffic is steady: the days of a month    *)
(* are busy or quiet, and every month is like the last.  Only what the     *)
(* collectors fetched of it changes, month by month.                       *)
(***************************************************************************)
EXTENDS Integers, Sequences, FiniteSets, FiniteSetsExt

CONSTANTS
  TrendTenants,
  DaySorts,       \* sorts of days: busy, quiet
  DaysOf,         \* DaysOf[s]: how many days of a month are of that sort
  Messages,       \* Messages[t][s]: messages of tenant t on such a day
  Threats,        \* Threats[t][s]: and threats
  Gaps,           \* what may be left of a month: days collected per sort
  MaxGaps         \* bound on months with a gap

ASSUME TrendConstants ==
  /\ DaysOf \in [DaySorts -> Nat] /\ Gaps \subseteq [DaySorts -> Nat] /\ MaxGaps \in Nat
  /\ \A g \in Gaps, s \in DaySorts : g[s] <= DaysOf[s]

VARIABLES
  month,   \* months collected so far
  window,  \* window[t][w]: the sums over the usable months of a window
  fleet,   \* the same for all tenants together
  gaps

TrendVars == <<month, window, fleet, gaps>>

Compared == 3                    \* COMPARE
Windows == {"before", "now"}

\* StatTotals of a month or of a window
Empty == [days |-> 0, messages |-> 0, threats |-> 0, months |-> 0]

TrendInit ==
  /\ month = 0 /\ gaps = 0
  /\ window = [t \in TrendTenants |-> [w \in Windows |-> Empty]]
  /\ fleet = [w \in Windows |-> Empty]

Over(S, f(_)) == MapThenSumSet(f, S)

\* monthly_stats: one row per day with data
MonthStats(t, collected) ==
  [days |-> Over(DaySorts, LAMBDA s : collected[s]),
   messages |-> Over(DaySorts, LAMBDA s : collected[s] * Messages[t][s]),
   threats |-> Over(DaySorts, LAMBDA s : collected[s] * Threats[t][s]),
   months |-> 1]

ExpectedDays == Over(DaySorts, LAMBDA s : DaysOf[s])

\* Mutant: a month with any data is compared
HasData(stats) == stats.days > 0

\* MonthData.complete, FULL = 80 %
Complete(stats) == 10 * stats.days >= 8 * ExpectedDays

\* _window sums its complete months
Joined(total, stats) ==
  IF Complete(stats) THEN [f \in DOMAIN total |-> total[f] + stats[f]] ELSE total

\* build_all: the tenants of a month, with the days of the one that has most
FleetMonth(stats) ==
  [days |-> Max({stats[t].days : t \in TrendTenants}),
   messages |-> Over(TrendTenants, LAMBDA t : stats[t].messages),
   threats |-> Over(TrendTenants, LAMBDA t : stats[t].threats),
   months |-> 1]

\* A month of each tenant, all of it or what a gap leaves
MonthPasses == \E collected \in [TrendTenants -> Gaps \union {DaysOf}] :
  LET w == IF month < Compared THEN "before" ELSE "now"
      stats == [t \in TrendTenants |-> MonthStats(t, collected[t])]
      short == {t \in TrendTenants : collected[t] # DaysOf}
  IN
  /\ month < 2 * Compared /\ month' = month + 1
  /\ gaps' = gaps + Cardinality(short) /\ gaps' <= MaxGaps
  /\ window' = [t \in TrendTenants |-> [window[t] EXCEPT ![w] = Joined(@, stats[t])]]
  /\ fleet' = [fleet EXCEPT ![w] = Joined(@, FleetMonth(stats))]

TrendNext == MonthPasses

Nearest(n, d) == (2 * n + d) \div (2 * d)

\* _per_10k in tenths; -1 is None
PerTenK(total) ==
  IF total.months < 2 \/ total.messages = 0 THEN -1 ELSE Nearest(total.threats * 100000, total.messages)

\* _change in tenths of a percent; none without both rates
Change(windows) ==
  LET now == PerTenK(windows["now"])
      before == PerTenK(windows["before"])
  IN IF now = -1 \/ before <= 0 THEN 0 ELSE Nearest((now - before) * 1000, before)

\* Only a change of 20 % and more is called higher or lower
Told(windows) == Change(windows) >= 200 \/ Change(windows) <= -200

-----------------------------------------------------------------------------

\* trends.py:19 "a gap in collection must not look like an improvement": with
\* steady traffic whose busy days have up to twice the rate of its quiet ones, no
\* tenant is told that its rate rose or fell, whichever days were not collected.
GapIsNoTrend == month = 2 * Compared => \A t \in TrendTenants : ~Told(window[t])

\* The same words, for the trend over all tenants, which they do not except: the
\* change shown for the fleet is no improvement.
FleetGapIsNoImprovement == month = 2 * Compared => Change(fleet) > -200
=============================================================================
