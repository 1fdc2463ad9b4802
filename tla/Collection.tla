----------------------------- MODULE Collection -----------------------------
(***************************************************************************)
(* The collectors of one tenant that call ETD's search and reporting API:  *)
(* convicted messages, the backfill of their history, and the daily        *)
(* statistics (app/collectors/convictions.py, backfill.py, stats.py), as   *)
(* app/collectors/runner.py runs them.  The hourly and daily jobs and      *)
(* "Collect now" overlap; each run works on the copy of the tenant it      *)
(* loaded and writes the columns it changed.                               *)
(*                                                                         *)
(* The clock counts days.  Log Export is modelled in LogExport, the client *)
(* in EtdClient.                                                           *)
(***************************************************************************)
EXTENDS Integers, FiniteSets, FiniteSetsExt

CONSTANTS
  Runs,         \* runs that may be active at once
  Messages,     \* the messages ETD may convict
  SentDays,     \* the days they may be sent
  Start,        \* the day the tenant is added
  MaxClock,     \* bound on the clock
  Horizon,      \* HISTORY_HORIZON_DAYS - 1
  InitialDays,  \* convictions_initial_days
  RescanDays,   \* convictions_rescan_days
  WindowDays,   \* backfill_window_days
  DaysBack,     \* stats_days_back
  TopDays,      \* TOP_PERIOD_DAYS
  MonthFirst, MonthLast,  \* the days of one calendar month
  DailyBudget,  \* api_daily_budget and ETD_DAILY_QUOTA
  MinBudget,    \* MIN_BUDGET_TO_START
  MaxRuns,      \* bound on the runs of a behaviour
  MaxPages,     \* bound on the pages of a run of convictions but for the last
  MaxFaults,    \* bound on errors and stops
  Null

ASSUME CollectionConstants ==
  /\ {Start, MaxClock, Horizon, InitialDays, RescanDays, WindowDays, DaysBack, TopDays,
      MonthFirst, MonthLast, DailyBudget, MinBudget, MaxRuns, MaxPages, MaxFaults} \subseteq Nat
  /\ Start \in Horizon..MaxClock
  /\ WindowDays > 0 /\ MinBudget > 0 /\ DaysBack <= Horizon
  /\ SentDays \subseteq 0..MaxClock
  /\ Null \notin Nat

Days == 0..MaxClock
Day == Days \union {Null}
Streams == {"stats", "convictions", "backfill"}
Lists == {"targets", "threatSenders"}

Columns == [watermark : Day, cursor : Day, done : BOOLEAN, stats : Day, errors : SUBSET Streams]

VARIABLES
  clock,
  sent,     \* sent[m]: the day of a message
  verdict,  \* verdict[m]: the day ETD convicted a message
  tenant,   \* the tenant's row
  calls,    \* api_calls_day and api_calls_count
  stored,   \* convicted_messages
  rows,     \* daily_stats: the day each row was read at
  month,    \* top_entries of the calendar month: the day each list was read at
  run,      \* the local variables of each run
  started,  \* runs so far
  faults,   \* faults so far
  first,    \* where the last collection that had no watermark to go by began (history)
  origin,   \* where the backfill began, and the day it did (history)
  spent,    \* requests of the runs that ended today (history)
  failing,  \* streams whose last run failed (history)
  doubtful, \* streams whose last result other runs may have written over (history)
  older     \* days whose row an older run has written over (history)

data == <<stored, rows, month, older>>
world == <<clock, sent, verdict, started>>
vars == <<clock, sent, verdict, tenant, calls, stored, rows, month, run, started, faults, first,
          origin, spent, failing, doubtful, older>>

Run == [stream : Streams \union {"none"},
        now    : Days,
        errors : SUBSET Streams,   \* the tenant's errors as it was loaded
        cursor : Day,              \* backfill_cursor of its copy of the tenant
        from   : Days,             \* start of the window or of the days asked for
        upto   : Days,
        due    : SUBSET Messages,  \* convicted when the window was asked for, not yet on a page
        used   : Nat,              \* client.request_count
        budget : Nat,
        rows   : BOOLEAN,          \* the three reports of collect_daily_stats are read
        fresh  : SUBSET Days,      \* days that had no row when it looked
        chain  : BOOLEAN,          \* collect_all_for_tenant
        waits  : Streams \union {"none"}]  \* the collector it calls next

NoColumns == [watermark |-> Null, cursor |-> Null, done |-> FALSE, stats |-> Null, errors |-> {}]

Idle == [stream |-> "none", now |-> 0, errors |-> {}, cursor |-> Null, from |-> 0, upto |-> 0, due |-> {},
         used |-> 0, budget |-> 0, rows |-> FALSE, fresh |-> {}, chain |-> FALSE,
         waits |-> "none"]

Init ==
  /\ clock = Start
  /\ sent \in [Messages -> SentDays]
  /\ verdict \in [Messages -> {Null, Start}]
  /\ \A m \in Messages : sent[m] > Start => verdict[m] = Null
  /\ tenant = NoColumns
  /\ calls = [day |-> Null, count |-> 0]
  /\ stored = {} /\ rows = [d \in Days |-> Null] /\ month = [l \in Lists |-> Null]
  /\ run = [r \in Runs |-> Idle]
  /\ started = 0 /\ faults = 0
  /\ first = Null /\ origin = [from |-> Null, day |-> Null] /\ spent = 0
  /\ failing = {} /\ doubtful = {} /\ older = {}

Larger(a, b) == IF a >= b THEN a ELSE b
Smaller(a, b) == IF a <= b THEN a ELSE b

\* Convicted messages of a window; a message counts into the day it was sent
Found(from, upto) ==
  {m \in Messages : verdict[m] # Null /\ sent[m] >= from /\ sent[m] <= upto}

-----------------------------------------------------------------------------
(* The start of a run: the tenant is loaded, the first window chosen *)

\* api_calls_today, budget_left
CallsToday == IF calls.day = clock THEN calls.count ELSE 0
BudgetLeft == Larger(0, DailyBudget - CallsToday)

\* Mutant: the days before the watermark are not asked for again
FromWatermark(w) == IF w = Null THEN Larger(clock - InitialDays, clock - Horizon)
                    ELSE Larger(w, clock - Horizon)

\* collect_convictions asks again for rescan_days before the watermark
RescanFrom(w) ==
  Larger(IF w = Null THEN clock - InitialDays ELSE w - RescanDays, clock - Horizon)

\* Mutant: only the usual days, however long ago the last success is
UsualDays(s) == IF s = Null THEN clock - Horizon ELSE clock - DaysBack

\* collect_daily_stats: the whole horizon at first, the days of an outage later
StatsFrom(s) ==
  IF s = Null THEN clock - Horizon
  ELSE clock - Larger(DaysBack, Smaller(Horizon, clock - s))

\* initial_cursor
InitialCursor ==
  IF stored # {} THEN Min({sent[m] : m \in stored})
  ELSE IF tenant.watermark # Null THEN tenant.watermark
  ELSE clock

WindowFrom(cursor, now) == Larger(cursor - WindowDays, now - Horizon)

Begun(s, chain) ==
  [Idle EXCEPT !.stream = s, !.now = clock, !.errors = tenant.errors, !.chain = chain]

StartStats(r, chain) ==
  /\ run' = [run EXCEPT ![r] = [Begun("stats", chain) EXCEPT !.from = StatsFrom(tenant.stats),
                                                              !.upto = clock]]
  /\ UNCHANGED <<tenant, origin, first>>

StartConvictions(r, chain) ==
  LET from == RescanFrom(tenant.watermark) IN
    /\ run' = [run EXCEPT ![r] = [Begun("convictions", chain) EXCEPT
                 !.from = from, !.upto = clock, !.due = Found(from, clock)]]
    /\ first' = IF tenant.watermark = Null THEN from ELSE first
    /\ UNCHANGED <<tenant, origin>>

\* The cursor is committed before the budget is looked at
StartBackfill(r, chain) ==
  LET cursor == IF tenant.cursor = Null THEN InitialCursor ELSE tenant.cursor
      from == WindowFrom(cursor, clock)
  IN /\ tenant' = [tenant EXCEPT !.cursor = cursor]
     /\ origin' = IF tenant.cursor = Null THEN [from |-> cursor, day |-> clock] ELSE origin
     /\ run' = [run EXCEPT ![r] = [Begun("backfill", chain) EXCEPT
                  !.cursor = cursor, !.from = from, !.upto = cursor,
                  !.due = Found(from, cursor), !.budget = BudgetLeft]]
     /\ UNCHANGED first

SkipBackfill(r) == run' = [run EXCEPT ![r] = Idle] /\ UNCHANGED <<tenant, origin, first>>

StartStream(r, s, chain) ==
  CASE s = "stats" -> StartStats(r, chain)
    [] s = "convictions" -> StartConvictions(r, chain)
    [] s = "backfill" /\ ~tenant.done -> StartBackfill(r, chain)
    [] OTHER -> SkipBackfill(r)

\* A job; or collect_all_for_tenant, which starts with the statistics
Begin(r, s, chain) ==
  /\ run[r] = Idle
  /\ started' = started + (IF chain THEN 3 ELSE 1) /\ started' <= MaxRuns
  /\ chain => s = "stats"
  /\ StartStream(r, s, chain)
  /\ UNCHANGED <<clock, sent, verdict, calls, data, faults, spent, failing, doubtful>>

\* collect_all_for_tenant goes on to its next collector
Continue(r) ==
  /\ run[r].waits # "none"
  /\ StartStream(r, run[r].waits, TRUE)
  /\ UNCHANGED <<world, calls, data, faults, spent, failing, doubtful>>

-----------------------------------------------------------------------------
(* The end of a run: errors, usage and the changed columns are committed *)

\* Mutant: the error of an earlier run is not taken back
ErrorsKept(r, ok) ==
  IF ok THEN tenant.errors ELSE run[r].errors \union {run[r].stream}

\* _set_stream_error works on the run's copy; an unchanged column is not written
ErrorsAfter(r, ok) ==
  LET s == run[r].stream
      old == run[r].errors
  IN IF ok THEN IF s \in old THEN old \ {s} ELSE tenant.errors
     ELSE old \union {s}

\* Mutant: the count of the day before is carried on
UsageCarried(n) == IF n = 0 THEN calls ELSE [day |-> clock, count |-> calls.count + n]

\* record_api_usage: one UPDATE, with the start of a new day
Usage(n) == IF n = 0 THEN calls ELSE [day |-> clock, count |-> CallsToday + n]

\* What collect_all_for_tenant calls next; backfill only after a success
NextOf(r, ok) ==
  CASE run[r].chain /\ run[r].stream = "stats" -> "convictions"
    [] run[r].chain /\ run[r].stream = "convictions" /\ ok -> "backfill"
    [] OTHER -> "none"

Written(r, row) == [tenant EXCEPT !.watermark = row.watermark, !.cursor = row.cursor,
                                  !.done = row.done, !.stats = row.stats]

\* row: the tenant's columns besides the errors, as this run leaves them
End(r, ok, row, n) ==
  LET s == run[r].stream
      others == \E o \in Runs \ {r} : run[o].stream # "none"
      stale == (s \in run[r].errors) # (s \in tenant.errors)
  IN /\ tenant' = [Written(r, row) EXCEPT !.errors = ErrorsAfter(r, ok)]
     /\ calls' = Usage(n)
     /\ spent' = spent + n
     /\ failing' = IF ok THEN failing \ {s} ELSE failing \union {s}
     /\ doubtful' = IF others \/ stale THEN doubtful \union {s} ELSE doubtful \ {s}
     /\ run' = [run EXCEPT ![r] = [Idle EXCEPT !.waits = NextOf(r, ok), !.chain = NextOf(r, ok) # "none"]]

Succeed(r, row) ==
  /\ End(r, TRUE, row, run[r].used)
  /\ UNCHANGED <<world, faults, origin>>

-----------------------------------------------------------------------------
(* Pages of messages *)

\* A page is upserted and committed; it may hold none of the Messages but the
\* last one brings what is left of them
Page(r, got, more) ==
  /\ got \subseteq run[r].due
  /\ ~more => got = run[r].due
  /\ stored' = stored \union got

Complete(r, used) == used < run[r].budget

\* The row after a window that was cut short: it is asked for again
Cut(r) == tenant

ConvictionsPage(r) == \E got \in SUBSET run[r].due :
  /\ run[r].stream = "convictions" /\ run[r].used < MaxPages
  /\ Page(r, got, TRUE)
  /\ run' = [run EXCEPT ![r].due = @ \ got, ![r].used = @ + 1]
  /\ UNCHANGED <<world, tenant, calls, rows, month, older, faults, first, origin, spent, failing, doubtful>>

\* The last page; the watermark moves to where the run began
ConvictionsEnd(r) ==
  /\ run[r].stream = "convictions"
  /\ Page(r, run[r].due, FALSE)
  /\ End(r, TRUE, [tenant EXCEPT !.watermark = run[r].now], run[r].used + 1)
  /\ UNCHANGED <<world, rows, month, older, faults, first, origin>>

\* Not enough budget to start; or the horizon has come up to the cursor
BackfillPaused(r) ==
  /\ run[r].stream = "backfill" /\ run[r].used = 0
  /\ run[r].budget < MinBudget
  /\ Succeed(r, tenant) /\ UNCHANGED <<data, first>>

BackfillDone(r) ==
  /\ run[r].stream = "backfill"
  /\ run[r].budget >= MinBudget
  /\ run[r].cursor <= run[r].now - Horizon
  /\ Succeed(r, [tenant EXCEPT !.done = TRUE]) /\ UNCHANGED <<data, first>>

\* A page of a window.  Out of budget, the run ends and the window is asked for
\* again; complete, the cursor moves down to its start and the next one is asked for
BackfillPage(r) == \E got \in SUBSET run[r].due, more \in BOOLEAN :
  LET used == run[r].used + 1
      lower == run[r].from
      next == WindowFrom(lower, run[r].now)
  IN
  /\ run[r].stream = "backfill"
  /\ run[r].budget >= MinBudget
  /\ run[r].cursor > run[r].now - Horizon
  /\ Page(r, got, more)
  /\ \/ /\ ~Complete(r, used)
        /\ End(r, TRUE, Cut(r), used)
     \/ /\ Complete(r, used) /\ more
        /\ run' = [run EXCEPT ![r].due = @ \ got, ![r].used = used]
        /\ UNCHANGED <<tenant, calls, spent, failing, doubtful>>
     \/ /\ Complete(r, used) /\ ~more
        /\ tenant' = [tenant EXCEPT !.cursor = lower]
        /\ run' = [run EXCEPT ![r].cursor = lower, ![r].upto = lower, ![r].from = next,
                              ![r].due = Found(next, lower), ![r].used = used]
        /\ UNCHANGED <<calls, spent, failing, doubtful>>
  /\ UNCHANGED <<world, rows, month, older, faults, first, origin>>

-----------------------------------------------------------------------------
(* Daily statistics *)

\* The three reports, and the rows they go to
Report(r) ==
  /\ run[r].stream = "stats" /\ ~run[r].rows
  /\ run' = [run EXCEPT ![r].rows = TRUE, ![r].used = @ + 1,
                        ![r].fresh = {d \in run[r].from..run[r].upto : rows[d] = Null}]
  /\ UNCHANGED <<world, tenant, calls, data, faults, first, origin, spent, failing, doubtful>>

\* _collect_top: a complete month within the horizon of which nothing is stored
MonthDue(r) ==
  /\ run[r].now > MonthLast
  /\ MonthFirst >= run[r].now - Horizon
  /\ \A l \in Lists : month[l] = Null

\* The trailing days, stored every day, may be just the days of the month
IsTheMonth(r) == run[r].now = MonthLast /\ run[r].now - TopDays = MonthFirst

\* The lists of the month a run stores
MonthLists(r) == IF MonthDue(r) \/ IsTheMonth(r) THEN Lists ELSE {}

\* A row inserted beside another run's breaks the unique key of tenant and day
Clash(r) == \E d \in run[r].fresh : rows[d] # Null

\* What the session holds is committed, whether the run succeeds or not
StoreStats(r, lists) ==
  /\ ~Clash(r)
  /\ rows' = [d \in Days |-> IF run[r].rows /\ d \in run[r].from..run[r].upto THEN run[r].now
                             ELSE rows[d]]
  /\ month' = [l \in Lists |-> IF l \in lists THEN run[r].now ELSE month[l]]
  /\ older' = {d \in older : rows'[d] = rows[d]}
               \union {d \in Days : rows[d] # Null /\ rows'[d] < rows[d]}
  /\ UNCHANGED stored

StatsEnd(r) ==
  /\ run[r].stream = "stats" /\ run[r].rows
  /\ StoreStats(r, MonthLists(r))
  /\ End(r, TRUE, [tenant EXCEPT !.stats = run[r].now], run[r].used + 1)
  /\ UNCHANGED <<world, faults, first, origin>>

\* The list of targets is asked for first
ListsSoFar(r) == IF run[r].rows /\ MonthLists(r) # {} THEN {{}, {"targets"}} ELSE {{}}

-----------------------------------------------------------------------------
(* Failures *)

\* ETD answers with an error: it is recorded, and what the session holds committed
ApiError(r) ==
  /\ run[r].stream # "none" /\ faults < MaxFaults
  /\ faults' = faults + 1
  /\ IF run[r].stream = "stats" THEN \E lists \in ListsSoFar(r) : StoreStats(r, lists)
     ELSE UNCHANGED data
  /\ End(r, FALSE, tenant, run[r].used + 1)
  /\ UNCHANGED <<world, first, origin>>

\* The database refuses a statement: record_api_usage raises on the broken
\* session, nothing is recorded, and collect_all_for_tenant is over too
Raise(r) ==
  /\ run[r].stream # "none"
  /\ \/ Clash(r) /\ UNCHANGED faults
     \/ ~Clash(r) /\ faults < MaxFaults /\ faults' = faults + 1
  /\ run' = [run EXCEPT ![r] = Idle]
  /\ UNCHANGED <<world, tenant, calls, data, first, origin, spent, failing, doubtful>>

Stop ==
  /\ faults < MaxFaults
  /\ faults' = faults + 1
  /\ \E r \in Runs : run[r] # Idle
  /\ run' = [r \in Runs |-> Idle]
  /\ UNCHANGED <<world, tenant, calls, data, first, origin, spent, failing, doubtful>>

-----------------------------------------------------------------------------
(* ETD's verdicts, some of them days after the message; the days *)

Convict(m) ==
  /\ verdict[m] = Null /\ sent[m] <= clock
  /\ verdict' = [verdict EXCEPT ![m] = clock]
  /\ UNCHANGED <<clock, sent, tenant, calls, data, run, started, faults, first, origin, spent, failing, doubtful>>

\* A run is over within a day of its start
Tick ==
  /\ clock < MaxClock
  /\ \A r \in Runs : run[r].stream # "none" => run[r].now = clock
  /\ clock' = clock + 1
  /\ spent' = 0
  /\ UNCHANGED <<sent, verdict, tenant, calls, data, run, started, faults, first, origin, failing, doubtful>>

\* stats, convictions, backfill: the jobs; the chain: "Collect now" and a new tenant
Next ==
  \/ \E r \in Runs, s \in Streams, chain \in BOOLEAN : Begin(r, s, chain)
  \/ \E r \in Runs : \/ Continue(r)
                     \/ ConvictionsPage(r) \/ ConvictionsEnd(r)
                     \/ BackfillPaused(r) \/ BackfillDone(r) \/ BackfillPage(r)
                     \/ Report(r) \/ StatsEnd(r)
                     \/ ApiError(r) \/ Raise(r)
  \/ Stop \/ Tick
  \/ \E m \in Messages : Convict(m)

Spec == Init /\ [][Next]_vars
=============================================================================
