--------------------------- MODULE ReportScheduler ---------------------------
(***************************************************************************)
(* The scheduler around the report runs (app/scheduler.py): cron jobs held *)
(* in memory, a heartbeat file, and the catch-up at start-up of what fell  *)
(* due while the service was down.  The runs themselves are the actions of *)
(* ReportRuns; this module says when they are started, and with which      *)
(* period.                                                                 *)
(*                                                                         *)
(* The clock counts the instants at which something can fall due; clock = t*)
(* stands for the time from t until just before t + 1.                     *)
(***************************************************************************)
EXTENDS ReportRuns, FiniteSets

CONSTANTS
  MaxClock,      \* bound on the clock
  DueAt,         \* DueAt[s]: the instants a schedule's cron expression names
  PeriodAt,      \* PeriodAt[s][t]: period_for(definition.period_kind, t)
  CatchUpLimit,  \* CATCH_UP_LIMIT (3 in the code)
  MaxCrashes,    \* bound on the stops of the process
  MaxManual      \* bound: "Run now" while fewer calls were made

Times == 0..MaxClock

ASSUME SchedulerConstants ==
  /\ MaxClock \in Nat
  /\ DueAt \in [Schedules -> SUBSET (1..MaxClock)]
  /\ PeriodAt \in [Schedules -> [Times -> Periods]]
  /\ CatchUpLimit \in Nat \ {0}
  /\ MaxCrashes \in Nat
  /\ MaxManual \in Nat

VARIABLES
  clock,
  phase,      \* "off", "recovered", "started", "on", "stopping"
  heartbeat,  \* the heartbeat file, Null before the first
  lastAlive,  \* start()'s local: the heartbeat found
  nextFire,   \* next_run_time of each schedule's cron job, Null without one
  catchups,   \* the one-off catch-up jobs still to fire
  crashes,    \* stops so far
  outage      \* what fell due while no scheduler ran, of the schedules
              \* that stayed enabled since (history)

schedulerVars == <<clock, phase, heartbeat, lastAlive, nextFire, catchups, crashes, outage>>
vars == <<proc, tenants, schedules, rows, lastId, threads, calls, outbox, alerted, givenUp, cut,
          clock, phase, heartbeat, lastAlive, nextFire, catchups, crashes, outage>>

CatchUpJob == [schedule : Schedules, due : Times]

-----------------------------------------------------------------------------
(* Cron *)

\* The first instant after t at which s falls due
NextDue(s, t) ==
  LET later == {d \in DueAt[s] : d > t}
  IN  IF later = {} THEN Null ELSE CHOOSE d \in later : \A e \in later : d <= e

\* reload_report_jobs: a job for every enabled schedule of the table st
LoadedJobs(st, t) == [s \in Schedules |-> IF st[s] = "enabled" THEN NextDue(s, t) ELSE Null]

Alive == phase \in {"started", "on"}

Init ==
  /\ RunsInit
  /\ clock = 0
  /\ phase = "on"
  /\ heartbeat = 0
  /\ lastAlive = Null
  /\ nextFire = LoadedJobs([s \in Schedules |-> "enabled"], 0)
  /\ catchups = {}
  /\ crashes = 0
  /\ outage = {}

DueNow(s) == IF nextFire[s] = Null THEN FALSE ELSE nextFire[s] <= clock

\* The scheduler's thread starts a due job before the next instant
Tick ==
  /\ clock < MaxClock
  /\ ~\E s \in Schedules : Alive /\ DueNow(s)
  /\ clock' = clock + 1
  /\ outage' = IF Alive
               THEN outage
               ELSE outage \union {[schedule |-> s, due |-> clock + 1] :
                      s \in {r \in Schedules : schedules[r] = "enabled" /\ clock + 1 \in DueAt[r]}}
  /\ UNCHANGED <<runVars, phase, heartbeat, lastAlive, nextFire, catchups, crashes>>

Beat ==
  /\ Alive
  /\ heartbeat' = clock
  /\ UNCHANGED <<runVars, clock, phase, lastAlive, nextFire, catchups, crashes, outage>>

\* max_instances = 1: a fire is dropped while the schedule's last one runs
Running(s) == \E w \in Threads : threads[w].schedule = s /\ threads[w].trigger = "schedule"

Fire(s) ==
  /\ Alive
  /\ DueNow(s)
  /\ nextFire' = [nextFire EXCEPT ![s] = NextDue(s, clock)]
  /\ IF Running(s) THEN UNCHANGED runVars
                   ELSE \E w \in Threads : Submit(w, s, "schedule", Null)
  /\ UNCHANGED <<clock, phase, heartbeat, lastAlive, catchups, crashes, outage>>

-----------------------------------------------------------------------------
(* Start-up: recover_interrupted_runs, then ReportScheduler.start *)

Recover ==
  /\ Boot
  /\ phase' = "recovered"
  /\ UNCHANGED <<clock, heartbeat, lastAlive, nextFire, catchups, crashes, outage>>

\* Mutant: the heartbeat is written before it is read
StartBeatsFirst ==
  /\ phase = "recovered"
  /\ phase' = "started"
  /\ heartbeat' = clock
  /\ lastAlive' = heartbeat'
  /\ nextFire' = LoadedJobs(schedules, clock)
  /\ UNCHANGED <<runVars, clock, catchups, crashes, outage>>

\* start() up to its write_heartbeat
Start ==
  /\ phase = "recovered"
  /\ phase' = "started"
  /\ lastAlive' = heartbeat
  /\ nextFire' = LoadedJobs(schedules, clock)
  /\ heartbeat' = clock
  /\ UNCHANGED <<runVars, clock, catchups, crashes, outage>>

\* missed_runs: the last few instants since the heartbeat, each unless it is done
Latest(D) == {d \in D : Cardinality({e \in D : e > d}) < CatchUpLimit}

Missing(s, d) ==
  LET done == Done(s, PeriodAt[s][d])
  IN  IF FanOut[s] THEN Targets(s) \ done # {} ELSE done = {}

Missed ==
  {j \in CatchUpJob :
     /\ schedules[j.schedule] = "enabled"
     /\ j.due \in Latest({d \in DueAt[j.schedule] : lastAlive < d /\ d <= clock})
     /\ Missing(j.schedule, j.due)}

CatchUp ==
  /\ phase = "started"
  /\ phase' = "on"
  /\ catchups' = IF lastAlive = Null THEN {} ELSE Missed
  /\ lastAlive' = Null
  /\ UNCHANGED <<runVars, clock, heartbeat, nextFire, crashes, outage>>

\* A catch-up job fires; the jobs are 15 seconds apart, oldest first, and do
\* not wait for one another
FireCatchUp(j) ==
  /\ phase = "on"
  /\ j \in catchups
  /\ \A k \in catchups : k.schedule = j.schedule => j.due <= k.due
  /\ \E w \in Threads : Submit(w, j.schedule, "catchup", PeriodAt[j.schedule][j.due])
  /\ catchups' = catchups \ {j}
  /\ UNCHANGED <<clock, phase, heartbeat, lastAlive, nextFire, crashes, outage>>

-----------------------------------------------------------------------------
(* The process stops *)

\* shutdown(wait=False): the threads go on until the process exits
Shutdown ==
  /\ phase = "on"
  /\ crashes < MaxCrashes
  /\ phase' = "stopping"
  /\ heartbeat' = clock
  /\ nextFire' = [s \in Schedules |-> Null]
  /\ catchups' = {}
  /\ UNCHANGED <<runVars, clock, lastAlive, crashes, outage>>

Crash ==
  /\ Stop
  /\ crashes < MaxCrashes
  /\ crashes' = crashes + 1
  /\ phase' = "off"
  /\ nextFire' = [s \in Schedules |-> Null]
  /\ catchups' = {}
  /\ lastAlive' = Null
  /\ UNCHANGED <<clock, heartbeat, outage>>

-----------------------------------------------------------------------------
(* The report runs, at the clock's period *)

\* run_report: the period of the catch-up's reference, or of now
RunAt(w, t) ==
  LET a == threads[w]
  IN  /\ a.schedule # Null
      /\ OpenRun(w, t, IF a.reference # Null THEN a.reference ELSE PeriodAt[a.schedule][clock])

ThreadStep(w) ==
  /\ Work(w) \/ \E t \in Subjects : RunAt(w, t)
  /\ UNCHANGED schedulerVars

\* "Run now" of a schedule
RunNow(s) ==
  /\ "manual" \in Jobs
  /\ calls < MaxManual
  /\ phase = "on"
  /\ \E w \in Threads : Submit(w, s, "manual", Null)
  /\ UNCHANGED schedulerVars

\* A change of a tenant or a schedule; all but tenant_toggle reload the jobs
Administer ==
  /\ phase = "on"
  /\ \/ /\ \E t \in Tenants : TenantToggle(t)
        /\ nextFire' = nextFire
     \/ /\ \/ \E t \in Tenants : TenantDelete(t)
           \/ \E s \in Schedules : ScheduleToggle(s) \/ ScheduleDelete(s)
        /\ nextFire' = LoadedJobs(schedules', clock)
  /\ outage' = {j \in outage : schedules'[j.schedule] = "enabled"}
  /\ UNCHANGED <<clock, phase, heartbeat, lastAlive, catchups, crashes>>

Next ==
  \/ Tick \/ Beat
  \/ \E s \in Schedules : Fire(s) \/ RunNow(s)
  \/ Recover \/ Start \/ CatchUp
  \/ \E j \in catchups : FireCatchUp(j)
  \/ Shutdown \/ Crash
  \/ \E w \in Threads : ThreadStep(w)
  \/ Administer

Spec == Init /\ [][Next]_vars

\* A process told to stop exits and the container is restarted, the scheduler's
\* thread fires what is due, and the threads it starts are run.
Fairness ==
  /\ WF_vars(phase = "stopping" /\ Crash)
  /\ WF_vars(Recover) /\ WF_vars(Start) /\ WF_vars(CatchUp)
  /\ \A s \in Schedules : WF_vars(Fire(s))
  /\ \A j \in CatchUpJob : WF_vars(FireCatchUp(j))
  /\ \A w \in Threads : WF_vars(ThreadStep(w))

FairSpec == Spec /\ Fairness
=============================================================================
