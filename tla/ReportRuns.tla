------------------------------ MODULE ReportRuns ------------------------------
(***************************************************************************)
(* The life of a report run (app/services.py): a schedule is started on a  *)
(* thread, reads whom it covers, and for each of them records a run row,   *)
(* builds and delivers the report with no database session open, and       *)
(* finalizes the row in a last short transaction.  The process can stop    *)
(* between any two of these steps, administrators edit tenants and         *)
(* schedules meanwhile, and start-up marks the rows left "running".        *)
(*                                                                         *)
(* The database keeps rows, tenants and schedules; the threads, with the   *)
(* local variables of run_schedule and run_report, die with the process.   *)
(* outbox, alerted, calls, givenUp and cut are history: what the outside   *)
(* world got, and which call of run_report wrote what or never got to.     *)
(***************************************************************************)
EXTENDS Naturals

CONSTANTS
  Schedules,         \* ids of report schedules
  Tenants,           \* ids of tenants
  NoTenant,          \* the NULL tenant_id of a cross-tenant report
  Null,              \* any other NULL
  Periods,           \* reporting periods, told apart by period.start
  Threads,           \* slots for started jobs and background tasks
  Covers,            \* Covers[s]: the tenants a schedule is for
  FanOut,            \* FanOut[s]: target "all" or "group" of a per-tenant report
  Database,          \* "sqlite" or "postgresql"
  Faults,            \* database errors: "none", "transient", "persistent"
  FinalizeAttempts,  \* attempts of _finalize_run (5 in the code)
  Jobs,              \* the jobs this instance starts: triggers, or "report"
  Stops,             \* whether the process may stop in this instance
  Edits,             \* the administration this instance exercises
  MaxRuns            \* bound on the calls of run_report

Triggers == {"schedule", "catchup", "manual"}
EditKinds == {"tenant_toggle", "tenant_delete", "schedule_toggle", "schedule_delete"}
Subjects == Tenants \union {NoTenant}
RunIds == 1..MaxRuns
Calls == 1..MaxRuns

ASSUME RunsConstants ==
  /\ NoTenant \notin Tenants
  /\ Null \notin Schedules \union Periods
  /\ Covers \in [Schedules -> SUBSET Subjects]
  /\ FanOut \in [Schedules -> BOOLEAN]
  /\ \A s \in Schedules : FanOut[s] => NoTenant \notin Covers[s]
  /\ Database \in {"sqlite", "postgresql"}
  /\ Faults \in {"none", "transient", "persistent"}
  /\ FinalizeAttempts \in Nat \ {0}
  /\ Jobs \subseteq Triggers \union {"report"}
  /\ Stops \in BOOLEAN
  /\ Edits \subseteq EditKinds
  /\ MaxRuns \in Nat \ {0}

VARIABLES
  proc,       \* "up" or "down"
  tenants,    \* Tenant.enabled, or absent once deleted
  schedules,  \* ReportSchedule.enabled, or absent once deleted
  rows,       \* the report_runs table, by run id
  lastId,     \* the highest run id ever given out
  threads,    \* what each thread is executing
  calls,      \* calls of run_report so far (history)
  outbox,     \* the mails the relay took (history)
  alerted,    \* calls whose problem was put into an alert (history)
  givenUp,    \* calls whose row no attempt could finalize (history)
  cut         \* calls the process stopped with (history)

database == <<tenants, schedules, rows, lastId>>
history == <<calls, outbox, alerted, givenUp, cut>>
runVars == <<proc, tenants, schedules, rows, lastId, threads, calls, outbox, alerted, givenUp, cut>>

\* The calls that never got to finalize their row
lost == givenUp \union cut

-----------------------------------------------------------------------------
(* State *)

Existence == {"enabled", "disabled", "absent"}

\* period is NULL until _finalize_run; asked and owner are history: the
\* period the call worked on, and the call that inserted the row.
Row == [status : {"absent", "running", "ok", "failed"}, schedule : Schedules \union {Null},
        tenant : Subjects, trigger : Triggers, period : Periods \union {Null},
        delivered : BOOLEAN, problem : BOOLEAN,
        asked : Periods \union {Null}, owner : Calls \union {0}]

NoRow == [status |-> "absent", schedule |-> Null, tenant |-> NoTenant, trigger |-> "manual",
          period |-> Null, delivered |-> FALSE, problem |-> FALSE, asked |-> Null, owner |-> 0]

\* The local state of run_schedule (schedule .. done) and of the run_report
\* it is in (call .. tries).
Activation == [pc : {"idle", "submitted", "next", "build", "deliver", "finalize", "alert"},
               schedule : Schedules \union {Null}, trigger : Triggers,
               reference : Periods \union {Null}, todo : SUBSET Subjects, done : SUBSET RunIds,
               call : Calls \union {0}, run : RunIds \union {0}, tenant : Subjects,
               asked : Periods \union {Null}, built : BOOLEAN, delivered : BOOLEAN,
               status : {"ok", "failed"}, problem : BOOLEAN, tries : 0..FinalizeAttempts - 1]

Idle == [pc |-> "idle", schedule |-> Null, trigger |-> "manual", reference |-> Null,
         todo |-> {}, done |-> {}, call |-> 0, run |-> 0, tenant |-> NoTenant,
         asked |-> Null, built |-> FALSE, delivered |-> FALSE, status |-> "ok",
         problem |-> FALSE, tries |-> 0]

Mail == [call : Calls, trigger : Triggers, schedule : Schedules \union {Null},
         tenant : Subjects, period : Periods]

Exists(i) == rows[i].status # "absent"
Present(t) == IF t = NoTenant THEN TRUE ELSE tenants[t] # "absent"

RunsInit ==
  /\ proc = "up"
  /\ tenants = [t \in Tenants |-> "enabled"]
  /\ schedules = [s \in Schedules |-> "enabled"]
  /\ rows = [i \in RunIds |-> NoRow]
  /\ lastId = 0
  /\ threads = [w \in Threads |-> Idle]
  /\ calls = 0
  /\ outbox = {} /\ alerted = {} /\ givenUp = {} /\ cut = {}

-----------------------------------------------------------------------------
(* run_schedule *)

\* schedule_targets
Targets(s) ==
  IF FanOut[s] THEN {t \in Covers[s] : tenants[t] = "enabled"}
               ELSE {t \in Covers[s] : Present(t)}

\* Mutant: only runs that ended well count
DoneOk(s, p) ==
  {rows[i].tenant : i \in {j \in RunIds : /\ rows[j].status = "ok"
                                          /\ rows[j].schedule = s
                                          /\ rows[j].period = p}}

\* The tenants with a run of the schedule recorded for the period
Done(s, p) ==
  {rows[i].tenant : i \in {j \in RunIds : /\ Exists(j)
                                          /\ rows[j].schedule = s
                                          /\ rows[j].period = p}}

\* A cron fire, a catch-up job or "Run now" of a schedule is handed to a thread
Submit(w, s, trig, ref) ==
  /\ proc = "up"
  /\ threads[w].pc = "idle"
  /\ (trig = "catchup") = (ref # Null)
  /\ threads' = [threads EXCEPT ![w] =
       [Idle EXCEPT !.pc = "submitted", !.schedule = s, !.trigger = trig, !.reference = ref]]
  /\ UNCHANGED <<proc, database, history>>

\* "Run now" of a report, without a schedule
SubmitReport(w, t) ==
  /\ proc = "up"
  /\ threads[w].pc = "idle"
  /\ threads' = [threads EXCEPT ![w] = [Idle EXCEPT !.pc = "next", !.todo = {t}]]
  /\ UNCHANGED <<proc, database, history>>

\* The first session of run_schedule: is it still to run, and for whom
Begin(w) ==
  LET a == threads[w]
      runs == \/ schedules[a.schedule] = "enabled"
              \/ a.trigger = "manual" /\ schedules[a.schedule] = "disabled"
      covered == IF a.trigger = "catchup"
                 THEN Targets(a.schedule) \ Done(a.schedule, a.reference)
                 ELSE Targets(a.schedule)
  IN  /\ a.pc = "submitted"
      /\ threads' = [threads EXCEPT ![w] =
           IF runs THEN [a EXCEPT !.pc = "next", !.todo = covered] ELSE Idle]
      /\ UNCHANGED <<proc, database, history>>

\* The end of run_schedule: one alert for all tenants of a fan-out
Problems(ids) == {i \in ids : rows[i].status = "failed" \/ rows[i].problem}

EndSchedule(w) ==
  LET a == threads[w]
      fanOut == a.schedule # Null /\ FanOut[a.schedule]
  IN  /\ a.pc = "next"
      /\ a.todo = {}
      /\ alerted' = IF fanOut /\ a.trigger # "manual"
                    THEN alerted \union {rows[i].owner : i \in Problems(a.done)}
                    ELSE alerted
      /\ threads' = [threads EXCEPT ![w] = Idle]
      /\ UNCHANGED <<proc, database, calls, outbox, givenUp, cut>>

-----------------------------------------------------------------------------
(* run_report *)

\* The highest id in the table plus one
HighestPlusOne(i) ==
  /\ \A j \in RunIds : Exists(j) => j < i
  /\ i = 1 \/ \E j \in RunIds : i = j + 1 /\ Exists(j)

\* The id the database gives a new row: SQLite without AUTOINCREMENT takes
\* the highest id in the table plus one, a PostgreSQL sequence never goes back
FreshId(i) ==
  IF Database = "sqlite" THEN HighestPlusOne(i) ELSE i = lastId + 1

\* The foreign key report_runs.schedule_id
ScheduleStored(s) == IF s = Null THEN TRUE ELSE schedules[s] # "absent"

\* What run_schedule keeps when a call of run_report returned
Returned(a, i) ==
  [Idle EXCEPT !.pc = "next", !.schedule = a.schedule, !.trigger = a.trigger,
               !.reference = a.reference, !.todo = a.todo, !.done = a.done \union {i}]

\* Phase 1: insert the row; without its tenant the run has failed already
OpenRun(w, t, p) ==
  LET a == threads[w]
  IN  /\ a.pc = "next"
      /\ t \in a.todo
      /\ a.reference # Null => p = a.reference
      /\ ScheduleStored(a.schedule)
      /\ calls < MaxRuns
      /\ calls' = calls + 1
      /\ \E i \in RunIds :
           /\ FreshId(i)
           /\ lastId' = IF i > lastId THEN i ELSE lastId
           /\ rows' = [rows EXCEPT ![i] =
                [NoRow EXCEPT !.status = IF Present(t) THEN "running" ELSE "failed",
                              !.schedule = a.schedule, !.trigger = a.trigger,
                              !.tenant = IF Present(t) THEN t ELSE NoTenant,
                              !.asked = p, !.owner = calls + 1]]
           /\ threads' = [threads EXCEPT ![w] =
                IF Present(t)
                THEN [a EXCEPT !.pc = "build", !.todo = a.todo \ {t}, !.call = calls + 1,
                               !.run = i, !.tenant = t, !.asked = p]
                ELSE Returned([a EXCEPT !.todo = a.todo \ {t}], i)]
      /\ UNCHANGED <<proc, tenants, schedules, outbox, alerted, givenUp, cut>>

\* Phase 2: the period is known only once the report was built and rendered
BuildOk(w) ==
  /\ threads[w].pc = "build"
  /\ Present(threads[w].tenant)
  /\ threads' = [threads EXCEPT ![w].pc = "deliver", ![w].built = TRUE]
  /\ UNCHANGED <<proc, database, history>>

BuildFails(w) ==
  /\ threads[w].pc = "build"
  /\ threads' = [threads EXCEPT ![w].pc = "finalize", ![w].status = "failed"]
  /\ UNCHANGED <<proc, database, history>>

\* Phase 3: files, PDF, e-mail, chat.  sent: the relay took the mail;
\* noted: send_email returned and delivered_to is set; problem: the relay
\* refused some recipients, or the chat post failed.
Deliver(w, status, sent, noted, problem) ==
  LET a == threads[w]
  IN  /\ a.pc = "deliver"
      /\ noted => sent
      /\ status = "ok" => noted = sent
      /\ status = "failed" /\ problem => noted
      /\ threads' = [threads EXCEPT ![w] =
           [a EXCEPT !.pc = "finalize", !.status = status, !.delivered = noted, !.problem = problem]]
      /\ outbox' = IF sent
                   THEN outbox \union {[call |-> a.call, trigger |-> a.trigger, schedule |-> a.schedule,
                                        tenant |-> a.tenant, period |-> a.asked]}
                   ELSE outbox
      /\ UNCHANGED <<proc, database, calls, alerted, givenUp, cut>>

\* Mutant: only a failed run is alerted
AfterFinalizeFailed(a) ==
  LET single == a.schedule = Null \/ ~FanOut[a.schedule]
  IN  IF single /\ a.trigger # "manual" /\ a.status = "failed"
      THEN [a EXCEPT !.pc = "alert", !.tries = 0]
      ELSE Returned(a, a.run)

\* What run_report does after _finalize_run, whether that wrote or gave up
AfterFinalize(a) ==
  LET single == a.schedule = Null \/ ~FanOut[a.schedule]
  IN  IF single /\ a.trigger # "manual" /\ (a.status = "failed" \/ a.problem)
      THEN [a EXCEPT !.pc = "alert", !.tries = 0]
      ELSE Returned(a, a.run)

\* Mutant: the period is written for good runs only
FinalizedGood(r, a) ==
  [r EXCEPT !.status = a.status,
            !.period = IF a.status = "ok" THEN a.asked ELSE @,
            !.delivered = IF a.delivered THEN TRUE ELSE @,
            !.problem = IF a.problem THEN TRUE ELSE @]

\* What the result leaves unset keeps its value in the row
Finalized(r, a) ==
  [r EXCEPT !.status = a.status,
            !.period = IF a.built THEN a.asked ELSE @,
            !.delivered = IF a.delivered THEN TRUE ELSE @,
            !.problem = IF a.problem THEN TRUE ELSE @]

\* Phase 4: the row is read again by its id
Finalize(w) ==
  LET a == threads[w]
  IN  /\ a.pc = "finalize"
      /\ rows' = IF Exists(a.run) THEN [rows EXCEPT ![a.run] = Finalized(@, a)] ELSE rows
      /\ threads' = [threads EXCEPT ![w] = AfterFinalize(a)]
      /\ UNCHANGED <<proc, tenants, schedules, lastId, history>>

\* An attempt of _finalize_run fails
FinalizeFault(w) ==
  LET a == threads[w]
  IN  /\ a.pc = "finalize"
      /\ Faults # "none"
      /\ IF a.tries + 1 < FinalizeAttempts
         THEN /\ threads' = [threads EXCEPT ![w].tries = a.tries + 1]
              /\ givenUp' = givenUp
         ELSE /\ Faults = "persistent"
              /\ threads' = [threads EXCEPT ![w] = AfterFinalize(a)]
              /\ givenUp' = givenUp \union {a.call}
      /\ UNCHANGED <<proc, database, calls, outbox, alerted, cut>>

\* alert_run_problem reads the row again
AlertRun(w) ==
  LET a == threads[w]
  IN  /\ a.pc = "alert"
      /\ alerted' = alerted \union {rows[i].owner : i \in
                      {j \in Problems({a.run}) : rows[j].trigger # "manual"}}
      /\ threads' = [threads EXCEPT ![w] = Returned(a, a.run)]
      /\ UNCHANGED <<proc, database, calls, outbox, givenUp, cut>>

\* A session outside run_report's try block raises: the exception ends the
\* whole job, with the tenants still to do.  The foreign key refuses the row
\* of a schedule deleted meanwhile.
Raises(w) ==
  LET a == threads[w]
  IN  /\ \/ a.pc \in {"submitted", "next", "alert"} /\ Faults # "none"
         \/ a.pc = "next" /\ a.todo # {} /\ ~ScheduleStored(a.schedule)
      /\ threads' = [threads EXCEPT ![w] = Idle]
      /\ UNCHANGED <<proc, database, history>>

-----------------------------------------------------------------------------
(* The process stops and starts *)

Stop ==
  /\ Stops
  /\ proc = "up"
  /\ proc' = "down"
  /\ cut' = cut \union {threads[w].call : w \in {v \in Threads :
                            threads[v].pc \in {"build", "deliver", "finalize"}}}
  /\ threads' = [w \in Threads |-> Idle]
  /\ UNCHANGED <<database, calls, outbox, alerted, givenUp>>

\* Mutant: start-up leaves the interrupted runs alone
BootUnrecovered ==
  /\ proc = "down"
  /\ proc' = "up"
  /\ UNCHANGED <<database, threads, history>>

\* Mutant: start-up marks every run it finds
BootMarksAll ==
  /\ proc = "down"
  /\ proc' = "up"
  /\ rows' = [i \in RunIds |-> IF Exists(i) THEN [rows[i] EXCEPT !.status = "failed"] ELSE rows[i]]
  /\ UNCHANGED <<tenants, schedules, lastId, threads, history>>

\* recover_interrupted_runs, before anything else runs
Boot ==
  /\ proc = "down"
  /\ proc' = "up"
  /\ rows' = [i \in RunIds |-> IF rows[i].status = "running"
                               THEN [rows[i] EXCEPT !.status = "failed"] ELSE rows[i]]
  /\ UNCHANGED <<tenants, schedules, lastId, threads, history>>

-----------------------------------------------------------------------------
(* Administration *)

Flipped(e) == IF e = "enabled" THEN "disabled" ELSE "enabled"

TenantToggle(t) ==
  /\ "tenant_toggle" \in Edits
  /\ proc = "up"
  /\ tenants[t] # "absent"
  /\ tenants' = [tenants EXCEPT ![t] = Flipped(@)]
  /\ UNCHANGED <<proc, schedules, rows, lastId, threads, history>>

ScheduleToggle(s) ==
  /\ "schedule_toggle" \in Edits
  /\ proc = "up"
  /\ schedules[s] # "absent"
  /\ schedules' = [schedules EXCEPT ![s] = Flipped(@)]
  /\ UNCHANGED <<proc, tenants, rows, lastId, threads, history>>

\* Its runs are kept, with schedule_id NULL
Detached(S) ==
  [i \in RunIds |-> IF rows[i].schedule \in S THEN [rows[i] EXCEPT !.schedule = Null] ELSE rows[i]]

ScheduleDelete(s) ==
  /\ "schedule_delete" \in Edits
  /\ proc = "up"
  /\ schedules[s] # "absent"
  /\ schedules' = [schedules EXCEPT ![s] = "absent"]
  /\ rows' = Detached({s})
  /\ UNCHANGED <<proc, tenants, lastId, threads, history>>

\* The delete cascades to the tenant's runs and to its own schedules
TenantDelete(t) ==
  LET own == {s \in Schedules : ~FanOut[s] /\ Covers[s] = {t}}
  IN  /\ "tenant_delete" \in Edits
      /\ proc = "up"
      /\ tenants[t] # "absent"
      /\ tenants' = [tenants EXCEPT ![t] = "absent"]
      /\ schedules' = [s \in Schedules |-> IF s \in own THEN "absent" ELSE schedules[s]]
      /\ rows' = [i \in RunIds |-> IF rows[i].tenant = t THEN NoRow ELSE Detached(own)[i]]
      /\ UNCHANGED <<proc, lastId, threads, history>>

-----------------------------------------------------------------------------

Delivers(w) ==
  \E status \in {"ok", "failed"}, sent, noted, problem \in BOOLEAN :
    Deliver(w, status, sent, noted, problem)

\* The steps a started job takes by itself
Work(w) ==
  \/ Begin(w) \/ EndSchedule(w)
  \/ BuildOk(w) \/ BuildFails(w) \/ Delivers(w)
  \/ Finalize(w) \/ FinalizeFault(w) \/ AlertRun(w) \/ Raises(w)

Opens(w) == \E t \in Subjects, p \in Periods : OpenRun(w, t, p)

Starts(w) ==
  \/ \E s \in Schedules, trig \in Triggers \intersect Jobs, ref \in Periods \union {Null} :
       Submit(w, s, trig, ref)
  \/ "report" \in Jobs /\ \E t \in Subjects : SubmitReport(w, t)

Administers ==
  \/ \E t \in Tenants : TenantToggle(t) \/ TenantDelete(t)
  \/ \E s \in Schedules : ScheduleToggle(s) \/ ScheduleDelete(s)

RunsNext ==
  \/ \E w \in Threads : Work(w) \/ Opens(w) \/ Starts(w)
  \/ Administers \/ Stop \/ Boot

RunsSpec == RunsInit /\ [][RunsNext]_runVars
=============================================================================
