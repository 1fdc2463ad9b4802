--------------------------- MODULE ReportRunsProps ---------------------------
(***************************************************************************)
(* What a report run must never do, whatever stops or is deleted meanwhile *)
(***************************************************************************)
EXTENDS ReportRuns

TypeOK ==
  /\ proc \in {"up", "down"}
  /\ tenants \in [Tenants -> Existence]
  /\ schedules \in [Schedules -> Existence]
  /\ rows \in [RunIds -> Row]
  /\ lastId \in RunIds \union {0}
  /\ threads \in [Threads -> Activation]
  /\ calls \in Calls \union {0}
  /\ outbox \subseteq Mail
  /\ alerted \subseteq Calls \union {0}
  /\ givenUp \subseteq Calls
  /\ cut \subseteq Calls

\* The threads inside run_report, between its first and its last transaction
Busy(w) == threads[w].pc \in {"build", "deliver", "finalize"}

(* While the service is up, a row that says "running" - the archive page    *)
(* shows "Generating" and refreshes - has a thread that is still working    *)
(* for the call that inserted it, unless every attempt to finalize failed:  *)
(* services.py run_report, _finalize_run and recover_interrupted_runs.      *)
RunningHasWorker ==
  proc = "up" =>
    \A i \in RunIds :
      rows[i].status = "running" =>
        \/ rows[i].owner \in givenUp
        \/ \E w \in Threads : /\ Busy(w)
                              /\ threads[w].run = i
                              /\ threads[w].call = rows[i].owner

(* A row that names recipients (delivered_to) belongs to a call whose own   *)
(* mail, for that tenant and that period, was taken by the relay: a run     *)
(* finalizes its own row, not one that got its id.                          *)
ArchiveTellsTheTruth ==
  \A i \in RunIds :
    rows[i].delivered =>
      \E m \in outbox : /\ m.call = rows[i].owner
                        /\ m.tenant = rows[i].tenant
                        /\ m.period = rows[i].period

(* A report the relay took is never forgotten: its call is still to         *)
(* finalize, or was lost (a crash, or no attempt to finalize succeeded), or *)
(* its row has the period, which is what catch-up looks for - also when the *)
(* relay's answer got lost and the run counts as failed.  Only the deletion *)
(* of the tenant takes the row away.                                        *)
SentIsRecorded ==
  \A m \in outbox :
    \/ m.call \in lost
    \/ \E w \in Threads : Busy(w) /\ threads[w].call = m.call
    \/ \E i \in RunIds : rows[i].owner = m.call /\ rows[i].period = m.period
    \/ m.tenant # NoTenant /\ tenants[m.tenant] = "absent"

(* An outcome is final: no step of a thread, of a restart or of an          *)
(* administrator changes what a finished row says of its run, except to     *)
(* remove it with its tenant (models.py ReportRun, status running|ok|failed)*)
FinishedIsFinal ==
  [][\A i \in RunIds :
       rows[i].status \in {"ok", "failed"} =>
         \/ rows'[i] = [rows[i] EXCEPT !.schedule = rows'[i].schedule]
         \/ rows[i].owner # rows'[i].owner]_runVars

(* A scheduled run that failed or was only partly delivered is in an alert  *)
(* once its thread is done with it, when the process does not stop and the  *)
(* database answers: alerts.py alert_run_problem, alert_schedule_problems.  *)
ProblemsAreAlerted ==
  \A i \in RunIds :
    /\ rows[i].status = "failed" \/ rows[i].problem
    /\ rows[i].trigger # "manual"
    => \/ rows[i].owner \in alerted
       \/ \E w \in Threads : threads[w].run = i \/ i \in threads[w].done

-----------------------------------------------------------------------------
(* The lifecycle every call promises: its recorded state.                   *)
Has(c, st) == \E i \in RunIds : rows[i].owner = c /\ rows[i].status = st

StateOf(c) ==
  IF c > calls THEN "none"
  ELSE IF Has(c, "running") THEN "running"
  ELSE IF Has(c, "ok") THEN "ok"
  ELSE IF Has(c, "failed") THEN "failed"
  ELSE "deleted"

Life == INSTANCE RunLifecycle WITH Calls <- Calls, state <- [c \in Calls |-> StateOf(c)]

(* Every run implements the lifecycle of RunLifecycle.tla, and does not     *)
(* stay running for ever: run_report, recover_interrupted_runs.             *)
FairLifecycleHolds == Life!FairLifeSpec
=============================================================================
