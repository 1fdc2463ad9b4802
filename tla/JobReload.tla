------------------------------ MODULE JobReload ------------------------------
(***************************************************************************)
(* How the cron jobs in the scheduler's memory are renewed from the table  *)
(* of schedules (app/scheduler.py, reload_report_jobs), while several      *)
(* requests change schedules at once: each commits its change, lists the   *)
(* report jobs, removes them one by one, reads the enabled schedules and   *)
(* adds a job for each.  The handlers of schedules and tenants run in the  *)
(* threads of the web server; the one of settings, which changes the time  *)
(* zone, in its event loop, so that there is one at a time.                *)
(*                                                                         *)
(* Jobs are listed by the time they are due next, which every fire         *)
(* changes; here they are removed in any order.                            *)
(***************************************************************************)
EXTENDS Integers

CONSTANTS
  Saved,     \* the ids of schedules
  Editors,   \* requests at work at the same time
  MaxEdits,  \* bound on the changes
  MaxZones   \* bound on the changes of the time zone

ASSUME JobReloadConstants == MaxEdits \in Nat /\ MaxZones \in Nat

VARIABLES
  saved,     \* report_schedules: "absent", "enabled" or "disabled"
  timezone,  \* ReportScheduler.timezone, the number of its change
  jobs,      \* the report jobs: the time zone of their trigger, NoJobYet without one
  editor,    \* the requests
  edits,     \* changes so far
  aborted,   \* a reload failed, and none has read the schedules since (history)
  crossed    \* the last reloads overlapped (history)

ReloadVars == <<saved, timezone, jobs, editor, edits, aborted, crossed>>

NoJobYet == -1

\* A request: whether it changes schedules or settings, its step, the jobs it has still to remove, the schedules it has
\* still to add, and the one it adds, with the time zone of the trigger
Answered == [op |-> "none", step |-> "none", listed |-> {}, adding |-> {}, next |-> {}, zone |-> NoJobYet]

ReloadInit ==
  /\ saved \in [Saved -> {"absent", "enabled"}]
  /\ timezone = 0
  /\ jobs = [s \in Saved |-> IF saved[s] = "enabled" THEN 0 ELSE NoJobYet]
  /\ editor = [e \in Editors |-> Answered]
  /\ edits = 0
  /\ aborted = FALSE /\ crossed = FALSE

Others(e) == {o \in Editors \ {e} : editor[o].step # "none"}

Edits(e, op) ==
  /\ editor[e].step = "none" /\ edits < MaxEdits
  /\ edits' = edits + 1
  /\ editor' = [editor EXCEPT ![e].op = op, ![e].step = "list"]
  /\ crossed' = (crossed \/ Others(e) # {})
  /\ UNCHANGED <<jobs, aborted>>

\* schedule_create, schedule_toggle, schedule_delete, tenant_delete, up to
\* their commit
EditSchedule(e) ==
  /\ Edits(e, "schedule")
  /\ \E s \in Saved, to \in {"absent", "enabled", "disabled"} :
       /\ to # saved[s] /\ (saved[s] = "absent" => to = "enabled")
       /\ saved' = [saved EXCEPT ![s] = to]
  /\ UNCHANGED timezone

\* settings_save and set_timezone
SetTimezone(e) ==
  /\ Edits(e, "settings")
  /\ timezone < MaxZones /\ \A o \in Others(e) : editor[o].op # "settings"
  /\ timezone' = timezone + 1
  /\ UNCHANGED saved

ListJobs(e) ==
  /\ editor[e].step = "list"
  /\ editor' = [editor EXCEPT ![e].step = "remove", ![e].listed = {s \in Saved : jobs[s] # NoJobYet}]
  /\ crossed' = (Others(e) # {})
  /\ UNCHANGED <<saved, timezone, jobs, edits, aborted>>

\* job.remove: a job another request has removed is not found, and the request
\* ends in an error
RemoveJob(e) ==
  /\ editor[e].step = "remove"
  /\ \E s \in editor[e].listed :
       /\ jobs' = [jobs EXCEPT ![s] = NoJobYet]
       /\ IF jobs[s] = NoJobYet
          THEN editor' = [editor EXCEPT ![e] = Answered] /\ aborted' = TRUE
          ELSE editor' = [editor EXCEPT ![e].listed = @ \ {s}] /\ UNCHANGED aborted
  /\ UNCHANGED <<saved, timezone, edits, crossed>>

ReadSchedules(e) ==
  /\ editor[e].step = "remove" /\ editor[e].listed = {}
  /\ editor' = [editor EXCEPT ![e].step = "add", ![e].adding = {s \in Saved : saved[s] = "enabled"}]
  /\ aborted' = FALSE
  /\ UNCHANGED <<saved, timezone, jobs, edits, crossed>>

\* self._cron: the trigger has the time zone of this moment
MakeTrigger(e) ==
  /\ editor[e].step = "add" /\ editor[e].next = {}
  /\ \E s \in editor[e].adding :
       editor' = [editor EXCEPT ![e].adding = @ \ {s}, ![e].next = {s}, ![e].zone = timezone]
  /\ UNCHANGED <<saved, timezone, jobs, edits, aborted, crossed>>

\* Mutant: without replace_existing a job of that id is refused
AddNewJob(e) ==
  /\ editor[e].step = "add"
  /\ \E s \in editor[e].next :
       IF jobs[s] # NoJobYet
       THEN editor' = [editor EXCEPT ![e] = Answered] /\ UNCHANGED jobs
       ELSE /\ jobs' = [jobs EXCEPT ![s] = editor[e].zone]
            /\ editor' = [editor EXCEPT ![e].next = {}, ![e].zone = NoJobYet]
  /\ UNCHANGED <<saved, timezone, edits, aborted, crossed>>

\* add_job, replace_existing
AddJob(e) ==
  /\ editor[e].step = "add"
  /\ \E s \in editor[e].next : jobs' = [jobs EXCEPT ![s] = editor[e].zone]
  /\ editor' = [editor EXCEPT ![e].next = {}, ![e].zone = NoJobYet]
  /\ UNCHANGED <<saved, timezone, edits, aborted, crossed>>

ReloadEnds(e) ==
  /\ editor[e].step = "add" /\ editor[e].adding = {} /\ editor[e].next = {}
  /\ editor' = [editor EXCEPT ![e] = Answered]
  /\ UNCHANGED <<saved, timezone, jobs, edits, aborted, crossed>>

ReloadNext ==
  \E e \in Editors :
    \/ EditSchedule(e) \/ SetTimezone(e)
    \/ ListJobs(e) \/ RemoveJob(e) \/ ReadSchedules(e)
    \/ MakeTrigger(e) \/ AddJob(e) \/ ReloadEnds(e)

-----------------------------------------------------------------------------

\* When all requests are answered, every enabled schedule has its job, however
\* the reloads overlapped, unless one of them ended in an error that no later
\* one has made good; and where none overlapped, the jobs are those of the
\* enabled schedules, in the time zone of the settings (reload_report_jobs).
JobsFollowSchedules ==
  (\A e \in Editors : editor[e].step = "none") =>
    /\ ~aborted => \A s \in Saved : saved[s] = "enabled" => jobs[s] # NoJobYet
    /\ ~crossed => \A s \in Saved : jobs[s] = IF saved[s] = "enabled" THEN timezone ELSE NoJobYet
=============================================================================
