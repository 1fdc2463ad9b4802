------------------------------ MODULE Archive ------------------------------
(***************************************************************************)
(* The archive of report files (app/delivery/archive.py): reports write    *)
(* their files and record them in their row at the end, the nightly purge  *)
(* (purge_old_data in app/collectors/runner.py) and the deletion of a      *)
(* tenant remove rows and then files, and a sweep removes the files whose  *)
(* row is gone.  They all run beside one another, and the process may stop *)
(* between any two steps.                                                  *)
(*                                                                         *)
(* A call of run_report stands for its files: their names hold its start   *)
(* and its run id, so no two calls share one.  Time passes in days.  How   *)
(* runs are scheduled, built and sent is ReportRuns.                       *)
(***************************************************************************)
EXTENDS Integers, FiniteSets, FiniteSetsExt

CONSTANTS
  Tenants,
  ReuseIds,   \* SQLite gives a deleted highest run id out again
  MinAge,     \* min_age of sweep_orphans, in days
  Retention,  \* archive_retention_days
  MaxCalls,   \* bound on reports
  MaxFaults   \* bound on stops and on files that cannot be removed

Calls == 1..MaxCalls
Ids == 1..MaxCalls

ASSUME ArchiveConstants ==
  /\ ReuseIds \in BOOLEAN
  /\ {MinAge, Retention, MaxCalls} \subseteq Nat \ {0} /\ MaxFaults \in Nat
  /\ MinAge <= Retention

VARIABLES
  tenants,  \* the tenants there are
  rows,     \* report_runs
  calls,    \* the calls of run_report
  files,    \* files[c]: the age of the files of a call, or -1
  folders,  \* the tenants whose folder exists
  purge,    \* the nightly purge and its local variables
  delete,   \* tenant_delete, for each tenant
  faults

ArchiveVars == <<tenants, rows, calls, files, folders, purge, delete, faults>>

NoRow == [status |-> "absent", tenant |-> CHOOSE t \in Tenants : TRUE, age |-> 0, file |-> 0]
NoCall == [pc |-> "none", id |-> 0, tenant |-> CHOOSE t \in Tenants : TRUE]
NoPurge == [pc |-> "idle", doomed |-> {}, known |-> {}]
NoDelete == [pc |-> "idle", doomed |-> {}]

ArchiveInit ==
  /\ tenants = Tenants
  /\ rows = [i \in Ids |-> NoRow]
  /\ calls = [c \in Calls |-> NoCall]
  /\ files = [c \in Calls |-> -1]
  /\ folders = {}
  /\ purge = NoPurge
  /\ delete = [t \in Tenants |-> NoDelete]
  /\ faults = 0

Exists(i) == rows[i].status # "absent"
Active(c) == calls[c].pc \in {"started", "folder", "written"}
Given == {calls[c].id : c \in {d \in Calls : calls[d].pc # "none"}}

-----------------------------------------------------------------------------
(* Reports *)

NextId == 1 + Max({0} \union IF ReuseIds THEN {i \in Ids : Exists(i)} ELSE Given)

Start(t) ==
  /\ t \in tenants
  /\ \E c \in Calls :
       /\ calls[c].pc = "none" /\ \A d \in 1..c - 1 : calls[d].pc # "none"
       /\ calls' = [calls EXCEPT ![c] = [pc |-> "started", id |-> NextId, tenant |-> t]]
  /\ rows' = [rows EXCEPT ![NextId] = [NoRow EXCEPT !.status = "running", !.tenant = t]]
  /\ UNCHANGED <<tenants, files, folders, purge, delete, faults>>

\* archive_paths
MakeFolder(c) ==
  /\ calls[c].pc = "started"
  /\ calls' = [calls EXCEPT ![c].pc = "folder"]
  /\ folders' = folders \union {calls[c].tenant}
  /\ UNCHANGED <<tenants, rows, files, purge, delete, faults>>

\* write_bytes; the folder may have been pruned in between, and the report fails
Write(c) ==
  /\ calls[c].pc = "folder"
  /\ calls' = [calls EXCEPT ![c].pc = "written"]
  /\ files' = [files EXCEPT ![c] = IF calls[c].tenant \in folders THEN 0 ELSE -1]
  /\ UNCHANGED <<tenants, rows, folders, purge, delete, faults>>

\* _finalize_run writes to whatever row has the id
Finish(c) ==
  LET i == calls[c].id IN
  /\ calls[c].pc = "written"
  /\ calls' = [calls EXCEPT ![c].pc = "ended"]
  /\ rows' = IF ~Exists(i) THEN rows
             ELSE [rows EXCEPT ![i].status = "done", ![i].file = IF files[c] >= 0 THEN c ELSE 0]
  /\ UNCHANGED <<tenants, files, folders, purge, delete, faults>>

-----------------------------------------------------------------------------
(* Removal *)

Recorded(dead) == {rows[i].file : i \in dead} \ {0}
Without(dead) == [i \in Ids |-> IF i \in dead THEN NoRow ELSE rows[i]]

\* remove_files: some may be refused; prune_empty_dirs
Removed(doomed, kept) ==
  /\ kept \subseteq {c \in doomed : files[c] >= 0}
  /\ faults' = faults + Cardinality(kept) /\ faults' <= MaxFaults
  /\ files' = [c \in Calls |-> IF c \in doomed \ kept THEN -1 ELSE files[c]]
  /\ folders' = {t \in folders : \E c \in Calls : files'[c] >= 0 /\ calls[c].tenant = t}

\* Mutant: only reports that have files
ExpiredReported == {i \in Ids : rows[i].file # 0 /\ rows[i].age >= Retention}

Expired == {i \in Ids : rows[i].status = "done" /\ rows[i].age >= Retention}

\* The rows go in a transaction of their own, their files after it
PurgeRows ==
  /\ purge.pc = "idle"
  /\ rows' = Without(Expired)
  /\ purge' = [purge EXCEPT !.pc = "remove", !.doomed = Recorded(Expired)]
  /\ UNCHANGED <<tenants, calls, files, folders, delete, faults>>

PurgeFiles ==
  /\ purge.pc = "remove"
  /\ \E kept \in SUBSET purge.doomed : Removed(purge.doomed, kept)
  /\ purge' = [purge EXCEPT !.pc = "read", !.doomed = {}]
  /\ UNCHANGED <<tenants, rows, calls, delete>>

PurgeRead ==
  /\ purge.pc = "read"
  /\ purge' = [purge EXCEPT !.pc = "sweep", !.known = {i \in Ids : Exists(i)}]
  /\ UNCHANGED <<tenants, rows, calls, files, folders, delete, faults>>

\* Mutant: whatever its age
AnyAge(age) == age >= 0

OldEnough(age) == age >= MinAge

\* sweep_orphans
PurgeSweep ==
  LET orphans == {c \in Calls : OldEnough(files[c]) /\ calls[c].id \notin purge.known} IN
  /\ purge.pc = "sweep"
  /\ IF orphans = {} THEN UNCHANGED <<files, folders, faults>>
     ELSE \E kept \in SUBSET orphans : Removed(orphans, kept)
  /\ purge' = NoPurge
  /\ UNCHANGED <<tenants, rows, calls, delete>>

\* tenant_delete notes the files, deletes the tenant with its runs, removes the files
DeleteRead(t) ==
  /\ t \in tenants /\ delete[t].pc = "idle"
  /\ delete' = [delete EXCEPT ![t] = [pc |-> "commit",
                  doomed |-> Recorded({i \in Ids : Exists(i) /\ rows[i].tenant = t})]]
  /\ UNCHANGED <<tenants, rows, calls, files, folders, purge, faults>>

DeleteCommit(t) ==
  /\ delete[t].pc = "commit"
  /\ tenants' = tenants \ {t}
  /\ rows' = Without({i \in Ids : Exists(i) /\ rows[i].tenant = t})
  /\ delete' = [delete EXCEPT ![t].pc = "remove"]
  /\ UNCHANGED <<calls, files, folders, purge, faults>>

DeleteFiles(t) ==
  /\ delete[t].pc = "remove"
  /\ \E kept \in SUBSET delete[t].doomed : Removed(delete[t].doomed, kept)
  /\ delete' = [delete EXCEPT ![t] = NoDelete]
  /\ UNCHANGED <<tenants, rows, calls, purge>>

-----------------------------------------------------------------------------
(* Stops and days *)

\* The process stops and starts again; what ran is marked failed
Restart ==
  /\ faults < MaxFaults /\ faults' = faults + 1
  /\ calls' = [c \in Calls |-> IF Active(c) THEN [calls[c] EXCEPT !.pc = "ended"] ELSE calls[c]]
  /\ rows' = [i \in Ids |-> IF rows[i].status = "running" THEN [rows[i] EXCEPT !.status = "done"]
                            ELSE rows[i]]
  /\ purge' = NoPurge /\ delete' = [t \in Tenants |-> NoDelete]
  /\ UNCHANGED <<tenants, files, folders>>

\* A whole day; no report and no purge takes that long
Day ==
  /\ \A c \in Calls : ~Active(c)
  /\ purge.pc = "idle" /\ \A t \in Tenants : delete[t].pc = "idle"
  /\ files' = [c \in Calls |-> IF files[c] \in 0..Retention - 1 THEN files[c] + 1 ELSE files[c]]
  /\ rows' = [i \in Ids |-> IF Exists(i) /\ rows[i].age < Retention
                            THEN [rows[i] EXCEPT !.age = @ + 1] ELSE rows[i]]
  /\ UNCHANGED <<tenants, calls, folders, purge, delete, faults>>

Report(c) == MakeFolder(c) \/ Write(c) \/ Finish(c)
Purge == PurgeRows \/ PurgeFiles \/ PurgeRead \/ PurgeSweep
Deletion(t) == DeleteCommit(t) \/ DeleteFiles(t)

ArchiveNext ==
  \/ \E t \in Tenants : Start(t) \/ DeleteRead(t) \/ Deletion(t)
  \/ \E c \in Calls : Report(c)
  \/ Purge \/ Restart \/ Day

-----------------------------------------------------------------------------
(* What the archive promises its readers, and the owners of its data        *)

\* A report the archive offers can be opened: whatever purges, deletions and
\* sweeps ran beside it, the file recorded in a row is there, until the row itself
\* is gone (archive.py:90, runner.py:248-291, routes_ui.py:548-564).
ArchiveHasItsFiles == \A i \in Ids : rows[i].file # 0 => files[rows[i].file] >= 0

\* No file stays for good: a report goes when archive_retention_days are over, the
\* file of a deleted run or tenant with it, and one that could not be removed then, or
\* was written after its row was gone, with a sweep of one of the next nights, unless
\* its run id was given to another report, whose life it then shares
\* (archive.py:90-112, runner.py:248-254).
FilesGo == \A c \in Calls : files[c] >= 0 ~> files[c] = -1
=============================================================================
