------------------------------ MODULE Backups ------------------------------
(***************************************************************************)
(* Backups of the database and of the report archive (app/backup.py),      *)
(* beside reports that are written and purged: the nightly job and the     *)
(* button on the settings page in the service, and the console in a        *)
(* process of its own.  A backup is a snapshot of the database, then the   *)
(* report files one after the other, then a rename, then the pruning of    *)
(* older backups of its kind.                                              *)
(***************************************************************************)
EXTENDS Integers, FiniteSets, FiniteSetsExt

CONSTANTS
  ReportFiles, \* numbers, in the order of their names
  LastInstant, \* bound on the time
  BackupKeep,  \* backup_keep
  MaxBackups   \* bound on the backups begun

ASSUME BackupConstants ==
  /\ ReportFiles \subseteq Nat /\ IsFiniteSet(ReportFiles)
  /\ {LastInstant, MaxBackups} \subseteq Nat /\ BackupKeep \in Nat \ {0}

VARIABLES
  instant,
  report,   \* report[r]: "none", "written", "kept" (with its row), "expired" (without), "gone"
  since, until, \* when its row was finished and purged (history)
  archives, \* the backups in DATA_DIR/backups
  making,   \* the local variables of create_backup, in the service and on the console
  begun,
  newest    \* the newest name of a finished backup of each kind (history)

BackupVars == <<instant, report, since, until, archives, making, begun, newest>>

Makers == {"service", "console"}
NoBackup == [phase |-> "idle", stamp |-> 0, full |-> FALSE, keep |-> 0, rows |-> {}, todo |-> {}, files |-> {}]

BackupInit ==
  /\ instant = 0
  /\ report = [r \in ReportFiles |-> "none"]
  /\ since = [r \in ReportFiles |-> LastInstant + 1] /\ until = [r \in ReportFiles |-> LastInstant + 1]
  /\ archives = {}
  /\ making = [j \in Makers |-> NoBackup]
  /\ begun = 0
  /\ newest = [full \in BOOLEAN |-> -1]

-----------------------------------------------------------------------------
(* The reports *)

OnDisk(r) == report[r] \in {"written", "kept", "expired"}

\* Files before the row, at the end the row before the files
FinishReport(r) ==
  /\ report[r] \in {"none", "written"}
  /\ report' = [report EXCEPT ![r] = IF @ = "none" THEN "written" ELSE "kept"]
  /\ since' = IF report[r] = "written" THEN [since EXCEPT ![r] = instant] ELSE since
  /\ UNCHANGED <<instant, until, archives, making, begun, newest>>

PurgeReport(r) ==
  /\ report[r] \in {"kept", "expired"}
  /\ report' = [report EXCEPT ![r] = IF @ = "kept" THEN "expired" ELSE "gone"]
  /\ until' = IF report[r] = "kept" THEN [until EXCEPT ![r] = instant] ELSE until
  /\ UNCHANGED <<instant, since, archives, making, begun, newest>>

-----------------------------------------------------------------------------
(* create_backup *)

\* The service backs up the database alone; the console with or without reports,
\* and prunes only when told how many to keep
BeginBackup(j, full, keep) ==
  /\ making[j].phase = "idle" /\ begun < MaxBackups /\ begun' = begun + 1
  /\ j = "service" => ~full /\ keep = BackupKeep
  /\ making' = [making EXCEPT ![j] = [NoBackup EXCEPT !.phase = "copy", !.stamp = instant,
                                        !.full = full, !.keep = keep]]
  /\ UNCHANGED <<instant, report, since, until, archives, newest>>

\* SQLite's online backup gives one state of the database
CopyDatabase(j) ==
  /\ making[j].phase = "copy"
  /\ making' = [making EXCEPT ![j].phase = IF making[j].full THEN "pack" ELSE "replace",
                              ![j].rows = {r \in ReportFiles : report[r] = "kept"},
                              ![j].todo = ReportFiles]
  /\ UNCHANGED <<instant, report, since, until, archives, begun, newest>>

\* tar.add walks through the folders, each listed when it is entered: a file that
\* is gone by then is passed over, one that goes after the listing fails the backup
PackReport(j) ==
  LET r == Min(making[j].todo) IN
  /\ making[j].phase = "pack"
  /\ IF making[j].todo = {} THEN making' = [making EXCEPT ![j].phase = "replace"]
     ELSE \/ /\ OnDisk(r)
             /\ making' = [making EXCEPT ![j].todo = @ \ {r}, ![j].files = @ \union {r}]
          \/ /\ ~OnDisk(r)
             /\ making' = [making EXCEPT ![j].todo = @ \ {r}]
          \/ /\ report[r] = "gone"
             /\ making' = [making EXCEPT ![j] = NoBackup]
  /\ UNCHANGED <<instant, report, since, until, archives, begun, newest>>

\* The name has the time of the beginning: one begun in the same second is replaced
ReplaceBackup(j) ==
  LET b == making[j] IN
  /\ b.phase = "replace"
  /\ archives' = {a \in archives : a.full # b.full \/ a.stamp # b.stamp}
                 \union {[stamp |-> b.stamp, full |-> b.full, rows |-> b.rows, files |-> b.files, done |-> instant]}
  /\ newest' = [newest EXCEPT ![b.full] = Max({@, b.stamp})]
  /\ making' = [making EXCEPT ![j] = IF b.keep > 0 THEN [b EXCEPT !.phase = "prune"] ELSE NoBackup]
  /\ UNCHANGED <<instant, report, since, until, begun>>

\* Mutant: sorted the other way round
OldestOf(same, keep) == {a \in same : Cardinality({b \in same : b.stamp < a.stamp}) < keep}

NewestOf(same, keep) == {a \in same : Cardinality({b \in same : b.stamp > a.stamp}) < keep}

PruneBackups(j) ==
  LET same == {a \in archives : a.full = making[j].full} IN
  /\ making[j].phase = "prune"
  /\ archives' = (archives \ same) \union NewestOf(same, making[j].keep)
  /\ making' = [making EXCEPT ![j] = NoBackup]
  /\ UNCHANGED <<instant, report, since, until, begun, newest>>

\* A full disk or a stop: what is in the temporary folder is no backup
BackupFails(j) ==
  /\ making[j].phase # "idle"
  /\ making' = [making EXCEPT ![j] = NoBackup]
  /\ UNCHANGED <<instant, report, since, until, archives, begun, newest>>

InstantPasses ==
  /\ instant < LastInstant /\ instant' = instant + 1
  /\ UNCHANGED <<report, since, until, archives, making, begun, newest>>

BackupNext ==
  \/ \E r \in ReportFiles : FinishReport(r) \/ PurgeReport(r)
  \/ \E j \in Makers : \/ \E full \in BOOLEAN, keep \in {0, BackupKeep} : BeginBackup(j, full, keep)
                       \/ CopyDatabase(j) \/ PackReport(j) \/ ReplaceBackup(j)
                       \/ PruneBackups(j) \/ BackupFails(j)
  \/ InstantPasses

-----------------------------------------------------------------------------

\* backup.py:68-72, README.md:382: a backup holds every report that was finished
\* before the time in its name and still there when it was done; a full one, brought
\* back, offers no report whose file it lacks, but for one purged meanwhile; and
\* whoever prunes beside whom, the newest backup of each kind stays.
BackupsRestore ==
  /\ \A b \in archives :
       /\ \A r \in ReportFiles : since[r] < b.stamp /\ until[r] > b.done => r \in b.rows
       /\ b.full => \A r \in b.rows : r \in b.files \/ until[r] <= b.done
  /\ \A full \in BOOLEAN : newest[full] >= 0 =>
       \E b \in archives : b.full = full /\ b.stamp = newest[full]
=============================================================================
