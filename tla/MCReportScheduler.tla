-------------------------- MODULE MCReportScheduler --------------------------
(***************************************************************************)
(* Instances of ReportScheduler for TLC: the fan-out schedule s1 for the   *)
(* tenants t1 and t2, or the schedule s2 of the tenant t1.                 *)
(***************************************************************************)
EXTENDS ReportSchedulerProps, ReportRunsProps, TLC

CONSTANTS s1, s2, t1, t2

MCCovers == [s \in Schedules |-> IF s = s1 THEN {t1, t2} ELSE {t1}]
MCFanOut == [s \in Schedules |-> s = s1]

\* Due at 1 only; every instant has a period of its own
MCDue == [s \in Schedules |-> {1}]
MCPeriodAt == [s \in Schedules |-> [t \in 0..MaxClock |-> t]]

TenantSymmetry == Permutations({t1, t2})
=============================================================================
