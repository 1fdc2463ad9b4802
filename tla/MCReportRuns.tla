----------------------------- MODULE MCReportRuns -----------------------------
(***************************************************************************)
(* Instances of ReportRuns for TLC: the fan-out schedule s1 for the tenants*)
(* t1 and t2, the schedule s2 of the tenant t1, and two threads.           *)
(***************************************************************************)
EXTENDS ReportRunsProps, TLC

CONSTANTS s1, s2, t1, t2, w1, w2

MCCovers == [s \in Schedules |-> IF s = s1 THEN {t1, t2} ELSE {t1}]
MCFanOut == [s \in Schedules |-> s = s1]

\* Nothing tells the two threads apart, nor the two tenants of s1
ThreadSymmetry == Permutations({w1, w2})
FullSymmetry == Permutations({w1, w2}) \union Permutations({t1, t2})
=============================================================================
