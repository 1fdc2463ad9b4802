------------------------- MODULE ReportSchedulerProps -------------------------
(***************************************************************************)
(* What catch-up promises after an outage                                  *)
(***************************************************************************)
EXTENDS ReportScheduler

SameReport(m, n) == m.schedule = n.schedule /\ m.tenant = n.tenant /\ m.period = n.period

(* CHANGELOG 0.7.0: "Catch-up after an outage completes a schedule tenant   *)
(* by tenant, without running a tenant twice."  What holds: catch-up mails  *)
(* a report that was mailed before only when the first run was lost before  *)
(* it could finalize its row - as long as no other run of the schedule      *)
(* works on that period meanwhile.                                          *)
TwiceOnlyAfterLoss ==
  \A m, n \in outbox :
    m.call < n.call /\ n.trigger = "catchup" /\ m.schedule # Null /\ SameReport(m, n)
    => m.call \in lost

Attempted(s, t, p) ==
  \E i \in RunIds : /\ rows[i].schedule = s
                    /\ rows[i].tenant = t
                    /\ rows[i].asked = p

(* README, Missed schedules: "At start-up, scheduled reports that fell due  *)
(* while it was down are generated for the periods they would have          *)
(* covered".  Every tenant of the schedule gets a run for the period,       *)
(* unless an administrator takes the schedule or the tenant out of service. *)
MissedIsRun ==
  \A s \in Schedules : \A d \in DueAt[s], t \in Covers[s] :
    [schedule |-> s, due |-> d] \in outage ~>
      \/ Attempted(s, t, PeriodAt[s][d])
      \/ [schedule |-> s, due |-> d] \notin outage
      \/ t \notin Targets(s)
=============================================================================
