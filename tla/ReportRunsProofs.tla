--------------------------- MODULE ReportRunsProofs ---------------------------
(***************************************************************************)
(* Proofs about ReportRuns, for every set of schedules, tenants, periods   *)
(* and threads, and every bound; at the end, about ReportScheduler: it     *)
(* implements ReportRuns, and its catch-up leaves out whom a report was    *)
(* sent to, so that it mails none a second time without a loss.            *)
(***************************************************************************)
EXTENDS ReportRunsProps, ReportSchedulerProps, TLAPS

(* TypeOK is inductive only with what a thread inside run_report has set:   *)
(* the row, the call and the period, and in run_schedule the schedule.      *)
ThreadOK(a) ==
  /\ a \in Activation
  /\ a.pc = "submitted" => a.schedule \in Schedules
  /\ a.pc \in {"build", "deliver", "finalize", "alert"} =>
       a.call \in Calls /\ a.run \in RunIds /\ a.asked \in Periods

ThreadsOK == \A w \in Threads : ThreadOK(threads[w])

Typed == TypeOK /\ ThreadsOK

-----------------------------------------------------------------------------
LEMMA IdleOK == ThreadOK(Idle)
  BY RunsConstants DEF ThreadOK, Idle, Activation, Subjects, Triggers, RunIds, Calls

LEMMA NoRowOK == NoRow \in Row
  BY RunsConstants DEF NoRow, Row, Subjects, Triggers

LEMMA ReturnedOK ==
  ASSUME NEW a, a \in Activation, NEW i \in RunIds
  PROVE  ThreadOK(Returned(a, i))
<1>1. Idle \in Activation /\ a.done \union {i} \in SUBSET RunIds
  BY IdleOK DEF ThreadOK, Activation
<1>2. Returned(a, i) \in Activation
  BY <1>1, ZenonT(60) DEF Activation, Returned
<1>3. Returned(a, i).pc = "next"
  BY <1>1 DEF Activation, Returned
<1> QED
  BY <1>2, <1>3 DEF ThreadOK

LEMMA AfterFinalizeOK ==
  ASSUME NEW a, ThreadOK(a), a.pc = "finalize"
  PROVE  ThreadOK(AfterFinalize(a))
<1>1. a \in Activation /\ a.run \in RunIds /\ a.call \in Calls /\ a.asked \in Periods
  BY DEF ThreadOK
<1>2. ThreadOK(Returned(a, a.run))
  BY <1>1, ReturnedOK
<1> DEFINE b == [a EXCEPT !.pc = "alert", !.tries = 0]
<1>3. 0 \in 0..FinalizeAttempts - 1
  BY RunsConstants
<1>4. b \in Activation
  BY <1>1, <1>3 DEF Activation
<1>5. b.call = a.call /\ b.run = a.run /\ b.asked = a.asked /\ b.pc = "alert"
  BY <1>1 DEF Activation
<1>6. ThreadOK(b)
  BY <1>1, <1>4, <1>5 DEF ThreadOK
<1> QED
  BY <1>2, <1>6 DEF AfterFinalize

(* One thread moves on: what it becomes is all that has to be checked.      *)
LEMMA ThreadMoves ==
  ASSUME Typed, NEW w \in Threads, NEW a, ThreadOK(a),
         threads' = [threads EXCEPT ![w] = a]
  PROVE  threads' \in [Threads -> Activation] /\ ThreadsOK'
  BY DEF Typed, TypeOK, ThreadsOK, ThreadOK

LEMMA TypedInit == RunsInit => Typed
<1> SUFFICES ASSUME RunsInit PROVE Typed
  OBVIOUS
<1>1. TypeOK
  BY NoRowOK, IdleOK, RunsConstants
     DEF RunsInit, TypeOK, Existence, ThreadOK, RunIds, Calls
<1>2. ThreadsOK
  BY IdleOK DEF RunsInit, ThreadsOK
<1> QED
  BY <1>1, <1>2 DEF Typed

-----------------------------------------------------------------------------
(* One lemma per action, or per group of actions with the same argument.    *)

\* The steps of a thread that write neither the database nor the history
LEMMA TypedThreadOnly ==
  ASSUME Typed, NEW w \in Threads, NEW a, ThreadOK(a),
         threads' = [threads EXCEPT ![w] = a],
         UNCHANGED <<proc, database, history>>
  PROVE  Typed'
<1>1. threads' \in [Threads -> Activation] /\ ThreadsOK'
  BY ThreadMoves
<1> QED
  BY <1>1 DEF Typed, TypeOK, database, history

LEMMA TypedSubmit ==
  ASSUME Typed, NEW w \in Threads, NEW s \in Schedules, NEW trig \in Triggers,
         NEW ref \in Periods \union {Null}, Submit(w, s, trig, ref)
  PROVE  Typed'
<1> DEFINE a == [Idle EXCEPT !.pc = "submitted", !.schedule = s, !.trigger = trig, !.reference = ref]
<1>1. Idle \in Activation
  BY IdleOK DEF ThreadOK
<1>2. a \in Activation /\ a.pc = "submitted" /\ a.schedule = s
  BY <1>1 DEF Activation
<1>3. ThreadOK(a)
  BY <1>2 DEF ThreadOK
<1>4. threads' = [threads EXCEPT ![w] = a] /\ UNCHANGED <<proc, database, history>>
  BY DEF Submit
<1> QED
  BY <1>3, <1>4, TypedThreadOnly

LEMMA TypedSubmitReport ==
  ASSUME Typed, NEW w \in Threads, NEW t \in Subjects, SubmitReport(w, t)
  PROVE  Typed'
<1> DEFINE a == [Idle EXCEPT !.pc = "next", !.todo = {t}]
<1>1. Idle \in Activation
  BY IdleOK DEF ThreadOK
<1>2. a \in Activation /\ a.pc = "next"
  BY <1>1 DEF Activation
<1>3. ThreadOK(a)
  BY <1>2 DEF ThreadOK
<1> QED
  BY <1>3, TypedThreadOnly DEF SubmitReport

LEMMA TypedBegin ==
  ASSUME Typed, NEW w \in Threads, Begin(w)
  PROVE  Typed'
<1> DEFINE a == threads[w]
           covered == IF a.trigger = "catchup"
                      THEN Targets(a.schedule) \ Done(a.schedule, a.reference)
                      ELSE Targets(a.schedule)
           b == [a EXCEPT !.pc = "next", !.todo = covered]
<1>1. a \in Activation /\ a.schedule \in Schedules /\ ThreadOK(a)
  BY DEF Typed, ThreadsOK, ThreadOK, Begin
<1>2. Covers[a.schedule] \in SUBSET Subjects
  BY <1>1, RunsConstants
<1>3. covered \in SUBSET Subjects
  BY <1>2 DEF Targets
<1>4. b \in Activation /\ b.pc = "next"
  BY <1>1, <1>3, ZenonT(60) DEF Activation
<1>5. ThreadOK(b)
  BY <1>4 DEF ThreadOK
<1>6. PICK c : ThreadOK(c) /\ threads' = [threads EXCEPT ![w] = c]
  BY <1>5, IdleOK DEF Begin
<1> QED
  BY <1>6, TypedThreadOnly DEF Begin

LEMMA TypedBuild ==
  ASSUME Typed, NEW w \in Threads, BuildOk(w) \/ BuildFails(w)
  PROVE  Typed'
<1> DEFINE a == threads[w]
           b == [a EXCEPT !.pc = "deliver", !.built = TRUE]
           c == [a EXCEPT !.pc = "finalize", !.status = "failed"]
<1>1. a \in Activation /\ a.call \in Calls /\ a.run \in RunIds /\ a.asked \in Periods
  BY DEF Typed, ThreadsOK, ThreadOK, BuildOk, BuildFails
<1>2. b \in Activation /\ c \in Activation
  BY <1>1 DEF Activation
<1>3. /\ b.call = a.call /\ b.run = a.run /\ b.asked = a.asked /\ b.pc = "deliver"
      /\ c.call = a.call /\ c.run = a.run /\ c.asked = a.asked /\ c.pc = "finalize"
  BY <1>1 DEF Activation
<1>4. ThreadOK(b) /\ ThreadOK(c)
  BY <1>1, <1>2, <1>3 DEF ThreadOK
<1>5. threads \in [Threads -> Activation]
  BY DEF Typed, TypeOK
<1>6. threads' = [threads EXCEPT ![w] = b] \/ threads' = [threads EXCEPT ![w] = c]
  BY <1>5 DEF BuildOk, BuildFails
<1> QED
  BY <1>4, <1>6, TypedThreadOnly DEF BuildOk, BuildFails

LEMMA TypedDeliver ==
  ASSUME Typed, NEW w \in Threads, NEW status \in {"ok", "failed"}, NEW sent \in BOOLEAN,
         NEW noted \in BOOLEAN, NEW problem \in BOOLEAN, Deliver(w, status, sent, noted, problem)
  PROVE  Typed'
<1> DEFINE a == threads[w]
           b == [a EXCEPT !.pc = "finalize", !.status = status, !.delivered = noted, !.problem = problem]
           m == [call |-> a.call, trigger |-> a.trigger, schedule |-> a.schedule,
                 tenant |-> a.tenant, period |-> a.asked]
<1>1. a \in Activation /\ a.call \in Calls /\ a.run \in RunIds /\ a.asked \in Periods
  BY DEF Typed, ThreadsOK, ThreadOK, Deliver
<1>2. b \in Activation
  BY <1>1 DEF Activation
<1>3. b.call = a.call /\ b.run = a.run /\ b.asked = a.asked /\ b.pc = "finalize"
  BY <1>1 DEF Activation
<1>4. ThreadOK(b)
  BY <1>1, <1>2, <1>3 DEF ThreadOK
<1>5. m \in Mail
  BY <1>1 DEF Mail, Activation
<1>6. outbox' \subseteq Mail
  BY <1>5 DEF Deliver, Typed, TypeOK
<1>7. threads' \in [Threads -> Activation] /\ ThreadsOK'
  BY <1>4, ThreadMoves DEF Deliver
<1> QED
  BY <1>6, <1>7 DEF Deliver, Typed, TypeOK, database

LEMMA FinalizedOK ==
  ASSUME NEW r \in Row, NEW a \in Activation, a.asked \in Periods
  PROVE  Finalized(r, a) \in Row
<1> DEFINE p == IF a.built THEN a.asked ELSE r.period
           d == IF a.delivered THEN TRUE ELSE r.delivered
           f == IF a.problem THEN TRUE ELSE r.problem
<1>1. a.status \in {"ok", "failed"} /\ a.delivered \in BOOLEAN /\ a.problem \in BOOLEAN
  BY DEF Activation
<1>2. r.period \in Periods \union {Null} /\ r.delivered \in BOOLEAN /\ r.problem \in BOOLEAN
  BY DEF Row
<1>3. p \in Periods \union {Null} /\ d \in BOOLEAN /\ f \in BOOLEAN
  BY <1>1, <1>2
<1>4. Finalized(r, a) = [r EXCEPT !.status = a.status, !.period = p, !.delivered = d, !.problem = f]
  BY DEF Finalized
<1> HIDE DEF p, d, f
<1>5. [r EXCEPT !.status = a.status, !.period = p, !.delivered = d, !.problem = f] \in Row
  BY <1>1, <1>3 DEF Row
<1> QED
  BY <1>4, <1>5

LEMMA TypedFinalize ==
  ASSUME Typed, NEW w \in Threads, Finalize(w)
  PROVE  Typed'
<1> DEFINE a == threads[w]
<1>1. a \in Activation /\ a.run \in RunIds /\ a.asked \in Periods /\ ThreadOK(a) /\ a.pc = "finalize"
  BY DEF Typed, ThreadsOK, ThreadOK, Finalize
<1>2. rows[a.run] \in Row
  BY <1>1 DEF Typed, TypeOK
<1>3. Finalized(rows[a.run], a) \in Row
  BY <1>1, <1>2, FinalizedOK
<1>4. rows' \in [RunIds -> Row]
  BY <1>1, <1>3 DEF Finalize, Typed, TypeOK
<1>5. threads' \in [Threads -> Activation] /\ ThreadsOK'
  BY <1>1, AfterFinalizeOK, ThreadMoves DEF Finalize
<1> QED
  BY <1>4, <1>5 DEF Finalize, Typed, TypeOK, history

LEMMA TypedFinalizeFault ==
  ASSUME Typed, NEW w \in Threads, FinalizeFault(w)
  PROVE  Typed'
<1> DEFINE a == threads[w]
           b == [a EXCEPT !.tries = a.tries + 1]
<1>1. a \in Activation /\ ThreadOK(a) /\ a.pc = "finalize" /\ a.call \in Calls
  BY DEF Typed, ThreadsOK, ThreadOK, FinalizeFault
<1>2. proc' = proc /\ UNCHANGED <<tenants, schedules, rows, lastId, calls, outbox, alerted, cut>>
  BY DEF FinalizeFault, database
<1>3. CASE a.tries + 1 < FinalizeAttempts
  <2>1. a.tries + 1 \in 0..FinalizeAttempts - 1
    BY <1>1, <1>3, RunsConstants DEF Activation
  <2>2. b \in Activation
    BY <1>1, <2>1 DEF Activation
  <2>3. b.call = a.call /\ b.run = a.run /\ b.asked = a.asked /\ b.pc = a.pc
    BY <1>1 DEF Activation
  <2>4. ThreadOK(b)
    BY <1>1, <2>2, <2>3 DEF ThreadOK
  <2>5. threads' = [threads EXCEPT ![w] = b] /\ givenUp' = givenUp
    BY <1>1, <1>3 DEF FinalizeFault, Typed, TypeOK
  <2> QED
    BY <1>2, <2>4, <2>5, TypedThreadOnly DEF database, history
<1>4. CASE ~(a.tries + 1 < FinalizeAttempts)
  <2>1. threads' = [threads EXCEPT ![w] = AfterFinalize(a)] /\ givenUp' = givenUp \union {a.call}
    BY <1>4 DEF FinalizeFault
  <2>2. threads' \in [Threads -> Activation] /\ ThreadsOK'
    BY <1>1, <2>1, AfterFinalizeOK, ThreadMoves
  <2> QED
    BY <1>1, <1>2, <2>1, <2>2 DEF Typed, TypeOK
<1> QED
  BY <1>3, <1>4

\* The calls an alert is about are read from the rows
LEMMA OwnersOK ==
  ASSUME Typed, NEW S \in SUBSET RunIds
  PROVE  {rows[i].owner : i \in S} \subseteq Calls \union {0}
  BY DEF Typed, TypeOK, Row

LEMMA TypedAlerts ==
  ASSUME Typed, NEW w \in Threads, AlertRun(w) \/ EndSchedule(w)
  PROVE  Typed'
<1> DEFINE a == threads[w]
<1>1. a \in Activation /\ ThreadOK(a)
  BY DEF Typed, ThreadsOK, ThreadOK
<1>2. proc' = proc /\ UNCHANGED <<tenants, schedules, rows, lastId, calls, outbox, givenUp, cut>>
  BY DEF AlertRun, EndSchedule, database
<1>3. CASE AlertRun(w)
  <2> DEFINE S == {j \in Problems({a.run}) : rows[j].trigger # "manual"}
  <2>1. a.run \in RunIds
    BY <1>1, <1>3 DEF ThreadOK, AlertRun
  <2>2. S \in SUBSET RunIds
    BY <2>1 DEF Problems
  <2>3. {rows[i].owner : i \in S} \subseteq Calls \union {0}
    BY <2>2, OwnersOK
  <2>4. alerted' \subseteq Calls \union {0}
    BY <1>3, <2>3 DEF AlertRun, Typed, TypeOK
  <2>5. threads' \in [Threads -> Activation] /\ ThreadsOK'
    BY <1>1, <1>3, <2>1, ReturnedOK, ThreadMoves DEF AlertRun
  <2> QED
    BY <1>2, <2>4, <2>5 DEF Typed, TypeOK
<1>4. CASE EndSchedule(w)
  <2>1. Problems(a.done) \in SUBSET RunIds
    BY <1>1 DEF Problems, Activation
  <2>2. {rows[i].owner : i \in Problems(a.done)} \subseteq Calls \union {0}
    BY <2>1, OwnersOK
  <2>3. alerted' \subseteq Calls \union {0}
    BY <1>4, <2>2 DEF EndSchedule, Typed, TypeOK
  <2>4. threads' \in [Threads -> Activation] /\ ThreadsOK'
    BY <1>4, IdleOK, ThreadMoves DEF EndSchedule
  <2> QED
    BY <1>2, <2>3, <2>4 DEF Typed, TypeOK
<1> QED
  BY <1>3, <1>4

LEMMA TypedRaises ==
  ASSUME Typed, NEW w \in Threads, Raises(w)
  PROVE  Typed'
  BY IdleOK, TypedThreadOnly DEF Raises

LEMMA TypedOpenRun ==
  ASSUME Typed, NEW w \in Threads, NEW t \in Subjects, NEW p \in Periods, OpenRun(w, t, p)
  PROVE  Typed'
<1> DEFINE a == threads[w]
<1>1. a \in Activation
  BY DEF Typed, TypeOK
<1>2. calls' \in Calls /\ calls + 1 \in Calls /\ calls' = calls + 1
  BY RunsConstants DEF OpenRun, Typed, TypeOK, Calls
<1>3. PICK i \in RunIds :
        /\ lastId' = IF i > lastId THEN i ELSE lastId
        /\ rows' = [rows EXCEPT ![i] =
             [NoRow EXCEPT !.status = IF Present(t) THEN "running" ELSE "failed",
                           !.schedule = a.schedule, !.trigger = a.trigger,
                           !.tenant = IF Present(t) THEN t ELSE NoTenant,
                           !.asked = p, !.owner = calls + 1]]
        /\ threads' = [threads EXCEPT ![w] =
             IF Present(t)
             THEN [a EXCEPT !.pc = "build", !.todo = a.todo \ {t}, !.call = calls + 1,
                            !.run = i, !.tenant = t, !.asked = p]
             ELSE Returned([a EXCEPT !.todo = a.todo \ {t}], i)]
  BY DEF OpenRun
<1> DEFINE b == [a EXCEPT !.pc = "build", !.todo = a.todo \ {t}, !.call = calls + 1,
                          !.run = i, !.tenant = t, !.asked = p]
           c == [a EXCEPT !.todo = a.todo \ {t}]
           r == [NoRow EXCEPT !.status = IF Present(t) THEN "running" ELSE "failed",
                              !.schedule = a.schedule, !.trigger = a.trigger,
                              !.tenant = IF Present(t) THEN t ELSE NoTenant,
                              !.asked = p, !.owner = calls + 1]
<1>4. a.todo \ {t} \in SUBSET Subjects
  BY <1>1 DEF Activation
<1>5. b \in Activation /\ c \in Activation
  BY <1>1, <1>2, <1>4 DEF Activation
<1>6. b.pc = "build" /\ b.call = calls + 1 /\ b.run = i /\ b.asked = p
  BY <1>1 DEF Activation
<1>7. ThreadOK(b)
  BY <1>2, <1>5, <1>6 DEF ThreadOK
<1>8. ThreadOK(Returned(c, i))
  BY <1>5, ReturnedOK
<1>9. threads' \in [Threads -> Activation] /\ ThreadsOK'
  BY <1>3, <1>7, <1>8, ThreadMoves
<1>10. a.schedule \in Schedules \union {Null} /\ a.trigger \in Triggers
  BY <1>1 DEF Activation
<1>11. (IF Present(t) THEN t ELSE NoTenant) \in Subjects
  BY DEF Subjects
<1>12. r \in Row
  BY <1>2, <1>10, <1>11, NoRowOK DEF Row
<1>13. rows' \in [RunIds -> Row]
  BY <1>3, <1>12 DEF Typed, TypeOK
<1>14. lastId' \in RunIds \union {0}
  BY <1>3 DEF Typed, TypeOK
<1> QED
  BY <1>2, <1>9, <1>13, <1>14 DEF OpenRun, Typed, TypeOK

LEMMA TypedStopBoot ==
  ASSUME Typed, Stop \/ Boot
  PROVE  Typed'
<1>1. CASE Stop
  <2> DEFINE S == {v \in Threads : threads[v].pc \in {"build", "deliver", "finalize"}}
  <2>1. \A v \in S : threads[v].call \in Calls
    BY DEF Typed, ThreadsOK, ThreadOK
  <2>2. cut' \subseteq Calls
    BY <1>1, <2>1 DEF Stop, Typed, TypeOK
  <2>3. threads' = [v \in Threads |-> Idle]
    BY <1>1 DEF Stop
  <2>4. threads' \in [Threads -> Activation] /\ ThreadsOK'
    BY <2>3, IdleOK DEF ThreadsOK, ThreadOK
  <2> QED
    BY <1>1, <2>2, <2>4 DEF Stop, Typed, TypeOK, database
<1>2. CASE Boot
  <2>1. \A r \in Row : [r EXCEPT !.status = "failed"] \in Row
    BY DEF Row
  <2>2. rows' \in [RunIds -> Row]
    BY <1>2, <2>1 DEF Boot, Typed, TypeOK
  <2> QED
    BY <1>2, <2>2 DEF Boot, Typed, TypeOK, ThreadsOK, history
<1> QED
  BY <1>1, <1>2

LEMMA DetachedOK ==
  ASSUME Typed, NEW S
  PROVE  Detached(S) \in [RunIds -> Row]
<1>1. \A r \in Row : [r EXCEPT !.schedule = Null] \in Row
  BY DEF Row
<1> QED
  BY <1>1 DEF Detached, Typed, TypeOK

LEMMA TypedAdministers ==
  ASSUME Typed, Administers
  PROVE  Typed'
<1>1. \A e : Flipped(e) \in Existence
  BY DEF Flipped, Existence
<1>2. ASSUME NEW t \in Tenants, TenantToggle(t) PROVE Typed'
  BY <1>1, <1>2 DEF TenantToggle, Typed, TypeOK, ThreadsOK, history
<1>3. ASSUME NEW s \in Schedules, ScheduleToggle(s) PROVE Typed'
  BY <1>1, <1>3 DEF ScheduleToggle, Typed, TypeOK, ThreadsOK, history
<1>4. ASSUME NEW s \in Schedules, ScheduleDelete(s) PROVE Typed'
  <2>1. rows' \in [RunIds -> Row]
    BY <1>4, DetachedOK DEF ScheduleDelete
  <2>2. schedules' \in [Schedules -> Existence]
    BY <1>4 DEF ScheduleDelete, Typed, TypeOK, Existence
  <2> QED
    BY <1>4, <2>1, <2>2 DEF ScheduleDelete, Typed, TypeOK, ThreadsOK, history
<1>5. ASSUME NEW t \in Tenants, TenantDelete(t) PROVE Typed'
  <2>1. rows' \in [RunIds -> Row]
    BY <1>5, DetachedOK, NoRowOK DEF TenantDelete
  <2>2. schedules' \in [Schedules -> Existence] /\ tenants' \in [Tenants -> Existence]
    BY <1>5 DEF TenantDelete, Typed, TypeOK, Existence
  <2> QED
    BY <1>5, <2>1, <2>2 DEF TenantDelete, Typed, TypeOK, ThreadsOK, history
<1> QED
  BY <1>2, <1>3, <1>4, <1>5 DEF Administers

LEMMA TypedStutter ==
  ASSUME Typed, UNCHANGED runVars
  PROVE  Typed'
  BY DEF runVars, Typed, TypeOK, ThreadsOK

LEMMA TypedStep ==
  ASSUME Typed, [RunsNext]_runVars
  PROVE  Typed'
<1>1. ASSUME NEW w \in Threads, Work(w) PROVE Typed'
  BY <1>1, TypedBegin, TypedAlerts, TypedBuild, TypedDeliver, TypedFinalize, TypedFinalizeFault, TypedRaises
     DEF Work, Delivers
<1>2. ASSUME NEW w \in Threads, Opens(w) PROVE Typed'
  BY <1>2, TypedOpenRun DEF Opens
<1>3. ASSUME NEW w \in Threads, Starts(w) PROVE Typed'
  BY <1>3, TypedSubmit, TypedSubmitReport DEF Starts
<1> QED
  BY <1>1, <1>2, <1>3, TypedStopBoot, TypedAdministers, TypedStutter DEF RunsNext

(* Every variable keeps its type, and every thread has what its next step   *)
(* uses, whatever is started, deleted, refused by the database or stopped.  *)
THEOREM Typing == RunsSpec => []Typed
<1>1. RunsInit => Typed
  BY TypedInit
<1>2. Typed /\ [RunsNext]_runVars => Typed'
  BY TypedStep
<1> QED
  BY <1>1, <1>2, PTL DEF RunsSpec

THEOREM TypeCorrect == RunsSpec => []TypeOK
<1>1. Typed => TypeOK
  BY DEF Typed
<1> QED
  BY <1>1, Typing, PTL

-----------------------------------------------------------------------------
(* RunningHasWorker is inductive together with Typed: a row is left         *)
(* "running" only by the thread that inserted it.                           *)

\* A thread outside run_report moves, and the rows stay as they are
LEMMA OtherWorkersStay ==
  ASSUME RunningHasWorker, proc = "up", NEW w \in Threads, ~Busy(w), NEW a,
         threads \in [Threads -> Activation],
         threads' = [threads EXCEPT ![w] = a], UNCHANGED <<rows, givenUp>>
  PROVE  RunningHasWorker'
  BY DEF RunningHasWorker, Busy

\* A thread goes on inside run_report, with the same row and call
LEMMA WorkerGoesOn ==
  ASSUME RunningHasWorker, proc = "up", NEW w \in Threads, NEW a,
         threads \in [Threads -> Activation],
         threads' = [threads EXCEPT ![w] = a], UNCHANGED <<rows, givenUp>>,
         a.pc \in {"build", "deliver", "finalize"},
         a.run = threads[w].run, a.call = threads[w].call
  PROVE  RunningHasWorker'
  BY DEF RunningHasWorker, Busy

LEMMA WorkerQuietSteps ==
  ASSUME Typed, RunningHasWorker, proc = "up", NEW w \in Threads,
         Begin(w) \/ EndSchedule(w) \/ AlertRun(w) \/ Raises(w) \/ Starts(w)
  PROVE  RunningHasWorker'
<1>1. threads \in [Threads -> Activation]
  BY DEF Typed, TypeOK
<1>2. ~Busy(w)
  BY DEF Begin, EndSchedule, AlertRun, Raises, Starts, Submit, SubmitReport, Busy
<1>3. UNCHANGED <<rows, givenUp>>
  BY DEF Begin, EndSchedule, AlertRun, Raises, Starts, Submit, SubmitReport, database, history
<1>4. \E a : threads' = [threads EXCEPT ![w] = a]
  BY DEF Begin, EndSchedule, AlertRun, Raises, Starts, Submit, SubmitReport
<1> QED
  BY <1>1, <1>2, <1>3, <1>4, OtherWorkersStay

LEMMA WorkerBuildsDelivers ==
  ASSUME Typed, RunningHasWorker, proc = "up", NEW w \in Threads,
         BuildOk(w) \/ BuildFails(w) \/ Delivers(w)
  PROVE  RunningHasWorker'
<1> DEFINE a == threads[w]
<1>1. threads \in [Threads -> Activation] /\ a \in Activation
  BY DEF Typed, TypeOK
<1>2. UNCHANGED <<rows, givenUp>>
  BY DEF BuildOk, BuildFails, Delivers, Deliver, database, history
<1>3. CASE BuildOk(w)
  <2> DEFINE b == [a EXCEPT !.pc = "deliver", !.built = TRUE]
  <2>1. b.pc = "deliver" /\ b.run = a.run /\ b.call = a.call
    BY <1>1 DEF Activation
  <2>2. threads' = [threads EXCEPT ![w] = b]
    BY <1>1, <1>3 DEF BuildOk
  <2> HIDE DEF b
  <2> QED
    BY <1>1, <1>2, <2>1, <2>2, WorkerGoesOn
<1>4. CASE BuildFails(w)
  <2> DEFINE b == [a EXCEPT !.pc = "finalize", !.status = "failed"]
  <2>1. b.pc = "finalize" /\ b.run = a.run /\ b.call = a.call
    BY <1>1 DEF Activation
  <2>2. threads' = [threads EXCEPT ![w] = b]
    BY <1>1, <1>4 DEF BuildFails
  <2> HIDE DEF b
  <2> QED
    BY <1>1, <1>2, <2>1, <2>2, WorkerGoesOn
<1>5. CASE Delivers(w)
  <2>1. PICK status \in {"ok", "failed"}, sent, noted, problem \in BOOLEAN :
          Deliver(w, status, sent, noted, problem)
    BY <1>5 DEF Delivers
  <2> DEFINE b == [a EXCEPT !.pc = "finalize", !.status = status, !.delivered = noted, !.problem = problem]
  <2>2. b.pc = "finalize" /\ b.run = a.run /\ b.call = a.call
    BY <1>1 DEF Activation
  <2>3. threads' = [threads EXCEPT ![w] = b]
    BY <2>1 DEF Deliver
  <2> HIDE DEF b
  <2> QED
    BY <1>1, <1>2, <2>2, <2>3, WorkerGoesOn
<1> QED
  BY <1>3, <1>4, <1>5

LEMMA WorkerFinalizes ==
  ASSUME Typed, RunningHasWorker, proc = "up", NEW w \in Threads, Finalize(w)
  PROVE  RunningHasWorker'
<1> DEFINE a == threads[w]
<1>1. /\ threads \in [Threads -> Activation] /\ rows \in [RunIds -> Row]
      /\ a \in Activation /\ a.run \in RunIds /\ givenUp' = givenUp
  BY DEF Typed, TypeOK, ThreadsOK, ThreadOK, Finalize, history
<1>2. Finalized(rows[a.run], a).status = a.status /\ a.status # "running"
  BY <1>1 DEF Finalized, Activation, Row
<1>3. ASSUME NEW i \in RunIds, rows'[i].status = "running"
      PROVE  i # a.run /\ rows'[i] = rows[i]
  BY <1>1, <1>2, <1>3 DEF Finalize, Exists
<1>4. \A v \in Threads : v # w => threads'[v] = threads[v]
  BY <1>1 DEF Finalize
<1> QED
  BY <1>1, <1>3, <1>4 DEF RunningHasWorker, Busy

LEMMA WorkerFaults ==
  ASSUME Typed, RunningHasWorker, proc = "up", NEW w \in Threads, FinalizeFault(w)
  PROVE  RunningHasWorker'
<1> DEFINE a == threads[w]
           b == [a EXCEPT !.tries = a.tries + 1]
<1>1. threads \in [Threads -> Activation] /\ a \in Activation /\ rows' = rows /\ a.pc = "finalize"
  BY DEF Typed, TypeOK, FinalizeFault, database
<1>2. CASE a.tries + 1 < FinalizeAttempts
  <2>1. b.pc = "finalize" /\ b.run = a.run /\ b.call = a.call
    BY <1>1 DEF Activation
  <2>2. threads' = [threads EXCEPT ![w] = b] /\ givenUp' = givenUp
    BY <1>1, <1>2 DEF FinalizeFault
  <2> HIDE DEF b
  <2> QED
    BY <1>1, <2>1, <2>2, WorkerGoesOn
<1>3. CASE ~(a.tries + 1 < FinalizeAttempts)
  <2>1. givenUp' = givenUp \union {a.call} /\ \A v \in Threads : v # w => threads'[v] = threads[v]
    BY <1>1, <1>3 DEF FinalizeFault
  <2> QED
    BY <1>1, <2>1 DEF RunningHasWorker, Busy
<1> QED
  BY <1>2, <1>3

LEMMA WorkerOpens ==
  ASSUME Typed, RunningHasWorker, proc = "up", NEW w \in Threads, Opens(w)
  PROVE  RunningHasWorker'
<1> DEFINE a == threads[w]
<1>1. /\ threads \in [Threads -> Activation] /\ rows \in [RunIds -> Row] /\ a \in Activation
      /\ ~Busy(w) /\ givenUp' = givenUp
  BY DEF Typed, TypeOK, Opens, OpenRun, Busy
<1>2. PICK t \in Subjects, p \in Periods, i \in RunIds :
        /\ rows' = [rows EXCEPT ![i] =
             [NoRow EXCEPT !.status = IF Present(t) THEN "running" ELSE "failed",
                           !.schedule = a.schedule, !.trigger = a.trigger,
                           !.tenant = IF Present(t) THEN t ELSE NoTenant,
                           !.asked = p, !.owner = calls + 1]]
        /\ threads' = [threads EXCEPT ![w] =
             IF Present(t)
             THEN [a EXCEPT !.pc = "build", !.todo = a.todo \ {t}, !.call = calls + 1,
                            !.run = i, !.tenant = t, !.asked = p]
             ELSE Returned([a EXCEPT !.todo = a.todo \ {t}], i)]
  BY ZenonT(60) DEF Opens, OpenRun
<1> DEFINE b == [a EXCEPT !.pc = "build", !.todo = a.todo \ {t}, !.call = calls + 1,
                          !.run = i, !.tenant = t, !.asked = p]
           r == [NoRow EXCEPT !.status = IF Present(t) THEN "running" ELSE "failed",
                              !.schedule = a.schedule, !.trigger = a.trigger,
                              !.tenant = IF Present(t) THEN t ELSE NoTenant,
                              !.asked = p, !.owner = calls + 1]
<1>3. b.pc = "build" /\ b.run = i /\ b.call = calls + 1
  BY <1>1 DEF Activation
<1>4. r.owner = calls + 1 /\ (r.status = "running" => Present(t))
  BY DEF NoRow
<1>5. rows'[i] = r /\ \A j \in RunIds : j # i => rows'[j] = rows[j]
  BY <1>1, <1>2
<1>6. (Present(t) => threads'[w] = b) /\ \A v \in Threads : v # w => threads'[v] = threads[v]
  BY <1>1, <1>2
<1> HIDE DEF b, r
<1> QED
  BY <1>1, <1>3, <1>4, <1>5, <1>6 DEF RunningHasWorker, Busy

LEMMA DetachedKeeps ==
  ASSUME Typed, NEW S, NEW i \in RunIds
  PROVE  /\ Detached(S)[i].status = rows[i].status /\ Detached(S)[i].owner = rows[i].owner
         /\ Detached(S)[i].tenant = rows[i].tenant /\ Detached(S)[i].asked = rows[i].asked
         /\ Detached(S)[i].period = rows[i].period /\ Detached(S)[i].delivered = rows[i].delivered
<1>1. rows[i] \in Row
  BY DEF Typed, TypeOK
<1> QED
  BY <1>1 DEF Detached, Row

LEMMA WorkerAdministers ==
  ASSUME Typed, RunningHasWorker, proc = "up", Administers
  PROVE  RunningHasWorker'
<1>1. UNCHANGED <<threads, givenUp>>
  BY DEF Administers, TenantToggle, TenantDelete, ScheduleToggle, ScheduleDelete, history
<1>2. ASSUME NEW i \in RunIds, rows'[i].status = "running"
      PROVE  rows[i].status = "running" /\ rows'[i].owner = rows[i].owner
  <2>1. ASSUME NEW t \in Tenants, TenantDelete(t)
        PROVE  rows'[i] = NoRow \/ \E S : rows'[i] = Detached(S)[i]
    BY <2>1 DEF TenantDelete
  <2>2. ASSUME NEW s \in Schedules, ScheduleDelete(s)
        PROVE  \E S : rows'[i] = Detached(S)[i]
    BY <2>2 DEF ScheduleDelete
  <2>3. \/ rows'[i] = rows[i] \/ rows'[i] = NoRow
        \/ \E S : rows'[i] = Detached(S)[i]
    BY <2>1, <2>2 DEF Administers, TenantToggle, ScheduleToggle
  <2>4. rows'[i] # NoRow
    BY <1>2 DEF NoRow
  <2> QED
    BY <1>2, <2>3, <2>4, DetachedKeeps
<1> QED
  BY <1>1, <1>2 DEF RunningHasWorker, Busy

LEMMA WorkerBoots ==
  ASSUME Typed, Boot
  PROVE  RunningHasWorker'
<1>1. \A i \in RunIds : rows'[i].status # "running"
  BY DEF Boot, Typed, TypeOK, Row
<1> QED
  BY <1>1 DEF RunningHasWorker

LEMMA WorkerStep ==
  ASSUME Typed, RunningHasWorker, [RunsNext]_runVars
  PROVE  RunningHasWorker'
<1>1. CASE UNCHANGED runVars
  BY <1>1 DEF runVars, RunningHasWorker, Busy
<1>2. CASE Boot
  BY <1>2, WorkerBoots
<1>3. CASE Stop
  BY <1>3 DEF Stop, RunningHasWorker
<1>4. CASE RunsNext /\ ~Boot /\ ~Stop /\ proc = "up"
  <2>1. ASSUME NEW w \in Threads, Work(w) PROVE RunningHasWorker'
    BY <1>4, <2>1, WorkerQuietSteps, WorkerBuildsDelivers, WorkerFinalizes, WorkerFaults DEF Work
  <2>2. ASSUME NEW w \in Threads, Opens(w) \/ Starts(w) PROVE RunningHasWorker'
    BY <1>4, <2>2, WorkerOpens, WorkerQuietSteps
  <2>3. Administers => RunningHasWorker'
    BY <1>4, WorkerAdministers
  <2> QED
    BY <1>4, <2>1, <2>2, <2>3 DEF RunsNext
<1>5. CASE RunsNext /\ ~Boot /\ ~Stop /\ proc # "up"
  <2>1. ASSUME NEW w \in Threads, Work(w) PROVE proc' = proc
    BY <2>1 DEF Work, Begin, EndSchedule, BuildOk, BuildFails, Delivers, Deliver, Finalize, FinalizeFault,
                AlertRun, Raises
  <2>2. ASSUME NEW w \in Threads, Opens(w) \/ Starts(w) PROVE proc' = proc
    BY <2>2 DEF Opens, OpenRun, Starts, Submit, SubmitReport
  <2>3. Administers => proc' = proc
    BY DEF Administers, TenantToggle, TenantDelete, ScheduleToggle, ScheduleDelete
  <2>4. proc' = proc
    BY <1>5, <2>1, <2>2, <2>3 DEF RunsNext
  <2> QED
    BY <1>5, <2>4 DEF RunningHasWorker
<1> QED
  BY <1>1, <1>2, <1>3, <1>4, <1>5

(* While the service is up, no archived run stays "running" without the     *)
(* thread of its own call, unless finalizing it was given up: on SQLite     *)
(* and on PostgreSQL, whatever is deleted meanwhile.                        *)
THEOREM RunningIsWorkedOn == RunsSpec => []RunningHasWorker
<1>1. RunsInit => RunningHasWorker
  BY DEF RunsInit, RunningHasWorker, NoRow
<1>2. Typed /\ RunningHasWorker /\ [RunsNext]_runVars => RunningHasWorker'
  BY WorkerStep
<1> QED
  BY <1>1, <1>2, Typing, PTL DEF RunsSpec

-----------------------------------------------------------------------------
(* What the archive says of every run is true and stays so, for every set of *)
(* schedules, tenants, periods and threads and every bound: proved where no  *)
(* run id is given out twice (NoReuse), which is what the counterexample on  *)
(* SQLite turns on.  At the end: every run implements the lifecycle of       *)
(* RunLifecycle.tla, and problems reach an alert.                            *)

(* The inductive invariant.  With ids that are given out once, a run's id   *)
(* is the number of its call of run_report: the row belongs to that call,   *)
(* and no other thread works on it.                                         *)
IdIsCall ==
  /\ lastId = calls
  /\ \A i \in RunIds : Exists(i) => rows[i].owner = i /\ i <= calls
  /\ \A i \in RunIds : ~Exists(i) => rows[i].owner = 0 /\ ~rows[i].delivered
  /\ \A w \in Threads : Busy(w) => threads[w].run = threads[w].call /\ threads[w].run <= calls
  /\ \A v, w \in Threads : Busy(v) /\ Busy(w) /\ threads[v].run = threads[w].run => v = w
  /\ proc = "down" => \A w \in Threads : threads[w].pc = "idle"

\* No id of a run is given out twice: PostgreSQL's sequence never goes back,
\* and SQLite reuses an id only after the row that had it is deleted.
NoReuse == Database = "postgresql" \/ "tenant_delete" \notin Edits

\* Without a deleted tenant every call so far has its row
Dense == "tenant_delete" \notin Edits => \A i \in RunIds : i <= calls => Exists(i)

\* The thread of a call finds the row as it inserted it, or its tenant is gone
RowKept(a) ==
  IF Exists(a.run)
  THEN rows[a.run].status = "running" /\ rows[a.run].tenant = a.tenant
  ELSE a.tenant # NoTenant /\ tenants[a.tenant] = "absent"

\* What a thread noted as delivered, a mail of its call bears out
Noted(a, mails) ==
  /\ a.pc = "deliver" => a.built
  /\ a.pc # "finalize" => ~a.delivered
  /\ a.delivered => /\ a.built
                    /\ \E m \in mails : m.call = a.call /\ m.tenant = a.tenant /\ m.period = a.asked

\* A thread that has not built a report has set nothing of a result
Unset(a) == a.pc \in {"idle", "submitted", "next", "build"} => ~a.built /\ ~a.delivered

Blank == \A w \in Threads : Unset(threads[w])

\* The mail is what the thread's call sends
Bears(a, m) == a.tenant = m.tenant /\ a.asked = m.period /\ a.built

\* A mail agrees with the row and with the thread of its call
MailOfCall(m) ==
  /\ m.call <= calls
  /\ Exists(m.call) => rows[m.call].tenant = m.tenant
  /\ \A w \in Threads : Busy(w) /\ threads[w].call = m.call => Bears(threads[w], m)

\* Together, with the two invariants it is for
Ledger ==
  /\ IdIsCall
  /\ \A w \in Threads : Busy(w) => RowKept(threads[w]) /\ Noted(threads[w], outbox)
  /\ \A i \in RunIds : rows[i].status = "running" => ~rows[i].delivered
  /\ \A m \in outbox : MailOfCall(m)
  /\ SentIsRecorded
  /\ ArchiveTellsTheTruth

LEMMA IdleUnset == Unset(Idle)
  BY DEF Unset, Idle

LEMMA ReturnedUnset ==
  ASSUME NEW a, NEW i
  PROVE  Unset(Returned(a, i))
  BY DEF Unset, Idle, Returned

LEMMA AfterFinalizeUnset ==
  ASSUME NEW a \in Activation
  PROVE  Unset(AfterFinalize(a))
<1>1. [a EXCEPT !.pc = "alert", !.tries = 0].pc = "alert"
  BY DEF Activation
<1>2. Unset([a EXCEPT !.pc = "alert", !.tries = 0])
  BY <1>1 DEF Unset
<1> QED
  BY <1>2, ReturnedUnset DEF AfterFinalize

LEMMA BlankWork ==
  ASSUME Typed, Blank, NEW w \in Threads, Work(w)
  PROVE  \E b : Unset(b) /\ threads' = [threads EXCEPT ![w] = b]
<1> DEFINE a == threads[w]
           Goal == \E b : Unset(b) /\ threads' = [threads EXCEPT ![w] = b]
<1>1. a \in Activation /\ Unset(a) /\ threads \in [Threads -> Activation]
  BY DEF Typed, TypeOK, Blank
<1>2. ASSUME Begin(w) PROVE Goal
  <2> DEFINE c == IF a.trigger = "catchup" THEN Targets(a.schedule) \ Done(a.schedule, a.reference)
                  ELSE Targets(a.schedule)
  <2>1. a.pc = "submitted"
    BY <1>2 DEF Begin
  <2>2. Unset([a EXCEPT !.pc = "next", !.todo = c])
    BY <1>1, <2>1 DEF Unset, Activation
  <2> QED
    BY <1>2, <2>2, IdleUnset DEF Begin
<1>3. ASSUME BuildOk(w) \/ BuildFails(w) PROVE Goal
  <2> DEFINE b == [a EXCEPT !.pc = "deliver", !.built = TRUE]
             c == [a EXCEPT !.pc = "finalize", !.status = "failed"]
  <2>1. b.pc = "deliver" /\ c.pc = "finalize"
    BY <1>1 DEF Activation
  <2>2. threads' = [threads EXCEPT ![w] = b] \/ threads' = [threads EXCEPT ![w] = c]
    BY <1>1, <1>3 DEF BuildOk, BuildFails
  <2> HIDE DEF b, c
  <2> QED
    BY <2>1, <2>2 DEF Unset
<1>4. ASSUME Delivers(w) PROVE Goal
  <2>1. PICK status \in {"ok", "failed"}, sent, noted, problem \in BOOLEAN :
          Deliver(w, status, sent, noted, problem)
    BY <1>4 DEF Delivers
  <2> DEFINE b == [a EXCEPT !.pc = "finalize", !.status = status, !.delivered = noted, !.problem = problem]
  <2>2. b.pc = "finalize" /\ threads' = [threads EXCEPT ![w] = b]
    BY <1>1, <2>1 DEF Activation, Deliver
  <2> HIDE DEF b
  <2> QED
    BY <2>2 DEF Unset
<1>5. ASSUME Finalize(w) \/ FinalizeFault(w) PROVE Goal
  <2> DEFINE b == [a EXCEPT !.tries = a.tries + 1]
  <2>1. a.pc = "finalize"
    BY <1>5 DEF Finalize, FinalizeFault
  <2>2. b.pc = "finalize"
    BY <1>1, <2>1 DEF Activation
  <2>3. threads' = [threads EXCEPT ![w] = b] \/ threads' = [threads EXCEPT ![w] = AfterFinalize(a)]
    BY <1>1, <1>5 DEF Finalize, FinalizeFault
  <2> HIDE DEF b
  <2> QED
    BY <1>1, <2>2, <2>3, AfterFinalizeUnset DEF Unset
<1>6. ASSUME EndSchedule(w) \/ AlertRun(w) \/ Raises(w) PROVE Goal
  BY <1>6, IdleUnset, ReturnedUnset DEF EndSchedule, AlertRun, Raises
<1> QED
  BY <1>2, <1>3, <1>4, <1>5, <1>6 DEF Work

LEMMA BlankStarts ==
  ASSUME Typed, Blank, NEW w \in Threads, Starts(w)
  PROVE  \E b : Unset(b) /\ threads' = [threads EXCEPT ![w] = b]
<1>1. \A s, trig, ref : Unset([Idle EXCEPT !.pc = "submitted", !.schedule = s, !.trigger = trig, !.reference = ref])
  BY DEF Unset, Idle
<1>2. \A t : Unset([Idle EXCEPT !.pc = "next", !.todo = {t}])
  BY DEF Unset, Idle
<1>3. ASSUME NEW s, NEW trig, NEW ref, Submit(w, s, trig, ref)
      PROVE  \E b : Unset(b) /\ threads' = [threads EXCEPT ![w] = b]
  BY <1>1, <1>3 DEF Submit
<1>4. ASSUME NEW t, SubmitReport(w, t)
      PROVE  \E b : Unset(b) /\ threads' = [threads EXCEPT ![w] = b]
  BY <1>2, <1>4 DEF SubmitReport
<1> QED
  BY <1>3, <1>4 DEF Starts

LEMMA BlankOpens ==
  ASSUME Typed, Blank, NEW w \in Threads, Opens(w)
  PROVE  \E b : Unset(b) /\ threads' = [threads EXCEPT ![w] = b]
<1> DEFINE a == threads[w]
<1>1. a \in Activation /\ Unset(a) /\ a.pc = "next"
  BY DEF Typed, TypeOK, Blank, Opens, OpenRun
<1>2. PICK t \in Subjects, p \in Periods, i \in RunIds :
        threads' = [threads EXCEPT ![w] =
             IF Present(t)
             THEN [a EXCEPT !.pc = "build", !.todo = a.todo \ {t}, !.call = calls + 1,
                            !.run = i, !.tenant = t, !.asked = p]
             ELSE Returned([a EXCEPT !.todo = a.todo \ {t}], i)]
  BY DEF Opens, OpenRun
<1> DEFINE b == [a EXCEPT !.pc = "build", !.todo = a.todo \ {t}, !.call = calls + 1,
                          !.run = i, !.tenant = t, !.asked = p]
<1>3. Unset(b)
  BY <1>1 DEF Unset, Activation
<1> QED
  BY <1>2, <1>3, ReturnedUnset

LEMMA BlankStep ==
  ASSUME Typed, Blank, [RunsNext]_runVars
  PROVE  Blank'
<1>1. threads \in [Threads -> Activation]
  BY DEF Typed, TypeOK
<1>2. ASSUME NEW w \in Threads, Work(w) \/ Opens(w) \/ Starts(w) PROVE Blank'
  <2>1. PICK b : Unset(b) /\ threads' = [threads EXCEPT ![w] = b]
    BY <1>2, BlankWork, BlankOpens, BlankStarts
  <2> QED
    BY <1>1, <2>1 DEF Blank, Unset
<1>3. Stop => Blank'
  BY IdleUnset DEF Stop, Blank, Unset
<1>4. (Administers \/ Boot \/ UNCHANGED runVars) => threads' = threads
  BY DEF Administers, TenantToggle, TenantDelete, ScheduleToggle, ScheduleDelete, Boot, runVars
<1> QED
  BY <1>2, <1>3, <1>4 DEF RunsNext, Blank, Unset

LEMMA FreshIsNext ==
  ASSUME Typed, Ledger, NoReuse, Dense, NEW i \in RunIds, FreshId(i), calls < MaxRuns
  PROVE  i = calls + 1
<1>1. calls \in Nat /\ lastId = calls /\ MaxRuns \in Nat /\ i \in Nat /\ i >= 1
  BY RunsConstants DEF Typed, TypeOK, Calls, Ledger, IdIsCall, RunIds
<1>2. CASE Database # "sqlite"
  BY <1>1, <1>2 DEF FreshId
<1>3. CASE Database = "sqlite"
  <2>1. HighestPlusOne(i) /\ \A j \in RunIds : Exists(j) <=> j <= calls
    BY <1>3 DEF FreshId, NoReuse, Dense, Ledger, IdIsCall
  <2>2. \A j \in Nat : j >= 1 /\ j <= calls => j \in RunIds
    BY <1>1 DEF RunIds
  <2>3. calls < i
    <3>1. CASE calls = 0
      BY <1>1, <3>1
    <3>2. CASE calls # 0
      BY <1>1, <2>1, <2>2, <3>2 DEF HighestPlusOne
    <3> QED
      BY <3>1, <3>2
  <2>4. i <= calls + 1
    <3>1. CASE i = 1
      BY <1>1, <3>1
    <3>2. CASE \E j \in RunIds : i = j + 1 /\ Exists(j)
      BY <1>1, <2>1, <3>2 DEF RunIds
    <3> QED
      BY <2>1, <3>1, <3>2 DEF HighestPlusOne
  <2> QED
    BY <1>1, <2>3, <2>4
<1> QED
  BY <1>2, <1>3

LEMMA LedgerInit == RunsInit => Ledger
  BY RunsConstants DEF RunsInit, Ledger, IdIsCall, Exists, NoRow, Busy, Idle, SentIsRecorded, ArchiveTellsTheTruth

\* The rows stay, and no thread is newly inside run_report
LEMMA LedgerRowsStay ==
  ASSUME Typed, Ledger, UNCHANGED <<tenants, rows, lastId, calls, outbox>>,
         \A v \in Threads : Busy(v)' => Busy(v) /\ threads'[v] = threads[v],
         \A v \in Threads : Busy(v) => Busy(v)' \/ threads[v].call \in lost',
         lost \subseteq lost',
         proc' = "down" => \A v \in Threads : threads'[v].pc = "idle"
  PROVE  Ledger'
<1>1. IdIsCall'
  BY DEF Ledger, IdIsCall, Exists
<1>2. (\A v \in Threads : Busy(v) => RowKept(threads[v]) /\ Noted(threads[v], outbox))'
  BY DEF Ledger, RowKept, Noted, Exists
<1>3. (\A i \in RunIds : rows[i].status = "running" => ~rows[i].delivered)'
  BY DEF Ledger
<1>4. (\A m \in outbox : MailOfCall(m))'
  BY DEF Ledger, MailOfCall, Exists, Bears
<1>5. SentIsRecorded'
  <2> SUFFICES ASSUME NEW m \in outbox
               PROVE  \/ m.call \in lost'
                      \/ \E v \in Threads : Busy(v)' /\ threads'[v].call = m.call
                      \/ \E i \in RunIds : rows[i].owner = m.call /\ rows[i].period = m.period
                      \/ m.tenant # NoTenant /\ tenants[m.tenant] = "absent"
    BY DEF SentIsRecorded
  <2>1. CASE m.call \in lost
    BY <2>1
  <2>2. CASE \E v \in Threads : Busy(v) /\ threads[v].call = m.call
    BY <2>2
  <2> QED
    BY <2>1, <2>2 DEF Ledger, SentIsRecorded
<1>6. ArchiveTellsTheTruth'
  BY DEF Ledger, ArchiveTellsTheTruth
<1> QED
  BY <1>1, <1>2, <1>3, <1>4, <1>5, <1>6 DEF Ledger

\* A thread goes on inside run_report; it may have sent the mail of its call
LEMMA LedgerGoesOn ==
  ASSUME Typed, Ledger, NEW w \in Threads, Busy(w), NEW a,
         threads' = [threads EXCEPT ![w] = a],
         UNCHANGED <<proc, tenants, rows, lastId, calls, givenUp, cut>>,
         a.pc \in {"build", "deliver", "finalize"},
         a.run = threads[w].run, a.call = threads[w].call,
         a.tenant = threads[w].tenant, a.asked = threads[w].asked,
         outbox \subseteq outbox', outbox' \subseteq Mail, Noted(a, outbox'),
         \A m \in outbox' : m.call = a.call => Bears(a, m),
         \A m \in outbox' \ outbox : m.call = a.call
  PROVE  Ledger'
<1>1. /\ threads'[w] = a /\ Busy(w)'
      /\ \A v \in Threads : v # w => threads'[v] = threads[v]
      /\ \A v \in Threads : Busy(v)' <=> Busy(v)
      /\ \A v \in Threads : threads'[v].run = threads[v].run /\ threads'[v].call = threads[v].call
  BY DEF Typed, TypeOK, Busy
<1>2. IdIsCall'
  <2>1. proc' # "down"
    BY DEF Ledger, IdIsCall, Busy
  <2> QED
    BY <1>1, <2>1 DEF Ledger, IdIsCall, Exists
<1>3. (\A v \in Threads : Busy(v) => RowKept(threads[v]) /\ Noted(threads[v], outbox))'
  BY <1>1 DEF Ledger, RowKept, Noted, Exists
<1>4. (\A i \in RunIds : rows[i].status = "running" => ~rows[i].delivered)'
  BY DEF Ledger
<1>5. (\A m \in outbox : MailOfCall(m))'
  <2> SUFFICES ASSUME NEW m \in outbox' PROVE MailOfCall(m)'
    OBVIOUS
  <2>0. a.run \in RunIds /\ a.call = a.run /\ a.run <= calls
    BY DEF Ledger, IdIsCall, Typed, ThreadsOK, ThreadOK, Busy
  <2>1. CASE m.call = a.call
    <3>1. \A v \in Threads : Busy(v)' /\ threads'[v].call = m.call => v = w
      BY <1>1, <2>0, <2>1 DEF Ledger, IdIsCall
    <3>2. Exists(a.run) => rows[a.run].tenant = a.tenant
      BY DEF Ledger, RowKept, Exists
    <3> QED
      BY <1>1, <2>0, <2>1, <3>1, <3>2 DEF MailOfCall, Exists, Bears
  <2>2. CASE m.call # a.call
    BY <1>1, <2>2 DEF Ledger, MailOfCall, Exists, Bears
  <2> QED
    BY <2>1, <2>2
<1>6. SentIsRecorded'
  BY <1>1 DEF Ledger, SentIsRecorded, lost
<1>7. ArchiveTellsTheTruth'
  BY DEF Ledger, ArchiveTellsTheTruth
<1> QED
  BY <1>2, <1>3, <1>4, <1>5, <1>6, <1>7 DEF Ledger

LEMMA LedgerQuietSteps ==
  ASSUME Typed, Ledger, NEW w \in Threads,
         Begin(w) \/ EndSchedule(w) \/ AlertRun(w) \/ Raises(w) \/ Starts(w)
  PROVE  Ledger'
<1>1. ~Busy(w) /\ UNCHANGED <<proc, tenants, rows, lastId, calls, outbox, givenUp, cut>>
  BY DEF Begin, EndSchedule, AlertRun, Raises, Starts, Submit, SubmitReport, Busy, database, history
<1>2. PICK a : threads' = [threads EXCEPT ![w] = a] /\ a.pc \notin {"build", "deliver", "finalize"}
  <2>1. Idle.pc = "idle" /\ \A i : \A a \in Activation : Returned(a, i).pc = "next"
    BY DEF Idle, Returned
  <2>2. threads[w] \in Activation
    BY DEF Typed, TypeOK
  <2>3. ASSUME Begin(w) PROVE \E a : threads' = [threads EXCEPT ![w] = a] /\ a.pc \notin {"build", "deliver", "finalize"}
    <3> DEFINE c == IF threads[w].trigger = "catchup"
                 THEN Targets(threads[w].schedule) \ Done(threads[w].schedule, threads[w].reference)
                 ELSE Targets(threads[w].schedule)
    <3>1. [threads[w] EXCEPT !.pc = "next", !.todo = c].pc = "next"
      BY <2>2 DEF Activation
    <3> QED
      BY <2>1, <2>3, <3>1 DEF Begin
  <2>4. ASSUME Starts(w) PROVE \E a : threads' = [threads EXCEPT ![w] = a] /\ a.pc \notin {"build", "deliver", "finalize"}
    <3>1. \A s, trig, ref : [Idle EXCEPT !.pc = "submitted", !.schedule = s, !.trigger = trig, !.reference = ref].pc = "submitted"
      BY DEF Idle
    <3>2. \A t : [Idle EXCEPT !.pc = "next", !.todo = {t}].pc = "next"
      BY DEF Idle
    <3>3. ASSUME NEW s, NEW trig, NEW ref, Submit(w, s, trig, ref)
          PROVE  \E a : threads' = [threads EXCEPT ![w] = a] /\ a.pc \notin {"build", "deliver", "finalize"}
      BY <3>1, <3>3 DEF Submit
    <3>4. ASSUME NEW t, SubmitReport(w, t)
          PROVE  \E a : threads' = [threads EXCEPT ![w] = a] /\ a.pc \notin {"build", "deliver", "finalize"}
      BY <3>2, <3>4 DEF SubmitReport
    <3> QED
      BY <2>4, <3>3, <3>4 DEF Starts
  <2> QED
    BY <2>1, <2>2, <2>3, <2>4 DEF EndSchedule, AlertRun, Raises
<1>3. threads \in [Threads -> Activation]
  BY DEF Typed, TypeOK
<1>4. ~Busy(w)' /\ \A v \in Threads : v # w => threads'[v] = threads[v]
  BY <1>2, <1>3 DEF Busy
<1>5. \A v \in Threads : Busy(v)' <=> Busy(v)
  BY <1>1, <1>4 DEF Busy
<1>6. \A v \in Threads : Busy(v)' => threads'[v] = threads[v]
  BY <1>1, <1>4, <1>5
<1>7. lost' = lost
  BY <1>1 DEF lost
<1>8. proc' # "down"
  <2>1. threads[w].pc # "idle" \/ proc = "up"
    BY DEF Begin, EndSchedule, AlertRun, Raises, Starts, Submit, SubmitReport
  <2> QED
    BY <1>1, <2>1 DEF Ledger, IdIsCall
<1> QED
  BY <1>1, <1>5, <1>6, <1>7, <1>8, LedgerRowsStay

LEMMA LedgerStops ==
  ASSUME Typed, Ledger, Stop
  PROVE  Ledger'
<1>1. \A v \in Threads : ~Busy(v)' /\ threads'[v].pc = "idle"
  BY DEF Stop, Busy, Idle
<1>2. \A v \in Threads : Busy(v) => threads[v].call \in lost'
  BY DEF Stop, Busy, lost
<1>3. lost \subseteq lost' /\ UNCHANGED <<tenants, rows, lastId, calls, outbox>>
  BY DEF Stop, lost, database
<1> QED
  BY <1>1, <1>2, <1>3, LedgerRowsStay

LEMMA LedgerBuilds ==
  ASSUME Typed, Blank, Ledger, NEW w \in Threads, BuildOk(w) \/ BuildFails(w)
  PROVE  Ledger'
<1> DEFINE a == threads[w]
           b == [a EXCEPT !.pc = "deliver", !.built = TRUE]
           c == [a EXCEPT !.pc = "finalize", !.status = "failed"]
<1>1. a \in Activation /\ Busy(w) /\ a.pc = "build" /\ ~a.built /\ ~a.delivered
  BY DEF Typed, TypeOK, Busy, BuildOk, BuildFails, Blank, Unset
<1>2. \A m \in outbox : m.call # a.call
  BY <1>1 DEF Ledger, MailOfCall, Bears
<1>3. UNCHANGED <<proc, tenants, rows, lastId, calls, outbox, givenUp, cut>>
  BY DEF BuildOk, BuildFails, database, history
<1>4. threads' = [threads EXCEPT ![w] = b] \/ threads' = [threads EXCEPT ![w] = c]
  BY <1>1 DEF BuildOk, BuildFails, Typed, TypeOK
<1>5. /\ b.pc = "deliver" /\ b.built /\ b.delivered = a.delivered /\ c.pc = "finalize" /\ c.delivered = a.delivered
      /\ b.call = a.call /\ b.run = a.run /\ b.asked = a.asked /\ b.tenant = a.tenant
      /\ c.call = a.call /\ c.run = a.run /\ c.asked = a.asked /\ c.tenant = a.tenant
  BY <1>1 DEF Activation
<1> HIDE DEF b, c
<1>6. Noted(b, outbox') /\ Noted(c, outbox')
  BY <1>1, <1>5 DEF Noted
<1>7. outbox \subseteq Mail
  BY DEF Typed, TypeOK
<1> QED
  BY <1>1, <1>2, <1>3, <1>4, <1>5, <1>6, <1>7, LedgerGoesOn

LEMMA LedgerDelivers ==
  ASSUME Typed, Ledger, NEW w \in Threads, NEW status \in {"ok", "failed"}, NEW sent \in BOOLEAN,
         NEW noted \in BOOLEAN, NEW problem \in BOOLEAN, Deliver(w, status, sent, noted, problem)
  PROVE  Ledger'
<1> DEFINE a == threads[w]
           b == [a EXCEPT !.pc = "finalize", !.status = status, !.delivered = noted, !.problem = problem]
           m == [call |-> a.call, trigger |-> a.trigger, schedule |-> a.schedule,
                 tenant |-> a.tenant, period |-> a.asked]
<1>1. a \in Activation /\ Busy(w) /\ a.pc = "deliver" /\ a.built /\ ~a.delivered
  BY DEF Typed, TypeOK, Busy, Deliver, Ledger, Noted
<1>2. /\ b.pc = "finalize" /\ b.delivered = noted /\ b.built
      /\ b.call = a.call /\ b.run = a.run /\ b.asked = a.asked /\ b.tenant = a.tenant
  BY <1>1 DEF Activation
<1>3. /\ threads' = [threads EXCEPT ![w] = b]
      /\ UNCHANGED <<proc, tenants, rows, lastId, calls, givenUp, cut>>
  BY DEF Deliver, database
<1>4. outbox' = IF sent THEN outbox \union {m} ELSE outbox
  BY DEF Deliver
<1>5. outbox' \subseteq Mail
  BY TypedDeliver DEF Typed, TypeOK
<1>6. Bears(b, m) /\ m.call = b.call /\ m.tenant = b.tenant /\ m.period = b.asked
  BY <1>2 DEF Bears
<1>7. \A n \in outbox : n.call = a.call => Bears(b, n)
  BY <1>1, <1>2 DEF Ledger, MailOfCall, Bears
<1>8. noted => sent
  BY DEF Deliver
<1> HIDE DEF b, m
<1>9. Noted(b, outbox')
  BY <1>2, <1>4, <1>6, <1>8 DEF Noted
<1> QED
  BY <1>1, <1>2, <1>3, <1>4, <1>5, <1>6, <1>7, <1>9, LedgerGoesOn

LEMMA LedgerFaults ==
  ASSUME Typed, Ledger, NEW w \in Threads, FinalizeFault(w)
  PROVE  Ledger'
<1> DEFINE a == threads[w]
           b == [a EXCEPT !.tries = a.tries + 1]
<1>1. a \in Activation /\ Busy(w) /\ a.pc = "finalize"
  BY DEF Typed, TypeOK, Busy, FinalizeFault
<1>2. UNCHANGED <<proc, tenants, rows, lastId, calls, outbox, cut>>
  BY DEF FinalizeFault, database
<1>3. CASE a.tries + 1 < FinalizeAttempts
  <2>1. threads' = [threads EXCEPT ![w] = b] /\ givenUp' = givenUp
    BY <1>1, <1>3 DEF FinalizeFault, Typed, TypeOK
  <2>2. /\ b.pc = "finalize" /\ b.built = a.built /\ b.delivered = a.delivered
        /\ b.call = a.call /\ b.run = a.run /\ b.asked = a.asked /\ b.tenant = a.tenant
    BY <1>1 DEF Activation
  <2> HIDE DEF b
  <2>3. Noted(b, outbox') /\ \A m \in outbox : m.call = a.call => Bears(b, m)
    BY <1>1, <1>2, <2>2 DEF Ledger, MailOfCall, Bears, Noted
  <2>4. outbox \subseteq Mail
    BY DEF Typed, TypeOK
  <2> QED
    BY <1>1, <1>2, <2>1, <2>2, <2>3, <2>4, LedgerGoesOn
<1>4. CASE ~(a.tries + 1 < FinalizeAttempts)
  <2>1. threads' = [threads EXCEPT ![w] = AfterFinalize(a)] /\ givenUp' = givenUp \union {a.call}
    BY <1>4 DEF FinalizeFault
  <2>2. AfterFinalize(a).pc \in {"alert", "next"}
    BY <1>1 DEF AfterFinalize, Returned, Idle, Activation
  <2>3. ~Busy(w)' /\ \A v \in Threads : v # w => threads'[v] = threads[v]
    BY <2>1, <2>2 DEF Busy, Typed, TypeOK
  <2>4. a.call \in lost' /\ lost \subseteq lost'
    BY <1>2, <2>1 DEF lost
  <2>5. \A v \in Threads : Busy(v)' => Busy(v) /\ threads'[v] = threads[v]
    BY <2>3 DEF Busy
  <2>6. \A v \in Threads : Busy(v) => Busy(v)' \/ threads[v].call \in lost'
    BY <2>3, <2>4 DEF Busy
  <2>7. proc' # "down"
    BY <1>1, <1>2 DEF Ledger, IdIsCall
  <2> QED
    BY <1>2, <2>4, <2>5, <2>6, <2>7, LedgerRowsStay
<1> QED
  BY <1>3, <1>4

LEMMA LedgerFinalizes ==
  ASSUME Typed, Ledger, NEW w \in Threads, Finalize(w)
  PROVE  Ledger'
<1> DEFINE a == threads[w]
           i == a.run
<1>1. /\ a \in Activation /\ Busy(w) /\ a.pc = "finalize" /\ i \in RunIds /\ a.call = i /\ i <= calls
      /\ RowKept(a) /\ Noted(a, outbox) /\ a.status # "running" /\ a.status # "absent" /\ a.asked \in Periods
  BY DEF Typed, TypeOK, ThreadsOK, ThreadOK, Busy, Finalize, Ledger, IdIsCall, Activation
<1>2. UNCHANGED <<proc, tenants, lastId, calls, outbox, givenUp, cut>>
  BY DEF Finalize, history
<1>3. AfterFinalize(a).pc \in {"alert", "next"}
  BY <1>1 DEF AfterFinalize, Returned, Idle, Activation
<1>4. ~Busy(w)' /\ \A v \in Threads : v # w => threads'[v] = threads[v]
  BY <1>3 DEF Finalize, Busy, Typed, TypeOK
<1>5. \A v \in Threads : Busy(v)' => v # w /\ Busy(v) /\ threads'[v] = threads[v] /\ threads[v].run # i
  BY <1>1, <1>4 DEF Busy, Ledger, IdIsCall
<1>6. \A j \in RunIds : j # i => rows'[j] = rows[j]
  BY DEF Finalize, Typed, TypeOK
<1>7. CASE ~Exists(i)
  <2>1. rows' = rows
    BY <1>7 DEF Finalize
  <2>2. IdIsCall'
    BY <1>1, <1>2, <1>5, <2>1 DEF Ledger, IdIsCall, Exists, Busy
  <2>3. (\A v \in Threads : Busy(v) => RowKept(threads[v]) /\ Noted(threads[v], outbox))'
    BY <1>2, <1>5, <2>1 DEF Ledger, RowKept, Noted, Exists
  <2>4. (\A m \in outbox : MailOfCall(m))'
    BY <1>2, <1>5, <2>1 DEF Ledger, MailOfCall, Exists, Bears
  <2>5. SentIsRecorded'
    <3>1. \A m \in outbox : m.call = i => m.tenant # NoTenant /\ tenants[m.tenant] = "absent"
      BY <1>1, <1>7 DEF Ledger, MailOfCall, Bears, RowKept
    <3>2. \A v \in Threads : Busy(v) /\ threads[v].call # i => Busy(v)' /\ threads'[v] = threads[v]
      BY <1>1, <1>4 DEF Busy
    <3> QED
      BY <1>2, <2>1, <3>1, <3>2 DEF Ledger, SentIsRecorded, lost
  <2>6. ArchiveTellsTheTruth' /\ (\A j \in RunIds : rows[j].status = "running" => ~rows[j].delivered)'
    BY <1>2, <2>1 DEF Ledger, ArchiveTellsTheTruth
  <2> QED
    BY <2>2, <2>3, <2>4, <2>5, <2>6 DEF Ledger
<1>8. CASE Exists(i)
  <2> DEFINE r == rows[i]
  <2>1. r \in Row /\ r.status = "running" /\ r.tenant = a.tenant /\ r.owner = i /\ ~r.delivered
    BY <1>1, <1>8 DEF Ledger, RowKept, IdIsCall, Typed, TypeOK
  <2>2. rows'[i] = Finalized(r, a)
    BY <1>1, <1>8 DEF Finalize, Typed, TypeOK
  <2>3. /\ rows'[i].status = a.status /\ rows'[i].tenant = a.tenant /\ rows'[i].owner = i
        /\ a.built => rows'[i].period = a.asked
        /\ rows'[i].delivered => a.delivered
    BY <2>1, <2>2 DEF Finalized, Row
  <2>4. \A j \in RunIds : Exists(j)' <=> Exists(j)
    BY <1>1, <1>6, <1>8, <2>3 DEF Exists
  <2>5. IdIsCall'
    BY <1>1, <1>2, <1>5, <1>6, <1>8, <2>3, <2>4 DEF Ledger, IdIsCall, Exists, Busy
  <2>6. (\A v \in Threads : Busy(v) => RowKept(threads[v]) /\ Noted(threads[v], outbox))'
    <3> SUFFICES ASSUME NEW v \in Threads, Busy(v)' PROVE (RowKept(threads[v]) /\ Noted(threads[v], outbox))'
      OBVIOUS
    <3>1. v # w /\ Busy(v) /\ threads'[v] = threads[v] /\ threads[v].run # i /\ threads[v].run \in RunIds
      BY <1>5 DEF Typed, ThreadsOK, ThreadOK, Busy
    <3>2. rows'[threads[v].run] = rows[threads[v].run]
      BY <1>6, <3>1
    <3> QED
      BY <1>2, <3>1, <3>2 DEF Ledger, RowKept, Noted, Exists
  <2>7. (\A j \in RunIds : rows[j].status = "running" => ~rows[j].delivered)'
    BY <1>1, <1>6, <2>3 DEF Ledger
  <2>8. (\A m \in outbox : MailOfCall(m))'
    <3> SUFFICES ASSUME NEW m \in outbox PROVE MailOfCall(m)'
      BY <1>2
    <3>1. m.call \in RunIds /\ m.call <= calls
      BY DEF Typed, TypeOK, Mail, Calls, RunIds, Ledger, MailOfCall
    <3>2. Exists(m.call)' => rows'[m.call].tenant = m.tenant
      BY <1>1, <1>6, <2>1, <2>3, <2>4, <3>1 DEF Ledger, MailOfCall
    <3>3. \A v \in Threads : Busy(v)' /\ threads'[v].call = m.call => Bears(threads'[v], m)
      BY <1>5 DEF Ledger, MailOfCall
    <3> QED
      BY <1>2, <3>1, <3>2, <3>3 DEF MailOfCall, Bears
  <2>9. SentIsRecorded'
    <3> SUFFICES ASSUME NEW m \in outbox, m.call \notin lost, ~(m.tenant # NoTenant /\ tenants[m.tenant] = "absent")
                 PROVE  \/ \E v \in Threads : Busy(v)' /\ threads'[v].call = m.call
                        \/ \E j \in RunIds : rows'[j].owner = m.call /\ rows'[j].period = m.period
      BY <1>2 DEF SentIsRecorded, lost
    <3>1. CASE m.call = i
      <4>1. Bears(a, m)
        BY <1>1, <3>1 DEF Ledger, MailOfCall
      <4> QED
        BY <1>1, <2>3, <3>1, <4>1 DEF Bears
    <3>2. CASE m.call # i
      <4>1. CASE \E v \in Threads : Busy(v) /\ threads[v].call = m.call
        <5>1. PICK v \in Threads : Busy(v) /\ threads[v].call = m.call
          BY <4>1
        <5>2. threads'[v] = threads[v] /\ Busy(v)'
          BY <1>1, <1>4, <3>2, <5>1 DEF Busy
        <5> QED
          BY <5>1, <5>2
      <4>2. CASE \E j \in RunIds : rows[j].owner = m.call /\ rows[j].period = m.period
        <5>1. PICK j \in RunIds : rows[j].owner = m.call /\ rows[j].period = m.period
          BY <4>2
        <5> QED
          BY <1>6, <2>1, <3>2, <5>1
      <4> QED
        BY <4>1, <4>2 DEF Ledger, SentIsRecorded
    <3> QED
      BY <3>1, <3>2
  <2>10. ArchiveTellsTheTruth'
    <3> SUFFICES ASSUME NEW j \in RunIds, rows'[j].delivered
                 PROVE  \E m \in outbox : m.call = rows'[j].owner /\ m.tenant = rows'[j].tenant /\ m.period = rows'[j].period
      BY <1>2 DEF ArchiveTellsTheTruth
    <3>1. CASE j = i
      BY <1>1, <2>3, <3>1 DEF Noted
    <3>2. CASE j # i
      BY <1>6, <3>2 DEF Ledger, ArchiveTellsTheTruth
    <3> QED
      BY <3>1, <3>2
  <2> QED
    BY <2>5, <2>6, <2>7, <2>8, <2>9, <2>10 DEF Ledger
<1> QED
  BY <1>7, <1>8

LEMMA LedgerOpens ==
  ASSUME Typed, Blank, Ledger, NoReuse, Dense, NEW w \in Threads, NEW t \in Subjects, NEW p \in Periods,
         OpenRun(w, t, p)
  PROVE  Ledger'
<1> DEFINE a == threads[w]
<1>0. PICK i \in RunIds : i = calls + 1
  <2>1. calls + 1 \in RunIds
    BY RunsConstants DEF OpenRun, Typed, TypeOK, RunIds, Calls
  <2> QED
    BY <2>1
<1>1. /\ a \in Activation /\ ~Busy(w) /\ calls' = i /\ lastId = calls
      /\ UNCHANGED <<proc, tenants, schedules, outbox, givenUp, cut>>
  BY <1>0, RunsConstants DEF OpenRun, Busy, Ledger, IdIsCall, Typed, TypeOK
<1> DEFINE b == [a EXCEPT !.pc = "build", !.todo = a.todo \ {t}, !.call = i,
                          !.run = i, !.tenant = t, !.asked = p]
           c == Returned([a EXCEPT !.todo = a.todo \ {t}], i)
           r == [NoRow EXCEPT !.status = IF Present(t) THEN "running" ELSE "failed",
                              !.schedule = a.schedule, !.trigger = a.trigger,
                              !.tenant = IF Present(t) THEN t ELSE NoTenant,
                              !.asked = p, !.owner = i]
<1>2. /\ lastId' = i
      /\ rows' = [rows EXCEPT ![i] = r]
      /\ threads' = [threads EXCEPT ![w] = IF Present(t) THEN b ELSE c]
  <2>1. PICK k \in RunIds :
          /\ FreshId(k)
          /\ lastId' = IF k > lastId THEN k ELSE lastId
          /\ rows' = [rows EXCEPT ![k] =
               [NoRow EXCEPT !.status = IF Present(t) THEN "running" ELSE "failed",
                             !.schedule = a.schedule, !.trigger = a.trigger,
                             !.tenant = IF Present(t) THEN t ELSE NoTenant,
                             !.asked = p, !.owner = calls + 1]]
          /\ threads' = [threads EXCEPT ![w] =
               IF Present(t)
               THEN [a EXCEPT !.pc = "build", !.todo = a.todo \ {t}, !.call = calls + 1,
                              !.run = k, !.tenant = t, !.asked = p]
               ELSE Returned([a EXCEPT !.todo = a.todo \ {t}], k)]
    BY DEF OpenRun
  <2>2. k = i /\ calls \in Nat
    BY <1>0, <2>1, FreshIsNext DEF OpenRun, Typed, TypeOK, Calls
  <2> QED
    BY <1>0, <1>1, <2>1, <2>2
<1>3. /\ r.owner = i /\ r.status # "absent" /\ ~r.delivered /\ (Present(t) => r.status = "running" /\ r.tenant = t)
      /\ ~Present(t) => r.status = "failed"
  BY DEF NoRow
<1>4. /\ b.pc = "build" /\ b.run = i /\ b.call = i /\ b.tenant = t /\ b.asked = p /\ ~b.delivered
      /\ c.pc = "next"
  BY <1>1 DEF Activation, Returned, Idle, OpenRun, Blank, Unset
<1> HIDE DEF b, c, r
<1>5. /\ rows'[i] = r /\ Exists(i)' /\ ~Exists(i)
      /\ \A j \in RunIds : j # i => rows'[j] = rows[j]
  <2>1. calls \in Nat /\ rows \in [RunIds -> Row]
    BY DEF Typed, TypeOK, Calls
  <2>2. ~Exists(i)
    <3>1. Exists(i) => i <= calls
      BY DEF Ledger, IdIsCall
    <3> QED
      BY <1>0, <2>1, <3>1
  <2> QED
    BY <1>1, <1>2, <1>3, <2>1, <2>2 DEF Exists
<1>6. /\ threads'[w] = IF Present(t) THEN b ELSE c
      /\ \A v \in Threads : v # w => threads'[v] = threads[v]
      /\ \A v \in Threads : Busy(v) => v # w /\ threads[v].run \in RunIds /\ threads[v].run <= calls /\ threads[v].run # i
  BY <1>0, <1>1, <1>2 DEF Typed, TypeOK, ThreadsOK, ThreadOK, Busy, Ledger, IdIsCall, Calls, RunIds
<1>7. Busy(w)' <=> Present(t)
  BY <1>4, <1>6 DEF Busy
<1>8. calls \in Nat /\ i = calls + 1
  BY <1>0 DEF Typed, TypeOK, Calls
<1>9. IdIsCall'
  <2>1. \A j \in RunIds : (Exists(j) => rows[j].owner = j /\ j <= calls)'
    BY <1>1, <1>3, <1>5, <1>8 DEF Ledger, IdIsCall, Exists, RunIds
  <2>2. \A j \in RunIds : (~Exists(j) => rows[j].owner = 0 /\ ~rows[j].delivered)'
    <3> SUFFICES ASSUME NEW j \in RunIds, ~Exists(j)' PROVE rows'[j].owner = 0 /\ ~rows'[j].delivered
      OBVIOUS
    <3>1. j # i /\ rows'[j] = rows[j]
      BY <1>5
    <3> QED
      BY <3>1 DEF Ledger, IdIsCall, Exists
  <2>3. \A v \in Threads : (Busy(v) => threads[v].run = threads[v].call /\ threads[v].run <= calls)'
    BY <1>1, <1>4, <1>6, <1>7, <1>8 DEF Ledger, IdIsCall, Busy, RunIds
  <2>4. \A u, v \in Threads : (Busy(u) /\ Busy(v) /\ threads[u].run = threads[v].run => u = v)'
    BY <1>4, <1>6, <1>7 DEF Ledger, IdIsCall, Busy
  <2>5. proc' # "down"
    BY <1>1 DEF Ledger, IdIsCall, OpenRun
  <2> QED
    BY <1>1, <1>2, <2>1, <2>2, <2>3, <2>4, <2>5 DEF IdIsCall
<1>10. (\A v \in Threads : Busy(v) => RowKept(threads[v]) /\ Noted(threads[v], outbox))'
  <2> SUFFICES ASSUME NEW v \in Threads, Busy(v)' PROVE (RowKept(threads[v]) /\ Noted(threads[v], outbox))'
    OBVIOUS
  <2>1. CASE v = w
    BY <1>3, <1>4, <1>5, <1>6, <1>7, <2>1 DEF RowKept, Noted, Exists
  <2>2. CASE v # w
    <3>1. Busy(v) /\ threads'[v] = threads[v] /\ rows'[threads[v].run] = rows[threads[v].run]
      BY <1>5, <1>6, <2>2 DEF Busy
    <3> QED
      BY <1>1, <3>1 DEF Ledger, RowKept, Noted, Exists
  <2> QED
    BY <2>1, <2>2
<1>11. (\A j \in RunIds : rows[j].status = "running" => ~rows[j].delivered)'
  BY <1>3, <1>5 DEF Ledger
<1>12. \A m \in outbox : m.call \in RunIds /\ m.call <= calls /\ m.call # i
  BY <1>8 DEF Typed, TypeOK, Mail, Calls, RunIds, Ledger, MailOfCall
<1>13. (\A m \in outbox : MailOfCall(m))'
  <2> SUFFICES ASSUME NEW m \in outbox PROVE MailOfCall(m)'
    BY <1>1
  <2>1. \A v \in Threads : Busy(v)' /\ threads'[v].call = m.call => Bears(threads'[v], m)
    BY <1>4, <1>6, <1>7, <1>12 DEF Ledger, MailOfCall, Busy
  <2>2. Exists(m.call)' => rows'[m.call].tenant = m.tenant
    BY <1>5, <1>12 DEF Ledger, MailOfCall, Exists
  <2>3. m.call <= calls'
    BY <1>1, <1>8, <1>12 DEF RunIds
  <2> QED
    BY <2>1, <2>2, <2>3 DEF MailOfCall, Bears
<1>14. SentIsRecorded'
  <2>1. \A v \in Threads : Busy(v) => Busy(v)' /\ threads'[v] = threads[v]
    BY <1>6 DEF Busy
  <2>2. \A j \in RunIds, m \in outbox : rows[j].owner = m.call => rows'[j] = rows[j]
    <3>1. rows[i].owner = 0
      BY <1>1, <1>5 DEF Ledger, IdIsCall
    <3> QED
      BY <1>5, <1>12, <3>1 DEF RunIds
  <2> QED
    BY <1>1, <2>1, <2>2 DEF Ledger, SentIsRecorded, lost
<1>15. ArchiveTellsTheTruth'
  BY <1>1, <1>3, <1>5 DEF Ledger, ArchiveTellsTheTruth
<1> QED
  BY <1>9, <1>10, <1>11, <1>13, <1>14, <1>15 DEF Ledger

LEMMA LedgerBoots ==
  ASSUME Typed, Ledger, Boot
  PROVE  Ledger'
<1>1. /\ UNCHANGED <<tenants, schedules, lastId, threads, calls, outbox, alerted, givenUp, cut>>
      /\ proc = "down" /\ proc' = "up" /\ \A v \in Threads : ~Busy(v)
  BY DEF Boot, history, Ledger, IdIsCall, Busy
<1>2. \A i \in RunIds : \/ rows'[i] = rows[i] /\ rows[i].status # "running"
                        \/ rows'[i] = [rows[i] EXCEPT !.status = "failed"] /\ rows[i].status = "running"
  BY DEF Boot
<1>3. \A i \in RunIds : /\ rows'[i].owner = rows[i].owner /\ rows'[i].tenant = rows[i].tenant
                        /\ rows'[i].delivered = rows[i].delivered /\ rows'[i].period = rows[i].period
                        /\ rows'[i].status # "running" /\ (Exists(i)' <=> Exists(i))
  <2> SUFFICES ASSUME NEW i \in RunIds
               PROVE  /\ rows'[i].owner = rows[i].owner /\ rows'[i].tenant = rows[i].tenant
                      /\ rows'[i].delivered = rows[i].delivered /\ rows'[i].period = rows[i].period
                      /\ rows'[i].status # "running" /\ (Exists(i)' <=> Exists(i))
    OBVIOUS
  <2>1. rows[i] \in Row
    BY DEF Typed, TypeOK
  <2>2. CASE rows'[i] = rows[i] /\ rows[i].status # "running"
    BY <2>2 DEF Exists
  <2>3. CASE rows'[i] = [rows[i] EXCEPT !.status = "failed"] /\ rows[i].status = "running"
    BY <2>1, <2>3 DEF Row, Exists
  <2> QED
    BY <1>2, <2>2, <2>3
<1>4. IdIsCall'
  BY <1>1, <1>3 DEF Ledger, IdIsCall, Busy
<1>5. \A v \in Threads : ~Busy(v)'
  BY <1>1 DEF Busy
<1>6. (\A m \in outbox : MailOfCall(m))'
  <2>1. \A m \in outbox : m.call \in RunIds
    BY DEF Typed, TypeOK, Mail, Calls, RunIds
  <2> QED
    BY <1>1, <1>3, <1>5, <2>1 DEF Ledger, MailOfCall
<1>7. SentIsRecorded' /\ ArchiveTellsTheTruth'
  BY <1>1, <1>3 DEF Ledger, SentIsRecorded, ArchiveTellsTheTruth, lost
<1> QED
  BY <1>3, <1>4, <1>5, <1>6, <1>7 DEF Ledger

\* What a deletion or a change by an administrator leaves of a row
LEMMA AdministersKeeps ==
  ASSUME Typed, Administers, NEW i \in RunIds
  PROVE  \/ /\ rows'[i].status = rows[i].status /\ rows'[i].owner = rows[i].owner
            /\ rows'[i].tenant = rows[i].tenant /\ rows'[i].asked = rows[i].asked
            /\ rows'[i].period = rows[i].period /\ rows'[i].delivered = rows[i].delivered
            /\ rows'[i] = [rows[i] EXCEPT !.schedule = rows'[i].schedule]
         \/ /\ rows'[i] = NoRow /\ rows[i].tenant \in Tenants
            /\ tenants'[rows[i].tenant] = "absent"
<1>1. rows[i] \in Row
  BY DEF Typed, TypeOK
<1>2. CASE rows'[i] = rows[i]
  BY <1>1, <1>2 DEF Row
<1>3. CASE \E S : rows'[i] = Detached(S)[i]
  <2>1. PICK S : rows'[i] = Detached(S)[i]
    BY <1>3
  <2>2. rows'[i] = rows[i] \/ rows'[i] = [rows[i] EXCEPT !.schedule = Null]
    BY <2>1 DEF Detached
  <2> QED
    BY <1>1, <2>2 DEF Row
<1>4. ASSUME NEW t \in Tenants, TenantDelete(t)
      PROVE  \/ \E S : rows'[i] = Detached(S)[i]
             \/ rows'[i] = NoRow /\ rows[i].tenant = t /\ tenants'[t] = "absent"
  BY <1>4 DEF TenantDelete, Typed, TypeOK
<1>5. ASSUME NEW s \in Schedules, ScheduleDelete(s)
      PROVE  \E S : rows'[i] = Detached(S)[i]
  BY <1>5 DEF ScheduleDelete
<1>6. \/ rows'[i] = rows[i] \/ \E S : rows'[i] = Detached(S)[i]
      \/ rows'[i] = NoRow /\ rows[i].tenant \in Tenants /\ tenants'[rows[i].tenant] = "absent"
  BY <1>4, <1>5 DEF Administers, TenantToggle, ScheduleToggle
<1> QED
  BY <1>2, <1>3, <1>6

LEMMA AbsentForGood ==
  ASSUME Typed, Administers, NEW t \in Tenants, tenants[t] = "absent"
  PROVE  tenants'[t] = "absent"
  BY DEF Administers, TenantToggle, TenantDelete, ScheduleToggle, ScheduleDelete, Typed, TypeOK

LEMMA LedgerAdministers ==
  ASSUME Typed, Ledger, Administers
  PROVE  Ledger'
<1> DEFINE Kept(i) ==
             /\ rows'[i].status = rows[i].status /\ rows'[i].owner = rows[i].owner
             /\ rows'[i].tenant = rows[i].tenant /\ rows'[i].asked = rows[i].asked
             /\ rows'[i].period = rows[i].period /\ rows'[i].delivered = rows[i].delivered
           Gone(i) == /\ rows'[i] = NoRow /\ rows[i].tenant \in Tenants
                      /\ tenants'[rows[i].tenant] = "absent"
<1>1. UNCHANGED <<proc, lastId, threads, calls, outbox, givenUp, cut>>
  BY DEF Administers, TenantToggle, TenantDelete, ScheduleToggle, ScheduleDelete, history
<1>2. \A i \in RunIds : Kept(i) \/ Gone(i)
  BY AdministersKeeps
<1>3. \A t \in Tenants : tenants[t] = "absent" => tenants'[t] = "absent"
  BY AbsentForGood
<1>4. \A t \in Subjects : t # NoTenant => t \in Tenants
  BY DEF Subjects
<1>5. \A t \in Tenants : t # NoTenant
  BY RunsConstants
<1>6. NoRow.status = "absent" /\ ~NoRow.delivered
  BY DEF NoRow
<1> HIDE DEF Kept, Gone
<1>8. IdIsCall'
  <2>1. \A i \in RunIds : (Exists(i) => rows[i].owner = i /\ i <= calls)'
    BY <1>1, <1>2, <1>6 DEF Ledger, IdIsCall, Exists, Kept, Gone
  <2>2. \A i \in RunIds : (~Exists(i) => rows[i].owner = 0 /\ ~rows[i].delivered)'
    <3> SUFFICES ASSUME NEW i \in RunIds, ~Exists(i)' PROVE rows'[i].owner = 0 /\ ~rows'[i].delivered
      OBVIOUS
    <3>1. CASE Kept(i)
      <4>1. ~Exists(i)
        BY <3>1 DEF Exists, Kept
      <4> QED
        BY <3>1, <4>1 DEF Ledger, IdIsCall, Kept
    <3>2. CASE Gone(i)
      BY <3>2 DEF Gone, NoRow
    <3> QED
      BY <1>2, <3>1, <3>2
  <2> QED
    BY <1>1, <2>1, <2>2 DEF Ledger, IdIsCall, Busy
<1>9. (\A v \in Threads : Busy(v) => RowKept(threads[v]) /\ Noted(threads[v], outbox))'
  <2> SUFFICES ASSUME NEW v \in Threads, Busy(v) PROVE RowKept(threads[v])' /\ Noted(threads[v], outbox)
    BY <1>1 DEF Busy, Noted
  <2> DEFINE a == threads[v]
  <2>1. a.run \in RunIds /\ a.tenant \in Subjects
    BY DEF Typed, TypeOK, ThreadsOK, ThreadOK, Busy, Activation
  <2>2. RowKept(a) /\ Noted(a, outbox)
    BY DEF Ledger
  <2>3. CASE Kept(a.run)
    BY <1>1, <1>3, <1>4, <2>1, <2>2, <2>3 DEF RowKept, Exists, Kept
  <2>4. CASE Gone(a.run)
    BY <1>1, <1>3, <1>4, <1>5, <1>6, <2>1, <2>2, <2>4 DEF RowKept, Exists, Gone
  <2> QED
    BY <1>2, <2>1, <2>2, <2>3, <2>4
<1>10. (\A i \in RunIds : rows[i].status = "running" => ~rows[i].delivered)'
  BY <1>2, <1>6 DEF Ledger, Kept, Gone
<1>11. \A m \in outbox : m.call \in RunIds /\ m.tenant \in Subjects
  BY DEF Typed, TypeOK, Mail, Calls, RunIds
<1>12. (\A m \in outbox : MailOfCall(m))'
  <2> SUFFICES ASSUME NEW m \in outbox PROVE MailOfCall(m)'
    BY <1>1
  <2>1. Exists(m.call)' => rows'[m.call].tenant = m.tenant
    BY <1>2, <1>6, <1>11 DEF Ledger, MailOfCall, Exists, Kept, Gone
  <2> QED
    BY <1>1, <2>1 DEF Ledger, MailOfCall, Bears, Busy
<1>13. SentIsRecorded'
  <2> SUFFICES ASSUME NEW m \in outbox, m.call \notin lost,
                      \A v \in Threads : ~(Busy(v) /\ threads[v].call = m.call)
               PROVE  \/ \E i \in RunIds : rows'[i].owner = m.call /\ rows'[i].period = m.period
                      \/ m.tenant # NoTenant /\ tenants'[m.tenant] = "absent"
    BY <1>1 DEF SentIsRecorded, lost, Busy
  <2>1. CASE m.tenant # NoTenant /\ tenants[m.tenant] = "absent"
    BY <1>3, <1>4, <1>11, <2>1
  <2>2. CASE \E i \in RunIds : rows[i].owner = m.call /\ rows[i].period = m.period
    <3>1. PICK i \in RunIds : rows[i].owner = m.call /\ rows[i].period = m.period
      BY <2>2
    <3>2. Exists(i) /\ i = m.call
      <4>1. m.call # 0 /\ NoRow.owner = 0
        BY <1>11 DEF RunIds, NoRow
      <4> QED
        BY <3>1, <4>1 DEF Ledger, IdIsCall
    <3>3. rows[i].tenant = m.tenant
      BY <3>2 DEF Ledger, MailOfCall
    <3>4. CASE Kept(i)
      BY <3>1, <3>4 DEF Kept
    <3>5. CASE Gone(i)
      BY <1>5, <3>3, <3>5 DEF Gone
    <3> QED
      BY <1>2, <3>4, <3>5
  <2> QED
    BY <2>1, <2>2 DEF Ledger, SentIsRecorded
<1>14. ArchiveTellsTheTruth'
  BY <1>1, <1>2, <1>6 DEF Ledger, ArchiveTellsTheTruth, Kept, Gone
<1> QED
  BY <1>8, <1>9, <1>10, <1>12, <1>13, <1>14 DEF Ledger

LEMMA LedgerStep ==
  ASSUME Typed, Blank, Ledger, NoReuse, Dense, [RunsNext]_runVars
  PROVE  Ledger'
<1>1. CASE UNCHANGED runVars
  <2>1. Ledger' <=> Ledger
    BY <1>1 DEF runVars, Ledger, IdIsCall, Exists, Busy, RowKept, Noted, MailOfCall, Bears, SentIsRecorded,
                ArchiveTellsTheTruth, lost
  <2> QED
    BY <2>1
<1>2. ASSUME NEW w \in Threads, Work(w) PROVE Ledger'
  BY <1>2, LedgerQuietSteps, LedgerBuilds, LedgerDelivers, LedgerFinalizes, LedgerFaults
     DEF Work, Delivers
<1>3. ASSUME NEW w \in Threads, Opens(w) PROVE Ledger'
  BY <1>3, LedgerOpens DEF Opens
<1>4. ASSUME NEW w \in Threads, Starts(w) PROVE Ledger'
  BY <1>4, LedgerQuietSteps
<1> QED
  BY <1>1, <1>2, <1>3, <1>4, LedgerStops, LedgerBoots, LedgerAdministers DEF RunsNext

-----------------------------------------------------------------------------
\* The steps of a thread that write no row
LEMMA RowsStay ==
  ASSUME NEW w \in Threads,
         Begin(w) \/ EndSchedule(w) \/ BuildOk(w) \/ BuildFails(w) \/ Delivers(w) \/ FinalizeFault(w)
         \/ AlertRun(w) \/ Raises(w) \/ Starts(w)
  PROVE  UNCHANGED <<rows, calls>>
  BY DEF Begin, EndSchedule, BuildOk, BuildFails, Delivers, Deliver, FinalizeFault, AlertRun, Raises,
         Starts, Submit, SubmitReport, database, history

\* A row is finalized by its own thread, which finds it as it inserted it
LEMMA FinalizesRunning ==
  ASSUME Typed, Ledger, NEW w \in Threads, Finalize(w)
  PROVE  \/ UNCHANGED <<rows, calls>>
         \/ \E i \in RunIds, st \in {"ok", "failed"} :
              /\ Exists(i) /\ rows[i].status = "running" /\ rows[i].owner = i /\ i <= calls
              /\ rows'[i].status = st /\ rows'[i].owner = i /\ calls' = calls
              /\ \A j \in RunIds : j # i => rows'[j] = rows[j]
<1> DEFINE a == threads[w]
<1>1. /\ a \in Activation /\ Busy(w) /\ a.run \in RunIds /\ a.run <= calls
      /\ RowKept(a) /\ a.status \in {"ok", "failed"} /\ calls' = calls
  BY DEF Typed, TypeOK, ThreadsOK, ThreadOK, Busy, Finalize, Ledger, IdIsCall, Activation, history
<1>2. CASE ~Exists(a.run)
  BY <1>1, <1>2 DEF Finalize
<1>3. CASE Exists(a.run)
  <2>1. PICK i \in RunIds : i = a.run
    BY <1>1
  <2>2. rows[i] \in Row /\ rows[i].status = "running" /\ rows[i].owner = i
    BY <1>1, <1>3, <2>1 DEF Ledger, RowKept, IdIsCall, Typed, TypeOK
  <2>3. rows'[i] = Finalized(rows[i], a) /\ \A j \in RunIds : j # i => rows'[j] = rows[j]
    BY <1>3, <2>1 DEF Finalize, Typed, TypeOK
  <2>4. rows'[i].status = a.status /\ rows'[i].owner = i
    BY <2>2, <2>3 DEF Finalized, Row
  <2> QED
    BY <1>1, <1>3, <2>1, <2>2, <2>3, <2>4
<1> QED
  BY <1>2, <1>3

\* A new row takes the next id, which no row has
LEMMA OpensFresh ==
  ASSUME Typed, Ledger, NoReuse, Dense, NEW w \in Threads, Opens(w)
  PROVE  \E i \in RunIds, st \in {"running", "failed"} :
           /\ i = calls + 1 /\ calls' = i /\ ~Exists(i)
           /\ rows'[i].status = st /\ rows'[i].owner = i
           /\ \A j \in RunIds : j # i => rows'[j] = rows[j]
<1>1. PICK t \in Subjects, p \in Periods : OpenRun(w, t, p)
  BY DEF Opens
<1>2. PICK i \in RunIds : i = calls + 1
  <2>1. calls + 1 \in RunIds
    BY <1>1, RunsConstants DEF OpenRun, Typed, TypeOK, RunIds, Calls
  <2> QED
    BY <2>1
<1> DEFINE r == [NoRow EXCEPT !.status = IF Present(t) THEN "running" ELSE "failed",
                              !.schedule = threads[w].schedule, !.trigger = threads[w].trigger,
                              !.tenant = IF Present(t) THEN t ELSE NoTenant,
                              !.asked = p, !.owner = i]
<1>3. calls' = i /\ calls \in Nat /\ lastId = calls /\ rows \in [RunIds -> Row]
  BY <1>1, <1>2 DEF OpenRun, Ledger, IdIsCall, Typed, TypeOK, Calls
<1>4. rows' = [rows EXCEPT ![i] = r]
  BY <1>1, <1>2, <1>3, FreshIsNext DEF OpenRun
<1>5. r.owner = i /\ r.status \in {"running", "failed"}
  BY DEF NoRow
<1>6. ~Exists(i)
  <2>1. Exists(i) => i <= calls
    BY DEF Ledger, IdIsCall
  <2> QED
    BY <1>2, <1>3, <2>1
<1> HIDE DEF r
<1> QED
  BY <1>2, <1>3, <1>4, <1>5, <1>6

\* Without a deleted tenant no id is skipped or freed
LEMMA DenseStep ==
  ASSUME Typed, Ledger, NoReuse, Dense, [RunsNext]_runVars
  PROVE  Dense'
<1> DEFINE Goal == \A i \in RunIds : i <= calls' => Exists(i)'
<1> SUFFICES ASSUME "tenant_delete" \notin Edits PROVE Goal
  BY DEF Dense
<1>1. \A i \in RunIds : i <= calls => Exists(i)
  BY DEF Dense
<1>2. calls \in Nat
  BY DEF Typed, TypeOK, Calls
<1>3. UNCHANGED <<rows, calls>> => Goal
  BY <1>1 DEF Exists
<1>4. ASSUME NEW w \in Threads, Work(w) PROVE Goal
  <2>1. CASE Finalize(w)
    BY <1>1, <1>3, <2>1, FinalizesRunning DEF Exists
  <2> QED
    BY <1>3, <1>4, <2>1, RowsStay DEF Work
<1>5. ASSUME NEW w \in Threads, Opens(w) PROVE Goal
  <2>1. PICK i \in RunIds, st \in {"running", "failed"} :
           /\ i = calls + 1 /\ calls' = i /\ rows'[i].status = st
           /\ \A j \in RunIds : j # i => rows'[j] = rows[j]
    BY <1>5, OpensFresh
  <2> SUFFICES ASSUME NEW j \in RunIds, j <= calls' PROVE Exists(j)'
    OBVIOUS
  <2>2. j \in Nat
    BY DEF RunIds
  <2>3. CASE j = i
    BY <2>1, <2>3 DEF Exists
  <2>4. CASE j # i
    <3>1. j <= calls /\ rows'[j] = rows[j]
      BY <1>2, <2>1, <2>2, <2>4
    <3> QED
      BY <1>1, <3>1 DEF Exists
  <2> QED
    BY <2>3, <2>4
<1>6. ASSUME NEW w \in Threads, Starts(w) PROVE Goal
  BY <1>3, <1>6, RowsStay
<1>7. Stop \/ UNCHANGED runVars => Goal
  BY <1>3 DEF Stop, database, runVars
<1>8. ASSUME Boot PROVE Goal
  <2>1. calls' = calls /\ rows \in [RunIds -> Row]
    BY <1>8 DEF Boot, history, Typed, TypeOK
  <2>2. \A i \in RunIds : Exists(i) => Exists(i)'
    <3> SUFFICES ASSUME NEW i \in RunIds, Exists(i) PROVE Exists(i)'
      OBVIOUS
    <3>1. rows'[i] = rows[i] \/ rows'[i] = [rows[i] EXCEPT !.status = "failed"]
      BY <1>8 DEF Boot
    <3>2. rows[i] \in Row
      BY <2>1
    <3> QED
      BY <3>1, <3>2 DEF Row, Exists
  <2> QED
    BY <1>1, <2>1, <2>2
<1>9. ASSUME Administers PROVE Goal
  <2>1. calls' = calls
    BY <1>9 DEF Administers, TenantToggle, TenantDelete, ScheduleToggle, ScheduleDelete, history
  <2>2. \A i \in RunIds : rows'[i].status = rows[i].status
    <3> SUFFICES ASSUME NEW i \in RunIds PROVE rows'[i].status = rows[i].status
      OBVIOUS
    <3>1. \A S : Detached(S)[i].status = rows[i].status
      BY DetachedKeeps
    <3> QED
      BY <1>9, <3>1 DEF Administers, TenantToggle, TenantDelete, ScheduleToggle, ScheduleDelete
  <2> QED
    BY <1>1, <2>1, <2>2 DEF Exists
<1> QED
  BY <1>4, <1>5, <1>6, <1>7, <1>8, <1>9 DEF RunsNext

(* Ids are given out once: Ledger is an invariant on PostgreSQL, and on      *)
(* SQLite as long as no tenant is deleted.                                  *)
THEOREM RecordsKept ==
  ASSUME NoReuse
  PROVE  RunsSpec => [](Blank /\ Dense /\ Ledger)
<1>1. RunsInit => Blank /\ Dense /\ Ledger
  BY LedgerInit, IdleUnset DEF RunsInit, Blank, Dense, RunIds
<1>2. Typed /\ Blank /\ Dense /\ Ledger /\ [RunsNext]_runVars => Blank' /\ Dense' /\ Ledger'
  BY BlankStep, DenseStep, LedgerStep
<1> QED
  BY <1>1, <1>2, Typing, PTL DEF RunsSpec

(* A row with recipients belongs to a call whose mail, for that tenant and  *)
(* period, the relay took (services.py _finalize_run): on SQLite the model  *)
(* checker refutes it once a deleted tenant lets an id be given out again.  *)
THEOREM ArchiveIsTrue ==
  ASSUME NoReuse
  PROVE  RunsSpec => []ArchiveTellsTheTruth
<1>1. Ledger => ArchiveTellsTheTruth
  BY DEF Ledger
<1> QED
  BY <1>1, RecordsKept, PTL

(* No mail the relay took is forgotten: services.py run_report delivers     *)
(* before its last transaction, and catch-up looks for the period there.    *)
THEOREM SentIsKept ==
  ASSUME NoReuse
  PROVE  RunsSpec => []SentIsRecorded
<1>1. Ledger => SentIsRecorded
  BY DEF Ledger
<1> QED
  BY <1>1, RecordsKept, PTL

LEMMA FinalStep ==
  ASSUME Typed, Ledger, NoReuse, Dense, [RunsNext]_runVars,
         NEW i \in RunIds, rows[i].status \in {"ok", "failed"}
  PROVE  \/ rows'[i] = [rows[i] EXCEPT !.schedule = rows'[i].schedule]
         \/ rows[i].owner # rows'[i].owner
<1> DEFINE Goal == \/ rows'[i] = [rows[i] EXCEPT !.schedule = rows'[i].schedule]
                   \/ rows[i].owner # rows'[i].owner
<1>1. rows[i] \in Row /\ Exists(i) /\ rows[i].owner = i /\ i # 0
  BY DEF Typed, TypeOK, Exists, Ledger, IdIsCall, RunIds
<1>2. rows'[i] = rows[i] => Goal
  BY <1>1 DEF Row
<1>3. ASSUME NEW w \in Threads, Work(w) PROVE Goal
  BY <1>2, <1>3, RowsStay, FinalizesRunning DEF Work
<1>4. ASSUME NEW w \in Threads, Opens(w) PROVE Goal
  BY <1>1, <1>2, <1>4, OpensFresh
<1>5. ASSUME NEW w \in Threads, Starts(w) PROVE Goal
  BY <1>2, <1>5, RowsStay
<1>6. Stop \/ UNCHANGED runVars => rows' = rows
  BY DEF Stop, database, runVars
<1>7. Boot => rows'[i] = rows[i]
  BY DEF Boot
<1>8. Administers => Goal
  BY <1>1, AdministersKeeps DEF NoRow
<1> QED
  BY <1>2, <1>3, <1>4, <1>5, <1>6, <1>7, <1>8 DEF RunsNext

(* What a finished row says of its run never changes: _finalize_run and     *)
(* recover_interrupted_runs only ever write running rows.                   *)
THEOREM OutcomesAreFinal ==
  ASSUME NoReuse
  PROVE  RunsSpec => FinishedIsFinal
<1>1. Typed /\ Dense /\ Ledger /\ [RunsNext]_runVars =>
        [\A i \in RunIds : rows[i].status \in {"ok", "failed"} =>
           \/ rows'[i] = [rows[i] EXCEPT !.schedule = rows'[i].schedule]
           \/ rows[i].owner # rows'[i].owner]_runVars
  BY FinalStep
<1> QED
  BY <1>1, RecordsKept, Typing, PTL DEF RunsSpec, FinishedIsFinal

-----------------------------------------------------------------------------
(* RunLifecycle, refined: the recorded state of a call is read off its row. *)
Recorded(c) == IF c > calls THEN "none" ELSE IF Exists(c) THEN rows[c].status ELSE "deleted"

\* What the refinement mapping puts for the lifecycle's state
bar == [c \in Calls |-> StateOf(c)]

LEMMA StateIsRecorded ==
  ASSUME Typed, Ledger, NEW c \in Calls
  PROVE  StateOf(c) = Recorded(c)
<1>1. \A i \in RunIds : rows[i].owner = c => Exists(i) /\ i = c
  BY DEF Ledger, IdIsCall, Calls
<1>2. Exists(c) => rows[c].owner = c
  BY DEF Ledger, IdIsCall, RunIds, Calls
<1>3. rows[c].status \in {"absent", "running", "ok", "failed"} /\ c \in RunIds
  BY DEF Typed, TypeOK, Row, RunIds, Calls
<1>4. \A st \in {"running", "ok", "failed"} : Has(c, st) <=> rows[c].status = st
  BY <1>1, <1>2, <1>3 DEF Has, Exists
<1> QED
  BY <1>3, <1>4 DEF StateOf, Recorded, Exists

LEMMA LifeStarts == RunsInit => Life!LifeInit
  BY DEF RunsInit, Life!LifeInit, StateOf, Calls

BarNow == bar = [c \in Calls |-> Recorded(c)]

LEMMA BarIsRecorded == Typed /\ Ledger => BarNow
  BY StateIsRecorded DEF bar, BarNow

LEMMA SameRows ==
  ASSUME UNCHANGED <<rows, calls>>
  PROVE  UNCHANGED bar
  BY DEF bar, StateOf, Has

LEMMA LifeRecords ==
  ASSUME Typed, Ledger, BarNow, BarNow', NoReuse, Dense, NEW w \in Threads, Opens(w)
  PROVE  Life!LifeNext
<1>1. PICK c \in RunIds, st \in {"running", "failed"} :
        /\ c = calls + 1 /\ calls' = c /\ ~Exists(c)
        /\ rows'[c].status = st /\ rows'[c].owner = c
        /\ \A j \in RunIds : j # c => rows'[j] = rows[j]
  BY OpensFresh
<1>2. calls \in Nat /\ c \in Calls /\ Calls = RunIds /\ \A b \in Calls : b \in Nat
  BY DEF Typed, TypeOK, Calls, RunIds
<1>3. bar[c] = "none" /\ \A b \in Calls : b < c => bar[b] # "none"
  <2>1. \A b \in Calls : rows[b].status # "none"
    BY <1>2 DEF Typed, TypeOK, Row
  <2> QED
    BY <1>1, <1>2, <2>1 DEF BarNow, Recorded
<1>4. bar' = [bar EXCEPT ![c] = st]
  <2>1. Recorded(c)' = st
    BY <1>1, <1>2 DEF Recorded, Exists
  <2>2. \A b \in Calls : b # c => Recorded(b)' = Recorded(b)
    BY <1>1, <1>2 DEF Recorded, Exists
  <2> QED
    BY <1>2, <2>1, <2>2 DEF BarNow
<1>5. Life!Record(c)
  BY <1>3, <1>4 DEF Life!Record, bar
<1> QED
  BY <1>2, <1>5 DEF Life!LifeNext

LEMMA LifeFinishes ==
  ASSUME Typed, Ledger, BarNow, BarNow', NEW w \in Threads, Finalize(w)
  PROVE  Life!LifeNext \/ UNCHANGED bar
<1>1. CASE UNCHANGED <<rows, calls>>
  BY <1>1, SameRows
<1>2. CASE \E i \in RunIds, st \in {"ok", "failed"} :
              /\ Exists(i) /\ rows[i].status = "running" /\ rows[i].owner = i /\ i <= calls
              /\ rows'[i].status = st /\ rows'[i].owner = i /\ calls' = calls
              /\ \A j \in RunIds : j # i => rows'[j] = rows[j]
  <2>1. PICK c \in RunIds, st \in {"ok", "failed"} :
              /\ Exists(c) /\ rows[c].status = "running" /\ c <= calls
              /\ rows'[c].status = st /\ calls' = calls
              /\ \A j \in RunIds : j # c => rows'[j] = rows[j]
    BY <1>2
  <2>2. calls \in Nat /\ c \in Calls /\ Calls = RunIds /\ \A b \in Calls : b \in Nat
    BY DEF Typed, TypeOK, Calls, RunIds
  <2>3. bar[c] = "running"
    BY <2>1, <2>2 DEF BarNow, Recorded
  <2>4. bar' = [bar EXCEPT ![c] = st]
    <3>1. Recorded(c)' = st
      BY <2>1, <2>2 DEF Recorded, Exists
    <3>2. \A b \in Calls : b # c => Recorded(b)' = Recorded(b)
      BY <2>1, <2>2 DEF Recorded, Exists
    <3> QED
      BY <2>2, <3>1, <3>2 DEF BarNow
  <2>5. Life!Finish(c)
    BY <2>3, <2>4 DEF Life!Finish, bar
  <2> QED
    BY <2>2, <2>5 DEF Life!LifeNext
<1> QED
  BY <1>1, <1>2, FinalizesRunning

LEMMA LifeInterrupts ==
  ASSUME Typed, Ledger, BarNow, BarNow', Boot
  PROVE  Life!LifeNext
<1>1. \A c \in Calls : Recorded(c)' = IF Recorded(c) = "running" THEN "failed" ELSE Recorded(c)
  <2> SUFFICES ASSUME NEW c \in Calls
               PROVE  Recorded(c)' = IF Recorded(c) = "running" THEN "failed" ELSE Recorded(c)
    OBVIOUS
  <2>1. rows[c] \in Row /\ c \in RunIds /\ calls' = calls
    BY DEF Typed, TypeOK, Calls, RunIds, Boot, history
  <2>2. rows'[c] = IF rows[c].status = "running" THEN [rows[c] EXCEPT !.status = "failed"] ELSE rows[c]
    BY <2>1 DEF Boot
  <2>3. rows'[c].status = IF rows[c].status = "running" THEN "failed" ELSE rows[c].status
    BY <2>1, <2>2 DEF Row
  <2> QED
    BY <2>1, <2>3 DEF Recorded, Exists
<1>2. \A c \in Calls : bar[c] = Recorded(c)
  BY DEF BarNow
<1>3. bar' = [c \in Calls |-> IF bar[c] = "running" THEN "failed" ELSE bar[c]]
  BY <1>1, <1>2 DEF BarNow
<1>4. Life!Interrupt
  BY <1>3 DEF Life!Interrupt, bar
<1> QED
  BY <1>4 DEF Life!LifeNext

\* Only a deleted tenant takes rows along
LEMMA LifeForgets ==
  ASSUME Typed, Ledger, BarNow, BarNow', Administers
  PROVE  Life!LifeNext
<1>1. calls' = calls
  BY DEF Administers, TenantToggle, TenantDelete, ScheduleToggle, ScheduleDelete, history
<1>2. calls \in Nat /\ Calls = RunIds /\ rows \in [RunIds -> Row] /\ \A c \in Calls : c \in Nat
  BY DEF Typed, TypeOK, Calls, RunIds
<1>3. \A c \in Calls : rows'[c].status = rows[c].status \/ rows'[c].status = "absent"
  <2>1. NoRow.status = "absent"
    BY DEF NoRow
  <2> QED
    BY <1>2, <2>1, AdministersKeeps
<1>4. \A c \in Calls : Exists(c) => c <= calls
  BY <1>2 DEF Ledger, IdIsCall
<1>5. PICK C \in SUBSET Calls : \A c \in Calls : c \in C <=> rows[c].status # "absent" /\ rows'[c].status = "absent"
  <2> DEFINE D == {c \in Calls : rows[c].status # "absent" /\ rows'[c].status = "absent"}
  <2>1. D \in SUBSET Calls /\ \A c \in Calls : c \in D <=> rows[c].status # "absent" /\ rows'[c].status = "absent"
    OBVIOUS
  <2> QED
    BY <2>1
<1>6. \A c \in Calls : Recorded(c)' = IF c \in C THEN "deleted" ELSE Recorded(c)
  BY <1>1, <1>2, <1>3, <1>4, <1>5 DEF Recorded, Exists
<1>7. \A c \in Calls : bar[c] = Recorded(c)
  BY DEF BarNow
<1>8. \A c \in C : bar[c] # "none"
  BY <1>2, <1>4, <1>5, <1>7 DEF Recorded, Exists, Row
<1>9. bar' = [c \in Calls |-> IF c \in C THEN "deleted" ELSE bar[c]]
  BY <1>6, <1>7 DEF BarNow
<1>10. Life!Forget(C)
  BY <1>8, <1>9 DEF Life!Forget, bar
<1> QED
  BY <1>10 DEF Life!LifeNext

LEMMA LifeStep ==
  ASSUME Typed, Ledger, BarNow, BarNow', NoReuse, Dense, [RunsNext]_runVars
  PROVE  [Life!LifeNext]_bar
<1>1. ASSUME NEW w \in Threads, Work(w) PROVE Life!LifeNext \/ UNCHANGED bar
  BY <1>1, RowsStay, SameRows, LifeFinishes DEF Work
<1>2. ASSUME NEW w \in Threads, Opens(w) \/ Starts(w) PROVE Life!LifeNext \/ UNCHANGED bar
  BY <1>2, RowsStay, SameRows, LifeRecords
<1>3. Stop \/ UNCHANGED runVars => UNCHANGED <<rows, calls>>
  BY DEF Stop, database, runVars
<1> QED
  BY <1>1, <1>2, <1>3, SameRows, LifeInterrupts, LifeForgets DEF RunsNext

(* The steps of all threads, restarts and administrators together are, for  *)
(* every call of run_report, steps of the lifecycle or leave it alone.      *)
THEOREM RunsImplementLifecycle ==
  ASSUME NoReuse
  PROVE  RunsSpec => Life!LifeSpec
<1>1. RunsInit => Life!LifeInit
  BY LifeStarts
<1>2. BarNow /\ BarNow' /\ Typed /\ Dense /\ Ledger /\ [RunsNext]_runVars => [Life!LifeNext]_bar
  BY LifeStep
<1>3. RunsSpec => []BarNow
  BY BarIsRecorded, RecordsKept, Typing, PTL
<1> QED
  BY <1>1, <1>2, <1>3, RecordsKept, Typing, PTL DEF RunsSpec, Life!LifeSpec, bar

-----------------------------------------------------------------------------
(* ProblemsAreAlerted: what a thread owes the administrators of the runs it *)
(* made, as long as nothing is deleted, the process stays up and the        *)
(* database answers.                                                        *)
Undisturbed ==
  /\ Faults = "none" /\ ~Stops
  /\ Edits \intersect {"tenant_delete", "schedule_delete"} = {}

Stored ==
  /\ proc = "up"
  /\ \A t \in Tenants : tenants[t] # "absent"
  /\ \A s \in Schedules : schedules[s] # "absent"

Trouble(i) == rows[i].status = "failed" \/ rows[i].problem
Finished(i) == rows[i].status \in {"ok", "failed"}
Single(a) == a.schedule = Null \/ ~FanOut[a.schedule]
Holds(a, i) == a.run = i \/ i \in a.done

\* A run of a thread that returned from run_report
Settled(a, i) ==
  /\ Finished(i)
  /\ rows[i].trigger = a.trigger
  /\ Single(a) /\ a.trigger # "manual" /\ Trouble(i) => rows[i].owner \in alerted

Owes(a) ==
  /\ a.pc \in {"idle", "submitted"} => a.done = {}
  /\ a.pc \in {"idle", "submitted", "next"} => a.run = 0
  /\ \A i \in a.done : Settled(a, i)
  /\ a.pc \in {"build", "deliver", "finalize"} => Exists(a.run) /\ rows[a.run].trigger = a.trigger
  /\ a.pc = "alert" => Finished(a.run) /\ rows[a.run].trigger = a.trigger

Alerting ==
  /\ Stored
  /\ \A i \in RunIds : rows[i].status = "running" => ~rows[i].problem
  /\ \A w \in Threads : Owes(threads[w])
  /\ ProblemsAreAlerted

LEMMA AlertingInit == RunsInit => Alerting
  BY DEF RunsInit, Alerting, Stored, NoRow, Idle, Owes, ProblemsAreAlerted

\* One thread moves on: the others owe what they owed
LEMMA AlertingMoves ==
  ASSUME Typed, Ledger, Alerting, NEW w \in Threads, NEW b,
         threads' = [threads EXCEPT ![w] = b],
         UNCHANGED <<proc, tenants, schedules>>, alerted \subseteq alerted',
         \A i \in RunIds : Exists(i) => Exists(i)' /\ rows'[i].trigger = rows[i].trigger,
         \A i \in RunIds : Finished(i) => rows'[i] = rows[i],
         \A i \in RunIds : rows'[i].status = "running" => ~rows'[i].problem,
         Owes(b)',
         \A i \in RunIds : /\ Trouble(i)' /\ rows'[i].trigger # "manual"
                           /\ rows'[i] # rows[i] \/ Holds(threads[w], i)
                           => rows'[i].owner \in alerted' \/ Holds(b, i)
  PROVE  Alerting'
<1>1. Stored' /\ (\A i \in RunIds : rows[i].status = "running" => ~rows[i].problem)'
  BY DEF Alerting, Stored
<1>2. threads'[w] = b /\ \A v \in Threads : v # w => threads'[v] = threads[v]
  BY DEF Typed, TypeOK
<1>3. ASSUME NEW v \in Threads, v # w PROVE Owes(threads[v])'
  <2> DEFINE a == threads[v]
  <2>1. /\ Owes(a) /\ threads'[v] = threads[v] /\ a.done \subseteq RunIds
        /\ a.pc \in {"build", "deliver", "finalize", "alert"} => a.run \in RunIds
    BY <1>2, <1>3 DEF Alerting, Typed, TypeOK, ThreadsOK, ThreadOK, Activation
  <2>2. \A i \in a.done : Settled(a, i) => Settled(a, i)'
    BY <2>1 DEF Settled, Finished, Trouble, Single
  <2>3. \A i \in a.done : Settled(threads[v], i)'
    BY <2>1, <2>2 DEF Owes
  <2> QED
    BY <2>1, <2>3 DEF Owes, Finished, Exists
<1>4. ProblemsAreAlerted'
  <2> SUFFICES ASSUME NEW i \in RunIds, Trouble(i)', rows'[i].trigger # "manual"
               PROVE  \/ rows'[i].owner \in alerted'
                      \/ \E v \in Threads : Holds(threads[v], i)'
    BY DEF ProblemsAreAlerted, Trouble, Holds
  <2>1. CASE rows'[i] # rows[i] \/ Holds(threads[w], i)
    BY <1>2, <2>1 DEF Holds
  <2>2. CASE rows'[i] = rows[i] /\ ~Holds(threads[w], i)
    <3>1. \/ rows[i].owner \in alerted
          \/ \E v \in Threads : Holds(threads[v], i)
      BY <2>2 DEF Alerting, ProblemsAreAlerted, Trouble, Holds
    <3> QED
      BY <1>2, <2>2, <3>1 DEF Holds
  <2> QED
    BY <2>1, <2>2
<1> QED
  BY <1>1, <1>2, <1>3, <1>4 DEF Alerting

\* The steps that write neither the rows nor the alerts, and keep what the
\* thread holds
LEMMA AlertingStays ==
  ASSUME Typed, Ledger, Alerting, NEW w \in Threads, NEW b,
         threads' = [threads EXCEPT ![w] = b],
         UNCHANGED <<proc, tenants, schedules, rows, alerted>>,
         Owes(b)', \A i \in RunIds : Holds(threads[w], i) => Holds(b, i)
  PROVE  Alerting'
<1>1. \A i \in RunIds : Exists(i) => Exists(i)'
  BY DEF Exists
<1>2. \A i \in RunIds : rows'[i].status = "running" => ~rows'[i].problem
  BY DEF Alerting
<1> QED
  BY <1>1, <1>2, AlertingMoves

LEMMA AlertingQuiet ==
  ASSUME Typed, Ledger, Alerting, NEW w \in Threads, Begin(w) \/ Starts(w)
  PROVE  Alerting'
<1> DEFINE a == threads[w]
<1>1. a \in Activation /\ Owes(a) /\ UNCHANGED <<proc, tenants, schedules, rows, alerted>>
  BY DEF Typed, TypeOK, Alerting, Begin, Starts, Submit, SubmitReport, database, history
<1>2. a.done = {} /\ a.run = 0
  BY <1>1 DEF Owes, Begin, Starts, Submit, SubmitReport
<1>3. PICK b : /\ threads' = [threads EXCEPT ![w] = b] /\ b.done = {} /\ b.run = 0
               /\ b.pc \in {"idle", "submitted", "next"}
  <2> DEFINE Goal == \E b : /\ threads' = [threads EXCEPT ![w] = b] /\ b.done = {} /\ b.run = 0
                            /\ b.pc \in {"idle", "submitted", "next"}
  <2>1. Idle.done = {} /\ Idle.run = 0 /\ Idle.pc = "idle"
    BY DEF Idle
  <2>2. ASSUME Begin(w) PROVE Goal
    <3> DEFINE c == IF a.trigger = "catchup" THEN Targets(a.schedule) \ Done(a.schedule, a.reference)
                    ELSE Targets(a.schedule)
               b == [a EXCEPT !.pc = "next", !.todo = c]
    <3>1. b.done = a.done /\ b.run = a.run /\ b.pc = "next"
      BY <1>1 DEF Activation
    <3>2. threads' = [threads EXCEPT ![w] = b] \/ threads' = [threads EXCEPT ![w] = Idle]
      BY <2>2 DEF Begin
    <3> HIDE DEF b
    <3> QED
      BY <1>2, <2>1, <3>1, <3>2
  <2>3. ASSUME NEW s, NEW trig, NEW ref, Submit(w, s, trig, ref) PROVE Goal
    <3> DEFINE b == [Idle EXCEPT !.pc = "submitted", !.schedule = s, !.trigger = trig, !.reference = ref]
    <3>1. b.done = {} /\ b.run = 0 /\ b.pc = "submitted"
      BY DEF Idle
    <3>2. threads' = [threads EXCEPT ![w] = b]
      BY <2>3 DEF Submit
    <3> HIDE DEF b
    <3> QED
      BY <3>1, <3>2
  <2>4. ASSUME NEW t, SubmitReport(w, t) PROVE Goal
    <3> DEFINE b == [Idle EXCEPT !.pc = "next", !.todo = {t}]
    <3>1. b.done = {} /\ b.run = 0 /\ b.pc = "next"
      BY DEF Idle
    <3>2. threads' = [threads EXCEPT ![w] = b]
      BY <2>4 DEF SubmitReport
    <3> HIDE DEF b
    <3> QED
      BY <3>1, <3>2
  <2> QED
    BY <2>2, <2>3, <2>4 DEF Starts
<1>4. Owes(b)'
  BY <1>3 DEF Owes
<1>5. \A i \in RunIds : ~Holds(a, i)
  BY <1>2 DEF Holds, RunIds
<1> QED
  BY <1>1, <1>3, <1>4, <1>5, AlertingStays

LEMMA AlertingWorks ==
  ASSUME Typed, Ledger, Alerting, NEW w \in Threads, BuildOk(w) \/ BuildFails(w) \/ Delivers(w)
  PROVE  Alerting'
<1> DEFINE a == threads[w]
<1>1. /\ a \in Activation /\ Owes(a) /\ a.pc \in {"build", "deliver"} /\ a.run \in RunIds
      /\ UNCHANGED <<proc, tenants, schedules, rows, alerted>> /\ threads \in [Threads -> Activation]
  BY DEF Typed, TypeOK, ThreadsOK, ThreadOK, Alerting, BuildOk, BuildFails, Delivers, Deliver, database, history
<1>2. PICK b : /\ threads' = [threads EXCEPT ![w] = b] /\ b.pc \in {"deliver", "finalize"}
               /\ b.done = a.done /\ b.run = a.run /\ b.trigger = a.trigger /\ b.schedule = a.schedule
  <2> DEFINE Goal == \E b : /\ threads' = [threads EXCEPT ![w] = b] /\ b.pc \in {"deliver", "finalize"}
                            /\ b.done = a.done /\ b.run = a.run /\ b.trigger = a.trigger
                            /\ b.schedule = a.schedule
  <2>1. ASSUME BuildOk(w) PROVE Goal
    <3> DEFINE b == [a EXCEPT !.pc = "deliver", !.built = TRUE]
    <3>1. /\ b.pc = "deliver" /\ b.done = a.done /\ b.run = a.run /\ b.trigger = a.trigger
          /\ b.schedule = a.schedule
      BY <1>1 DEF Activation
    <3>2. threads' = [threads EXCEPT ![w] = b]
      BY <1>1, <2>1 DEF BuildOk
    <3> HIDE DEF b
    <3> QED
      BY <3>1, <3>2
  <2>2. ASSUME BuildFails(w) PROVE Goal
    <3> DEFINE b == [a EXCEPT !.pc = "finalize", !.status = "failed"]
    <3>1. /\ b.pc = "finalize" /\ b.done = a.done /\ b.run = a.run /\ b.trigger = a.trigger
          /\ b.schedule = a.schedule
      BY <1>1 DEF Activation
    <3>2. threads' = [threads EXCEPT ![w] = b]
      BY <1>1, <2>2 DEF BuildFails
    <3> HIDE DEF b
    <3> QED
      BY <3>1, <3>2
  <2>3. ASSUME NEW status, NEW sent, NEW noted, NEW problem, Deliver(w, status, sent, noted, problem)
        PROVE  Goal
    <3> DEFINE b == [a EXCEPT !.pc = "finalize", !.status = status, !.delivered = noted, !.problem = problem]
    <3>1. /\ b.pc = "finalize" /\ b.done = a.done /\ b.run = a.run /\ b.trigger = a.trigger
          /\ b.schedule = a.schedule
      BY <1>1 DEF Activation
    <3>2. threads' = [threads EXCEPT ![w] = b]
      BY <2>3 DEF Deliver
    <3> HIDE DEF b
    <3> QED
      BY <3>1, <3>2
  <2> QED
    BY <2>1, <2>2, <2>3 DEF Delivers
<1>3. \A i \in a.done : Settled(b, i)'
  BY <1>1, <1>2 DEF Owes, Settled, Finished, Trouble, Single
<1>4. Owes(b)'
  BY <1>1, <1>2, <1>3 DEF Owes, Exists
<1>5. \A i \in RunIds : Holds(a, i) => Holds(b, i)
  BY <1>2 DEF Holds
<1> QED
  BY <1>1, <1>2, <1>4, <1>5, AlertingStays

\* What run_schedule holds of the runs that returned, and of the last one
LEMMA ReturnedOwes ==
  ASSUME NEW a, NEW i, Owes(a), Settled(a, i)
  PROVE  Owes(Returned(a, i))
<1>1. /\ Returned(a, i).pc = "next" /\ Returned(a, i).run = 0 /\ Returned(a, i).done = a.done \union {i}
      /\ Returned(a, i).trigger = a.trigger /\ Returned(a, i).schedule = a.schedule
  BY DEF Returned, Idle
<1> QED
  BY <1>1 DEF Owes, Settled, Single

LEMMA AlertingFinalizes ==
  ASSUME Typed, Ledger, Alerting, NEW w \in Threads, Finalize(w)
  PROVE  Alerting'
<1> DEFINE a == threads[w]
<1>1. /\ a \in Activation /\ Owes(a) /\ a.pc = "finalize" /\ a.run \in RunIds
      /\ UNCHANGED <<proc, tenants, schedules, alerted>> /\ a.status \in {"ok", "failed"}
      /\ Exists(a.run) /\ rows[a.run].trigger = a.trigger /\ rows[a.run] \in Row
  BY DEF Typed, TypeOK, ThreadsOK, ThreadOK, Alerting, Finalize, history, Activation, Owes
<1>2. PICK i \in RunIds : i = a.run
  BY <1>1
<1>3. rows[i].status = "running" /\ ~rows[i].problem
  BY <1>1, <1>2 DEF Ledger, RowKept, Busy, Alerting
<1>4. rows'[i] = Finalized(rows[i], a) /\ \A j \in RunIds : j # i => rows'[j] = rows[j]
  BY <1>1, <1>2 DEF Finalize, Typed, TypeOK
<1>5. /\ rows'[i].status = a.status /\ rows'[i].trigger = a.trigger
      /\ rows'[i].problem = a.problem
  BY <1>1, <1>2, <1>3, <1>4 DEF Finalized, Row, Activation
<1>6. PICK b : b = AfterFinalize(a)
  OBVIOUS
<1>7. threads' = [threads EXCEPT ![w] = b]
  BY <1>6 DEF Finalize
<1>8. \A j \in a.done : j # i /\ j \in RunIds /\ Settled(a, j)
  BY <1>1, <1>3 DEF Owes, Settled, Finished, Activation
<1>9. Finished(i)' /\ Holds(b, i) /\ Owes(b)'
  <2> DEFINE alerts == Single(a) /\ a.trigger # "manual" /\ (a.status = "failed" \/ a.problem)
  <2>1. CASE alerts
    <3> DEFINE c == [a EXCEPT !.pc = "alert", !.tries = 0]
    <3>1. b = c
      BY <1>6, <2>1 DEF AfterFinalize, Single
    <3>2. /\ c.pc = "alert" /\ c.run = i /\ c.done = a.done /\ c.trigger = a.trigger
          /\ c.schedule = a.schedule
      BY <1>1, <1>2 DEF Activation
    <3>3. /\ b.pc = "alert" /\ b.run = i /\ b.done = a.done /\ b.trigger = a.trigger
          /\ b.schedule = a.schedule
      BY <3>1, <3>2
    <3>4. \A j \in b.done : Settled(b, j)'
      BY <1>1, <1>4, <1>8, <3>3 DEF Settled, Finished, Trouble, Single
    <3> QED
      BY <1>1, <1>5, <3>3, <3>4 DEF Owes, Finished, Holds
  <2>2. CASE ~alerts
    <3>1. b = Returned(a, i)
      BY <1>2, <1>6, <2>2 DEF AfterFinalize, Single
    <3>2. /\ b.pc = "next" /\ b.run = 0 /\ b.done = a.done \union {i} /\ b.trigger = a.trigger
          /\ b.schedule = a.schedule
      BY <3>1 DEF Returned, Idle
    <3>3. Settled(b, i)'
      BY <1>1, <1>5, <2>2, <3>2 DEF Settled, Finished, Trouble, Single
    <3>4. \A j \in a.done : Settled(b, j)'
      BY <1>1, <1>4, <1>8, <3>2 DEF Settled, Finished, Trouble, Single
    <3> QED
      BY <1>1, <1>5, <3>2, <3>3, <3>4 DEF Owes, Finished, Holds
  <2> QED
    BY <2>1, <2>2
<1>10. \A j \in RunIds : Exists(j) => Exists(j)' /\ rows'[j].trigger = rows[j].trigger
  BY <1>1, <1>2, <1>4, <1>5 DEF Exists
<1>11. \A j \in RunIds : Finished(j) => rows'[j] = rows[j]
  BY <1>3, <1>4 DEF Finished
<1>12. \A j \in RunIds : rows'[j].status = "running" => ~rows'[j].problem
  BY <1>1, <1>4, <1>5 DEF Alerting
<1>13. \A j \in RunIds : rows'[j] # rows[j] \/ Holds(a, j) => Holds(b, j)
  <2>1. a.done \subseteq b.done
    BY <1>1, <1>6 DEF AfterFinalize, Returned, Idle, Activation
  <2> QED
    BY <1>2, <1>4, <1>9, <2>1 DEF Holds
<1> QED
  BY <1>1, <1>7, <1>9, <1>10, <1>11, <1>12, <1>13, AlertingMoves

LEMMA AlertingAlerts ==
  ASSUME Typed, Ledger, Alerting, NEW w \in Threads, AlertRun(w) \/ EndSchedule(w)
  PROVE  Alerting'
<1> DEFINE a == threads[w]
<1>1. /\ a \in Activation /\ Owes(a) /\ UNCHANGED <<proc, tenants, schedules, rows>>
      /\ alerted \subseteq alerted' /\ a.done \subseteq RunIds
  BY DEF Typed, TypeOK, Alerting, AlertRun, EndSchedule, database, Activation
<1>2. \A i \in RunIds : (Exists(i)' <=> Exists(i)) /\ (Finished(i)' <=> Finished(i)) /\ (Trouble(i)' <=> Trouble(i))
  BY <1>1 DEF Exists, Finished, Trouble
<1>3. \A i \in RunIds : rows'[i].status = "running" => ~rows'[i].problem
  BY <1>1 DEF Alerting
<1>4. CASE AlertRun(w)
  <2>1. PICK i \in RunIds : i = a.run
    BY <1>4 DEF AlertRun, Typed, ThreadsOK, ThreadOK
  <2>2. PICK b : b = Returned(a, i)
    OBVIOUS
  <2>3. threads' = [threads EXCEPT ![w] = b]
    BY <1>4, <2>1, <2>2 DEF AlertRun
  <2>4. Finished(i) /\ rows[i].trigger = a.trigger
    BY <1>1, <1>4, <2>1 DEF AlertRun, Owes
  <2>5. Trouble(i) /\ rows[i].trigger # "manual" => rows[i].owner \in alerted'
    BY <1>4, <2>1 DEF AlertRun, Problems, Trouble
  <2>6. /\ b.pc = "next" /\ b.run = 0 /\ b.done = a.done \union {i} /\ b.trigger = a.trigger
        /\ b.schedule = a.schedule
    BY <2>2 DEF Returned, Idle
  <2>7. Settled(b, i)'
    BY <1>1, <2>4, <2>5, <2>6 DEF Settled, Finished, Trouble, Single
  <2>8. \A j \in a.done : Settled(b, j)'
    BY <1>1, <2>6 DEF Owes, Settled, Finished, Trouble, Single
  <2>9. Owes(b)'
    BY <2>6, <2>7, <2>8 DEF Owes
  <2>10. \A j \in RunIds : Holds(a, j) => Holds(b, j)
    BY <2>1, <2>6 DEF Holds
  <2> QED
    BY <1>1, <1>2, <1>3, <2>3, <2>9, <2>10, AlertingMoves
<1>5. CASE EndSchedule(w)
  <2>1. threads' = [threads EXCEPT ![w] = Idle] /\ a.run = 0
    BY <1>1, <1>5 DEF EndSchedule, Owes
  <2>2. Owes(Idle)'
    BY DEF Owes, Idle
  <2>3. ASSUME NEW i \in RunIds, Trouble(i), rows[i].trigger # "manual", Holds(a, i)
        PROVE  rows[i].owner \in alerted'
    <3>1. i \in a.done /\ Settled(a, i)
      BY <1>1, <2>1, <2>3 DEF Holds, RunIds, Owes
    <3>2. a.trigger # "manual"
      BY <2>3, <3>1 DEF Settled
    <3>3. CASE Single(a)
      BY <1>1, <2>3, <3>1, <3>2, <3>3 DEF Settled
    <3>4. CASE ~Single(a)
      BY <1>5, <2>3, <3>1, <3>2, <3>4 DEF EndSchedule, Single, Problems, Trouble
    <3> QED
      BY <3>3, <3>4
  <2> QED
    BY <1>1, <1>2, <1>3, <2>1, <2>2, <2>3, AlertingMoves
<1> QED
  BY <1>4, <1>5

LEMMA AlertingOpens ==
  ASSUME Typed, Ledger, Dense, NoReuse, Alerting, NEW w \in Threads, Opens(w)
  PROVE  Alerting'
<1> DEFINE a == threads[w]
<1>1. PICK t \in Subjects, p \in Periods : OpenRun(w, t, p)
  BY DEF Opens
<1>2. /\ a \in Activation /\ Owes(a) /\ a.pc = "next" /\ UNCHANGED <<proc, tenants, schedules, alerted>>
      /\ Present(t) /\ rows \in [RunIds -> Row] /\ a.done \subseteq RunIds
  BY <1>1 DEF OpenRun, Typed, TypeOK, Alerting, Stored, Present, Subjects, Activation
<1>3. PICK i \in RunIds :
        /\ FreshId(i)
        /\ rows' = [rows EXCEPT ![i] =
             [NoRow EXCEPT !.status = "running", !.schedule = a.schedule, !.trigger = a.trigger,
                           !.tenant = t, !.asked = p, !.owner = calls + 1]]
        /\ threads' = [threads EXCEPT ![w] =
             [a EXCEPT !.pc = "build", !.todo = a.todo \ {t}, !.call = calls + 1,
                       !.run = i, !.tenant = t, !.asked = p]]
  BY <1>1, <1>2 DEF OpenRun
<1> DEFINE r == [NoRow EXCEPT !.status = "running", !.schedule = a.schedule, !.trigger = a.trigger,
                              !.tenant = t, !.asked = p, !.owner = calls + 1]
           c == [a EXCEPT !.pc = "build", !.todo = a.todo \ {t}, !.call = calls + 1,
                          !.run = i, !.tenant = t, !.asked = p]
<1>4. r.status = "running" /\ ~r.problem /\ r.trigger = a.trigger
  BY DEF NoRow
<1>5. /\ c.pc = "build" /\ c.run = i /\ c.done = a.done /\ c.trigger = a.trigger
      /\ c.schedule = a.schedule
  BY <1>2 DEF Activation
<1> HIDE DEF r, c
<1>6. PICK b : b = c
  OBVIOUS
<1>7. threads' = [threads EXCEPT ![w] = b]
  BY <1>3, <1>6 DEF c
<1>8. rows'[i] = r /\ \A j \in RunIds : j # i => rows'[j] = rows[j]
  BY <1>2, <1>3 DEF r
<1>9. ~Exists(i)
  <2>1. i = calls + 1 /\ calls \in Nat
    BY <1>1, <1>3, FreshIsNext DEF OpenRun, Typed, TypeOK, Calls
  <2>2. Exists(i) => i <= calls
    BY DEF Ledger, IdIsCall
  <2> QED
    BY <2>1, <2>2
<1>10. \A j \in RunIds : Exists(j) => Exists(j)' /\ rows'[j].trigger = rows[j].trigger
  BY <1>8, <1>9 DEF Exists
<1>11. \A j \in RunIds : Finished(j) => j # i /\ rows'[j] = rows[j]
  BY <1>8, <1>9 DEF Exists, Finished
<1>12. \A j \in RunIds : rows'[j].status = "running" => ~rows'[j].problem
  BY <1>4, <1>8 DEF Alerting
<1>13. Owes(b)'
  <2>1. \A j \in a.done : Settled(b, j)'
    BY <1>2, <1>5, <1>6, <1>11 DEF Owes, Settled, Finished, Trouble, Single
  <2> QED
    BY <1>4, <1>5, <1>6, <1>8, <2>1 DEF Owes, Exists
<1>14. \A j \in RunIds : rows'[j] # rows[j] \/ Holds(a, j) => Holds(b, j)
  BY <1>2, <1>5, <1>6, <1>8 DEF Owes, Holds, RunIds
<1> QED
  BY <1>2, <1>7, <1>10, <1>11, <1>12, <1>13, <1>14, AlertingMoves

LEMMA AlertingAdministers ==
  ASSUME Typed, Undisturbed, Alerting, Administers
  PROVE  Alerting'
<1>1. UNCHANGED <<proc, rows, threads, alerted>>
  BY DEF Undisturbed, Administers, TenantToggle, TenantDelete, ScheduleToggle, ScheduleDelete, history
<1>2. \A e : Flipped(e) # "absent"
  BY DEF Flipped
<1>3. Stored'
  BY <1>1, <1>2 DEF Undisturbed, Administers, TenantToggle, TenantDelete, ScheduleToggle, ScheduleDelete,
                    Alerting, Stored, Typed, TypeOK
<1>4. \A w \in Threads : Owes(threads[w])'
  BY <1>1 DEF Alerting, Owes, Settled, Finished, Trouble, Single, Exists
<1> QED
  BY <1>1, <1>3, <1>4 DEF Alerting, ProblemsAreAlerted

LEMMA AlertingStep ==
  ASSUME Typed, Ledger, Dense, Undisturbed, Alerting, [RunsNext]_runVars
  PROVE  Alerting'
<1>1. NoReuse
  BY DEF Undisturbed, NoReuse
<1>2. ASSUME NEW w \in Threads, Work(w) PROVE Alerting'
  <2>1. ~FinalizeFault(w)
    BY DEF Undisturbed, FinalizeFault
  <2>2. ~Raises(w)
    BY RunsConstants DEF Undisturbed, Raises, Alerting, Stored, ScheduleStored, Typed, TypeOK, Activation
  <2> QED
    BY <1>2, <2>1, <2>2, AlertingQuiet, AlertingWorks, AlertingFinalizes, AlertingAlerts DEF Work
<1>3. ASSUME NEW w \in Threads, Opens(w) \/ Starts(w) PROVE Alerting'
  BY <1>1, <1>3, AlertingOpens, AlertingQuiet
<1>4. ~Stop /\ ~Boot
  BY DEF Undisturbed, Stop, Boot, Alerting, Stored
<1>5. CASE UNCHANGED runVars
  BY <1>5 DEF runVars, Alerting, Stored, Owes, Settled, Finished, Trouble, Single, Exists, ProblemsAreAlerted
<1> QED
  BY <1>2, <1>3, <1>4, <1>5, AlertingAdministers DEF RunsNext

(* A scheduled run that failed or was only partly delivered is in an alert  *)
(* once its thread is done with it: services.py run_schedule and run_report,*)
(* alerts.py alert_run_problem and alert_schedule_problems.                 *)
THEOREM TroubleIsAlerted ==
  ASSUME Undisturbed
  PROVE  RunsSpec => []ProblemsAreAlerted
<1>1. NoReuse
  BY DEF Undisturbed, NoReuse
<1>2. RunsInit => Alerting
  BY AlertingInit
<1>3. Typed /\ Dense /\ Ledger /\ Alerting /\ [RunsNext]_runVars => Alerting'
  BY AlertingStep
<1>4. Alerting => ProblemsAreAlerted
  BY DEF Alerting
<1> QED
  BY <1>1, <1>2, <1>3, <1>4, RecordsKept, Typing, PTL DEF RunsSpec

-----------------------------------------------------------------------------
(* The scheduler around the runs, and what its catch-up mails.  The          *)
(* scheduler only chooses when a run is started and for which period: its    *)
(* steps are steps of ReportRuns, so that every theorem above holds of it.   *)

ClockOK == clock \in Times /\ catchups \subseteq CatchUpJob

LEMMA SubmitIsRun ==
  ASSUME NEW w \in Threads, NEW s \in Schedules, NEW trig \in Triggers \intersect Jobs,
         NEW ref \in Periods \union {Null}, Submit(w, s, trig, ref)
  PROVE  RunsNext
  BY DEF RunsNext, Starts

LEMMA SchedulerStep ==
  ASSUME {"schedule", "catchup"} \subseteq Jobs, Typed, ClockOK, [Next]_vars
  PROVE  [RunsNext]_runVars /\ ClockOK'
<1> DEFINE Goal == [RunsNext]_runVars /\ ClockOK'
<1> USE DEF ClockOK
<1>1. CASE UNCHANGED vars
  BY <1>1 DEF vars, runVars
<1>2. CASE Tick
  BY <1>2, SchedulerConstants DEF Tick, Times
<1>3. CASE Beat \/ Start \/ CatchUp
  <2>1. Missed \subseteq CatchUpJob
    BY DEF Missed
  <2> QED
    BY <1>3, <2>1 DEF Beat, Start, CatchUp
<1>4. ASSUME NEW s \in Schedules, Fire(s) PROVE Goal
  <2>1. Null \in Periods \union {Null} /\ "schedule" \in Triggers \intersect Jobs
    BY DEF Triggers
  <2> QED
    BY <1>4, <2>1, SubmitIsRun DEF Fire
<1>5. ASSUME NEW s \in Schedules, RunNow(s) PROVE Goal
  <2>1. Null \in Periods \union {Null} /\ "manual" \in Triggers \intersect Jobs
    BY <1>5 DEF Triggers, RunNow
  <2> QED
    BY <1>5, <2>1, SubmitIsRun DEF RunNow, schedulerVars
<1>6. CASE Recover \/ Crash
  BY <1>6 DEF Recover, Crash, RunsNext
<1>7. CASE Shutdown
  BY <1>7 DEF Shutdown
<1>8. ASSUME NEW j \in catchups, FireCatchUp(j) PROVE Goal
  <2>1. j.schedule \in Schedules /\ j.due \in Times
    BY DEF CatchUpJob
  <2>2. PeriodAt[j.schedule][j.due] \in Periods
    BY <2>1, SchedulerConstants
  <2>3. "catchup" \in Triggers \intersect Jobs
    BY DEF Triggers
  <2>4. RunsNext
    BY <1>8, <2>1, <2>2, <2>3, SubmitIsRun DEF FireCatchUp
  <2> QED
    BY <1>8, <2>4 DEF FireCatchUp
<1>9. ASSUME NEW w \in Threads, ThreadStep(w) PROVE Goal
  <2>1. UNCHANGED <<clock, catchups>>
    BY <1>9 DEF ThreadStep, schedulerVars
  <2>2. CASE Work(w)
    BY <2>1, <2>2 DEF RunsNext
  <2>3. ASSUME NEW t \in Subjects, RunAt(w, t) PROVE RunsNext
    <3> DEFINE a == threads[w]
               p == IF a.reference # Null THEN a.reference ELSE PeriodAt[a.schedule][clock]
    <3>1. a \in Activation /\ a.schedule # Null /\ OpenRun(w, t, p)
      BY <2>3 DEF RunAt, Typed, TypeOK
    <3>2. a.schedule \in Schedules /\ a.reference \in Periods \union {Null}
      BY <3>1 DEF Activation
    <3>3. p \in Periods
      BY <3>2, SchedulerConstants
    <3> HIDE DEF p
    <3> QED
      BY <3>1, <3>3 DEF RunsNext, Opens
  <2> QED
    BY <1>9, <2>1, <2>2, <2>3 DEF ThreadStep
<1>10. CASE Administer
  <2>1. Administers
    BY <1>10 DEF Administer, Administers
  <2> QED
    BY <1>10, <2>1 DEF Administer, RunsNext
<1> QED
  BY <1>1, <1>2, <1>3, <1>4, <1>5, <1>6, <1>7, <1>8, <1>9, <1>10 DEF Next

(* Whatever the scheduler does - fire, drop a fire, catch up, reload, shut   *)
(* down or die at any point - is a behaviour of the report runs started at   *)
(* any time for any period (scheduler.py: it starts them with run_schedule,  *)
(* and otherwise only asks services.py for the tenants of a schedule).       *)
THEOREM SchedulerImplementsRuns ==
  ASSUME {"schedule", "catchup"} \subseteq Jobs
  PROVE  Spec => RunsSpec
<1>1. Init => RunsInit /\ ClockOK
  BY SchedulerConstants DEF Init, ClockOK, Times
<1>2. RunsInit => Typed
  BY TypedInit
<1>3. Typed /\ ClockOK /\ [Next]_vars => [RunsNext]_runVars /\ Typed' /\ ClockOK'
  BY SchedulerStep, TypedStep
<1> QED
  BY <1>1, <1>2, <1>3, PTL DEF Spec, RunsSpec

-----------------------------------------------------------------------------
(* Catch-up mails a report a second time only after a loss.  It holds while  *)
(* a catch-up has its period to itself: the jobs do not wait for one another,*)
(* and nothing in the code keeps two runs of a schedule apart.               *)

InRun(a) == a.pc \in {"build", "deliver", "finalize"}
Begun(a) == a.pc \notin {"idle", "submitted"}

\* While a catch-up works on a period, no other thread is inside run_report
\* for its schedule and that period
PeriodToItself ==
  \A v, w \in Threads :
    /\ InRun(threads[v]) /\ Begun(threads[w]) /\ threads[w].trigger = "catchup"
    /\ threads[v].schedule = threads[w].schedule /\ threads[v].asked = threads[w].reference
    => v = w

\* The row of a run of schedule s, which may be null, says so until s is deleted
Filed(i, s) == Exists(i) => rows[i].schedule = s \/ (s # Null /\ schedules[s] = "absent")

Filing ==
  /\ \A w \in Threads : InRun(threads[w]) => Filed(threads[w].run, threads[w].schedule)
  /\ \A m \in outbox : Filed(m.call, m.schedule)

\* A thread's call is the one that sends its mail, and no catch-up of a later
\* call has sent one for its schedule and period
Sends(a, m) ==
  /\ m.call = a.call => m.schedule = a.schedule
  /\ m.trigger = "catchup" /\ m.schedule = a.schedule /\ m.schedule # Null /\ m.period = a.asked
     => m.call <= a.call

Sending == \A w \in Threads : InRun(threads[w]) => \A m \in outbox : Sends(threads[w], m)

OnTrack(a) ==
  a.trigger = "catchup" =>
    /\ a.reference # Null
    /\ InRun(a) => a.asked = a.reference /\ a.tenant \notin a.todo

\* The tenants a catch-up has still to serve: those to do, and the one it is at
Waits(a, m) == m.tenant \in a.todo \/ (InRun(a) /\ m.tenant = a.tenant /\ m.call # a.call)

\* What was mailed to them for the period was lost
Unserved(a) ==
  Begun(a) /\ a.trigger = "catchup" =>
    \A m \in outbox :
      m.schedule = a.schedule /\ m.period = a.reference /\ Waits(a, m) => m.call \in lost

CatchingUp == \A w \in Threads : OnTrack(threads[w]) /\ Unserved(threads[w])

Once == Filing /\ Sending /\ CatchingUp /\ TwiceOnlyAfterLoss

LEMMA OnceInit == RunsInit => Once
  BY DEF RunsInit, Once, Filing, Sending, CatchingUp, TwiceOnlyAfterLoss, OnTrack, Unserved, InRun, Begun, Idle

(* What a step may make of a thread without any new mail: it is not begun,  *)
(* begins a job that is no catch-up, or goes on with the same tenants.      *)
Follows(b, a) ==
  \/ ~Begun(b) /\ (b.trigger = "catchup" => b.reference # Null)
  \/ Begun(b) /\ ~InRun(b) /\ b.trigger # "catchup"
  \/ /\ Begun(a)
     /\ b.schedule = a.schedule /\ b.trigger = a.trigger /\ b.reference = a.reference /\ b.todo = a.todo
     /\ InRun(b) => /\ InRun(a) /\ b.run = a.run /\ b.call = a.call
                    /\ b.tenant = a.tenant /\ b.asked = a.asked

LEMMA OnceGoesOn ==
  ASSUME Typed, Once, outbox' = outbox, lost \subseteq lost',
         \A i \in RunIds, s \in Schedules \union {Null} : Filed(i, s) => Filed(i, s)',
         \A w \in Threads : Follows(threads'[w], threads[w])
  PROVE  Once'
<1>1. ASSUME NEW w \in Threads, InRun(threads[w]) PROVE threads[w].run \in RunIds /\ threads[w].schedule \in Schedules \union {Null}
  BY <1>1 DEF Typed, TypeOK, ThreadsOK, ThreadOK, InRun, Activation
<1>2. \A m \in outbox : m.call \in RunIds /\ m.schedule \in Schedules \union {Null}
  BY DEF Typed, TypeOK, Mail, Calls, RunIds
<1>3. ASSUME NEW w \in Threads, InRun(threads'[w])
      PROVE  /\ InRun(threads[w]) /\ threads'[w].run = threads[w].run /\ threads'[w].call = threads[w].call
             /\ threads'[w].schedule = threads[w].schedule /\ threads'[w].asked = threads[w].asked
             /\ threads'[w].tenant = threads[w].tenant
  BY <1>3 DEF Follows, InRun, Begun
<1>4. Filing'
  <2>1. ASSUME NEW w \in Threads, InRun(threads'[w])
        PROVE  Filed(threads[w].run, threads[w].schedule)'
    BY <1>1, <1>3, <2>1 DEF Once, Filing
  <2> QED
    BY <1>2, <1>3, <2>1 DEF Once, Filing, Filed, Exists
<1>5. Sending'
  BY <1>3 DEF Once, Sending, Sends
<1>6. CatchingUp'
  <2> SUFFICES ASSUME NEW w \in Threads PROVE OnTrack(threads'[w]) /\ Unserved(threads[w])'
    BY DEF CatchingUp
  <2>1. OnTrack(threads[w]) /\ Unserved(threads[w])
    BY DEF Once, CatchingUp
  <2>2. CASE threads'[w].trigger # "catchup" \/ ~Begun(threads'[w])
    <3>1. OnTrack(threads'[w])
      BY <2>1, <2>2 DEF OnTrack, Follows, InRun, Begun
    <3> QED
      BY <2>2, <3>1 DEF Unserved
  <2>3. CASE threads'[w].trigger = "catchup" /\ Begun(threads'[w])
    <3> DEFINE a == threads[w]
               b == threads'[w]
    <3>1. /\ Begun(a) /\ a.trigger = "catchup"
          /\ b.schedule = a.schedule /\ b.reference = a.reference /\ b.todo = a.todo
      BY <2>3 DEF Follows
    <3>2. OnTrack(b)
      BY <1>3, <2>1, <3>1 DEF OnTrack
    <3>3. \A m \in outbox : Waits(b, m) => Waits(a, m)
      BY <1>3, <3>1 DEF Waits
    <3> QED
      BY <2>1, <3>1, <3>2, <3>3 DEF Unserved
  <2> QED
    BY <2>2, <2>3
<1>7. TwiceOnlyAfterLoss'
  BY DEF Once, TwiceOnlyAfterLoss
<1> QED
  BY <1>4, <1>5, <1>6, <1>7 DEF Once

LEMMA SelfFollows ==
  ASSUME NEW a, OnTrack(a)
  PROVE  Follows(a, a)
  BY DEF OnTrack, Follows

LEMMA IdleFollows ==
  ASSUME NEW a
  PROVE  Follows(Idle, a)
  BY DEF Follows, Begun, Idle

LEMMA ReturnedFollows ==
  ASSUME NEW a \in Activation, Begun(a), NEW i
  PROVE  Follows(Returned(a, i), a)
<1> DEFINE b == Returned(a, i)
<1>1. /\ b.pc = "next" /\ b.schedule = a.schedule /\ b.trigger = a.trigger
      /\ b.reference = a.reference /\ b.todo = a.todo
  BY DEF Returned, Idle
<1> HIDE DEF b
<1>2. Follows(b, a)
  BY <1>1 DEF Follows, Begun, InRun
<1> QED
  BY <1>2 DEF b

LEMMA AfterFinalizeFollows ==
  ASSUME NEW a \in Activation, a.pc = "finalize"
  PROVE  Follows(AfterFinalize(a), a)
<1> DEFINE b == [a EXCEPT !.pc = "alert", !.tries = 0]
<1>1. /\ b.pc = "alert" /\ b.schedule = a.schedule /\ b.trigger = a.trigger
      /\ b.reference = a.reference /\ b.todo = a.todo
  BY DEF Activation
<1>2. Begun(a)
  BY DEF Begun
<1> HIDE DEF b
<1>3. Follows(b, a)
  BY <1>1, <1>2 DEF Follows, InRun
<1> QED
  BY <1>2, <1>3, ReturnedFollows DEF AfterFinalize, b

\* The steps of a thread that send no mail, and the start of a run that
\* is no catch-up
LEMMA QuietFollows ==
  ASSUME Typed, Once, NEW w \in Threads,
         \/ EndSchedule(w) \/ BuildOk(w) \/ BuildFails(w) \/ Finalize(w) \/ FinalizeFault(w)
         \/ AlertRun(w) \/ Raises(w) \/ Starts(w)
         \/ Begin(w) /\ threads[w].trigger # "catchup"
  PROVE  \A v \in Threads : Follows(threads'[v], threads[v])
<1> DEFINE a == threads[w]
           Goal == \E b : threads' = [threads EXCEPT ![w] = b] /\ Follows(b, a)
<1>1. a \in Activation /\ threads \in [Threads -> Activation]
  BY DEF Typed, TypeOK
<1>2. ASSUME EndSchedule(w) \/ Raises(w) PROVE Goal
  BY <1>2, IdleFollows DEF EndSchedule, Raises
<1>3. ASSUME AlertRun(w) PROVE Goal
  BY <1>1, <1>3, ReturnedFollows DEF AlertRun, Begun
<1>4. ASSUME Finalize(w) PROVE Goal
  BY <1>1, <1>4, AfterFinalizeFollows DEF Finalize
<1>5. ASSUME NEW b, NEW c, NEW d, NEW e, NEW f,
             \/ a.pc = "build" /\ b = [a EXCEPT !.pc = "deliver", !.built = TRUE]
             \/ a.pc = "build" /\ b = [a EXCEPT !.pc = "finalize", !.status = "failed"]
             \/ a.pc = "finalize" /\ b = [a EXCEPT !.tries = a.tries + 1]
      PROVE  Follows(b, a)
  <2>1. /\ b.pc \in {"deliver", "finalize"}
        /\ b.schedule = a.schedule /\ b.trigger = a.trigger /\ b.reference = a.reference
        /\ b.todo = a.todo /\ b.run = a.run /\ b.call = a.call /\ b.tenant = a.tenant /\ b.asked = a.asked
    BY <1>1, <1>5, ZenonT(60) DEF Activation
  <2>2. Begun(a) /\ InRun(a)
    BY <1>5 DEF Begun, InRun
  <2> QED
    BY <2>1, <2>2 DEF Follows
<1>6. ASSUME BuildOk(w) PROVE Goal
  <2>1. threads' = [threads EXCEPT ![w] = [a EXCEPT !.pc = "deliver", !.built = TRUE]]
    BY <1>1, <1>6 DEF BuildOk
  <2> QED
    BY <1>5, <1>6, <2>1 DEF BuildOk
<1>7. ASSUME BuildFails(w) PROVE Goal
  <2>1. threads' = [threads EXCEPT ![w] = [a EXCEPT !.pc = "finalize", !.status = "failed"]]
    BY <1>1, <1>7 DEF BuildFails
  <2> QED
    BY <1>5, <1>7, <2>1 DEF BuildFails
<1>8. ASSUME FinalizeFault(w) PROVE Goal
  <2>1. \/ threads' = [threads EXCEPT ![w] = [a EXCEPT !.tries = a.tries + 1]]
        \/ threads' = [threads EXCEPT ![w] = AfterFinalize(a)]
    BY <1>1, <1>8 DEF FinalizeFault
  <2> QED
    BY <1>1, <1>5, <1>8, <2>1, AfterFinalizeFollows DEF FinalizeFault
<1>9. ASSUME Starts(w) PROVE Goal
  <2>1. ASSUME NEW s, NEW trig, NEW ref, Submit(w, s, trig, ref) PROVE Goal
    <3>1. PICK b : b = [Idle EXCEPT !.pc = "submitted", !.schedule = s, !.trigger = trig, !.reference = ref]
      OBVIOUS
    <3>2. b.pc = "submitted" /\ b.trigger = trig /\ b.reference = ref
      BY <3>1 DEF Idle
    <3>3. Follows(b, a)
      BY <2>1, <3>2 DEF Follows, Begun, Submit
    <3> QED
      BY <2>1, <3>1, <3>3 DEF Submit
  <2>2. ASSUME NEW t, SubmitReport(w, t) PROVE Goal
    <3>1. PICK b : b = [Idle EXCEPT !.pc = "next", !.todo = {t}]
      OBVIOUS
    <3>2. b.pc = "next" /\ b.trigger = "manual"
      BY <3>1 DEF Idle
    <3>3. Follows(b, a)
      BY <3>2 DEF Follows, Begun, InRun
    <3> QED
      BY <2>2, <3>1, <3>3 DEF SubmitReport
  <2> QED
    BY <1>9, <2>1, <2>2 DEF Starts
<1>10. ASSUME Begin(w), a.trigger # "catchup" PROVE Goal
  <2>1. PICK b : b = [a EXCEPT !.pc = "next", !.todo = Targets(a.schedule)]
    OBVIOUS
  <2>2. b.pc = "next" /\ b.trigger = a.trigger
    BY <1>1, <2>1 DEF Activation
  <2>3. Follows(b, a)
    BY <1>10, <2>2 DEF Follows, Begun, InRun
  <2> QED
    BY <1>10, <2>1, <2>3, IdleFollows DEF Begin
<1>11. PICK b : threads' = [threads EXCEPT ![w] = b] /\ Follows(b, a)
  BY <1>2, <1>3, <1>4, <1>6, <1>7, <1>8, <1>9, <1>10
<1>12. \A v \in Threads : OnTrack(threads[v])
  BY DEF Once, CatchingUp
<1> QED
  BY <1>1, <1>11, <1>12, SelfFollows

\* The rows keep their schedule, until it is deleted for good
LEMMA ThreadsKeepFiled ==
  ASSUME Typed, NEW w \in Threads,
         \/ Begin(w) \/ EndSchedule(w) \/ BuildOk(w) \/ BuildFails(w) \/ Delivers(w)
         \/ Finalize(w) \/ FinalizeFault(w) \/ AlertRun(w) \/ Raises(w) \/ Starts(w),
         NEW i \in RunIds, NEW s \in Schedules \union {Null}, Filed(i, s)
  PROVE  Filed(i, s)'
<1>1. schedules' = schedules
  BY DEF Begin, EndSchedule, BuildOk, BuildFails, Delivers, Deliver, Finalize, FinalizeFault, AlertRun, Raises,
         Starts, Submit, SubmitReport, database
<1>2. CASE Finalize(w)
  <2>1. rows[i] \in Row /\ rows \in [RunIds -> Row]
    BY DEF Typed, TypeOK
  <2>2. rows'[i] = rows[i] \/ (rows'[i] = Finalized(rows[i], threads[w]) /\ Exists(i))
    BY <1>2, <2>1 DEF Finalize
  <2>3. Finalized(rows[i], threads[w]).schedule = rows[i].schedule
    BY <2>1 DEF Finalized, Row
  <2> QED
    BY <1>1, <2>2, <2>3 DEF Filed, Exists
<1>3. CASE rows' = rows
  BY <1>1, <1>3 DEF Filed, Exists
<1> QED
  BY <1>2, <1>3, RowsStay

LEMMA OthersKeepFiled ==
  ASSUME Typed, Stop \/ Boot \/ Administers \/ UNCHANGED runVars,
         NEW i \in RunIds, NEW s \in Schedules \union {Null}, Filed(i, s)
  PROVE  Filed(i, s)'
<1>1. rows[i] \in Row /\ rows[i].schedule \in Schedules \union {Null}
  BY DEF Typed, TypeOK, Row
<1>2. CASE Stop \/ UNCHANGED runVars
  BY <1>2 DEF Stop, runVars, database, Filed, Exists
<1>3. CASE Boot
  <2>1. rows'[i] = rows[i] \/ (rows'[i] = [rows[i] EXCEPT !.status = "failed"] /\ rows[i].status = "running")
    BY <1>3 DEF Boot
  <2>2. rows'[i].schedule = rows[i].schedule /\ (Exists(i)' => Exists(i))
    BY <1>1, <2>1 DEF Exists, Row
  <2> QED
    BY <1>3, <2>2 DEF Boot, Filed
<1>4. ASSUME NEW S, S \subseteq Schedules, \A z \in S : schedules'[z] = "absent",
             \A z \in Schedules : schedules[z] = "absent" => schedules'[z] = "absent",
             rows'[i] = Detached(S)[i] \/ rows'[i] = NoRow
      PROVE  Filed(i, s)'
  <2>1. CASE rows'[i] = NoRow
    BY <2>1 DEF Filed, Exists, NoRow
  <2>2. CASE rows'[i] = rows[i]
    BY <1>4, <2>2 DEF Filed, Exists
  <2>3. CASE rows[i].schedule \in S /\ rows'[i] = [rows[i] EXCEPT !.schedule = Null]
    <3>1. rows'[i].status = rows[i].status /\ rows'[i].schedule = Null
      BY <1>1, <2>3 DEF Row
    <3>2. schedules'[rows[i].schedule] = "absent" /\ rows[i].schedule # Null
      BY <1>4, <2>3, RunsConstants
    <3> QED
      BY <1>4, <3>1, <3>2 DEF Filed, Exists
  <2> QED
    BY <1>4, <2>1, <2>2, <2>3 DEF Detached
<1>5. ASSUME NEW t \in Tenants, TenantToggle(t) PROVE Filed(i, s)'
  BY <1>5 DEF TenantToggle, Filed, Exists
<1>6. ASSUME NEW z \in Schedules, ScheduleToggle(z) PROVE Filed(i, s)'
  <2>1. rows' = rows /\ \A y \in Schedules : schedules[y] = "absent" => schedules'[y] = "absent"
    BY <1>6 DEF ScheduleToggle, Typed, TypeOK
  <2> QED
    BY <2>1 DEF Filed, Exists
<1>7. ASSUME NEW z \in Schedules, ScheduleDelete(z) PROVE Filed(i, s)'
  <2>1. /\ rows'[i] = Detached({z})[i] /\ schedules'[z] = "absent"
        /\ \A y \in Schedules : schedules[y] = "absent" => schedules'[y] = "absent"
    BY <1>7 DEF ScheduleDelete, Typed, TypeOK
  <2> QED
    BY <1>4, <2>1
<1>8. ASSUME NEW t \in Tenants, TenantDelete(t) PROVE Filed(i, s)'
  <2> DEFINE own == {z \in Schedules : ~FanOut[z] /\ Covers[z] = {t}}
  <2>1. /\ rows'[i] = Detached(own)[i] \/ rows'[i] = NoRow
        /\ \A y \in Schedules : schedules'[y] = IF y \in own THEN "absent" ELSE schedules[y]
    BY <1>8 DEF TenantDelete
  <2>2. own \subseteq Schedules
    OBVIOUS
  <2> HIDE DEF own
  <2> QED
    BY <1>4, <2>1, <2>2
<1> QED
  BY <1>2, <1>3, <1>5, <1>6, <1>7, <1>8 DEF Administers

\* A catch-up begins: whom it leaves out was served; what was mailed to the
\* others was lost, or its call is still in run_report
LEMMA CatchUpLeavesOut ==
  ASSUME Typed, Ledger, Filing, NEW w \in Threads, Begin(w), threads[w].trigger = "catchup",
         schedules[threads[w].schedule] = "enabled",
         NEW m \in outbox, m.schedule = threads[w].schedule, m.period = threads[w].reference,
         m.tenant \in Targets(threads[w].schedule) \ Done(threads[w].schedule, threads[w].reference)
  PROVE  m.call \in lost \/ \E v \in Threads : Busy(v) /\ threads[v].call = m.call
<1> DEFINE a == threads[w]
<1>1. a.schedule \in Schedules /\ m \in Mail /\ MailOfCall(m) /\ Filed(m.call, m.schedule)
  BY DEF Typed, TypeOK, ThreadsOK, ThreadOK, Begin, Ledger, Filing
<1>2. ASSUME NEW i \in RunIds, rows[i].owner = m.call, rows[i].period = m.period PROVE FALSE
  <2>1. m.call # 0
    BY <1>1 DEF Mail, Calls
  <2>2. Exists(i) /\ i = m.call
    BY <1>2, <2>1 DEF Ledger, IdIsCall
  <2>3. rows[i].tenant = m.tenant /\ rows[i].schedule = a.schedule
    BY <1>1, <2>2 DEF MailOfCall, Filed
  <2>4. m.tenant \in Done(a.schedule, a.reference)
    BY <1>2, <2>2, <2>3 DEF Done
  <2> QED
    BY <2>4
<1>3. ~(m.tenant # NoTenant /\ tenants[m.tenant] = "absent")
  BY DEF Targets, Present
<1> QED
  BY <1>2, <1>3 DEF Ledger, SentIsRecorded

LEMMA CatchUpSees ==
  ASSUME Typed, Ledger, Once, PeriodToItself', NEW w \in Threads, Begin(w), threads[w].trigger = "catchup",
         schedules[threads[w].schedule] = "enabled", Begun(threads'[w]), threads'[w].trigger = "catchup",
         threads'[w].schedule = threads[w].schedule, threads'[w].reference = threads[w].reference,
         \A v \in Threads \ {w} : threads'[v] = threads[v],
         NEW m \in outbox, m.schedule = threads[w].schedule, m.period = threads[w].reference,
         m.tenant \in Targets(threads[w].schedule) \ Done(threads[w].schedule, threads[w].reference)
  PROVE  m.call \in lost
<1> DEFINE a == threads[w]
<1>1. /\ a \in Activation /\ a.pc = "submitted" /\ a.schedule \in Schedules
      /\ m \in Mail /\ MailOfCall(m) /\ Filed(m.call, m.schedule)
  BY DEF Typed, TypeOK, ThreadsOK, ThreadOK, Begin, Ledger, Once, Filing
<1>2. ASSUME NEW v \in Threads, Busy(v), threads[v].call = m.call PROVE FALSE
  <2>1. InRun(threads[v]) /\ v # w
    BY <1>1, <1>2 DEF Busy, InRun
  <2>2. threads[v].schedule = a.schedule
    BY <1>2, <2>1 DEF Once, Sending, Sends
  <2>3. threads[v].asked = a.reference
    BY <1>1, <1>2 DEF MailOfCall, Bears
  <2>4. threads'[v] = threads[v]
    BY <2>1
  <2> QED
    BY <2>1, <2>2, <2>3, <2>4 DEF PeriodToItself
<1> QED
  BY <1>2, CatchUpLeavesOut DEF Once

LEMMA OnceBegins ==
  ASSUME Typed, Ledger, Once, PeriodToItself', NEW w \in Threads, Begin(w), threads[w].trigger = "catchup"
  PROVE  Once'
<1> DEFINE a == threads[w]
           covered == Targets(a.schedule) \ Done(a.schedule, a.reference)
<1>1. /\ a \in Activation /\ threads \in [Threads -> Activation]
      /\ outbox' = outbox /\ lost' = lost /\ UNCHANGED <<rows, schedules>>
  BY DEF Typed, TypeOK, Begin, database, history, lost
<1>2. \A i \in RunIds, s \in Schedules \union {Null} : Filed(i, s) => Filed(i, s)'
  BY <1>1 DEF Filed, Exists
<1>3. \A v \in Threads : OnTrack(threads[v])
  BY DEF Once, CatchingUp
<1>4. CASE schedules[a.schedule] # "enabled"
  <2>1. threads' = [threads EXCEPT ![w] = Idle]
    BY <1>4 DEF Begin
  <2>2. \A v \in Threads : Follows(threads'[v], threads[v])
    BY <1>1, <1>3, <2>1, SelfFollows, IdleFollows
  <2> QED
    BY <1>1, <1>2, <2>2, OnceGoesOn
<1>5. CASE schedules[a.schedule] = "enabled"
  <2>1. PICK b : b = [a EXCEPT !.pc = "next", !.todo = covered]
    OBVIOUS
  <2>2. threads' = [threads EXCEPT ![w] = b]
    BY <1>5, <2>1 DEF Begin
  <2>3. /\ b.pc = "next" /\ b.trigger = "catchup" /\ b.todo = covered
        /\ b.schedule = a.schedule /\ b.reference = a.reference
    BY <1>1, <2>1 DEF Activation
  <2>4. threads'[w] = b /\ \A v \in Threads \ {w} : threads'[v] = threads[v]
    BY <1>1, <2>2
  <2>5. Begun(b) /\ ~InRun(b)
    BY <2>3 DEF Begun, InRun
  <2> HIDE DEF covered
  <2>6. Filing'
    BY <1>1, <2>4, <2>5 DEF Once, Filing, Filed, Exists
  <2>7. Sending'
    BY <1>1, <2>4, <2>5 DEF Once, Sending, Sends
  <2>8. CatchingUp'
    <3>1. OnTrack(b)
      BY <1>3, <2>3, <2>5 DEF OnTrack
    <3>2. Unserved(threads[w])'
      <4> SUFFICES ASSUME NEW m \in outbox, m.schedule = b.schedule, m.period = b.reference, Waits(b, m)
                   PROVE  m.call \in lost
        BY <1>1, <2>4 DEF Unserved
      <4>1. m.tenant \in covered
        BY <2>3, <2>5 DEF Waits
      <4> QED
        BY <1>5, <2>3, <2>4, <2>5, <4>1, CatchUpSees DEF covered
    <3>3. ASSUME NEW v \in Threads, v # w PROVE OnTrack(threads'[v]) /\ Unserved(threads[v])'
      BY <1>1, <2>4, <3>3 DEF Once, CatchingUp, Unserved
    <3> QED
      BY <2>4, <3>1, <3>2, <3>3 DEF CatchingUp
  <2>9. TwiceOnlyAfterLoss'
    BY <1>1 DEF Once, TwiceOnlyAfterLoss
  <2> QED
    BY <2>6, <2>7, <2>8, <2>9 DEF Once
<1> QED
  BY <1>4, <1>5

\* A new call: its number and its row are new
LEMMA OpensCall ==
  ASSUME Typed, Ledger, NoReuse, Dense, NEW w \in Threads, NEW t \in Subjects, NEW p \in Periods,
         OpenRun(w, t, p)
  PROVE  \E i \in RunIds :
           /\ i = calls + 1
           /\ rows'[i].schedule = threads[w].schedule
           /\ \A j \in RunIds \ {i} : rows'[j] = rows[j]
           /\ \A v \in Threads \ {w} : threads'[v] = threads[v]
           /\ threads'[w].schedule = threads[w].schedule /\ threads'[w].trigger = threads[w].trigger
           /\ threads'[w].reference = threads[w].reference /\ threads'[w].todo = threads[w].todo \ {t}
           /\ threads'[w].pc \in {"next", "build"}
           /\ threads'[w].pc = "build" => /\ threads'[w].call = i /\ threads'[w].run = i
                                         /\ threads'[w].tenant = t /\ threads'[w].asked = p
<1> DEFINE a == threads[w]
<1>1. /\ a \in Activation /\ threads \in [Threads -> Activation] /\ rows \in [RunIds -> Row]
      /\ calls \in Nat /\ calls < MaxRuns
  BY RunsConstants DEF Typed, TypeOK, OpenRun, Calls
<1>2. PICK i \in RunIds :
        /\ FreshId(i)
        /\ rows' = [rows EXCEPT ![i] =
             [NoRow EXCEPT !.status = IF Present(t) THEN "running" ELSE "failed",
                           !.schedule = a.schedule, !.trigger = a.trigger,
                           !.tenant = IF Present(t) THEN t ELSE NoTenant,
                           !.asked = p, !.owner = calls + 1]]
        /\ threads' = [threads EXCEPT ![w] =
             IF Present(t)
             THEN [a EXCEPT !.pc = "build", !.todo = a.todo \ {t}, !.call = calls + 1,
                            !.run = i, !.tenant = t, !.asked = p]
             ELSE Returned([a EXCEPT !.todo = a.todo \ {t}], i)]
  BY DEF OpenRun
<1>3. i = calls + 1
  BY <1>1, <1>2, FreshIsNext
<1> DEFINE b == threads'[w]
           r == rows'[i]
<1>4. r.schedule = a.schedule /\ \A j \in RunIds \ {i} : rows'[j] = rows[j]
  BY <1>1, <1>2 DEF NoRow
<1>5. /\ b.schedule = a.schedule /\ b.trigger = a.trigger /\ b.reference = a.reference
      /\ b.todo = a.todo \ {t} /\ b.pc \in {"next", "build"}
      /\ b.pc = "build" => b.call = i /\ b.run = i /\ b.tenant = t /\ b.asked = p
  <2>1. CASE Present(t)
    <3>1. b = [a EXCEPT !.pc = "build", !.todo = a.todo \ {t}, !.call = calls + 1,
                        !.run = i, !.tenant = t, !.asked = p]
      BY <1>1, <1>2, <2>1
    <3>2. PICK c : c = [a EXCEPT !.pc = "build", !.todo = a.todo \ {t}, !.call = calls + 1,
                        !.run = i, !.tenant = t, !.asked = p]
      OBVIOUS
    <3>3. /\ c.schedule = a.schedule /\ c.trigger = a.trigger /\ c.reference = a.reference
          /\ c.todo = a.todo \ {t} /\ c.pc = "build" /\ c.call = i /\ c.run = i /\ c.tenant = t /\ c.asked = p
      BY <1>1, <1>3, <3>2 DEF Activation
    <3>4. b = c
      BY <3>1, <3>2
    <3> QED
      BY <3>3, <3>4
  <2>2. CASE ~Present(t)
    <3>1. PICK c : c = [a EXCEPT !.todo = a.todo \ {t}]
      OBVIOUS
    <3>2. b = Returned(c, i)
      BY <1>1, <1>2, <2>2, <3>1
    <3>3. /\ c.schedule = a.schedule /\ c.trigger = a.trigger /\ c.reference = a.reference
          /\ c.todo = a.todo \ {t}
      BY <1>1, <3>1 DEF Activation
    <3>4. /\ Returned(c, i).pc = "next" /\ Returned(c, i).schedule = c.schedule
          /\ Returned(c, i).trigger = c.trigger /\ Returned(c, i).reference = c.reference
          /\ Returned(c, i).todo = c.todo
      BY DEF Returned, Idle
    <3> QED
      BY <3>2, <3>3, <3>4
  <2> QED
    BY <2>1, <2>2
<1>6. \A v \in Threads \ {w} : threads'[v] = threads[v]
  BY <1>1, <1>2
<1> QED
  BY <1>3, <1>4, <1>5, <1>6

\* The rows and mails before a new call are those of earlier calls
LEMMA FilingOpens ==
  ASSUME Typed, Ledger, NoReuse, Dense, Filing, NEW w \in Threads, NEW t \in Subjects, NEW p \in Periods,
         OpenRun(w, t, p)
  PROVE  Filing'
<1> DEFINE a == threads[w]
           b == threads'[w]
<1>1. outbox' = outbox /\ schedules' = schedules /\ calls \in Nat
  BY DEF Typed, TypeOK, OpenRun, Calls
<1>2. PICK i \in RunIds :
        /\ i = calls + 1
        /\ rows'[i].schedule = a.schedule
        /\ \A j \in RunIds \ {i} : rows'[j] = rows[j]
        /\ \A v \in Threads \ {w} : threads'[v] = threads[v]
        /\ b.schedule = a.schedule /\ b.pc \in {"next", "build"}
        /\ b.pc = "build" => b.run = i
  BY OpensCall
<1> DEFINE r == rows'[i]
<1> HIDE DEF b, r
<1>3. \A m \in outbox : m.call \in RunIds /\ m.call < i
  BY <1>1, <1>2 DEF Ledger, MailOfCall, Typed, TypeOK, Mail, Calls, RunIds
<1>4. \A v \in Threads : InRun(threads[v]) => threads[v].run \in RunIds /\ threads[v].run < i
  BY <1>1, <1>2 DEF Ledger, IdIsCall, Busy, InRun, Typed, ThreadsOK, ThreadOK, RunIds
<1> DEFINE Kept(j, s) == rows'[j].status # "absent" =>
                           rows'[j].schedule = s \/ (s # Null /\ schedules[s] = "absent")
<1>5. \A j \in RunIds : \A s : j < i /\ Filed(j, s) => Kept(j, s)
  BY <1>1, <1>2 DEF Filed, Exists, RunIds
<1>6. ASSUME NEW m \in outbox PROVE Kept(m.call, m.schedule)
  BY <1>3, <1>5 DEF Filing
<1>7. ASSUME NEW v \in Threads, v # w, InRun(threads[v]) PROVE Kept(threads[v].run, threads[v].schedule)
  BY <1>4, <1>5, <1>7 DEF Filing
<1>8. InRun(b) => Kept(b.run, b.schedule)
  BY <1>2 DEF InRun, b
<1>9. ASSUME NEW v \in Threads, InRun(threads'[v]) PROVE Kept(threads'[v].run, threads'[v].schedule)
  BY <1>2, <1>7, <1>8, <1>9 DEF b
<1> QED
  BY <1>1, <1>6, <1>9 DEF Filing, Filed, Exists

LEMMA OnceOpens ==
  ASSUME Typed, Ledger, NoReuse, Dense, Once, NEW w \in Threads, NEW t \in Subjects, NEW p \in Periods,
         OpenRun(w, t, p)
  PROVE  Once'
<1> DEFINE a == threads[w]
           b == threads'[w]
<1>1. /\ outbox' = outbox /\ lost' = lost
      /\ a.pc = "next" /\ t \in a.todo /\ (a.reference # Null => p = a.reference)
      /\ calls \in Nat
  BY DEF Typed, TypeOK, OpenRun, lost, Calls
<1>2. PICK i \in RunIds :
        /\ i = calls + 1
        /\ \A v \in Threads \ {w} : threads'[v] = threads[v]
        /\ b.schedule = a.schedule /\ b.trigger = a.trigger /\ b.reference = a.reference
        /\ b.todo = a.todo \ {t} /\ b.pc \in {"next", "build"}
        /\ b.pc = "build" => b.call = i /\ b.tenant = t /\ b.asked = p
  BY OpensCall
<1> HIDE DEF b
<1>3. \A m \in outbox : m.call \in RunIds /\ m.call < i
  BY <1>1, <1>2 DEF Ledger, MailOfCall, Typed, TypeOK, Mail, Calls, RunIds
<1>4. Filing'
  BY FilingOpens DEF Once
<1>5. Sending'
  <2>1. ASSUME NEW m \in outbox, InRun(b) PROVE Sends(b, m)
    <3>1. b.call = i /\ m.call \in Nat /\ i \in Nat /\ m.call < i
      BY <1>2, <1>3, <2>1 DEF InRun, RunIds
    <3> QED
      BY <3>1 DEF Sends
  <2> QED
    BY <1>1, <1>2, <2>1 DEF Once, Sending, b
<1>6. CatchingUp'
  <2>1. OnTrack(a) /\ Unserved(a)
    BY DEF Once, CatchingUp
  <2>2. OnTrack(b)
    BY <1>1, <1>2, <2>1 DEF OnTrack, InRun
  <2>3. \A m \in outbox : Waits(b, m) => Waits(a, m)
    BY <1>1, <1>2 DEF Waits, InRun
  <2>4. Begun(a)
    BY <1>1 DEF Begun
  <2>5. Unserved(threads[w])'
    BY <1>1, <1>2, <2>1, <2>3, <2>4 DEF Unserved, b
  <2>6. ASSUME NEW v \in Threads, v # w PROVE OnTrack(threads'[v]) /\ Unserved(threads[v])'
    BY <1>1, <1>2, <2>6 DEF Once, CatchingUp, Unserved
  <2> QED
    BY <2>2, <2>5, <2>6 DEF CatchingUp, b
<1>7. TwiceOnlyAfterLoss'
  BY <1>1 DEF Once, TwiceOnlyAfterLoss
<1> QED
  BY <1>4, <1>5, <1>6, <1>7 DEF Once

LEMMA OnceDelivers ==
  ASSUME Typed, Ledger, Once, PeriodToItself, NEW w \in Threads, NEW status \in {"ok", "failed"},
         NEW sent \in BOOLEAN, NEW noted \in BOOLEAN, NEW problem \in BOOLEAN,
         Deliver(w, status, sent, noted, problem)
  PROVE  Once'
<1> DEFINE a == threads[w]
           n == [call |-> a.call, trigger |-> a.trigger, schedule |-> a.schedule,
                 tenant |-> a.tenant, period |-> a.asked]
<1>1. /\ a \in Activation /\ threads \in [Threads -> Activation] /\ a.pc = "deliver"
      /\ UNCHANGED <<rows, schedules>> /\ lost' = lost
  BY DEF Typed, TypeOK, Deliver, database, lost
<1>2. PICK b : b = [a EXCEPT !.pc = "finalize", !.status = status, !.delivered = noted, !.problem = problem]
  OBVIOUS
<1>3. /\ b.pc = "finalize" /\ b.call = a.call /\ b.run = a.run /\ b.asked = a.asked /\ b.tenant = a.tenant
      /\ b.schedule = a.schedule /\ b.trigger = a.trigger /\ b.reference = a.reference /\ b.todo = a.todo
  BY <1>1, <1>2 DEF Activation
<1>4. threads' = [threads EXCEPT ![w] = b] /\ outbox' = IF sent THEN outbox \union {n} ELSE outbox
  BY <1>2 DEF Deliver
<1>5. threads'[w] = b /\ \A v \in Threads \ {w} : threads'[v] = threads[v]
  BY <1>1, <1>4
<1>6. InRun(a) /\ Begun(a) /\ InRun(b) /\ Begun(b)
  BY <1>1, <1>3 DEF InRun, Begun
<1>7. \A i, s : Filed(i, s)' <=> Filed(i, s)
  BY <1>1 DEF Filed, Exists
<1>8. \A v \in Threads : OnTrack(threads[v]) /\ Unserved(threads[v])
  BY DEF Once, CatchingUp
<1>9. CASE ~sent
  <2>1. Follows(b, a)
    BY <1>3, <1>6 DEF Follows
  <2>2. \A v \in Threads : Follows(threads'[v], threads[v])
    BY <1>5, <1>8, <2>1, SelfFollows
  <2> QED
    BY <1>1, <1>4, <1>7, <1>9, <2>2, OnceGoesOn
<1>10. CASE sent
  <2>1. outbox' = outbox \union {n}
    BY <1>4, <1>10
  <2>2. /\ n.call = a.call /\ n.trigger = a.trigger /\ n.schedule = a.schedule
        /\ n.tenant = a.tenant /\ n.period = a.asked
    OBVIOUS
  <2> HIDE DEF n
  <2>3. a.call \in Nat /\ a.run = a.call /\ \A m \in outbox : m.call \in Nat
    BY <1>1, <1>6 DEF Ledger, IdIsCall, Busy, InRun, Typed, TypeOK, ThreadsOK, ThreadOK, Mail, Calls
  <2>4. \A v \in Threads : InRun(threads[v]) /\ threads[v].call = a.call => v = w
    BY <1>6 DEF Ledger, IdIsCall, Busy, InRun
  <2>5. Filing'
    <3>1. Filed(n.call, n.schedule)
      BY <1>6, <2>2, <2>3 DEF Once, Filing
    <3>2. \A v \in Threads : InRun(threads'[v]) => Filed(threads'[v].run, threads'[v].schedule)
      BY <1>3, <1>5, <1>6 DEF Once, Filing
    <3>3. \A m \in outbox' : Filed(m.call, m.schedule)
      BY <2>1, <3>1 DEF Once, Filing
    <3> QED
      BY <1>1, <3>2, <3>3 DEF Filing, Filed, Exists
  <2>6. Sending'
    <3> SUFFICES ASSUME NEW v \in Threads, InRun(threads'[v]), NEW m \in outbox' PROVE Sends(threads'[v], m)
      BY DEF Sending
    <3>1. CASE m \in outbox
      BY <1>3, <1>5, <1>6, <3>1 DEF Once, Sending, Sends
    <3>2. CASE m = n /\ v = w
      BY <1>3, <1>5, <2>2, <2>3, <3>2 DEF Sends
    <3>3. CASE m = n /\ v # w
      <4>1. threads'[v] = threads[v] /\ threads[v].call # a.call
        BY <1>5, <2>4, <3>3
      <4>2. ASSUME a.trigger = "catchup", a.schedule = threads[v].schedule, a.asked = threads[v].asked PROVE FALSE
        <5>1. a.asked = a.reference
          BY <1>6, <1>8, <4>2 DEF OnTrack
        <5> QED
          BY <1>6, <3>3, <4>1, <4>2, <5>1 DEF PeriodToItself
      <4> QED
        BY <2>2, <3>3, <4>1, <4>2 DEF Sends
    <3> QED
      BY <2>1, <3>1, <3>2, <3>3
  <2>7. CatchingUp'
    <3>1. ASSUME NEW v \in Threads PROVE OnTrack(threads'[v])
      BY <1>3, <1>5, <1>6, <1>8 DEF OnTrack
    <3>2. ASSUME NEW v \in Threads, Begun(threads'[v]), threads'[v].trigger = "catchup", NEW m \in outbox',
                 m.schedule = threads'[v].schedule, m.period = threads'[v].reference, Waits(threads'[v], m)
          PROVE  m.call \in lost
      <4>1. /\ Begun(threads[v]) /\ threads[v].trigger = "catchup" /\ m.schedule = threads[v].schedule
            /\ m.period = threads[v].reference /\ Waits(threads[v], m)
        BY <1>3, <1>5, <1>6, <3>2 DEF Waits
      <4>2. CASE m \in outbox
        BY <1>8, <4>1, <4>2 DEF Unserved
      <4>3. CASE m = n
        <5>1. v = w
          BY <1>6, <2>2, <4>1, <4>3 DEF PeriodToItself
        <5>2. a.tenant \notin a.todo
          BY <1>6, <1>8, <4>1, <5>1 DEF OnTrack
        <5> QED
          BY <2>2, <4>1, <4>3, <5>1, <5>2 DEF Waits
      <4> QED
        BY <2>1, <4>2, <4>3
    <3> QED
      BY <1>1, <3>1, <3>2 DEF CatchingUp, Unserved
  <2>8. TwiceOnlyAfterLoss'
    <3> SUFFICES ASSUME NEW m \in outbox', NEW k \in outbox', m.call < k.call, k.trigger = "catchup",
                        m.schedule # Null, SameReport(m, k)
                 PROVE  m.call \in lost
      BY <1>1 DEF TwiceOnlyAfterLoss
    <3>1. CASE m \in outbox /\ k \in outbox
      BY <3>1 DEF Once, TwiceOnlyAfterLoss
    <3>2. CASE m \in outbox /\ k = n
      <4>1. a.trigger = "catchup" /\ a.asked = a.reference
        BY <1>6, <1>8, <2>2, <3>2 DEF OnTrack
      <4>2. m.schedule = a.schedule /\ m.period = a.reference /\ m.tenant = a.tenant /\ m.call # a.call
        BY <2>2, <2>3, <3>2, <4>1 DEF SameReport
      <4> QED
        BY <1>6, <1>8, <3>2, <4>1, <4>2 DEF Unserved, Waits
    <3>3. CASE m = n /\ k \in outbox
      <4>1. k.call <= a.call
        BY <1>6, <2>2, <3>3 DEF Once, Sending, Sends, SameReport
      <4> QED
        BY <2>2, <2>3, <3>3, <4>1
    <3>4. CASE m = n /\ k = n
      BY <2>2, <2>3, <3>4
    <3> QED
      BY <2>1, <3>1, <3>2, <3>3, <3>4
  <2> QED
    BY <2>5, <2>6, <2>7, <2>8 DEF Once
<1> QED
  BY <1>9, <1>10

LEMMA OnceStep ==
  ASSUME Typed, Ledger, NoReuse, Dense, Once, PeriodToItself, PeriodToItself', [RunsNext]_runVars
  PROVE  Once'
<1>1. \A v \in Threads : OnTrack(threads[v])
  BY DEF Once, CatchingUp
<1>2. ASSUME NEW w \in Threads,
             \/ EndSchedule(w) \/ BuildOk(w) \/ BuildFails(w) \/ Finalize(w) \/ FinalizeFault(w)
             \/ AlertRun(w) \/ Raises(w) \/ Starts(w)
             \/ Begin(w) /\ threads[w].trigger # "catchup"
      PROVE  Once'
  <2>1. outbox' = outbox /\ lost \subseteq lost'
    BY <1>2 DEF EndSchedule, BuildOk, BuildFails, Finalize, FinalizeFault, AlertRun, Raises, Starts, Begin,
                Submit, SubmitReport, history, lost
  <2>2. \A v \in Threads : Follows(threads'[v], threads[v])
    BY <1>2, QuietFollows
  <2>3. \A i \in RunIds, s \in Schedules \union {Null} : Filed(i, s) => Filed(i, s)'
    BY <1>2, ThreadsKeepFiled
  <2> QED
    BY <2>1, <2>2, <2>3, OnceGoesOn
<1>3. ASSUME NEW w \in Threads, Work(w) PROVE Once'
  <2>1. CASE Delivers(w)
    BY <2>1, OnceDelivers DEF Delivers
  <2>2. CASE Begin(w) /\ threads[w].trigger = "catchup"
    BY <2>2, OnceBegins
  <2> QED
    BY <1>2, <1>3, <2>1, <2>2 DEF Work
<1>4. ASSUME NEW w \in Threads, Opens(w) PROVE Once'
  BY <1>4, OnceOpens DEF Opens
<1>5. ASSUME Stop \/ Boot \/ Administers \/ UNCHANGED runVars PROVE Once'
  <2>1. outbox' = outbox /\ lost \subseteq lost'
    BY <1>5 DEF Stop, Boot, Administers, TenantToggle, TenantDelete, ScheduleToggle, ScheduleDelete, runVars,
                history, lost
  <2>2. \A v \in Threads : threads'[v] = Idle \/ threads'[v] = threads[v]
    BY <1>5 DEF Stop, Boot, Administers, TenantToggle, TenantDelete, ScheduleToggle, ScheduleDelete, runVars
  <2>3. \A v \in Threads : Follows(threads'[v], threads[v])
    BY <1>1, <2>2, SelfFollows, IdleFollows
  <2>4. \A i \in RunIds, s \in Schedules \union {Null} : Filed(i, s) => Filed(i, s)'
    BY <1>5, OthersKeepFiled
  <2> QED
    BY <2>1, <2>3, <2>4, OnceGoesOn
<1> QED
  BY <1>2, <1>3, <1>4, <1>5 DEF RunsNext

(* A report mailed before is mailed again by a catch-up only if the first    *)
(* run was lost (CHANGELOG 0.7.0; services.py run_schedule leaves out the    *)
(* tenants with a run recorded for the period, and run_report records the    *)
(* period in its last transaction), for runs started in any order.           *)
THEOREM CatchUpMailsOnce ==
  ASSUME NoReuse
  PROVE  RunsSpec /\ []PeriodToItself => []TwiceOnlyAfterLoss
<1>1. RunsInit => Once
  BY OnceInit
<1>2. /\ Typed /\ (Blank /\ Dense /\ Ledger) /\ Once
      /\ PeriodToItself /\ PeriodToItself' /\ [RunsNext]_runVars
      => Once'
  BY OnceStep
<1>3. Once => TwiceOnlyAfterLoss
  BY DEF Once
<1> QED
  BY <1>1, <1>2, <1>3, Typing, RecordsKept, PTL DEF RunsSpec

(* The same of the scheduler's catch-up after every outage: scheduler.py     *)
(* missed_runs and the catch-up jobs of start.                               *)
THEOREM MissedRunsMailOnce ==
  ASSUME NoReuse, {"schedule", "catchup"} \subseteq Jobs
  PROVE  Spec /\ []PeriodToItself => []TwiceOnlyAfterLoss
  BY SchedulerImplementsRuns, CatchUpMailsOnce, PTL

\* Without new mail and without a new call, a thread inside run_report was
\* there before, with the same row and schedule
LEMMA RunsGoOn ==
  ASSUME Typed, NEW w \in Threads, Work(w) \/ Starts(w), NEW v \in Threads, InRun(threads'[v])
  PROVE  InRun(threads[v]) /\ threads'[v].run = threads[v].run /\ threads'[v].schedule = threads[v].schedule
<1> DEFINE a == threads[w]
           Goal == InRun(threads[v]) /\ threads'[v].run = threads[v].run /\ threads'[v].schedule = threads[v].schedule
<1>1. a \in Activation /\ threads \in [Threads -> Activation]
  BY DEF Typed, TypeOK
<1>2. ASSUME NEW b, threads' = [threads EXCEPT ![w] = b],
             ~InRun(b) \/ (InRun(a) /\ b.run = a.run /\ b.schedule = a.schedule)
      PROVE  Goal
  BY <1>1, <1>2
<1>3. ~InRun(Idle) /\ \A c, i : ~InRun(Returned(c, i))
  BY DEF InRun, Idle, Returned
<1>4. ~InRun(AfterFinalize(a))
  <2> DEFINE c == [a EXCEPT !.pc = "alert", !.tries = 0]
  <2>1. c.pc = "alert"
    BY <1>1 DEF Activation
  <2>2. ~InRun(c)
    BY <2>1 DEF InRun
  <2> HIDE DEF c
  <2> QED
    BY <1>3, <2>2 DEF AfterFinalize, c
<1>5. CASE EndSchedule(w) \/ Raises(w)
  <2>1. threads' = [threads EXCEPT ![w] = Idle]
    BY <1>5 DEF EndSchedule, Raises
  <2> QED
    BY <1>2, <1>3, <2>1
<1>6. CASE AlertRun(w)
  <2>1. threads' = [threads EXCEPT ![w] = Returned(a, a.run)]
    BY <1>6 DEF AlertRun
  <2> QED
    BY <1>2, <1>3, <2>1
<1>7. CASE Finalize(w)
  <2>1. threads' = [threads EXCEPT ![w] = AfterFinalize(a)]
    BY <1>7 DEF Finalize
  <2> QED
    BY <1>2, <1>4, <2>1
<1>8. CASE Begin(w)
  <2>1. PICK S : threads' = [threads EXCEPT ![w] = Idle] \/ threads' = [threads EXCEPT ![w] = [a EXCEPT !.pc = "next", !.todo = S]]
    BY <1>8 DEF Begin
  <2>2. PICK c : c = [a EXCEPT !.pc = "next", !.todo = S]
    OBVIOUS
  <2>3. ~InRun(c)
    BY <1>1, <2>2 DEF InRun, Activation
  <2> QED
    BY <1>2, <1>3, <2>1, <2>2, <2>3
<1>9. CASE Starts(w)
  <2>1. ASSUME NEW s, NEW trig, NEW ref, Submit(w, s, trig, ref) PROVE Goal
    <3>1. PICK c : c = [Idle EXCEPT !.pc = "submitted", !.schedule = s, !.trigger = trig, !.reference = ref]
      OBVIOUS
    <3>2. c.pc = "submitted" /\ threads' = [threads EXCEPT ![w] = c]
      BY <2>1, <3>1 DEF Submit, Idle
    <3> QED
      BY <1>2, <3>2 DEF InRun
  <2>2. ASSUME NEW t, SubmitReport(w, t) PROVE Goal
    <3>1. PICK c : c = [Idle EXCEPT !.pc = "next", !.todo = {t}]
      OBVIOUS
    <3>2. c.pc = "next" /\ threads' = [threads EXCEPT ![w] = c]
      BY <2>2, <3>1 DEF SubmitReport, Idle
    <3> QED
      BY <1>2, <3>2 DEF InRun
  <2> QED
    BY <1>9, <2>1, <2>2 DEF Starts
<1>10. CASE BuildOk(w)
  <2>1. PICK c : c = [a EXCEPT !.pc = "deliver", !.built = TRUE]
    OBVIOUS
  <2>2. threads' = [threads EXCEPT ![w] = c] /\ InRun(a)
    BY <1>1, <1>10, <2>1 DEF BuildOk, InRun
  <2>3. c.run = a.run /\ c.schedule = a.schedule
    BY <1>1, <2>1 DEF Activation
  <2> QED
    BY <1>2, <2>2, <2>3
<1>11. CASE BuildFails(w)
  <2>1. PICK c : c = [a EXCEPT !.pc = "finalize", !.status = "failed"]
    OBVIOUS
  <2>2. threads' = [threads EXCEPT ![w] = c] /\ InRun(a)
    BY <1>1, <1>11, <2>1 DEF BuildFails, InRun
  <2>3. c.run = a.run /\ c.schedule = a.schedule
    BY <1>1, <2>1 DEF Activation
  <2> QED
    BY <1>2, <2>2, <2>3
<1>12. CASE Delivers(w)
  <2>1. PICK status \in {"ok", "failed"}, sent, noted, problem \in BOOLEAN :
          Deliver(w, status, sent, noted, problem)
    BY <1>12 DEF Delivers
  <2>2. PICK c : c = [a EXCEPT !.pc = "finalize", !.status = status, !.delivered = noted, !.problem = problem]
    OBVIOUS
  <2>3. threads' = [threads EXCEPT ![w] = c] /\ InRun(a)
    BY <2>1, <2>2 DEF Deliver, InRun
  <2>4. c.run = a.run /\ c.schedule = a.schedule
    BY <1>1, <2>2 DEF Activation
  <2> QED
    BY <1>2, <2>3, <2>4
<1>13. CASE FinalizeFault(w)
  <2>1. PICK c : c = [a EXCEPT !.tries = a.tries + 1]
    OBVIOUS
  <2>2. InRun(a) /\ (threads' = [threads EXCEPT ![w] = c] \/ threads' = [threads EXCEPT ![w] = AfterFinalize(a)])
    BY <1>1, <1>13, <2>1 DEF FinalizeFault, InRun
  <2>3. c.run = a.run /\ c.schedule = a.schedule
    BY <1>1, <2>1 DEF Activation
  <2> QED
    BY <1>2, <1>4, <2>2, <2>3
<1> QED
  BY <1>5, <1>6, <1>7, <1>8, <1>9, <1>10, <1>11, <1>12, <1>13 DEF Work

\* Filing needs no assumption on overlapping runs
LEMMA FilingStep ==
  ASSUME Typed, Ledger, NoReuse, Dense, Filing, [RunsNext]_runVars
  PROVE  Filing'
<1>1. \A w \in Threads : InRun(threads[w]) =>
        threads[w].run \in RunIds /\ threads[w].schedule \in Schedules \union {Null}
  BY DEF Typed, TypeOK, ThreadsOK, ThreadOK, InRun, Activation
<1>2. \A m \in outbox : m.call \in RunIds /\ m.schedule \in Schedules \union {Null}
  BY DEF Typed, TypeOK, Mail, Calls, RunIds
<1>3. ASSUME \A i \in RunIds, s \in Schedules \union {Null} : Filed(i, s) => Filed(i, s)',
             NEW v \in Threads, InRun(threads'[v]), InRun(threads[v]), threads'[v].run = threads[v].run,
             threads'[v].schedule = threads[v].schedule
      PROVE  Filed(threads[v].run, threads[v].schedule)'
  BY <1>1, <1>3 DEF Filing, Filed, Exists
<1>4. ASSUME NEW w \in Threads, Opens(w) PROVE Filing'
  BY <1>4, FilingOpens DEF Opens
<1>5. ASSUME NEW w \in Threads, Work(w) \/ Starts(w) PROVE Filing'
  <2>1. \A i \in RunIds, s \in Schedules \union {Null} : Filed(i, s) => Filed(i, s)'
    BY <1>5, ThreadsKeepFiled DEF Work
  <2>2. ASSUME NEW v \in Threads, InRun(threads'[v])
        PROVE  Filed(threads[v].run, threads[v].schedule)'
    BY <1>3, <1>5, <2>1, <2>2, RunsGoOn
  <2>3. ASSUME NEW m \in outbox' PROVE Filed(m.call, m.schedule)'
    <3>1. CASE m \in outbox
      BY <1>2, <2>1, <3>1 DEF Filing
    <3>2. CASE m \notin outbox
      <4>1. Delivers(w)
        BY <1>5, <3>2 DEF Work, Begin, EndSchedule, BuildOk, BuildFails, Finalize, FinalizeFault, AlertRun, Raises,
                          Starts, Submit, SubmitReport, history
      <4>2. threads[w].pc = "deliver" /\ m.call = threads[w].call /\ m.schedule = threads[w].schedule
        BY <3>2, <4>1 DEF Delivers, Deliver
      <4>3. InRun(threads[w]) /\ m.call = threads[w].run
        BY <4>2 DEF InRun, Busy, Ledger, IdIsCall
      <4> QED
        BY <1>1, <2>1, <4>2, <4>3 DEF Filing
    <3> QED
      BY <3>1, <3>2
  <2> QED
    BY <2>2, <2>3 DEF Filing, Filed, Exists
<1>6. ASSUME Stop \/ Boot \/ Administers \/ UNCHANGED runVars PROVE Filing'
  <2>1. outbox' = outbox
    BY <1>6 DEF Stop, Boot, Administers, TenantToggle, TenantDelete, ScheduleToggle, ScheduleDelete, runVars, history
  <2>2. \A v \in Threads : threads'[v] = Idle \/ threads'[v] = threads[v]
    BY <1>6 DEF Stop, Boot, Administers, TenantToggle, TenantDelete, ScheduleToggle, ScheduleDelete, runVars
  <2>3. \A i \in RunIds, s \in Schedules \union {Null} : Filed(i, s) => Filed(i, s)'
    BY <1>6, OthersKeepFiled
  <2>4. ASSUME NEW v \in Threads, InRun(threads'[v])
        PROVE  Filed(threads[v].run, threads[v].schedule)'
    <3>1. threads'[v] = threads[v]
      BY <2>2, <2>4 DEF InRun, Idle
    <3> QED
      BY <1>3, <2>3, <2>4, <3>1
  <2>5. ASSUME NEW m \in outbox PROVE Filed(m.call, m.schedule)'
    BY <1>2, <2>3 DEF Filing
  <2> QED
    BY <2>1, <2>4, <2>5 DEF Filing, Filed, Exists
<1> QED
  BY <1>4, <1>5, <1>6 DEF RunsNext

\* A catch-up that begins takes on a tenant who was mailed the report of its
\* schedule and period only if the call that did was lost, or is still in
\* run_report
ServedAreLeftOut ==
  [][\A w \in Threads, m \in outbox :
       /\ Begin(w) /\ threads[w].trigger = "catchup"
       /\ m.schedule = threads[w].schedule /\ m.period = threads[w].reference
       /\ m.tenant \in threads'[w].todo
       => m.call \in lost \/ \E v \in Threads : Busy(v) /\ threads[v].call = m.call]_runVars

(* Whatever overlaps, on any number of workers and after any stops and edits,*)
(* run_schedule leaves out of a catch-up the tenants who have their report,  *)
(* except where the run that mailed it was lost or has not written its last  *)
(* transaction yet (services.py run_schedule: only_missing "skips tenants    *)
(* that already have a run for that period").                                *)
THEOREM CatchUpLooksFirst ==
  ASSUME NoReuse
  PROVE  RunsSpec => ServedAreLeftOut
<1> DEFINE LeftOut ==
      \A w \in Threads, m \in outbox :
        /\ Begin(w) /\ threads[w].trigger = "catchup"
        /\ m.schedule = threads[w].schedule /\ m.period = threads[w].reference
        /\ m.tenant \in threads'[w].todo
        => m.call \in lost \/ \E v \in Threads : Busy(v) /\ threads[v].call = m.call
<1>1. RunsInit => Filing
  BY DEF RunsInit, Filing, InRun, Idle
<1>2. Typed /\ (Blank /\ Dense /\ Ledger) /\ Filing /\ [RunsNext]_runVars => Filing'
  BY FilingStep
<1>3. Typed /\ (Blank /\ Dense /\ Ledger) /\ Filing => LeftOut
  <2> SUFFICES ASSUME Typed, Ledger, Filing, NEW w \in Threads, NEW m \in outbox, Begin(w),
                      threads[w].trigger = "catchup", m.schedule = threads[w].schedule,
                      m.period = threads[w].reference, m.tenant \in threads'[w].todo
               PROVE  m.call \in lost \/ \E v \in Threads : Busy(v) /\ threads[v].call = m.call
    OBVIOUS
  <2> DEFINE a == threads[w]
             covered == Targets(a.schedule) \ Done(a.schedule, a.reference)
  <2>1. a \in Activation /\ threads \in [Threads -> Activation]
    BY DEF Typed, TypeOK
  <2>2. schedules[a.schedule] = "enabled"
    BY <2>1 DEF Begin, Idle
  <2>3. threads'[w] = [a EXCEPT !.pc = "next", !.todo = covered]
    BY <2>1, <2>2 DEF Begin
  <2>4. m.tenant \in covered
    BY <2>1, <2>3 DEF Activation
  <2> QED
    BY <2>2, <2>4, CatchUpLeavesOut
<1> QED
  BY <1>1, <1>2, <1>3, Typing, RecordsKept, PTL DEF RunsSpec, ServedAreLeftOut

(* The same of the scheduler's own catch-up jobs (scheduler.py start), after *)
(* every outage and beside the schedules that fire meanwhile.                *)
THEOREM MissedRunsLookFirst ==
  ASSUME NoReuse, {"schedule", "catchup"} \subseteq Jobs
  PROVE  Spec => ServedAreLeftOut
  BY SchedulerImplementsRuns, CatchUpLooksFirst, PTL
=============================================================================
