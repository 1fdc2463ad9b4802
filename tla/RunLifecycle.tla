----------------------------- MODULE RunLifecycle -----------------------------
(***************************************************************************)
(* What the archive promises of every call of run_report: it is recorded   *)
(* once, as running or - without its tenant - as failed, it ends once, by  *)
(* itself or by the restart that finds it interrupted, and its outcome     *)
(* never changes afterwards; its record goes only when its tenant does.    *)
(* ReportRuns implements this specification.                               *)
(***************************************************************************)
EXTENDS Naturals

CONSTANT Calls  \* 1..n, in the order the calls are made

VARIABLE state  \* the recorded state of each call

States == {"none", "running", "ok", "failed", "deleted"}

LifeInit == state = [c \in Calls |-> "none"]

\* The calls are recorded in order
Record(c) ==
  /\ state[c] = "none"
  /\ \A b \in Calls : b < c => state[b] # "none"
  /\ \E st \in {"running", "failed"} : state' = [state EXCEPT ![c] = st]

Finish(c) ==
  /\ state[c] = "running"
  /\ \E st \in {"ok", "failed"} : state' = [state EXCEPT ![c] = st]

\* A restart ends every running call
Interrupt ==
  state' = [c \in Calls |-> IF state[c] = "running" THEN "failed" ELSE state[c]]

\* A tenant takes its records along
Forget(C) ==
  /\ \A c \in C : state[c] # "none"
  /\ state' = [c \in Calls |-> IF c \in C THEN "deleted" ELSE state[c]]

LifeNext ==
  \/ \E c \in Calls : Record(c) \/ Finish(c)
  \/ Interrupt
  \/ \E C \in SUBSET Calls : Forget(C)

LifeSpec == LifeInit /\ [][LifeNext]_state

\* A recorded call does not stay running for ever
Ends(c) == LifeNext /\ state[c] = "running" /\ state'[c] # "running"
FairLifeSpec == LifeSpec /\ \A c \in Calls : WF_state(Ends(c))
=============================================================================
