----------------------------- MODULE StallAlerts -----------------------------
(***************************************************************************)
(* The alerts about stalled collection: the health of a tenant's streams   *)
(* (app/quality.py) and the hourly job that reports the stalled ones       *)
(* (check_collection in app/alerts.py), beside the collectors.             *)
(*                                                                         *)
(* Time passes in steps of several hours; every age is capped where it     *)
(* stops to matter.                                                        *)
(***************************************************************************)
EXTENDS Integers, FiniteSets

CONSTANTS
  Streams,       \* streams of the tenant, with the age at which each is stalled:
  StalledAfter,  \* fail_after of STALE
  RepeatAfter,   \* REPEAT_AFTER
  MaxStalls      \* bound on failed deliveries and stops

ASSUME StallConstants ==
  /\ StalledAfter \in [Streams -> Nat \ {0}]
  /\ RepeatAfter \in Nat \ {0} /\ MaxStalls \in Nat

VARIABLES
  enabled,   \* the tenant is enabled
  age,       \* age[s]: time since the last success of a stream, or -1 for never
  failed,    \* collector_errors
  channels,  \* where alerts go: "mail" (recipients and SMTP), "chat"
  state,     \* AlertState: time since last_sent_at, or -1
  check,     \* check_collection: its phase, and the streams it reports
  told,      \* time since an alert that named the stream was delivered, or -1 (history)
  twice,     \* a stream was named twice within RepeatAfter (history)
  refused,   \* the last alert reached nobody (history)
  stalls

StallVars == <<enabled, age, failed, channels, state, check, told, twice, refused, stalls>>

Older(a, cap) == IF a = -1 \/ a = cap THEN a ELSE a + 1

StallInit ==
  /\ enabled = TRUE
  /\ age \in [Streams -> {-1, 0}] /\ failed = {}
  /\ channels \in SUBSET {"mail", "chat"}
  /\ state = [s \in Streams |-> -1]
  /\ check = [phase |-> "due", due |-> {}, open |-> {}]
  /\ told = [s \in Streams |-> -1] /\ twice = FALSE /\ refused = FALSE
  /\ stalls = 0

\* _timed: never collected is stalled only with an error
Critical(s) == IF age[s] = -1 THEN s \in failed ELSE age[s] > StalledAfter[s]

\* tenant_health: the streams of a disabled tenant are off
Stalled == IF enabled THEN {s \in Streams : Critical(s)} ELSE {}

Forget(s) == IF s \in Stalled THEN state[s] ELSE -1

\* check_collection returns at once without recipients and SMTP
Watched == "mail" \in channels

Due == {s \in Stalled : state[s] = -1 \/ state[s] >= RepeatAfter}

\* The first transaction: what is due, and the states of what has cleared are deleted
CheckRead ==
  /\ check.phase = "due"
  /\ IF Watched
     THEN /\ state' = [s \in Streams |-> Forget(s)]
          /\ check' = [phase |-> IF Due = {} THEN "done" ELSE "send", due |-> Due, open |-> Stalled]
          /\ told' = [s \in Streams |-> IF s \in Stalled THEN told[s] ELSE -1]
     ELSE /\ check' = [check EXCEPT !.phase = "done", !.open = Stalled]
          /\ UNCHANGED <<state, told>>
  /\ refused' = FALSE
  /\ UNCHANGED <<enabled, age, failed, channels, twice, stalls>>

\* _send: delivered when one channel took it; only then is it written down
CheckSend == \E taken \in SUBSET channels :
  /\ check.phase = "send"
  /\ stalls' = stalls + (IF taken = {} THEN 1 ELSE 0) /\ stalls' <= MaxStalls
  /\ refused' = (taken = {})
  /\ IF taken = {} THEN UNCHANGED <<told, twice>>
     ELSE /\ told' = [s \in Streams |-> IF s \in check.due THEN 0 ELSE told[s]]
          /\ twice' = (twice \/ \E s \in check.due : told[s] \in 0..RepeatAfter - 1)
  /\ check' = [check EXCEPT !.phase = IF taken = {} THEN "done" ELSE "save"]
  /\ UNCHANGED <<enabled, age, failed, channels, state>>

CheckSave ==
  /\ check.phase = "save"
  /\ state' = [s \in Streams |-> IF s \in check.due THEN 0 ELSE state[s]]
  /\ check' = [check EXCEPT !.phase = "done"]
  /\ UNCHANGED <<enabled, age, failed, channels, told, twice, refused, stalls>>

\* The collectors, at any time; a tenant is disabled and enabled again
Collected(s) ==
  /\ enabled
  /\ age' = [age EXCEPT ![s] = 0] /\ failed' = failed \ {s}
  /\ UNCHANGED <<enabled, channels, state, check, told, twice, refused, stalls>>

CollectFailed(s) ==
  /\ enabled
  /\ failed' = failed \union {s}
  /\ UNCHANGED <<enabled, age, channels, state, check, told, twice, refused, stalls>>

TenantToggle ==
  /\ enabled' = ~enabled
  /\ UNCHANGED <<age, failed, channels, state, check, told, twice, refused, stalls>>

\* A stop in the middle of a check: what was sent may be sent again
StallStop ==
  /\ check.phase \in {"send", "save"} /\ stalls < MaxStalls /\ stalls' = stalls + 1
  /\ check' = [phase |-> "done", due |-> {}, open |-> {}]
  /\ told' = [s \in Streams |-> IF s \in check.due THEN -1 ELSE told[s]]
  /\ UNCHANGED <<enabled, age, failed, channels, state, twice, refused>>

StallTick ==
  /\ check.phase = "done"
  /\ age' = [s \in Streams |-> Older(age[s], StalledAfter[s] + 1)]
  /\ state' = [s \in Streams |-> Older(state[s], RepeatAfter)]
  /\ told' = [s \in Streams |-> Older(told[s], RepeatAfter)]
  /\ check' = [phase |-> "due", due |-> {}, open |-> {}]
  /\ UNCHANGED <<enabled, failed, channels, twice, refused, stalls>>

StallNext ==
  \/ CheckRead \/ CheckSend \/ CheckSave
  \/ \E s \in Streams : Collected(s) \/ CollectFailed(s)
  \/ TenantToggle \/ StallStop \/ StallTick

-----------------------------------------------------------------------------

\* alerts.py:112-115: a stream that is stalled has been reported within the last
\* day, at once when it stalled again, and none is reported twice a day, whatever
\* recovers or fails while an alert is on its way.  An alert that nobody took is
\* tried again by the next check, and one before a stop may be repeated.
ToldOnceADay ==
  /\ ~twice
  /\ check.phase = "done" /\ Watched /\ ~refused =>
       \A s \in check.open : told[s] \in 0..RepeatAfter - 1

=============================================================================
