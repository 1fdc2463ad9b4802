---------------------------- MODULE KeyReminders ----------------------------
(***************************************************************************)
(* The daily reminders of API keys that expire soon (check_api_keys in     *)
(* app/alerts.py), beside keys that are revoked: the other of the two      *)
(* checks that tell of something only once.  The daily job runs at one     *)
(* time of the day; a day is divided into Parts, in which keys expire.     *)
(***************************************************************************)
EXTENDS StallAlerts, Sequences

CONSTANTS
  Keys,
  Parts,        \* parts of a day
  WarningDays,  \* API_KEY_WARNING in days
  MaxLosses     \* bound on days on which nobody can be told

ASSUME KeyConstants ==
  /\ Parts \in Nat \ {0} /\ WarningDays \in Nat \ {0} /\ MaxLosses \in Nat

VARIABLES
  left,       \* left[k]: the parts of a day until the key expires, -1 when it is revoked
  checked,    \* the job has run today, if this is its time
  part,       \* the part of the day
  stage,      \* AlertState.detail of each key, or "none"
  reminded,   \* reminded[k]: the reminders delivered, in order (history)
  skipped,    \* keys one of whose reminders nobody took (history)
  losses

KeyVars == <<left, checked, part, stage, reminded, skipped, losses>>

Soon == WarningDays * Parts

KeyInit ==
  /\ left \in [Keys -> {1, Parts + 1, Soon, Soon + 2}]
  /\ checked = FALSE /\ part = 0
  /\ stage = [k \in Keys |-> "none"]
  /\ reminded = [k \in Keys |-> <<>>] /\ skipped = {}
  /\ losses = 0

Expiring == {k \in Keys : left[k] > 0 /\ left[k] <= Soon}

\* Mutant: the last day begins when it is nearly over
LateStageOf(k) == IF left[k] < Parts THEN "last_day" ELSE "week"

StageOf(k) == IF left[k] <= Parts THEN "last_day" ELSE "week"

Announced == {k \in Expiring : stage[k] # StageOf(k)}

Kept == [k \in Keys |-> IF k \in Expiring THEN stage[k] ELSE "none"]

\* The job: to the alert recipients and the owners, at once; written down when
\* anybody was told
CheckKeys ==
  /\ part = 0 /\ ~checked
  /\ checked' = TRUE
  /\ \/ /\ stage' = [k \in Keys |-> IF k \in Announced THEN StageOf(k) ELSE Kept[k]]
        /\ reminded' = [k \in Keys |-> IF k \in Announced THEN Append(reminded[k], StageOf(k))
                                       ELSE reminded[k]]
        /\ UNCHANGED <<losses, skipped>>
     \/ /\ Announced # {} /\ losses < MaxLosses /\ losses' = losses + 1
        /\ stage' = Kept
        /\ skipped' = skipped \union {k \in Announced : StageOf(k) = "last_day"}
        /\ UNCHANGED reminded
  /\ UNCHANGED <<left, part>>

Revoke(k) ==
  /\ left[k] > 0
  /\ left' = [left EXCEPT ![k] = -1]
  /\ UNCHANGED <<checked, part, stage, reminded, skipped, losses>>

KeyTick ==
  /\ part = 0 => checked
  /\ \E k \in Keys : left[k] > 0
  /\ left' = [k \in Keys |-> IF left[k] > 0 THEN left[k] - 1 ELSE left[k]]
  /\ part' = (part + 1) % Parts /\ checked' = FALSE
  /\ UNCHANGED <<stage, reminded, skipped, losses>>

KeyNext == CheckKeys \/ KeyTick \/ \E k \in Keys : Revoke(k)

-----------------------------------------------------------------------------

\* alerts.py:149: once when the key enters the week and once on its last day, in
\* that order and never again; before it expires somebody has been told, and on
\* its last day.  A reminder nobody took is tried again the next day, and only
\* the one of the last day has no next day.
KeysAreAnnounced ==
  \A k \in Keys :
    /\ reminded[k] \in {<<>>, <<"week">>, <<"last_day">>, <<"week", "last_day">>}
    /\ left[k] = 0 /\ k \notin skipped =>
         reminded[k] \in {<<"last_day">>, <<"week", "last_day">>}

\* alerts.py:15: whatever it is about, an alert is told in time and once
AlertsAreTold == ToldOnceADay /\ KeysAreAnnounced
=============================================================================
