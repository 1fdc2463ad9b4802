---------------------------- MODULE SessionsProps ----------------------------
(***************************************************************************)
(* What signing in and out promises                                        *)
(***************************************************************************)
EXTENDS Sessions

\* A session that worked when it was signed out or ended, or when its user's
\* password was changed, its user disabled or all its user's sessions ended,
\* is never accepted again: not by a request that was under way, not when the
\* user is enabled again, not when the limit on inactivity is raised.  A
\* sign-in that commits after end_sessions has looked is not such a session
\* (end_sessions, current_session).
EndedForGood == \A s \in ended : ~Accepted(s)

\* A session is not ended for inactivity while its last use is younger than
\* the limit less TOUCH_EVERY, although only one use per TOUCH_EVERY is written
\* down (current_session).
UsedSessionStaysOpen ==
  \A s \in SessionIds :
    sessions[s] # None /\ clock + TouchEvery <= lastUse[s] + idle => ~IdleSince(s)

\* Within a window an account collects no more failed sign-ins than the limit
\* and the requests that were past the limiter when it was reached, and so
\* does a client (retry_after before, failed after the password check).
AttemptsAreLimited ==
  LET slack == Cardinality(Visits) - 1
  IN /\ \A u \in Members : Failures(u) <= PerAccount + slack
     /\ Failures(Client) <= PerClient + slack

\* The pages list as usable exactly what a request is accepted with, at every
\* boundary of lifetime and inactivity (active_sessions and current_session,
\* api_keys.status and api_keys.check).
ListsTellTheTruth ==
  /\ \A s \in SessionIds : Accepted(s) <=> \E u \in Members : s \in Active(u)
  /\ \A k \in KeyIds : keys[k] # None /\ members[keys[k].user] = "enabled" =>
       (KeyWorks(k) <=> Status(k) \in {"active", "expires soon"})
=============================================================================
