------------------------------ MODULE Sessions ------------------------------
(***************************************************************************)
(* Signing in and staying signed in (app/web/auth.py, app/web/security.py, *)
(* app/web/api_keys.py and their handlers in app/web/routes_ui.py):        *)
(* password and single sign-on sign-ins, the limit on failed ones, browser *)
(* sessions, API keys, and everything that ends them.  Requests run in     *)
(* threads of their own; a sign-in and the end of all sessions of a user   *)
(* read first and commit later, the other handlers are one transaction.    *)
(*                                                                         *)
(* The roles that decide who may do what are in Accounts: "by" below is    *)
(* somebody who may.  All requests come from one client address.           *)
(***************************************************************************)
EXTENDS Integers, Sequences, FiniteSets

CONSTANTS
  Members,        \* the accounts
  PasswordUsers,  \* who may use a password: all, or ADMIN_USERNAME alone
  SessionIds,     \* bound on the rows of user_sessions
  KeyIds,         \* bound on the rows of api_keys
  Visits,         \* requests that may be answered at the same time
  MaxVisits,      \* bound on the requests of a behaviour
  MaxClock,       \* bound on the clock
  MaxAge,         \* SESSION_MAX_AGE_SECONDS
  IdleLimits,     \* the values of session_idle_minutes, 0 for none
  TouchEvery,     \* TOUCH_EVERY
  KeyDays,        \* the lifetimes of an API key, None for none
  SoonDays,       \* "expires soon"
  PerAccount,     \* LoginLimiter.per_account
  PerClient,      \* LoginLimiter.per_client
  Window,         \* LoginLimiter.window
  Client,         \* the client address
  None

Times == 0..MaxClock
Session == [user : Members, seen : Times, expires : Nat, revoked : BOOLEAN]
Key == [user : Members, expires : Nat \union {None}, revoked : BOOLEAN]

ASSUME SessionConstants ==
  /\ PasswordUsers \subseteq Members
  /\ IsFiniteSet(Visits) /\ Visits # {}
  /\ {MaxVisits, MaxClock, MaxAge, SoonDays} \subseteq Nat
  /\ {PerAccount, PerClient, Window, TouchEvery} \subseteq Nat \ {0}
  /\ IdleLimits \subseteq Nat /\ IdleLimits # {}
  /\ KeyDays \subseteq Nat \union {None} /\ None \notin Nat
  /\ Client \notin Members /\ None \notin Session /\ None \notin Key /\ None \notin SessionIds

VARIABLES
  clock,
  members,   \* the table users
  sessions,  \* the table user_sessions: a row or None
  keys,      \* the table api_keys: a row or None
  idle,      \* the setting session_idle_minutes
  failures,  \* LoginLimiter._failures: the times of failed sign-ins, in memory
  request,   \* the local variables of each request
  requested, \* requests so far
  lastUse,   \* when a session was last accepted (history)
  ended      \* what was to end for good (history)

sessionVars == <<clock, members, sessions, keys, idle, failures, request, requested, lastUse, ended>>
tables == <<members, sessions, keys, idle>>
history == <<lastUse, ended>>

Endings == {"account_password", "user_password", "user_toggle", "end_others", "user_end"}

SessionRequest == [phase : {"free", "verifying", "signing", "ending"},
            op    : Endings \union {"login", "sso", "none"},
            user  : Members \union {None},       \* whose sessions it is about
            keep  : SessionIds \union {None},  \* the session that stays
            ids   : SUBSET SessionIds,         \* the sessions end_sessions selected
            cut   : SUBSET SessionIds]         \* those that worked then (history)

NoRequest == [phase |-> "free", op |-> "none", user |-> None, keep |-> None, ids |-> {}, cut |-> {}]

-----------------------------------------------------------------------------
(* What is accepted, and what the pages list *)

IdleSince(s) == idle # 0 /\ sessions[s].seen + idle <= clock

\* current_session
Accepted(s) ==
  IF sessions[s] = None THEN FALSE
  ELSE /\ ~sessions[s].revoked
       /\ sessions[s].expires > clock
       /\ ~IdleSince(s)

\* user_from_session
Works(s) == Accepted(s) /\ members[sessions[s].user] = "enabled"

\* Mutant: the list forgets the end of the lifetime
ActiveForever(u) == {s \in SessionIds : IF sessions[s] = None THEN FALSE
  ELSE sessions[s].user = u /\ ~sessions[s].revoked /\ (idle = 0 \/ sessions[s].seen + idle > clock)}

\* active_sessions
Active(u) ==
  {s \in SessionIds : IF sessions[s] = None THEN FALSE
     ELSE /\ sessions[s].user = u
          /\ ~sessions[s].revoked /\ sessions[s].expires > clock
          /\ idle = 0 \/ sessions[s].seen + idle > clock}

\* api_keys.check and principal_from_key
KeyWorks(k) ==
  IF keys[k] = None THEN FALSE
  ELSE /\ ~keys[k].revoked
       /\ keys[k].expires = None \/ keys[k].expires > clock
       /\ members[keys[k].user] = "enabled"

\* api_keys.status
Status(k) ==
  IF keys[k].revoked THEN "revoked"
  ELSE IF keys[k].expires = None THEN "active"
  ELSE IF keys[k].expires <= clock THEN "expired"
  ELSE IF keys[k].expires <= clock + SoonDays THEN "expires soon"
  ELSE "active"

-----------------------------------------------------------------------------
(* The limit on failed sign-ins *)

\* _recent
Failures(key) == Cardinality({i \in DOMAIN failures[key] : clock - failures[key][i] < Window})

\* Mutant: one more than the limit
MayTryLate(u) == Failures(u) <= PerAccount /\ Failures(Client) < PerClient

\* retry_after gives 0
MayTry(u) == Failures(u) < PerAccount /\ Failures(Client) < PerClient

NoFailures == <<>>

\* failed counts for the account from this client and for the client; succeeded
\* clears the account alone
FailedSignIn(u) == [failures EXCEPT ![u] = Append(@, clock), ![Client] = Append(@, clock)]
Succeeded(u) == [failures EXCEPT ![u] = NoFailures]

-----------------------------------------------------------------------------
(* Signing in *)

SessionInit ==
  /\ clock = 0
  /\ members = [u \in Members |-> "enabled"]
  /\ sessions \in [SessionIds -> {None} \union
       {[user |-> u, seen |-> 0, expires |-> MaxAge, revoked |-> FALSE] : u \in Members}]
  /\ keys = [k \in KeyIds |-> None]
  /\ idle \in IdleLimits
  /\ failures = [key \in Members \union {Client} |-> NoFailures]
  /\ request = [r \in Visits |-> NoRequest]
  /\ requested = 0
  /\ lastUse = [s \in SessionIds |-> 0]
  /\ ended = {}

Start == requested < MaxVisits /\ requested' = requested + 1

\* login up to the limiter's word; a request it refuses changes nothing
Login(r, u) ==
  /\ Start /\ request[r].phase = "free"
  /\ u \in PasswordUsers /\ MayTry(u)
  /\ request' = [request EXCEPT ![r] = [NoRequest EXCEPT !.phase = "verifying", !.op = "login", !.user = u]]
  /\ UNCHANGED <<clock, tables, failures, history>>

\* authenticate, which takes its time over the password, then failed or succeeded
Authenticate(r) ==
  LET u == request[r].user IN
    /\ request[r].phase = "verifying"
    /\ \E right \in BOOLEAN :
         IF right /\ members[u] = "enabled"
         THEN /\ request' = [request EXCEPT ![r].phase = "signing"]
              /\ failures' = Succeeded(u)
         ELSE /\ request' = [request EXCEPT ![r] = NoRequest]
              /\ failures' = FailedSignIn(u)
    /\ UNCHANGED <<clock, tables, requested, history>>

\* sso_callback up to the account
SsoSignIn(r, u) ==
  /\ Start /\ request[r].phase = "free" /\ members[u] = "enabled"
  /\ request' = [request EXCEPT ![r] = [NoRequest EXCEPT !.phase = "signing", !.op = "sso", !.user = u]]
  /\ UNCHANGED <<clock, tables, failures, history>>

\* A row of a user who is gone is refused by the foreign key
Orphaned(u) == members[u] = "gone"

NewSession(u) == [user |-> u, seen |-> clock, expires |-> clock + MaxAge, revoked |-> FALSE]
FreeIds == {s \in SessionIds : sessions[s] = None}

\* create_session and the commit; a sign-in without a free row is beyond the bound
CommitSession(r) ==
  LET u == request[r].user IN
    /\ request[r].phase = "signing"
    /\ request' = [request EXCEPT ![r] = NoRequest]
    /\ IF Orphaned(u) \/ FreeIds = {} THEN UNCHANGED <<sessions, lastUse>>
       ELSE \E s \in FreeIds :
              /\ sessions' = [sessions EXCEPT ![s] = NewSession(u)]
              /\ lastUse' = [lastUse EXCEPT ![s] = clock]
    /\ UNCHANGED <<clock, members, keys, idle, failures, requested, ended>>

-----------------------------------------------------------------------------
(* Visits with a session *)

\* Mutant: every request but the first leaves the time alone
TouchedNever(s) == sessions

\* current_session writes last_seen_at at most once per TOUCH_EVERY
Touched(s) ==
  IF clock - sessions[s].seen >= TouchEvery THEN [sessions EXCEPT ![s].seen = clock] ELSE sessions

Revoked(table, ids) ==
  [s \in SessionIds |-> IF s \in ids /\ table[s] # None THEN [table[s] EXCEPT !.revoked = TRUE]
                        ELSE table[s]]

\* A request that reads: an inactive session is ended by it
Visit(s) ==
  /\ Start /\ sessions[s] # None
  /\ ~sessions[s].revoked /\ sessions[s].expires > clock
  /\ IF IdleSince(s)
     THEN sessions' = Revoked(sessions, {s}) /\ UNCHANGED lastUse
     ELSE sessions' = Touched(s) /\ lastUse' = [lastUse EXCEPT ![s] = clock]
  /\ UNCHANGED <<clock, members, keys, idle, failures, request, ended>>

\* The session of a request that changes something
By(s) == Start /\ Works(s) /\ lastUse' = [lastUse EXCEPT ![s] = clock]

\* logout asks only for the session, not for its user
Logout(s) ==
  /\ Start /\ Accepted(s)
  /\ sessions' = Revoked(Touched(s), {s})
  /\ ended' = ended \union {s}
  /\ UNCHANGED <<clock, members, keys, idle, failures, request, lastUse>>

\* account_session_end, session_end
SessionEnd(s, o) ==
  /\ By(s) /\ sessions[o] # None
  /\ sessions' = Revoked(Touched(s), {o})
  /\ ended' = ended \union {o}
  /\ UNCHANGED <<clock, members, keys, idle, failures, request>>

\* Mutant: the session that changes the password stays
KeptOwn(op, s, u) == IF u = sessions[s].user THEN s ELSE None

Kept(op, s, u) ==
  IF op \in {"end_others", "user_end"} /\ u = sessions[s].user THEN s ELSE None

\* account_password, user_password, user_toggle, account_sessions_end_others
\* and user_sessions_end as far as end_sessions has selected the sessions
StartEnding(r, s, op, u) ==
  /\ By(s) /\ request[r].phase = "free" /\ members[u] # "gone"
  /\ op \in {"account_password", "end_others"} => u = sessions[s].user
  /\ op = "user_toggle" => u # sessions[s].user /\ members[u] = "enabled"
  /\ request' = [request EXCEPT ![r] =
       [phase |-> "ending", op |-> op, user |-> u, keep |-> Kept(op, s, u),
        ids |-> Active(u) \ {Kept(op, s, u)},
        cut |-> {o \in SessionIds \ {IF op \in {"end_others", "user_end"} THEN s ELSE None} :
                  Accepted(o) /\ sessions[o].user = u}]]
  /\ sessions' = Touched(s)
  /\ UNCHANGED <<clock, members, keys, idle, failures, ended>>

\* A user who is gone by now has taken the sessions along; a commit that would
\* change the user fails
CommitEnding(r) ==
  LET u == request[r].user
      op == request[r].op
      gone == members[u] = "gone"
      fails == gone /\ op \notin {"end_others", "user_end"}
  IN /\ request[r].phase = "ending"
     /\ request' = [request EXCEPT ![r] = NoRequest]
     /\ members' = IF op = "user_toggle" /\ ~gone THEN [members EXCEPT ![u] = "disabled"] ELSE members
     /\ ended' = IF gone THEN ended ELSE ended \union request[r].cut
     /\ IF fails THEN UNCHANGED <<sessions, lastUse>>
        ELSE IF op = "account_password" /\ FreeIds # {}
        THEN \E s \in FreeIds :   \* this browser continues in a fresh session
               /\ sessions' = [Revoked(sessions, request[r].ids) EXCEPT ![s] = NewSession(u)]
               /\ lastUse' = [lastUse EXCEPT ![s] = clock]
        ELSE sessions' = Revoked(sessions, request[r].ids) /\ UNCHANGED lastUse
     /\ UNCHANGED <<clock, keys, idle, failures, requested>>

\* user_toggle of a disabled user
Enable(s, u) ==
  /\ By(s) /\ members[u] = "disabled"
  /\ members' = [members EXCEPT ![u] = "enabled"]
  /\ sessions' = Touched(s)
  /\ UNCHANGED <<clock, keys, idle, failures, request, ended>>

\* user_delete: sessions and keys go with their user
MemberDelete(s, u) ==
  /\ By(s) /\ members[u] # "gone" /\ u # sessions[s].user
  /\ members' = [members EXCEPT ![u] = "gone"]
  /\ sessions' = [o \in SessionIds |-> IF Touched(s)[o] = None THEN None
                                       ELSE IF sessions[o].user = u THEN None ELSE Touched(s)[o]]
  /\ keys' = [k \in KeyIds |-> IF keys[k] = None THEN None
                                ELSE IF keys[k].user = u THEN None ELSE keys[k]]
  /\ ended' = {o \in ended : sessions'[o] # None}
  /\ UNCHANGED <<clock, idle, failures, request>>

\* settings_save
SettingsSave(s, limit) ==
  /\ By(s) /\ limit \in IdleLimits
  /\ idle' = limit
  /\ sessions' = Touched(s)
  /\ UNCHANGED <<clock, members, keys, failures, request, ended>>

\* api_keys.create and revoke
NewKey(u, days) ==
  [user |-> u, revoked |-> FALSE, expires |-> IF days = None THEN None ELSE clock + days]
WithoutKey(k) == [keys EXCEPT ![k].revoked = TRUE]

\* account_api_key_create, user_api_key_create
KeyCreate(s, k, u, days) ==
  /\ By(s) /\ keys[k] = None /\ ~Orphaned(u)
  /\ keys' = [keys EXCEPT ![k] = NewKey(u, days)]
  /\ sessions' = Touched(s)
  /\ UNCHANGED <<clock, members, idle, failures, request, ended>>

\* account_api_key_revoke, api_key_revoke
KeyRevoke(s, k) ==
  /\ By(s) /\ keys[k] # None
  /\ keys' = WithoutKey(k)
  /\ sessions' = Touched(s)
  /\ UNCHANGED <<clock, members, idle, failures, request, ended>>

-----------------------------------------------------------------------------
(* The console, time and restarts *)

\* python -m app.manage reset-password
ResetPassword(u) ==
  /\ Start /\ members[u] # "gone"
  /\ members' = [members EXCEPT ![u] = "enabled"]
  /\ UNCHANGED <<clock, sessions, keys, idle, failures, request, history>>

Tick ==
  /\ clock < MaxClock
  /\ clock' = clock + 1
  /\ UNCHANGED <<tables, failures, request, requested, history>>

\* Visits under way and the limiter's memory are lost
ServerRestart ==
  /\ Start
  /\ request' = [r \in Visits |-> NoRequest]
  /\ failures' = [key \in DOMAIN failures |-> NoFailures]
  /\ UNCHANGED <<clock, tables, history>>

SessionNext ==
  \/ \E r \in Visits : Authenticate(r) \/ CommitSession(r) \/ CommitEnding(r)
  \/ \E r \in Visits, u \in Members : Login(r, u) \/ SsoSignIn(r, u)
  \/ \E r \in Visits, s \in SessionIds, op \in Endings, u \in Members : StartEnding(r, s, op, u)
  \/ \E s \in SessionIds : Visit(s) \/ Logout(s) \/ \E o \in SessionIds : SessionEnd(s, o)
  \/ \E s \in SessionIds, u \in Members : Enable(s, u) \/ MemberDelete(s, u)
  \/ \E s \in SessionIds, limit \in IdleLimits : SettingsSave(s, limit)
  \/ \E s \in SessionIds, k \in KeyIds :
       KeyRevoke(s, k) \/ \E u \in Members, days \in KeyDays : KeyCreate(s, k, u, days)
  \/ \E u \in Members : ResetPassword(u)
  \/ Tick
  \/ ServerRestart

SessionSpec == SessionInit /\ [][SessionNext]_sessionVars
=============================================================================
