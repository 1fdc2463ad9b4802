------------------------------ MODULE Accounts ------------------------------
(***************************************************************************)
(* User accounts: who exists, with which role and which access to a        *)
(* tenant (app/web/routes_ui.py, app/web/authz.py, app/sso.py,             *)
(* app/manage.py).  Requests run in threads of their own: each reads its   *)
(* principal, then reads what it is about and decides, then commits, and   *)
(* every read sees the latest commits of the others.                       *)
(*                                                                         *)
(* A user name stands for its account, one tenant for all of them.  A row  *)
(* made again takes the id of the deleted one, as SQLite gives it.         *)
(* Sessions, passwords and API keys are modelled in Sessions.              *)
(***************************************************************************)
EXTENDS Integers, FiniteSets

CONSTANTS
  Users,        \* the user names
  Bootstrap,    \* ADMIN_USERNAME
  Identities,   \* people at the identity provider ("<issuer> <sub>")
  EmailOf,      \* EmailOf[i]: the e-mail address the provider gives for i
  Requests,     \* requests that may be answered at the same time
  MaxRequests,  \* bound on the requests of a behaviour
  StartRows,    \* bound on the accounts that other work left behind
  StartGrants,  \* bound on the access it gave them
  Null

ASSUME AccountConstants ==
  /\ Bootstrap \in Users
  /\ MaxRequests \in Nat
  /\ DOMAIN EmailOf = Identities

GlobalRoles == {"admin", "tenant_admin", "user"}
TenantRoles == {"viewer", "operator", "manager"}
Emails == {EmailOf[i] : i \in Identities}

Account == [role : GlobalRoles, enabled : BOOLEAN, sso : Identities \union {Null},
            email : Emails \union {Null}]

ASSUME StartConstants ==
  /\ Null \notin Identities \union Emails \union GlobalRoles \union TenantRoles \union Account
  /\ StartRows \subseteq {row \in Account : row.sso = Null} \union {Null}
  /\ StartGrants \subseteq TenantRoles \union {Null}

Handlers == {"user_create", "user_role", "user_toggle", "user_delete", "tenant_grant",
             "tenant_revoke", "sso_callback"}

VARIABLES
  users,    \* the table users: a row or Null
  grants,   \* tenant_grants of the tenant: a role or Null
  sso,      \* the settings of single sign-on
  req,      \* the local variables of each request
  started,  \* requests so far
  overtaken,\* requests that decided before an administrator was taken away (history)
  raced     \* one of those took an administrator away too (history)

vars == <<users, grants, sso, req, started, overtaken, raced>>

Row == Account \union {Null}

Request == [phase  : {"free", "admitted", "decided"},
            by     : Users \union Identities \union {Null},   \* p.user, or who signs in
            rank   : 0..5,          \* what the principal may do, as it was read
            op     : Handlers \union {"none"},
            target : Users \union {Null},
            value  : GlobalRoles \union TenantRoles \union {Null},
            old    : Row,           \* the object as it was read
            new    : Row,           \* and as the handler leaves it; Null deletes
            had    : TenantRoles \union {Null}]   \* the grant as it was read

Free == [phase |-> "free", by |-> Null, rank |-> 0, op |-> "none", target |-> Null,
         value |-> Null, old |-> Null, new |-> Null, had |-> Null]

-----------------------------------------------------------------------------
(* Principals *)

Level(role) == CASE role = "manager" -> 3 [] role = "operator" -> 2 [] role = "viewer" -> 1
                 [] OTHER -> 0

\* admin > tenant_admin > manager > operator > viewer; the first two are
\* managers of every tenant
Rank(u) ==
  IF users[u] = Null THEN 0
  ELSE IF ~users[u].enabled THEN 0
  ELSE CASE users[u].role = "admin" -> 5
         [] users[u].role = "tenant_admin" -> 4
         [] OTHER -> Level(grants[u])

\* Mutant: an operator may give access
RequiredLoose(op) == IF op \in {"tenant_grant", "tenant_revoke"} THEN 2 ELSE 5

Required(op) == IF op \in {"tenant_grant", "tenant_revoke"} THEN Level("manager") ELSE 5

EnabledAdmins == {u \in Users : Rank(u) = 5}

\* Mutant: the account itself is counted
OtherAdminsAll(u) == EnabledAdmins

\* _admin_count(db, exclude_id)
OtherAdmins(u) == EnabledAdmins \ {u}

NewAccount(role, email, identity) ==
  [role |-> role, enabled |-> TRUE, sso |-> identity, email |-> email]

-----------------------------------------------------------------------------
\* bootstrap_admin made the first account; later work gave the others theirs
Init ==
  /\ users \in {f \in [Users -> Row] :
       /\ f[Bootstrap] = NewAccount("admin", Null, Null)
       /\ \A u \in Users \ {Bootstrap} : f[u] \in StartRows}
  /\ grants \in {g \in [Users -> StartGrants] :
       \A u \in Users : users[u] = Null => g[u] = Null}
  /\ sso \in [create : BOOLEAN, groups : BOOLEAN]
  /\ req = [r \in Requests |-> Free]
  /\ started = 0
  /\ overtaken = {} /\ raced = FALSE

\* get_principal and the dependency or check that refuses the rest
Admit(r, p, op, u, value) ==
  /\ req[r].phase = "free" /\ started < MaxRequests
  /\ Rank(p) >= Required(op)
  /\ req' = [req EXCEPT ![r] = [Free EXCEPT !.phase = "admitted", !.by = p, !.rank = Rank(p),
                                 !.op = op, !.target = u, !.value = value]]
  /\ started' = started + 1
  /\ UNCHANGED <<users, grants, sso, overtaken, raced>>

Refuse(r) == req' = [req EXCEPT ![r] = Free] /\ UNCHANGED <<overtaken, raced>>

Decide(r, u, old, new) ==
  /\ req' = [req EXCEPT ![r].phase = "decided", ![r].target = u, ![r].old = old, ![r].new = new]
  /\ UNCHANGED <<overtaken, raced>>

UserCreate(r) ==
  LET u == req[r].target IN
    /\ req[r].phase = "admitted" /\ req[r].op = "user_create"
    /\ IF users[u] # Null THEN Refuse(r)
       ELSE Decide(r, u, Null, NewAccount(req[r].value, Null, Null))
    /\ UNCHANGED <<users, grants, sso, started>>

UserRole(r) ==
  LET u == req[r].target
      role == req[r].value
  IN /\ req[r].phase = "admitted" /\ req[r].op = "user_role"
     /\ IF \/ users[u] = Null
           \/ u = req[r].by /\ role # users[u].role
           \/ users[u].role = "admin" /\ role # "admin" /\ OtherAdmins(u) = {}
        THEN Refuse(r)
        ELSE Decide(r, u, users[u], [users[u] EXCEPT !.role = role])
     /\ UNCHANGED <<users, grants, sso, started>>

\* the administrator's own account, or the last enabled one
Protected(r, u) ==
  \/ u = req[r].by
  \/ users[u].enabled /\ users[u].role = "admin" /\ OtherAdmins(u) = {}

UserToggle(r) ==
  LET u == req[r].target IN
    /\ req[r].phase = "admitted" /\ req[r].op = "user_toggle"
    /\ IF users[u] = Null THEN Refuse(r)
       ELSE IF Protected(r, u) THEN Refuse(r)
       ELSE Decide(r, u, users[u], [users[u] EXCEPT !.enabled = ~@])
    /\ UNCHANGED <<users, grants, sso, started>>

UserDelete(r) ==
  LET u == req[r].target IN
    /\ req[r].phase = "admitted" /\ req[r].op = "user_delete"
    /\ IF users[u] = Null THEN Refuse(r)
       ELSE IF Protected(r, u) THEN Refuse(r)
       ELSE Decide(r, u, users[u], Null)
    /\ UNCHANGED <<users, grants, sso, started>>

TenantGrant(r) ==
  LET u == req[r].target IN
    /\ req[r].phase = "admitted" /\ req[r].op = "tenant_grant"
    /\ IF users[u] = Null THEN Refuse(r)
       ELSE /\ req' = [req EXCEPT ![r].phase = "decided", ![r].had = grants[u]]
            /\ UNCHANGED <<overtaken, raced>>
    /\ UNCHANGED <<users, grants, sso, started>>

\* One DELETE, whatever is there
TenantRevoke(r) ==
  /\ req[r].phase = "admitted" /\ req[r].op = "tenant_revoke"
  /\ grants' = [grants EXCEPT ![req[r].target] = Null]
  /\ Refuse(r)
  /\ UNCHANGED <<users, sso, started>>

-----------------------------------------------------------------------------
(* Single sign-on: account_for *)

Arrive(r, i) ==
  /\ req[r].phase = "free" /\ started < MaxRequests
  /\ req' = [req EXCEPT ![r] = [Free EXCEPT !.phase = "admitted", !.by = i, !.op = "sso_callback"]]
  /\ started' = started + 1
  /\ UNCHANGED <<users, grants, sso, overtaken, raced>>

Existing == {u \in Users : users[u] # Null}
Known(i) == {u \in Existing : users[u].sso = i}

Linkable(i) == {u \in Existing : users[u].email = EmailOf[i] /\ users[u].sso = Null}

\* role_from_groups gave role; the last enabled administrator keeps the role
RoleFor(u, row, role) ==
  IF ~sso.groups \/ (row.role = "admin" /\ OtherAdmins(u) = {}) THEN row.role ELSE role

SignIn(r, u, old, row, role) ==
  IF ~row.enabled THEN Refuse(r)
  ELSE LET new == [row EXCEPT !.role = RoleFor(u, row, role), !.email = EmailOf[req[r].by]]
       IN Decide(r, u, old, new)

SsoCallback(r) ==
  LET i == req[r].by
      created == NewAccount("user", EmailOf[i], i)
  IN /\ req[r].phase = "admitted" /\ req[r].op = "sso_callback"
     /\ \E role \in GlobalRoles :
          IF Known(i) # {}
          THEN \E u \in Known(i) : SignIn(r, u, users[u], users[u], role)
          ELSE IF Linkable(i) # {}
          THEN \E u \in Linkable(i) : SignIn(r, u, users[u], [users[u] EXCEPT !.sso = i], role)
          ELSE IF sso.create /\ Existing # Users
          THEN \E u \in Users \ Existing : SignIn(r, u, Null, created, role)
          ELSE Refuse(r)
     /\ UNCHANGED <<users, grants, sso, started>>

-----------------------------------------------------------------------------
(* Commits: only the columns a handler changed are written *)

Written(row, old, new) == [c \in DOMAIN row |-> IF new[c] = old[c] THEN row[c] ELSE new[c]]

Taken(u, row) == row.sso # Null /\ \E o \in Existing \ {u} : users[o].sso = row.sso

\* A commit after which somebody is not an enabled administrator any more
TakesAway == \E u \in EnabledAdmins : Rank(u)' # 5

\* An INSERT of a name or an identity that is there by now, and an UPDATE of a
\* row that is gone, fail; deleting a row takes its grants along
CommitUser(r) ==
  LET u == req[r].target
      old == req[r].old
      new == req[r].new
      row == IF old = Null \/ new = Null \/ users[u] = Null THEN new
             ELSE Written(users[u], old, new)
      fails == IF new = Null THEN users[u] = Null
               ELSE (old = Null) # (users[u] = Null) \/ Taken(u, row)
  IN /\ req[r].phase = "decided" /\ req[r].op # "tenant_grant"
     /\ req' = [req EXCEPT ![r] = Free]
     /\ users' = IF fails THEN users ELSE [users EXCEPT ![u] = row]
     /\ grants' = IF ~fails /\ new = Null THEN [grants EXCEPT ![u] = Null] ELSE grants
     /\ IF TakesAway
        THEN /\ overtaken' = {o \in Requests \ {r} : req[o].phase = "decided"}
             /\ raced' = (raced \/ r \in overtaken)
        ELSE overtaken' = overtaken \ {r} /\ UNCHANGED raced
     /\ UNCHANGED <<sso, started>>

CommitGrant(r) ==
  LET u == req[r].target
      fails == IF req[r].had = Null THEN grants[u] # Null \/ users[u] = Null ELSE grants[u] = Null
  IN /\ req[r].phase = "decided" /\ req[r].op = "tenant_grant"
     /\ grants' = IF fails \/ req[r].value = req[r].had THEN grants
                  ELSE [grants EXCEPT ![u] = req[r].value]
     /\ req' = [req EXCEPT ![r] = Free] /\ overtaken' = overtaken \ {r}
     /\ UNCHANGED <<users, sso, started, raced>>

-----------------------------------------------------------------------------
(* The console, and a restart *)

\* python -m app.manage create-user
ManageCreate(u, role) ==
  /\ started < MaxRequests /\ users[u] = Null
  /\ users' = [users EXCEPT ![u] = NewAccount(role, Null, Null)]
  /\ started' = started + 1
  /\ UNCHANGED <<grants, sso, req, overtaken, raced>>

\* python -m app.manage reset-password
ManageReset(u) ==
  /\ started < MaxRequests /\ users[u] # Null
  /\ users' = [users EXCEPT ![u].enabled = TRUE]
  /\ started' = started + 1
  /\ UNCHANGED <<grants, sso, req, overtaken, raced>>

\* The requests under way are lost; bootstrap_admin at the start
Restart ==
  /\ started < MaxRequests
  /\ req' = [r \in Requests |-> Free]
  /\ users' = IF Existing # {} THEN users
              ELSE [users EXCEPT ![Bootstrap] = NewAccount("admin", Null, Null)]
  /\ started' = started + 1 /\ overtaken' = {}
  /\ UNCHANGED <<grants, sso, raced>>

Console == Restart \/ \E u \in Users : ManageReset(u) \/ \E role \in GlobalRoles : ManageCreate(u, role)

Handle(r) ==
  \/ UserCreate(r) \/ UserRole(r) \/ UserToggle(r) \/ UserDelete(r)
  \/ TenantGrant(r) \/ TenantRevoke(r) \/ SsoCallback(r)
  \/ CommitUser(r) \/ CommitGrant(r)

Values(op) == CASE op \in {"user_create", "user_role"} -> GlobalRoles
                [] op = "tenant_grant" -> TenantRoles
                [] OTHER -> {Null}

Next ==
  \/ \E r \in Requests : Handle(r)
  \/ \E r \in Requests, p, u \in Users, op \in Handlers \ {"sso_callback"} :
       \E value \in Values(op) : Admit(r, p, op, u, value)
  \/ \E r \in Requests, i \in Identities : Arrive(r, i)
  \/ Console

Spec == Init /\ [][Next]_vars

-----------------------------------------------------------------------------
(* Properties                                                               *)

\* An enabled administrator is left after everything the Users page, the
\* console and the groups of the identity provider do - unless a request took
\* one away that had counted before another request took one away
\* (user_role, user_toggle, user_delete, account_for).
AdminRemains == raced \/ EnabledAdmins # {}

\* Nobody gets more rights than somebody who had them gives: a step in which a
\* user's rights rise is the commit of a request whose principal held at least
\* as much, a sign-in with group mapping, or the console (Principal, ensure,
\* require_admin).
RightsAreHandedOn ==
  [][\A u \in Users : Rank(u)' > Rank(u) =>
       \/ \E r \in Requests :
            /\ req[r].phase = "decided" /\ req'[r].phase = "free"
            /\ IF req[r].op = "sso_callback" THEN sso.groups ELSE req[r].rank >= Rank(u)'
       \/ Console]_vars
=============================================================================
