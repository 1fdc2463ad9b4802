---------------------------- MODULE AccountsProofs ----------------------------
(***************************************************************************)
(* Accounts, for any number of users, people, requests and steps: the      *)
(* types, that rights are handed on by those who have them, and that an    *)
(* enabled administrator remains.                                          *)
(***************************************************************************)
EXTENDS Accounts, TLAPS

-----------------------------------------------------------------------------
(* The types, and what a request that is under way has been checked for     *)

AccountTypeOK ==
  /\ users \in [Users -> Row]
  /\ grants \in [Users -> TenantRoles \union {Null}]
  /\ sso \in [create : BOOLEAN, groups : BOOLEAN]
  /\ req \in [Requests -> Request]
  /\ started \in Nat
  /\ overtaken \subseteq Requests
  /\ raced \in BOOLEAN

\* A request was let in: by the identity provider, or for the rank it needs
Admitted(q) ==
  \/ q.op = "sso_callback" /\ q.by \in Identities
  \/ /\ q.op \in Handlers \ {"sso_callback"} /\ q.target \in Users
     /\ q.value \in Values(q.op) /\ q.rank >= Required(q.op)

\* What a sign-in leaves alone
SignInKeeps(q) ==
  /\ q.new # Null
  /\ q.old # Null => q.new.enabled = q.old.enabled
  /\ ~sso.groups => q.new.role = IF q.old = Null THEN "user" ELSE q.old.role

Decided(q) ==
  /\ q.target \in Users /\ q.op # "tenant_revoke"
  /\ q.op = "sso_callback" => SignInKeeps(q)

RequestsChecked ==
  \A r \in Requests :
    /\ req[r].phase # "free" => Admitted(req[r])
    /\ req[r].phase = "decided" => Decided(req[r])

\* Access goes with its user
GrantsHaveUsers == \A u \in Users : users[u] = Null => grants[u] = Null

Sound == AccountTypeOK /\ RequestsChecked /\ GrantsHaveUsers

-----------------------------------------------------------------------------
(* Roles and ranks                                                          *)

LEMMA NullIsNone ==
  /\ Null \notin Account /\ Null \notin GlobalRoles /\ Null \notin TenantRoles
  /\ Null \notin Identities /\ Null \notin Emails
  BY StartConstants DEF StartConstants

LEMMA NewIsAccount ==
  ASSUME NEW role \in GlobalRoles, NEW email \in Emails \union {Null},
         NEW identity \in Identities \union {Null}
  PROVE  /\ NewAccount(role, email, identity) \in Account
         /\ NewAccount(role, email, identity).role = role
         /\ NewAccount(role, email, identity).enabled
  BY DEF NewAccount, Account

\* Rank 5 is an enabled administrator
LEMMA RankFacts ==
  ASSUME AccountTypeOK, NEW u \in Users
  PROVE  /\ Rank(u) \in 0..5
         /\ Rank(u) = 5 <=> users[u] # Null /\ users[u].enabled /\ users[u].role = "admin"
         /\ users[u] # Null => users[u] \in Account
<1>1. users[u] # Null => users[u] \in Account
  BY DEF AccountTypeOK, Row
<1>2. Level(grants[u]) \in 0..3
  BY DEF Level
<1> QED
  BY <1>1, <1>2 DEF Rank, Account

\* A commit writes the columns that were changed, the others stay
LEMMA WrittenFacts ==
  ASSUME NEW row \in Account, NEW old \in Account, NEW new \in Account
  PROVE  /\ Written(row, old, new) \in Account
         /\ Written(row, old, new).role = IF new.role = old.role THEN row.role ELSE new.role
         /\ Written(row, old, new).enabled = IF new.enabled = old.enabled THEN row.enabled ELSE new.enabled
<1>1. DOMAIN row = {"role", "enabled", "sso", "email"}
  BY DEF Account
<1>2. Written(row, old, new) =
        [role    |-> IF new.role = old.role THEN row.role ELSE new.role,
         enabled |-> IF new.enabled = old.enabled THEN row.enabled ELSE new.enabled,
         sso     |-> IF new.sso = old.sso THEN row.sso ELSE new.sso,
         email   |-> IF new.email = old.email THEN row.email ELSE new.email]
  BY <1>1 DEF Written
<1> QED
  BY <1>2 DEF Account

-----------------------------------------------------------------------------
(* Requests: the types and the checks                                       *)

LEMMA FreeFacts == Free \in Request /\ Free.phase = "free"
  BY DEF Request, Free, Row

LEMMA RequestFacts ==
  ASSUME AccountTypeOK, NEW r \in Requests
  PROVE  req[r] \in Request
  BY DEF AccountTypeOK

LEMMA ValuesAreTyped == \A op : Values(op) \subseteq GlobalRoles \union TenantRoles \union {Null}
  BY DEF Values

LEMMA SoundInit == Init => Sound
<1> SUFFICES ASSUME Init PROVE Sound
  OBVIOUS
<1>1. users \in [Users -> Row]
  BY DEF Init
<1>2. grants \in [Users -> TenantRoles \union {Null}] /\ GrantsHaveUsers
  BY StartConstants DEF Init, StartConstants, GrantsHaveUsers
<1>3. req \in [Requests -> Request]
  BY DEF Init, Free, Request, Row
<1>4. RequestsChecked
  BY DEF Init, Free, RequestsChecked
<1> QED
  BY <1>1, <1>2, <1>3, <1>4 DEF Init, Sound, AccountTypeOK

\* A request moves and the tables stay
LEMMA SoundMoves ==
  ASSUME Sound, UNCHANGED <<users, grants, sso>>, started' \in Nat,
         overtaken' \subseteq Requests, raced' \in BOOLEAN,
         NEW r \in Requests, NEW q \in Request,
         req' = [req EXCEPT ![r] = q],
         q.phase # "free" => Admitted(q),
         q.phase = "decided" => Decided(q)
  PROVE  Sound'
<1>1. AccountTypeOK'
  BY DEF Sound, AccountTypeOK
<1>2. GrantsHaveUsers'
  BY DEF Sound, GrantsHaveUsers
<1>3. ASSUME NEW o \in Requests
      PROVE  /\ req'[o].phase # "free" => Admitted(req'[o])
             /\ req'[o].phase = "decided" => Decided(req'[o])
  BY <1>3 DEF Sound, AccountTypeOK, RequestsChecked
<1>4. RequestsChecked'
  BY <1>3 DEF RequestsChecked, Admitted, Decided, SignInKeeps, Values
<1> QED
  BY <1>1, <1>2, <1>4 DEF Sound

LEMMA SoundRefuse ==
  ASSUME Sound, UNCHANGED <<users, grants, sso, started>>, NEW r \in Requests, Refuse(r)
  PROVE  Sound'
<1>1. Free \in Request /\ Free.phase = "free" /\ Free.phase # "decided"
  BY FreeFacts
<1>2. started' \in Nat /\ overtaken' \subseteq Requests /\ raced' \in BOOLEAN
  BY DEF Sound, AccountTypeOK, Refuse
<1> QED
  BY <1>1, <1>2, SoundMoves DEF Refuse

LEMMA SoundAdmit ==
  ASSUME Sound, NEW r \in Requests, NEW p \in Users, NEW u \in Users,
         NEW op \in Handlers \ {"sso_callback"}, NEW value \in Values(op), Admit(r, p, op, u, value)
  PROVE  Sound'
<1> DEFINE q == [Free EXCEPT !.phase = "admitted", !.by = p, !.rank = Rank(p),
                             !.op = op, !.target = u, !.value = value]
<1>1. Rank(p) \in 0..5
  BY RankFacts DEF Sound
<1>2. value \in GlobalRoles \union TenantRoles \union {Null}
  BY ValuesAreTyped
<1>3. q \in Request
  BY <1>1, <1>2 DEF Free, Request, Row
<1>4. /\ q.phase = "admitted" /\ q.op = op /\ q.target = u /\ q.value = value /\ q.rank = Rank(p)
  BY DEF Free
<1>5. req' = [req EXCEPT ![r] = q] /\ Rank(p) >= Required(op)
  BY DEF Admit
<1>6. Admitted(q)
  BY <1>4, <1>5 DEF Admitted
<1>7. started' \in Nat /\ overtaken' \subseteq Requests /\ raced' \in BOOLEAN /\ UNCHANGED <<users, grants, sso>>
  BY DEF Sound, AccountTypeOK, Admit
<1> HIDE DEF q
<1> QED
  BY <1>3, <1>4, <1>5, <1>6, <1>7, SoundMoves

LEMMA SoundArrive ==
  ASSUME Sound, NEW r \in Requests, NEW i \in Identities, Arrive(r, i)
  PROVE  Sound'
<1> DEFINE q == [Free EXCEPT !.phase = "admitted", !.by = i, !.op = "sso_callback"]
<1>1. q \in Request
  <2>1. "sso_callback" \in Handlers
    BY DEF Handlers
  <2> QED
    BY <2>1, FreeFacts DEF Request
<1>2. q.phase = "admitted" /\ q.op = "sso_callback" /\ q.by = i
  BY DEF Free
<1>3. req' = [req EXCEPT ![r] = q]
  BY DEF Arrive
<1>4. started' \in Nat /\ overtaken' \subseteq Requests /\ raced' \in BOOLEAN /\ UNCHANGED <<users, grants, sso>>
  BY DEF Sound, AccountTypeOK, Arrive
<1> HIDE DEF q
<1> QED
  BY <1>1, <1>2, <1>3, <1>4, SoundMoves DEF Admitted

LEMMA DecideFacts ==
  ASSUME AccountTypeOK, NEW r \in Requests, NEW u, NEW old, NEW new, Decide(r, u, old, new)
  PROVE  \E q : /\ req' = [req EXCEPT ![r] = q]
                /\ q.phase = "decided" /\ q.target = u /\ q.old = old /\ q.new = new
                /\ q.op = req[r].op /\ q.by = req[r].by /\ q.rank = req[r].rank /\ q.value = req[r].value
                /\ q.had = req[r].had
                /\ u \in Users /\ old \in Row /\ new \in Row => q \in Request
<1> DEFINE q == [req[r] EXCEPT !.phase = "decided", !.target = u, !.old = old, !.new = new]
<1>1. req[r] \in Request
  BY RequestFacts
<1>2. req' = [req EXCEPT ![r] = q]
  BY DEF Decide, AccountTypeOK
<1>3. /\ q.phase = "decided" /\ q.target = u /\ q.old = old /\ q.new = new
      /\ q.op = req[r].op /\ q.by = req[r].by /\ q.rank = req[r].rank /\ q.value = req[r].value
      /\ q.had = req[r].had
      /\ u \in Users /\ old \in Row /\ new \in Row => q \in Request
  BY <1>1 DEF Request
<1> QED
  BY <1>2, <1>3

\* A request of the Users page decides
LEMMA SoundDecide ==
  ASSUME Sound, UNCHANGED <<users, grants, sso, started>>, NEW r \in Requests, NEW u \in Users,
         req[r].phase = "admitted", req[r].op \in Handlers \ {"sso_callback", "tenant_revoke"},
         u = req[r].target, NEW old \in Row, NEW new \in Row, Decide(r, u, old, new)
  PROVE  Sound'
<1>1. req[r] \in Request /\ Admitted(req[r])
  BY RequestFacts DEF Sound, RequestsChecked
<1>2. PICK q : /\ req' = [req EXCEPT ![r] = q]
               /\ q.phase = "decided" /\ q.target = u /\ q.op = req[r].op
               /\ q.rank = req[r].rank /\ q.value = req[r].value /\ q \in Request
  BY DecideFacts DEF Sound
<1>3. Admitted(q) /\ Decided(q)
  BY <1>1, <1>2 DEF Admitted, Decided
<1>4. started' \in Nat /\ overtaken' \subseteq Requests /\ raced' \in BOOLEAN
  BY DEF Sound, AccountTypeOK, Decide
<1> QED
  BY <1>2, <1>3, <1>4, SoundMoves

LEMMA SoundUserCreate ==
  ASSUME Sound, NEW r \in Requests, UserCreate(r)
  PROVE  Sound'
<1>1. PICK u \in Users : u = req[r].target
  BY DEF Sound, RequestsChecked, UserCreate, Admitted
<1>2. CASE Refuse(r)
  BY <1>2, SoundRefuse DEF UserCreate
<1>3. CASE ~Refuse(r)
  <2>1. req[r].value \in GlobalRoles
    BY DEF UserCreate, Sound, RequestsChecked, Admitted, Values
  <2>2. PICK new : new = NewAccount(req[r].value, Null, Null)
    OBVIOUS
  <2>3. new \in Row
    BY <2>1, <2>2, NewIsAccount DEF Row
  <2>4. Decide(r, u, Null, new)
    BY <1>1, <1>3, <2>2 DEF UserCreate, Decide
  <2> QED
    BY <1>1, <2>3, <2>4, SoundDecide DEF UserCreate, Handlers, Row
<1> QED
  BY <1>2, <1>3

LEMMA SoundUserRole ==
  ASSUME Sound, NEW r \in Requests, UserRole(r)
  PROVE  Sound'
<1>1. PICK u \in Users : u = req[r].target
  BY DEF Sound, RequestsChecked, UserRole, Admitted
<1>2. CASE Refuse(r)
  BY <1>2, SoundRefuse DEF UserRole
<1>3. CASE ~Refuse(r)
  <2>1. req[r].value \in GlobalRoles
    BY DEF UserRole, Sound, RequestsChecked, Admitted, Values
  <2>2. PICK old, new : old = users[u] /\ new = [users[u] EXCEPT !.role = req[r].value]
    OBVIOUS
  <2>3. users[u] # Null /\ users[u] \in Account
    BY <1>1, <1>3, RankFacts DEF UserRole, Sound
  <2>4. old \in Row /\ new \in Row
    BY <2>1, <2>2, <2>3 DEF Row, Account
  <2>5. Decide(r, u, old, new)
    BY <1>1, <1>3, <2>2 DEF UserRole, Decide
  <2> QED
    BY <1>1, <2>4, <2>5, SoundDecide DEF UserRole, Handlers
<1> QED
  BY <1>2, <1>3

LEMMA SoundUserToggle ==
  ASSUME Sound, NEW r \in Requests, UserToggle(r)
  PROVE  Sound'
<1>1. PICK u \in Users : u = req[r].target
  BY DEF Sound, RequestsChecked, UserToggle, Admitted
<1>2. CASE Refuse(r)
  BY <1>2, SoundRefuse DEF UserToggle
<1>3. CASE ~Refuse(r)
  <2>1. PICK old, new : old = users[u] /\ new = [users[u] EXCEPT !.enabled = ~@]
    OBVIOUS
  <2>2. users[u] # Null /\ users[u] \in Account
    BY <1>1, <1>3, RankFacts DEF UserToggle, Sound
  <2>3. old \in Row /\ new \in Row
    BY <2>1, <2>2 DEF Row, Account
  <2>4. Decide(r, u, old, new)
    BY <1>1, <1>3, <2>1 DEF UserToggle, Decide
  <2> QED
    BY <1>1, <2>3, <2>4, SoundDecide DEF UserToggle, Handlers
<1> QED
  BY <1>2, <1>3

LEMMA SoundUserDelete ==
  ASSUME Sound, NEW r \in Requests, UserDelete(r)
  PROVE  Sound'
<1>1. PICK u \in Users : u = req[r].target
  BY DEF Sound, RequestsChecked, UserDelete, Admitted
<1>2. CASE Refuse(r)
  BY <1>2, SoundRefuse DEF UserDelete
<1>3. CASE ~Refuse(r)
  <2>1. PICK old : old = users[u]
    OBVIOUS
  <2>2. old \in Row /\ Null \in Row
    BY <2>1 DEF Row, Sound, AccountTypeOK
  <2>3. Decide(r, u, old, Null)
    BY <1>1, <1>3, <2>1 DEF UserDelete, Decide
  <2> QED
    BY <1>1, <2>2, <2>3, SoundDecide DEF UserDelete, Handlers
<1> QED
  BY <1>2, <1>3

LEMMA SoundTenantGrant ==
  ASSUME Sound, NEW r \in Requests, TenantGrant(r)
  PROVE  Sound'
<1>1. PICK u \in Users : u = req[r].target
  BY DEF Sound, RequestsChecked, TenantGrant, Admitted
<1>2. CASE Refuse(r)
  BY <1>2, SoundRefuse DEF TenantGrant
<1>3. CASE ~Refuse(r)
  <2> DEFINE q == [req[r] EXCEPT !.phase = "decided", !.had = grants[u]]
  <2>1. req[r] \in Request /\ grants[u] \in TenantRoles \union {Null} /\ Admitted(req[r])
    BY RequestFacts DEF Sound, AccountTypeOK, RequestsChecked, TenantGrant
  <2>2. q \in Request /\ q.phase = "decided" /\ q.op = req[r].op /\ q.target = u
        /\ q.value = req[r].value /\ q.rank = req[r].rank
    BY <1>1, <2>1 DEF Request
  <2>3. req' = [req EXCEPT ![r] = q] /\ req[r].op = "tenant_grant"
    BY <1>1, <1>3 DEF TenantGrant, Sound, AccountTypeOK
  <2> HIDE DEF q
  <2>4. Admitted(q) /\ Decided(q)
    BY <1>1, <2>1, <2>2, <2>3 DEF Admitted, Decided
  <2>5. started' \in Nat /\ overtaken' \subseteq Requests /\ raced' \in BOOLEAN /\ UNCHANGED <<users, grants, sso>>
    BY <1>3 DEF Sound, AccountTypeOK, TenantGrant
  <2> QED
    BY <2>2, <2>3, <2>4, <2>5, SoundMoves
<1> QED
  BY <1>2, <1>3

LEMMA SoundTenantRevoke ==
  ASSUME Sound, NEW r \in Requests, TenantRevoke(r)
  PROVE  Sound'
<1>1. req[r].target \in Users
  BY DEF Sound, RequestsChecked, TenantRevoke, Admitted
<1>2. AccountTypeOK' /\ GrantsHaveUsers'
  BY <1>1, FreeFacts DEF Sound, AccountTypeOK, GrantsHaveUsers, TenantRevoke, Refuse
<1>3. \A o \in Requests : req'[o].phase = "free" \/ req'[o] = req[o]
  BY FreeFacts DEF Sound, AccountTypeOK, TenantRevoke, Refuse
<1>4. RequestsChecked'
  BY <1>3 DEF Sound, RequestsChecked, Admitted, Decided, SignInKeeps, Values, TenantRevoke
<1> QED
  BY <1>2, <1>4 DEF Sound

\* A sign-in decides about a row it found, or about a new one
LEMMA SoundSignIn ==
  ASSUME Sound, UNCHANGED <<users, grants, sso, started>>, NEW r \in Requests, NEW u \in Users,
         req[r].phase = "admitted", req[r].op = "sso_callback",
         NEW old \in Row, NEW row \in Account, NEW role \in GlobalRoles,
         old # Null => old.enabled = row.enabled /\ old.role = row.role,
         old = Null => row.role = "user",
         SignIn(r, u, old, row, role)
  PROVE  Sound'
<1>1. CASE Refuse(r)
  BY <1>1, SoundRefuse
<1>2. CASE ~Refuse(r)
  <2>1. req[r] \in Request /\ req[r].by \in Identities
    BY RequestFacts DEF Sound, RequestsChecked, Admitted
  <2>2. PICK new : new = [row EXCEPT !.role = RoleFor(u, row, role), !.email = EmailOf[req[r].by]]
    OBVIOUS
  <2>3. /\ new \in Account
        /\ new.enabled = row.enabled /\ new.role = RoleFor(u, row, role)
    BY <2>1, <2>2 DEF Account, RoleFor, Emails
  <2>4. Decide(r, u, old, new)
    BY <1>2, <2>2 DEF SignIn, Decide
  <2>5. new \in Row
    BY <2>3 DEF Row
  <2>6. PICK q : /\ req' = [req EXCEPT ![r] = q]
                 /\ q.phase = "decided" /\ q.target = u /\ q.old = old /\ q.new = new
                 /\ q.op = req[r].op /\ q.by = req[r].by /\ q \in Request
    BY <2>4, <2>5, DecideFacts DEF Sound
  <2>7. Admitted(q)
    BY <2>1, <2>6 DEF Admitted
  <2>8. Decided(q)
    BY <2>3, <2>6, NullIsNone DEF Decided, SignInKeeps, RoleFor
  <2>9. started' \in Nat /\ overtaken' \subseteq Requests /\ raced' \in BOOLEAN
    BY <2>4 DEF Sound, AccountTypeOK, Decide
  <2> QED
    BY <2>6, <2>7, <2>8, <2>9, SoundMoves
<1> QED
  BY <1>1, <1>2

LEMMA SoundSsoCallback ==
  ASSUME Sound, NEW r \in Requests, SsoCallback(r)
  PROVE  Sound'
<1>1. req[r].phase = "admitted" /\ req[r].op = "sso_callback" /\ UNCHANGED <<users, grants, sso, started>>
  BY DEF SsoCallback
<1>2. PICK i \in Identities : i = req[r].by
  BY <1>1 DEF Sound, RequestsChecked, Admitted
<1>3. CASE Refuse(r)
  BY <1>1, <1>3, SoundRefuse
<1>4. ASSUME NEW u \in Known(i), NEW role \in GlobalRoles, SignIn(r, u, users[u], users[u], role)
      PROVE  Sound'
  <2>1. u \in Users /\ users[u] # Null /\ users[u] \in Account
    BY <1>4, RankFacts DEF Known, Existing, Sound
  <2>2. PICK old : old = users[u]
    OBVIOUS
  <2>3. SignIn(r, u, old, old, role)
    BY <1>4, <2>2 DEF SignIn
  <2> QED
    BY <1>1, <2>1, <2>2, <2>3, SoundSignIn, NullIsNone DEF Row
<1>5. ASSUME NEW u \in Linkable(i), NEW role \in GlobalRoles,
             SignIn(r, u, users[u], [users[u] EXCEPT !.sso = i], role)
      PROVE  Sound'
  <2>1. u \in Users /\ users[u] # Null /\ users[u] \in Account
    BY <1>5, RankFacts DEF Linkable, Existing, Sound
  <2>2. PICK old, row : old = users[u] /\ row = [users[u] EXCEPT !.sso = i]
    OBVIOUS
  <2>3. row \in Account /\ row.role = old.role /\ row.enabled = old.enabled
    BY <2>1, <2>2 DEF Account
  <2>4. SignIn(r, u, old, row, role)
    BY <1>5, <2>2 DEF SignIn
  <2> QED
    BY <1>1, <2>1, <2>2, <2>3, <2>4, SoundSignIn, NullIsNone DEF Row
<1>6. ASSUME NEW u \in Users, NEW role \in GlobalRoles,
             SignIn(r, u, Null, NewAccount("user", EmailOf[i], i), role)
      PROVE  Sound'
  <2>1. PICK row : row = NewAccount("user", EmailOf[i], i)
    OBVIOUS
  <2>2. EmailOf[i] \in Emails /\ "user" \in GlobalRoles
    BY DEF Emails, GlobalRoles
  <2>3. row \in Account /\ row.role = "user"
    BY <2>1, <2>2, NewIsAccount
  <2>4. SignIn(r, u, Null, row, role)
    BY <1>6, <2>1 DEF SignIn
  <2> QED
    BY <1>1, <2>3, <2>4, SoundSignIn DEF Row
<1> QED
  BY <1>2, <1>3, <1>4, <1>5, <1>6 DEF SsoCallback

-----------------------------------------------------------------------------
(* Commits                                                                  *)

\* The row a commit writes: one that is there is changed, one that is not is made
CommitWrites(r, row) ==
  LET u == req[r].target
  IN  users' = [users EXCEPT ![u] = row] /\ grants' = IF row = Null THEN [grants EXCEPT ![u] = Null] ELSE grants

LEMMA CommitFacts ==
  ASSUME Sound, NEW r \in Requests, CommitUser(r)
  PROVE  /\ req[r].target \in Users /\ req[r].old \in Row /\ req[r].new \in Row
         /\ \/ UNCHANGED <<users, grants>>
            \/ /\ req[r].new = Null /\ CommitWrites(r, Null)
            \/ /\ req[r].new # Null /\ req[r].old = Null /\ users[req[r].target] = Null
               /\ CommitWrites(r, req[r].new)
            \/ /\ req[r].new # Null /\ req[r].old # Null /\ users[req[r].target] # Null
               /\ CommitWrites(r, Written(users[req[r].target], req[r].old, req[r].new))
<1>1. req[r] \in Request /\ Decided(req[r])
  BY RequestFacts DEF Sound, RequestsChecked, CommitUser
<1>2. req[r].target \in Users /\ req[r].old \in Row /\ req[r].new \in Row
  BY <1>1 DEF Request, Decided
<1> DEFINE u == req[r].target
           old == req[r].old
           new == req[r].new
           row == IF old = Null \/ new = Null \/ users[u] = Null THEN new
                  ELSE Written(users[u], old, new)
           fails == IF new = Null THEN users[u] = Null
                    ELSE (old = Null) # (users[u] = Null) \/ Taken(u, row)
<1>3. /\ users' = IF fails THEN users ELSE [users EXCEPT ![u] = row]
      /\ grants' = IF ~fails /\ new = Null THEN [grants EXCEPT ![u] = Null] ELSE grants
  BY DEF CommitUser
<1>4. CASE fails
  BY <1>2, <1>3, <1>4
<1>5. CASE ~fails /\ new = Null
  BY <1>2, <1>3, <1>5 DEF CommitWrites
<1>6. CASE ~fails /\ new # Null /\ old = Null
  BY <1>2, <1>3, <1>6 DEF CommitWrites
<1>7. CASE ~fails /\ new # Null /\ old # Null
  <2>1. users[u] # Null
    BY <1>7
  <2>2. users[u] \in Account /\ old \in Account /\ new \in Account
    BY <1>2, <1>7, <2>1, RankFacts DEF Sound, Row
  <2>3. Written(users[u], old, new) # Null
    BY <2>2, WrittenFacts, NullIsNone
  <2> QED
    BY <1>2, <1>3, <1>7, <2>1, <2>3 DEF CommitWrites
<1> QED
  BY <1>4, <1>5, <1>6, <1>7

\* The row that is written is an account or nothing
LEMMA CommitKeepsTables ==
  ASSUME Sound, NEW r \in Requests, CommitUser(r)
  PROVE  /\ users' \in [Users -> Row] /\ grants' \in [Users -> TenantRoles \union {Null}]
         /\ GrantsHaveUsers'
<1>1. /\ req[r].target \in Users /\ req[r].old \in Row /\ req[r].new \in Row
      /\ users \in [Users -> Row] /\ grants \in [Users -> TenantRoles \union {Null}]
      /\ \A u \in Users : users[u] = Null => grants[u] = Null
  BY CommitFacts DEF Sound, AccountTypeOK, GrantsHaveUsers
<1>2. ASSUME NEW row \in Row, CommitWrites(r, row)
      PROVE  /\ users' \in [Users -> Row] /\ grants' \in [Users -> TenantRoles \union {Null}]
             /\ GrantsHaveUsers'
  BY <1>1, <1>2 DEF CommitWrites, GrantsHaveUsers
<1>3. CASE UNCHANGED <<users, grants>>
  BY <1>1, <1>3 DEF GrantsHaveUsers
<1>4. CASE CommitWrites(r, Null)
  BY <1>2, <1>4 DEF Row
<1>5. ASSUME NEW row \in Row, row = req[r].new, CommitWrites(r, req[r].new)
      PROVE  /\ users' \in [Users -> Row] /\ grants' \in [Users -> TenantRoles \union {Null}]
             /\ GrantsHaveUsers'
  BY <1>2, <1>5 DEF CommitWrites
<1>6. CASE /\ req[r].new # Null /\ req[r].old # Null /\ users[req[r].target] # Null
           /\ CommitWrites(r, Written(users[req[r].target], req[r].old, req[r].new))
  <2>1. PICK row : row = Written(users[req[r].target], req[r].old, req[r].new)
    OBVIOUS
  <2>2. row \in Row
    BY <1>1, <1>6, <2>1, WrittenFacts DEF Row
  <2>3. CommitWrites(r, row)
    BY <1>6, <2>1 DEF CommitWrites
  <2> QED
    BY <1>2, <2>2, <2>3
<1> QED
  BY <1>1, <1>3, <1>4, <1>5, <1>6, CommitFacts

LEMMA SoundCommitUser ==
  ASSUME Sound, NEW r \in Requests, CommitUser(r)
  PROVE  Sound'
<1>1. UNCHANGED <<sso, started>> /\ req' = [req EXCEPT ![r] = Free]
      /\ overtaken' \subseteq Requests /\ raced' \in BOOLEAN
  BY DEF CommitUser, Sound, AccountTypeOK
<1>2. AccountTypeOK'
  BY <1>1, CommitKeepsTables, FreeFacts DEF Sound, AccountTypeOK
<1>3. \A o \in Requests : req'[o].phase = "free" \/ req'[o] = req[o]
  BY <1>1, FreeFacts DEF Sound, AccountTypeOK
<1>4. RequestsChecked'
  BY <1>1, <1>3 DEF Sound, RequestsChecked, Admitted, Decided, SignInKeeps, Values
<1> QED
  BY <1>2, <1>4, CommitKeepsTables DEF Sound

LEMMA SoundCommitGrant ==
  ASSUME Sound, NEW r \in Requests, CommitGrant(r)
  PROVE  Sound'
<1>1. req[r].target \in Users /\ req[r].value \in TenantRoles
  BY DEF CommitGrant, Sound, RequestsChecked, Admitted, Decided, Values
<1>2. UNCHANGED <<users, sso, started>> /\ req' = [req EXCEPT ![r] = Free]
      /\ overtaken' \subseteq Requests /\ raced' \in BOOLEAN
  BY DEF CommitGrant, Sound, AccountTypeOK
<1>3. grants' \in [Users -> TenantRoles \union {Null}] /\ GrantsHaveUsers'
  BY <1>1, <1>2 DEF CommitGrant, Sound, AccountTypeOK, GrantsHaveUsers
<1>4. AccountTypeOK'
  BY <1>2, <1>3, FreeFacts DEF Sound, AccountTypeOK
<1>5. \A o \in Requests : req'[o].phase = "free" \/ req'[o] = req[o]
  BY <1>2, FreeFacts DEF Sound, AccountTypeOK
<1>6. RequestsChecked'
  BY <1>2, <1>5 DEF Sound, RequestsChecked, Admitted, Decided, SignInKeeps, Values
<1> QED
  BY <1>3, <1>4, <1>6 DEF Sound

LEMMA SoundConsole ==
  ASSUME Sound, Console
  PROVE  Sound'
<1>1. users' \in [Users -> Row] /\ UNCHANGED <<grants, sso>> /\ started' \in Nat
  <2>1. ASSUME NEW u \in Users, ManageReset(u) PROVE users' \in [Users -> Row]
    BY <2>1, RankFacts DEF ManageReset, Sound, AccountTypeOK, Row, Account
  <2>2. ASSUME NEW u \in Users, NEW role \in GlobalRoles, ManageCreate(u, role)
        PROVE  users' \in [Users -> Row]
    BY <2>2, NewIsAccount DEF ManageCreate, Sound, AccountTypeOK, Row
  <2>3. CASE Restart
    BY <2>3, NewIsAccount, AccountConstants DEF Restart, Sound, AccountTypeOK, Row, GlobalRoles, AccountConstants
  <2>4. UNCHANGED <<grants, sso>> /\ started' \in Nat
    BY DEF Console, ManageReset, ManageCreate, Restart, Sound, AccountTypeOK
  <2> QED
    BY <2>1, <2>2, <2>3, <2>4 DEF Console
<1>2. GrantsHaveUsers'
  <2>1. \A u \in Users : users'[u] = Null => users[u] = Null
    <3>1. ASSUME NEW u \in Users, ManageReset(u) PROVE users'[u] # Null /\ \A o \in Users \ {u} : users'[o] = users[o]
      <4>1. users[u] \in Account /\ users'[u] = [users[u] EXCEPT !.enabled = TRUE]
        BY <3>1, RankFacts DEF ManageReset, Sound, AccountTypeOK
      <4>2. users'[u] \in Account
        BY <4>1 DEF Account
      <4> QED
        BY <3>1, <4>2, NullIsNone DEF ManageReset, Sound, AccountTypeOK
    <3>2. ASSUME NEW u \in Users, NEW role \in GlobalRoles, ManageCreate(u, role)
          PROVE  users[u] = Null /\ \A o \in Users \ {u} : users'[o] = users[o]
      BY <3>2 DEF ManageCreate, Sound, AccountTypeOK
    <3>3. CASE Restart
      BY <3>3 DEF Restart, Existing, Sound, AccountTypeOK
    <3> QED
      BY <3>1, <3>2, <3>3 DEF Console
  <2> QED
    BY <1>1, <2>1 DEF Sound, GrantsHaveUsers
<1>3. /\ req' \in [Requests -> Request] /\ overtaken' \subseteq Requests /\ UNCHANGED raced
      /\ \A o \in Requests : req'[o].phase = "free" \/ req'[o] = req[o]
  BY FreeFacts DEF Console, ManageReset, ManageCreate, Restart, Sound, AccountTypeOK
<1>4. RequestsChecked'
  BY <1>1, <1>3 DEF Sound, RequestsChecked, Admitted, Decided, SignInKeeps, Values
<1> QED
  BY <1>1, <1>2, <1>3, <1>4 DEF Sound, AccountTypeOK

LEMMA SoundStep ==
  ASSUME Sound, [Next]_vars
  PROVE  Sound'
<1>1. ASSUME NEW r \in Requests, Handle(r) PROVE Sound'
  BY <1>1, SoundUserCreate, SoundUserRole, SoundUserToggle, SoundUserDelete, SoundTenantGrant,
     SoundTenantRevoke, SoundSsoCallback, SoundCommitUser, SoundCommitGrant DEF Handle
<1>2. CASE UNCHANGED vars
  BY <1>2 DEF vars, Sound, AccountTypeOK, GrantsHaveUsers, RequestsChecked, Admitted, Decided, SignInKeeps, Values
<1> QED
  BY <1>1, <1>2, SoundAdmit, SoundArrive, SoundConsole DEF Next

\* The types hold, access goes with its user, and every request under way was
\* let in for the rank its handler requires (get_principal, ensure,
\* require_admin, the foreign key of tenant_grants).
THEOREM RequestsAreChecked == Spec => []Sound
<1>1. Init => Sound
  BY SoundInit
<1>2. Sound /\ [Next]_vars => Sound'
  BY SoundStep
<1> QED
  BY <1>1, <1>2, PTL DEF Spec

-----------------------------------------------------------------------------
(* Rights are handed on by those who have them                              *)

\* The ranks after a step
LEMMA NextRanks ==
  ASSUME AccountTypeOK, AccountTypeOK', NEW u \in Users
  PROVE  /\ Rank(u)' \in 0..5
         /\ Rank(u)' = 5 <=> users'[u] # Null /\ users'[u].enabled /\ users'[u].role = "admin"
         /\ users'[u] # Null => users'[u] \in Account
<1>1. users'[u] # Null => users'[u] \in Account
  BY DEF AccountTypeOK, Row
<1>2. Level(grants'[u]) \in 0..3
  BY DEF Level
<1> QED
  BY <1>1, <1>2 DEF Rank, Account

LEMMA SameRank ==
  ASSUME NEW u \in Users, users'[u] = users[u], grants'[u] = grants[u]
  PROVE  Rank(u)' = Rank(u)
  BY DEF Rank

\* Who may do what a request does
RankedAbove(r, n) == IF req[r].op = "sso_callback" THEN sso.groups ELSE req[r].rank >= n

LEMMA RightsRaisedByCommit ==
  ASSUME Sound, Sound', NEW r \in Requests, CommitUser(r), NEW u \in Users, Rank(u)' > Rank(u)
  PROVE  RankedAbove(r, Rank(u)')
<1>1. Rank(u)' \in 0..5 /\ Rank(u) \in 0..5 /\ users[u] \in Row /\ grants[u] \in TenantRoles \union {Null}
      /\ users \in [Users -> Row] /\ grants \in [Users -> TenantRoles \union {Null}]
  BY NextRanks, RankFacts DEF Sound, AccountTypeOK
<1>2. /\ req[r] \in Request /\ Admitted(req[r]) /\ Decided(req[r])
      /\ req[r].op \notin {"tenant_grant", "tenant_revoke"}
  BY RequestFacts DEF Sound, RequestsChecked, CommitUser, Decided
<1>3. CASE req[r].op # "sso_callback"
  <2>1. req[r].rank >= 5 /\ req[r].rank \in 0..5
    BY <1>2, <1>3 DEF Admitted, Required, Request
  <2> QED
    BY <1>1, <1>3, <2>1 DEF RankedAbove
<1>4. CASE req[r].op = "sso_callback" /\ ~sso.groups
  <2>1. SignInKeeps(req[r]) /\ req[r].new # Null
    BY <1>2, <1>4 DEF Decided, SignInKeeps
  <2>2. PICK t, old, new : t = req[r].target /\ old = req[r].old /\ new = req[r].new
    OBVIOUS
  <2>3. /\ old # Null => new.enabled = old.enabled
        /\ new.role = IF old = Null THEN "user" ELSE old.role
    BY <1>4, <2>1, <2>2 DEF SignInKeeps
  <2>4. CASE UNCHANGED <<users, grants>>
    BY <1>1, <2>4, SameRank
  <2>5. CASE old = Null /\ users[t] = Null /\ CommitWrites(r, new)
    <3>1. grants' = grants /\ users' = [users EXCEPT ![t] = new]
      BY <2>1, <2>2, <2>5 DEF CommitWrites
    <3>2. u = t
      BY <1>1, <3>1, SameRank
    <3>3. grants[u] = Null /\ users'[u] = new
      BY <1>1, <2>5, <3>1, <3>2 DEF Sound, GrantsHaveUsers
    <3>4. Level(grants'[u]) = 0
      BY <3>1, <3>3, NullIsNone DEF Level, TenantRoles
    <3>5. Rank(u)' = 0
      BY <2>3, <2>5, <3>3, <3>4 DEF Rank
    <3> QED
      BY <1>1, <3>5
  <2>6. CASE old # Null /\ users[t] # Null /\ CommitWrites(r, Written(users[t], old, new))
    <3>1. t \in Users /\ users[t] \in Account /\ old \in Account /\ new \in Account
      BY <1>1, <2>1, <2>2, <2>6, CommitFacts DEF Row
    <3>2. PICK row : row = Written(users[t], old, new)
      OBVIOUS
    <3>3. row \in Account /\ row.role = users[t].role /\ row.enabled = users[t].enabled /\ row # Null
      BY <2>3, <2>6, <3>1, <3>2, WrittenFacts, NullIsNone
    <3>4. grants' = grants /\ users' = [users EXCEPT ![t] = row]
      BY <2>2, <2>6, <3>2, <3>3 DEF CommitWrites
    <3>5. u = t
      BY <1>1, <3>4, SameRank
    <3>6. Rank(u)' = Rank(u)
      BY <1>1, <2>6, <3>1, <3>3, <3>4, <3>5 DEF Rank
    <3> QED
      BY <1>1, <3>6
  <2> QED
    BY <2>1, <2>2, <2>4, <2>5, <2>6, CommitFacts
<1> QED
  BY <1>3, <1>4 DEF RankedAbove

LEMMA RightsRaisedByGrant ==
  ASSUME Sound, Sound', NEW r \in Requests, CommitGrant(r), NEW u \in Users, Rank(u)' > Rank(u)
  PROVE  RankedAbove(r, Rank(u)')
<1>1. Rank(u)' \in 0..5 /\ Rank(u) \in 0..5 /\ Level(grants'[u]) \in 0..3
      /\ users' = users /\ grants \in [Users -> TenantRoles \union {Null}]
  BY NextRanks, RankFacts DEF Sound, AccountTypeOK, CommitGrant, Level
<1>2. Rank(u)' <= 3
  BY <1>1 DEF Rank
<1>3. req[r].op = "tenant_grant" /\ req[r].rank >= 3 /\ req[r].rank \in 0..5
  BY RequestFacts DEF Sound, RequestsChecked, CommitGrant, Admitted, Required, Level, Request
<1> QED
  BY <1>1, <1>2, <1>3 DEF RankedAbove

LEMMA RevokeLowers ==
  ASSUME Sound, Sound', NEW r \in Requests, TenantRevoke(r), NEW u \in Users
  PROVE  ~(Rank(u)' > Rank(u))
<1>1. Rank(u)' \in 0..5 /\ Rank(u) \in 0..5 /\ Level(grants[u]) \in 0..3
      /\ users' = users /\ grants \in [Users -> TenantRoles \union {Null}]
  BY NextRanks, RankFacts DEF Sound, AccountTypeOK, TenantRevoke, Level
<1>2. grants'[u] = grants[u] \/ grants'[u] = Null
  BY <1>1 DEF TenantRevoke
<1>3. Level(Null) = 0
  BY NullIsNone DEF Level, TenantRoles
<1> QED
  BY <1>1, <1>2, <1>3 DEF Rank

\* A user's rights rise only by somebody who holds as much, by the groups of
\* the identity provider, or at the console: Principal, ensure, require_admin,
\* and what each handler writes.
THEOREM RightsOnlyFromHolders == Spec => RightsAreHandedOn
<1>1. ASSUME Sound, Sound', [Next]_vars
      PROVE  [\A u \in Users : Rank(u)' > Rank(u) =>
                \/ \E r \in Requests :
                     /\ req[r].phase = "decided" /\ req'[r].phase = "free"
                     /\ IF req[r].op = "sso_callback" THEN sso.groups ELSE req[r].rank >= Rank(u)'
                \/ Console]_vars
  <2> SUFFICES ASSUME NEW u \in Users, Next, ~Console, Rank(u)' > Rank(u)
               PROVE  \E r \in Requests :
                        /\ req[r].phase = "decided" /\ req'[r].phase = "free"
                        /\ RankedAbove(r, Rank(u)')
    BY <1>1 DEF RankedAbove
  <2>1. users' # users \/ grants' # grants
    BY <1>1, SameRank, RankFacts DEF Sound
  <2>2. ASSUME NEW r \in Requests, CommitUser(r) \/ CommitGrant(r)
        PROVE  /\ req[r].phase = "decided" /\ req'[r].phase = "free"
               /\ RankedAbove(r, Rank(u)')
    <3>1. req[r].phase = "decided" /\ req'[r] = Free
      BY <1>1, <2>2 DEF CommitUser, CommitGrant, Sound, AccountTypeOK
    <3> QED
      BY <1>1, <2>2, <3>1, FreeFacts, RightsRaisedByCommit, RightsRaisedByGrant
  <2>3. ASSUME NEW r \in Requests PROVE ~TenantRevoke(r)
    BY <1>1, RevokeLowers
  <2>4. \E r \in Requests : CommitUser(r) \/ CommitGrant(r)
    BY <1>1, <2>1, <2>3 DEF Next, Handle, Admit, Arrive, UserCreate, UserRole, UserToggle, UserDelete,
                            TenantGrant, SsoCallback
  <2> QED
    BY <2>2, <2>4
<1> QED
  BY <1>1, RequestsAreChecked, PTL DEF Spec, RightsAreHandedOn

-----------------------------------------------------------------------------
(* An administrator remains                                                 *)

\* What a request is about to write may take an administrator away
Lessens(q) ==
  \/ q.new = Null
  \/ /\ q.old # Null
     /\ \/ q.new.role # q.old.role /\ q.new.role # "admin"
        \/ q.new.enabled # q.old.enabled /\ ~q.new.enabled

\* As long as no other commit took one away, such a request leaves somebody
Spared(r) ==
  req[r].phase = "decided" /\ req[r].op # "tenant_grant" /\ r \notin overtaken /\ Lessens(req[r])
    => OtherAdmins(req[r].target) # {}

Guarded == raced \/ (EnabledAdmins # {} /\ \A r \in Requests : Spared(r))

LEMMA GuardedInit == Init => Guarded
<1> SUFFICES ASSUME Init PROVE Guarded
  OBVIOUS
<1>1. users[Bootstrap] \in Account /\ users[Bootstrap].role = "admin" /\ users[Bootstrap].enabled
  BY NewIsAccount DEF Init, GlobalRoles
<1>2. Bootstrap \in EnabledAdmins
  BY <1>1, AccountConstants, NullIsNone DEF AccountConstants, EnabledAdmins, Rank
<1>3. \A r \in Requests : Spared(r)
  BY DEF Init, Free, Spared
<1> QED
  BY <1>2, <1>3 DEF Guarded

\* Nobody loses the role, and requests are as they were, gone or only let in
LEMMA GuardedKept ==
  ASSUME Guarded, EnabledAdmins \subseteq EnabledAdmins', raced' = raced,
         \A o \in Requests : \/ req'[o].phase # "decided" \/ req'[o].op = "tenant_grant"
                             \/ req'[o] = req[o] /\ (o \in overtaken' <=> o \in overtaken)
  PROVE  Guarded'
<1>1. ASSUME NEW o \in Requests, Spared(o) PROVE Spared(o)'
  <2>1. CASE req'[o] = req[o] /\ (o \in overtaken' <=> o \in overtaken)
    <3>1. PICK q : q = req[o] /\ q = req'[o]
      BY <2>1
    <3>2. Lessens(req[o]) <=> Lessens(req[o])'
      BY <3>1 DEF Lessens
    <3>3. OtherAdmins(req[o].target) \subseteq OtherAdmins(req[o].target)'
      BY <3>1 DEF OtherAdmins
    <3> QED
      BY <1>1, <2>1, <3>2, <3>3 DEF Spared
  <2>2. CASE req'[o].phase # "decided" \/ req'[o].op = "tenant_grant"
    BY <2>2 DEF Spared
  <2> QED
    BY <2>1, <2>2
<1> QED
  BY <1>1 DEF Guarded

LEMMA SameAdmins ==
  ASSUME AccountTypeOK, UNCHANGED users
  PROVE  EnabledAdmins' = EnabledAdmins
<1>1. \A u \in Users : Rank(u)' = 5 <=> Rank(u) = 5
  <2> SUFFICES ASSUME NEW u \in Users PROVE Rank(u)' = 5 <=> Rank(u) = 5
    OBVIOUS
  <2>1. Level(grants[u]) # 5 /\ Level(grants'[u]) # 5
    BY DEF Level
  <2> QED
    BY <2>1 DEF Rank
<1> QED
  BY <1>1 DEF EnabledAdmins

\* A request decides, and leaves somebody if it may take an administrator away
LEMMA GuardedDecides ==
  ASSUME Sound, Guarded, UNCHANGED <<users, grants, sso, started>>,
         NEW r \in Requests, NEW u \in Users, NEW old, NEW new, Decide(r, u, old, new),
         \/ raced
         \/ new # Null /\ (old = Null \/ ~Lessens([old |-> old, new |-> new]))
         \/ OtherAdmins(u) # {}
  PROVE  Guarded'
<1>1. EnabledAdmins' = EnabledAdmins /\ overtaken' = overtaken /\ raced' = raced
  BY SameAdmins DEF Sound, Decide
<1>2. PICK q : /\ req' = [req EXCEPT ![r] = q]
               /\ q.target = u /\ q.old = old /\ q.new = new
  BY DecideFacts DEF Sound
<1>3. CASE raced
  BY <1>1, <1>3 DEF Guarded
<1>4. CASE ~raced
  <2>1. Lessens(q) => OtherAdmins(u) # {}
    BY <1>2, <1>4 DEF Lessens
  <2>2. ASSUME NEW o \in Requests PROVE Spared(o)'
    <3>1. req'[o] = IF o = r THEN q ELSE req[o]
      BY <1>2 DEF Sound, AccountTypeOK
    <3>2. CASE o = r
      <4>1. OtherAdmins(req[o].target)' = OtherAdmins(u)
        BY <1>1, <1>2, <3>1, <3>2 DEF OtherAdmins
      <4>2. Lessens(req[o])' <=> Lessens(q)
        BY <3>1, <3>2 DEF Lessens
      <4> QED
        BY <2>1, <4>1, <4>2 DEF Spared
    <3>3. CASE o # r
      <4>1. OtherAdmins(req[o].target)' = OtherAdmins(req[o].target)
        BY <1>1, <3>1, <3>3 DEF OtherAdmins
      <4>2. Lessens(req[o])' <=> Lessens(req[o])
        BY <3>1, <3>3 DEF Lessens
      <4> QED
        BY <1>1, <1>4, <3>1, <3>3, <4>1, <4>2 DEF Guarded, Spared
    <3> QED
      BY <3>2, <3>3
  <2> QED
    BY <1>1, <1>4, <2>2 DEF Guarded
<1> QED
  BY <1>3, <1>4

\* Where an account is left as it is or is not an administrator's, the others are all of them
LEMMA OthersRemain ==
  ASSUME Sound, Guarded, ~raced, NEW u \in Users, Rank(u) # 5
  PROVE  OtherAdmins(u) # {}
  BY DEF Guarded, OtherAdmins, EnabledAdmins

LEMMA GuardedRefuse ==
  ASSUME Sound, Guarded, UNCHANGED <<users, grants, sso, started>>, NEW r \in Requests, Refuse(r)
  PROVE  Guarded'
<1>1. EnabledAdmins' = EnabledAdmins /\ overtaken' = overtaken /\ raced' = raced
  BY SameAdmins DEF Sound, Refuse
<1>2. \A o \in Requests : req'[o].phase # "decided" \/ req'[o] = req[o]
  BY FreeFacts DEF Sound, AccountTypeOK, Refuse
<1> QED
  BY <1>1, <1>2, GuardedKept

LEMMA GuardedUserCreate ==
  ASSUME Sound, Guarded, NEW r \in Requests, UserCreate(r)
  PROVE  Guarded'
<1>1. PICK u \in Users : u = req[r].target
  BY DEF Sound, RequestsChecked, UserCreate, Admitted
<1>2. CASE Refuse(r)
  BY <1>2, GuardedRefuse DEF UserCreate
<1>3. CASE ~Refuse(r)
  <2>1. req[r].value \in GlobalRoles
    BY DEF UserCreate, Sound, RequestsChecked, Admitted, Values
  <2>2. PICK new : new = NewAccount(req[r].value, Null, Null)
    OBVIOUS
  <2>3. new # Null
    BY <2>1, <2>2, NewIsAccount, NullIsNone
  <2>4. Decide(r, u, Null, new)
    BY <1>1, <1>3, <2>2 DEF UserCreate, Decide
  <2> QED
    BY <2>3, <2>4, GuardedDecides DEF UserCreate
<1> QED
  BY <1>2, <1>3

LEMMA GuardedUserRole ==
  ASSUME Sound, Guarded, NEW r \in Requests, UserRole(r)
  PROVE  Guarded'
<1>1. PICK u \in Users : u = req[r].target
  BY DEF Sound, RequestsChecked, UserRole, Admitted
<1>2. CASE Refuse(r)
  BY <1>2, GuardedRefuse DEF UserRole
<1>3. CASE ~Refuse(r)
  <2>1. req[r].value \in GlobalRoles
    BY DEF UserRole, Sound, RequestsChecked, Admitted, Values
  <2>2. PICK old, new : old = users[u] /\ new = [users[u] EXCEPT !.role = req[r].value]
    OBVIOUS
  <2>3. users[u] # Null /\ users[u] \in Account
    BY <1>1, <1>3, RankFacts DEF UserRole, Sound
  <2>4. new \in Account /\ new.role = req[r].value /\ new.enabled = old.enabled
    BY <2>1, <2>2, <2>3 DEF Account
  <2>5. Decide(r, u, old, new)
    BY <1>1, <1>3, <2>2 DEF UserRole, Decide
  <2>6. ~(users[u].role = "admin" /\ req[r].value # "admin" /\ OtherAdmins(u) = {})
    BY <1>1, <1>3 DEF UserRole
  <2>7. raced \/ (new # Null /\ ~Lessens([old |-> old, new |-> new])) \/ OtherAdmins(u) # {}
    <3>1. CASE new.role = "admin"
      BY <2>4, <3>1, NullIsNone DEF Lessens
    <3>2. CASE users[u].role # "admin"
      BY <3>2, <2>3, OthersRemain, RankFacts DEF Sound
    <3> QED
      BY <2>4, <2>6, <3>1, <3>2
  <2>8. UNCHANGED <<users, grants, sso, started>>
    BY DEF UserRole
  <2> QED
    BY <2>5, <2>7, <2>8, GuardedDecides
<1> QED
  BY <1>2, <1>3

\* Toggling and deleting look at the last enabled administrator alike
LEMMA GuardedUnprotected ==
  ASSUME Sound, Guarded, NEW r \in Requests, NEW u \in Users, users[u] # Null, ~Protected(r, u)
  PROVE  raced \/ OtherAdmins(u) # {}
  BY OthersRemain, RankFacts DEF Sound, Protected

LEMMA GuardedUserToggle ==
  ASSUME Sound, Guarded, NEW r \in Requests, UserToggle(r)
  PROVE  Guarded'
<1>1. PICK u \in Users : u = req[r].target
  BY DEF Sound, RequestsChecked, UserToggle, Admitted
<1>2. CASE Refuse(r)
  BY <1>2, GuardedRefuse DEF UserToggle
<1>3. CASE ~Refuse(r)
  <2>1. PICK old, new : old = users[u] /\ new = [users[u] EXCEPT !.enabled = ~@]
    OBVIOUS
  <2>2. users[u] # Null /\ ~Protected(r, u)
    BY <1>1, <1>3 DEF UserToggle
  <2>3. Decide(r, u, old, new)
    BY <1>1, <1>3, <2>1 DEF UserToggle, Decide
  <2>4. raced \/ OtherAdmins(u) # {}
    BY <2>2, GuardedUnprotected
  <2>5. UNCHANGED <<users, grants, sso, started>>
    BY DEF UserToggle
  <2> QED
    BY <2>3, <2>4, <2>5, GuardedDecides
<1> QED
  BY <1>2, <1>3

LEMMA GuardedUserDelete ==
  ASSUME Sound, Guarded, NEW r \in Requests, UserDelete(r)
  PROVE  Guarded'
<1>1. PICK u \in Users : u = req[r].target
  BY DEF Sound, RequestsChecked, UserDelete, Admitted
<1>2. CASE Refuse(r)
  BY <1>2, GuardedRefuse DEF UserDelete
<1>3. CASE ~Refuse(r)
  <2>1. PICK old : old = users[u]
    OBVIOUS
  <2>2. users[u] # Null /\ ~Protected(r, u)
    BY <1>1, <1>3 DEF UserDelete
  <2>3. Decide(r, u, old, Null)
    BY <1>1, <1>3, <2>1 DEF UserDelete, Decide
  <2>4. raced \/ OtherAdmins(u) # {}
    BY <2>2, GuardedUnprotected
  <2>5. UNCHANGED <<users, grants, sso, started>>
    BY DEF UserDelete
  <2> QED
    BY <2>3, <2>4, <2>5, GuardedDecides
<1> QED
  BY <1>2, <1>3

LEMMA GuardedSignIn ==
  ASSUME Sound, Guarded, UNCHANGED <<users, grants, sso, started>>, NEW r \in Requests,
         req[r].phase = "admitted", req[r].op = "sso_callback",
         NEW u \in Users, NEW old \in Row, NEW row \in Account, NEW role \in GlobalRoles,
         old # Null => old = users[u] /\ old.enabled = row.enabled /\ old.role = row.role,
         SignIn(r, u, old, row, role)
  PROVE  Guarded'
<1>1. CASE Refuse(r)
  BY <1>1, GuardedRefuse
<1>2. CASE ~Refuse(r)
  <2>1. PICK new : new = [row EXCEPT !.role = RoleFor(u, row, role), !.email = EmailOf[req[r].by]]
    OBVIOUS
  <2>2. req[r].by \in Identities
    BY DEF Sound, RequestsChecked, Admitted
  <2>3. /\ new \in Account /\ new # Null
        /\ new.enabled = row.enabled /\ new.role = RoleFor(u, row, role)
    BY <2>1, <2>2, NullIsNone DEF Account, RoleFor, Emails
  <2>4. Decide(r, u, old, new)
    BY <1>2, <2>1 DEF SignIn, Decide
  <2>5. raced \/ old = Null \/ ~Lessens([old |-> old, new |-> new]) \/ OtherAdmins(u) # {}
    <3>1. CASE old # Null /\ row.role = "admin" /\ OtherAdmins(u) = {}
      BY <2>3, <3>1 DEF RoleFor, Lessens
    <3>2. CASE old # Null /\ row.role # "admin"
      BY <3>2, OthersRemain, RankFacts DEF Sound
    <3> QED
      BY <3>1, <3>2
  <2> QED
    BY <2>3, <2>4, <2>5, GuardedDecides
<1> QED
  BY <1>1, <1>2

LEMMA GuardedSsoCallback ==
  ASSUME Sound, Guarded, NEW r \in Requests, SsoCallback(r)
  PROVE  Guarded'
<1>1. req[r].phase = "admitted" /\ req[r].op = "sso_callback" /\ UNCHANGED <<users, grants, sso, started>>
  BY DEF SsoCallback
<1>2. PICK i \in Identities : i = req[r].by
  BY <1>1 DEF Sound, RequestsChecked, Admitted
<1>3. CASE Refuse(r)
  BY <1>1, <1>3, GuardedRefuse
<1>4. ASSUME NEW u \in Known(i), NEW role \in GlobalRoles, SignIn(r, u, users[u], users[u], role)
      PROVE  Guarded'
  <2>1. u \in Users /\ users[u] # Null /\ users[u] \in Account
    BY <1>4, RankFacts DEF Known, Existing, Sound
  <2>2. PICK old : old = users[u]
    OBVIOUS
  <2>3. SignIn(r, u, old, old, role)
    BY <1>4, <2>2 DEF SignIn
  <2> QED
    BY <1>1, <2>1, <2>2, <2>3, GuardedSignIn DEF Row
<1>5. ASSUME NEW u \in Linkable(i), NEW role \in GlobalRoles,
             SignIn(r, u, users[u], [users[u] EXCEPT !.sso = i], role)
      PROVE  Guarded'
  <2>1. u \in Users /\ users[u] # Null /\ users[u] \in Account
    BY <1>5, RankFacts DEF Linkable, Existing, Sound
  <2>2. PICK old, row : old = users[u] /\ row = [users[u] EXCEPT !.sso = i]
    OBVIOUS
  <2>3. row \in Account /\ row.role = old.role /\ row.enabled = old.enabled
    BY <2>1, <2>2 DEF Account
  <2>4. SignIn(r, u, old, row, role)
    BY <1>5, <2>2 DEF SignIn
  <2> QED
    BY <1>1, <2>1, <2>2, <2>3, <2>4, GuardedSignIn DEF Row
<1>6. ASSUME NEW u \in Users, NEW role \in GlobalRoles,
             SignIn(r, u, Null, NewAccount("user", EmailOf[i], i), role)
      PROVE  Guarded'
  <2>1. PICK row : row = NewAccount("user", EmailOf[i], i)
    OBVIOUS
  <2>2. row \in Account
    BY <2>1, NewIsAccount DEF Emails, GlobalRoles
  <2>3. SignIn(r, u, Null, row, role)
    BY <1>6, <2>1 DEF SignIn
  <2> QED
    BY <1>1, <2>2, <2>3, GuardedSignIn DEF Row
<1> QED
  BY <1>2, <1>3, <1>4, <1>5, <1>6 DEF SsoCallback

\* Nobody but the target of a commit loses anything, and that one only by what
\* the request set out to write
LEMMA CommitLessens ==
  ASSUME Sound, Sound', NEW r \in Requests, CommitUser(r), NEW u \in EnabledAdmins, u \notin EnabledAdmins'
  PROVE  u = req[r].target /\ Lessens(req[r])
<1>1. u \in Users /\ users[u] # Null /\ users[u].enabled /\ users[u].role = "admin" /\ users[u] \in Account
  BY RankFacts DEF EnabledAdmins, Sound
<1>2. ~(users'[u] # Null /\ users'[u].enabled /\ users'[u].role = "admin")
  BY <1>1, NextRanks DEF EnabledAdmins, Sound
<1>3. PICK t, old, new : t = req[r].target /\ old = req[r].old /\ new = req[r].new
  OBVIOUS
<1>4. t \in Users /\ old \in Row /\ new \in Row /\ users \in [Users -> Row]
  BY <1>3, CommitFacts DEF Sound, AccountTypeOK
<1>5. CASE UNCHANGED <<users, grants>>
  BY <1>1, <1>2, <1>5
<1>6. CASE new = Null /\ CommitWrites(r, Null)
  BY <1>1, <1>2, <1>3, <1>4, <1>6 DEF CommitWrites, Lessens
<1>7. CASE users[t] = Null /\ CommitWrites(r, new)
  BY <1>1, <1>2, <1>3, <1>4, <1>7 DEF CommitWrites
<1>8. CASE new # Null /\ old # Null /\ users[t] # Null /\ CommitWrites(r, Written(users[t], old, new))
  <2>1. PICK row : row = Written(users[t], old, new)
    OBVIOUS
  <2>2. users' = [users EXCEPT ![t] = row]
    BY <1>3, <1>8, <2>1 DEF CommitWrites
  <2>3. u = t
    BY <1>1, <1>2, <1>4, <2>2
  <2>4. /\ row \in Account /\ row # Null
        /\ row.role = IF new.role = old.role THEN users[t].role ELSE new.role
        /\ row.enabled = IF new.enabled = old.enabled THEN users[t].enabled ELSE new.enabled
    BY <1>1, <1>4, <1>8, <2>1, <2>3, WrittenFacts, NullIsNone DEF Row
  <2>5. ~(row.enabled /\ row.role = "admin")
    BY <1>2, <1>4, <2>2, <2>3, <2>4
  <2>6. new \in Account /\ old \in Account
    BY <1>4, <1>8 DEF Row
  <2>7. \/ new.role # old.role /\ new.role # "admin"
        \/ new.enabled # old.enabled /\ ~new.enabled
    BY <1>1, <2>3, <2>4, <2>5, <2>6
  <2> QED
    BY <1>3, <1>8, <2>3, <2>7 DEF Lessens
<1> QED
  BY <1>3, <1>5, <1>6, <1>7, <1>8, CommitFacts

LEMMA GuardedCommitUser ==
  ASSUME Sound, Sound', Guarded, NEW r \in Requests, CommitUser(r)
  PROVE  Guarded'
<1>1. /\ req[r].phase = "decided" /\ req[r].op # "tenant_grant"
      /\ \A o \in Requests : req'[o] = IF o = r THEN Free ELSE req[o]
  BY DEF CommitUser, Sound, AccountTypeOK
<1>2. Free.phase # "decided"
  BY FreeFacts
<1>3. CASE TakesAway
  <2>1. PICK u \in EnabledAdmins : u \notin EnabledAdmins'
    BY <1>3 DEF TakesAway, EnabledAdmins
  <2>2. u = req[r].target /\ Lessens(req[r])
    BY <2>1, CommitLessens
  <2>3. EnabledAdmins \ {u} \subseteq EnabledAdmins'
    BY <2>2, CommitLessens
  <2>4. overtaken' = {o \in Requests \ {r} : req[o].phase = "decided"} /\ raced' = (raced \/ r \in overtaken)
    BY <1>3 DEF CommitUser
  <2>5. \A o \in Requests : Spared(o)'
    BY <1>1, <1>2, <2>4 DEF Spared
  <2>6. raced' \/ OtherAdmins(u) # {}
    BY <1>1, <2>2, <2>4 DEF Guarded, Spared
  <2> QED
    BY <2>3, <2>5, <2>6 DEF Guarded, OtherAdmins
<1>4. CASE ~TakesAway
  <2>1. EnabledAdmins \subseteq EnabledAdmins'
    BY <1>4 DEF TakesAway, EnabledAdmins
  <2>2. overtaken' = overtaken \ {r} /\ raced' = raced
    BY <1>4 DEF CommitUser
  <2> QED
    BY <1>1, <1>2, <2>1, <2>2, GuardedKept
<1> QED
  BY <1>3, <1>4

LEMMA GuardedConsole ==
  ASSUME Sound, Sound', Guarded, Console
  PROVE  Guarded'
<1>1. raced' = raced /\ \A o \in Requests : req'[o].phase # "decided" \/ (req'[o] = req[o] /\ overtaken' = overtaken)
  BY FreeFacts DEF Console, ManageReset, ManageCreate, Restart
<1>2. ASSUME NEW u \in EnabledAdmins PROVE u \in EnabledAdmins'
  <2>1. u \in Users /\ users[u] # Null /\ users[u].enabled /\ users[u].role = "admin" /\ users[u] \in Account
    BY RankFacts DEF EnabledAdmins, Sound
  <2>2. users'[u] # Null /\ users'[u].enabled /\ users'[u].role = "admin"
    <3>1. ASSUME NEW o \in Users, ManageReset(o) PROVE users'[u] = [users[u] EXCEPT !.enabled = TRUE] \/ users'[u] = users[u]
      BY <2>1, <3>1 DEF ManageReset, Sound, AccountTypeOK
    <3>2. ASSUME NEW o \in Users, NEW role \in GlobalRoles, ManageCreate(o, role) PROVE users'[u] = users[u]
      BY <2>1, <3>2 DEF ManageCreate, Sound, AccountTypeOK
    <3>3. ASSUME Restart PROVE users'[u] = users[u]
      BY <2>1, <3>3 DEF Restart, Existing
    <3>4. users'[u] = [users[u] EXCEPT !.enabled = TRUE] \/ users'[u] = users[u]
      BY <3>1, <3>2, <3>3 DEF Console
    <3>5. PICK row : row = [users[u] EXCEPT !.enabled = TRUE]
      OBVIOUS
    <3>6. row \in Account /\ row.enabled /\ row.role = "admin"
      BY <2>1, <3>5 DEF Account
    <3> QED
      BY <2>1, <3>4, <3>5, <3>6, NullIsNone
  <2> QED
    BY <2>1, <2>2, NextRanks DEF EnabledAdmins, Sound
<1> QED
  BY <1>1, <1>2, GuardedKept

LEMMA GuardedStep ==
  ASSUME Sound, Sound', Guarded, [Next]_vars
  PROVE  Guarded'
<1>1. ASSUME NEW r \in Requests, NEW q, req' = [req EXCEPT ![r] = q], q.phase # "decided" \/ q.op = "tenant_grant",
             UNCHANGED <<users, raced>>, overtaken' = overtaken \/ overtaken' = overtaken \ {r}
      PROVE  Guarded'
  <2>1. EnabledAdmins' = EnabledAdmins
    BY <1>1, SameAdmins DEF Sound
  <2>2. \A o \in Requests : req'[o] = IF o = r THEN q ELSE req[o]
    BY <1>1 DEF Sound, AccountTypeOK
  <2> QED
    BY <1>1, <2>1, <2>2, GuardedKept
<1>2. ASSUME NEW r \in Requests, NEW p \in Users, NEW u \in Users, NEW op, NEW value, Admit(r, p, op, u, value)
      PROVE  Guarded'
  <2>1. PICK q : q = [Free EXCEPT !.phase = "admitted", !.by = p, !.rank = Rank(p),
                                  !.op = op, !.target = u, !.value = value]
    OBVIOUS
  <2>2. q.phase = "admitted"
    BY <2>1 DEF Free
  <2> QED
    BY <1>1, <1>2, <2>1, <2>2 DEF Admit
<1>3. ASSUME NEW r \in Requests, NEW i \in Identities, Arrive(r, i) PROVE Guarded'
  <2>1. PICK q : q = [Free EXCEPT !.phase = "admitted", !.by = i, !.op = "sso_callback"]
    OBVIOUS
  <2>2. q.phase = "admitted"
    BY <2>1 DEF Free
  <2> QED
    BY <1>1, <1>3, <2>1, <2>2 DEF Arrive
<1>4. ASSUME NEW r \in Requests, TenantGrant(r) PROVE Guarded'
  <2>1. PICK q : q = [req[r] EXCEPT !.phase = "decided", !.had = grants[req[r].target]]
    OBVIOUS
  <2>2. q.op = "tenant_grant"
    BY <1>4, <2>1, RequestFacts DEF TenantGrant, Sound, Request
  <2>3. CASE Refuse(r)
    BY <1>4, <2>3, GuardedRefuse DEF TenantGrant
  <2>4. CASE ~Refuse(r)
    <3>1. req' = [req EXCEPT ![r] = q] /\ UNCHANGED <<users, raced, overtaken>>
      BY <1>4, <2>1, <2>4 DEF TenantGrant, Sound, AccountTypeOK
    <3> QED
      BY <1>1, <2>2, <3>1
  <2> QED
    BY <2>3, <2>4
<1>5. ASSUME NEW r \in Requests, TenantRevoke(r) \/ CommitGrant(r) PROVE Guarded'
  BY <1>1, <1>5, FreeFacts DEF TenantRevoke, CommitGrant, Refuse
<1>6. CASE UNCHANGED vars
  BY <1>6 DEF vars, Guarded, Spared, Lessens, OtherAdmins, EnabledAdmins, Rank
<1> QED
  BY <1>2, <1>3, <1>4, <1>5, <1>6, GuardedUserCreate, GuardedUserRole, GuardedUserToggle, GuardedUserDelete,
     GuardedSsoCallback, GuardedCommitUser, GuardedConsole DEF Next, Handle

\* However many requests, people and restarts there are, an enabled
\* administrator is left, unless a request took one away that had counted
\* before another took one away: user_role, user_toggle, user_delete,
\* account_for, manage.py, bootstrap_admin.
THEOREM AnAdminRemains == Spec => []AdminRemains
<1>1. Init => Guarded
  BY GuardedInit
<1>2. Sound /\ Sound' /\ Guarded /\ [Next]_vars => Guarded'
  BY GuardedStep
<1>3. Guarded => AdminRemains
  BY DEF Guarded, AdminRemains
<1> QED
  BY <1>1, <1>2, <1>3, RequestsAreChecked, PTL DEF Spec
=============================================================================
