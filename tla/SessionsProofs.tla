---------------------------- MODULE SessionsProofs ----------------------------
(***************************************************************************)
(* Sessions, for any number of users, sessions, keys and requests: what    *)
(* was ended stays ended, a session that is used stays open, the pages     *)
(* list what is accepted, and failed sign-ins stay within their limits.    *)
(***************************************************************************)
EXTENDS SessionsProps, FiniteSetTheorems, TLAPS

-----------------------------------------------------------------------------
(* The types, and what the requests and rows of a state have to do with each *)
(* other                                                                     *)

SessionTypeOK ==
  /\ clock \in Times
  /\ members \in [Members -> {"enabled", "disabled", "gone"}]
  /\ sessions \in [SessionIds -> Session \union {None}]
  /\ keys \in [KeyIds -> Key \union {None}]
  /\ idle \in Nat
  /\ failures \in [Members \union {Client} -> Seq(Times)]
  /\ request \in [Visits -> SessionRequest]
  /\ requested \in Nat
  /\ lastUse \in [SessionIds -> Times]
  /\ ended \subseteq SessionIds

\* What is to end has its row, and the row says so
EndedRows == \A s \in ended : sessions[s] # None /\ sessions[s].revoked

\* end_sessions selected what worked, and while the user is there, so are the rows
Selected(q) ==
  /\ q.cut \subseteq q.ids
  /\ members[q.user] # "gone" => \A o \in q.ids : sessions[o] # None /\ sessions[o].user = q.user

RequestsKnown ==
  \A r \in Visits :
    /\ request[r].phase # "free" => request[r].user \in Members
    /\ request[r].phase = "ending" => Selected(request[r])

\* What is written of the last use is less than TOUCH_EVERY behind it
UsesWritten == \A s \in SessionIds : sessions[s] # None => lastUse[s] < sessions[s].seen + TouchEvery

Orderly == SessionTypeOK /\ EndedRows /\ RequestsKnown /\ UsesWritten

-----------------------------------------------------------------------------

LEMMA SessionFacts ==
  /\ MaxClock \in Nat /\ MaxAge \in Nat /\ SoonDays \in Nat /\ MaxVisits \in Nat
  /\ PerAccount \in Nat \ {0} /\ PerClient \in Nat \ {0} /\ Window \in Nat \ {0} /\ TouchEvery \in Nat \ {0}
  /\ None \notin Session /\ None \notin Key /\ None \notin SessionIds /\ None \notin Nat
  /\ Times \subseteq Nat
  BY SessionConstants DEF SessionConstants, Times

LEMMA RowFacts ==
  ASSUME SessionTypeOK, NEW s \in SessionIds
  PROVE  sessions[s] # None => sessions[s] \in Session
  BY DEF SessionTypeOK

LEMMA NoRequestFacts == NoRequest \in SessionRequest /\ NoRequest.phase = "free"
  BY DEF NoRequest, SessionRequest

\* A touched row is a row, with its user and whether it is revoked; what is
\* written of its last use is right when that is now
LEMMA TouchedFacts ==
  ASSUME SessionTypeOK, NEW s \in SessionIds, sessions[s] # None
  PROVE  /\ Touched(s) \in [SessionIds -> Session \union {None}]
         /\ \A o \in SessionIds \ {s} : Touched(s)[o] = sessions[o]
         /\ Touched(s)[s] \in Session
         /\ Touched(s)[s].user = sessions[s].user /\ Touched(s)[s].revoked = sessions[s].revoked
         /\ Touched(s)[s].seen \in Times /\ sessions[s].seen \in Times
         /\ Touched(s)[s].seen >= sessions[s].seen
         /\ clock < Touched(s)[s].seen + TouchEvery
<1>1. sessions[s] \in Session /\ sessions \in [SessionIds -> Session \union {None}] /\ clock \in Times
  BY RowFacts DEF SessionTypeOK
<1>2. sessions[s].seen \in Times /\ clock \in Nat /\ TouchEvery \in Nat \ {0} /\ sessions[s].seen \in Nat
  BY <1>1, SessionFacts DEF Session
<1>3. CASE clock - sessions[s].seen >= TouchEvery
  <2>1. Touched(s) = [sessions EXCEPT ![s].seen = clock]
    BY <1>3 DEF Touched
  <2>2. PICK row : row = [sessions[s] EXCEPT !.seen = clock]
    OBVIOUS
  <2>3. row \in Session /\ row.user = sessions[s].user /\ row.revoked = sessions[s].revoked /\ row.seen = clock
    BY <1>1, <2>2 DEF Session
  <2>4. Touched(s) = [sessions EXCEPT ![s] = row]
    BY <2>1, <2>2
  <2>5. clock >= sessions[s].seen /\ clock < clock + TouchEvery
    BY <1>2, <1>3
  <2>6. Touched(s)[s] = row
    BY <1>1, <2>4
  <2> QED
    BY <1>1, <1>2, <2>3, <2>4, <2>5, <2>6
<1>4. CASE ~(clock - sessions[s].seen >= TouchEvery)
  <2>1. Touched(s) = sessions
    BY <1>4 DEF Touched
  <2> QED
    BY <1>1, <1>2, <1>4, <2>1
<1> QED
  BY <1>3, <1>4

\* Revoking changes that column alone
LEMMA RevokedFacts ==
  ASSUME NEW table \in [SessionIds -> Session \union {None}], NEW ids \in SUBSET SessionIds
  PROVE  /\ Revoked(table, ids) \in [SessionIds -> Session \union {None}]
         /\ \A o \in SessionIds \ ids : Revoked(table, ids)[o] = table[o]
         /\ \A o \in SessionIds : Revoked(table, ids)[o] = None <=> table[o] = None
         /\ \A o \in SessionIds : table[o] # None =>
              /\ Revoked(table, ids)[o].user = table[o].user
              /\ Revoked(table, ids)[o].seen = table[o].seen
              /\ table[o].revoked \/ o \in ids => Revoked(table, ids)[o].revoked
<1>1. ASSUME NEW o \in SessionIds, o \in ids, table[o] # None
      PROVE  /\ Revoked(table, ids)[o] \in Session
             /\ Revoked(table, ids)[o].user = table[o].user
             /\ Revoked(table, ids)[o].seen = table[o].seen
             /\ Revoked(table, ids)[o].revoked
  <2>1. table[o] \in Session /\ Revoked(table, ids)[o] = [table[o] EXCEPT !.revoked = TRUE]
    BY <1>1 DEF Revoked
  <2> QED
    BY <2>1 DEF Session
<1>2. \A o \in SessionIds : o \notin ids \/ table[o] = None => Revoked(table, ids)[o] = table[o]
  BY DEF Revoked
<1>3. Revoked(table, ids) \in [SessionIds -> Session \union {None}]
  <2>1. \A o \in SessionIds : Revoked(table, ids)[o] \in Session \union {None}
    BY <1>1, <1>2
  <2> QED
    BY <2>1 DEF Revoked
<1> QED
  BY <1>1, <1>2, <1>3, SessionFacts

LEMMA NothingRevoked ==
  ASSUME NEW table \in [SessionIds -> Session \union {None}]
  PROVE  Revoked(table, {}) = table
  BY DEF Revoked

-----------------------------------------------------------------------------
(* Steps                                                                     *)

\* Rows keep their user, and what is revoked stays so
RowsStay ==
  \A o \in SessionIds : sessions[o] # None =>
    /\ sessions'[o] # None /\ sessions'[o].user = sessions[o].user
    /\ sessions[o].revoked => sessions'[o].revoked

LEMMA Keeps ==
  ASSUME Orderly, SessionTypeOK', RowsStay, UsesWritten',
         \A u \in Members : members[u] = "gone" => members'[u] = "gone",
         \A r \in Visits : \/ request'[r].phase = "free"
                           \/ request'[r] = request[r]
                           \/ /\ request'[r].user \in Members
                              /\ request'[r].phase = "ending" => Selected(request[r])',
         \A o \in ended' : o \in ended \/ (sessions'[o] # None /\ sessions'[o].revoked)
  PROVE  Orderly'
<1>1. EndedRows'
  BY DEF Orderly, SessionTypeOK, EndedRows, RowsStay
<1>2. ASSUME NEW r \in Visits
      PROVE  /\ request'[r].phase # "free" => request'[r].user \in Members
             /\ request'[r].phase = "ending" => Selected(request[r])'
  <2>1. CASE request'[r] = request[r] /\ request[r].phase = "ending"
    <3>1. PICK q : q = request[r] /\ q = request'[r]
      BY <2>1
    <3>2. q \in SessionRequest /\ q.user \in Members /\ Selected(q)
      BY <2>1, <3>1 DEF Orderly, SessionTypeOK, RequestsKnown
    <3>3. /\ q.cut \subseteq q.ids /\ q.ids \subseteq SessionIds
          /\ members'[q.user] # "gone" => \A o \in q.ids : sessions'[o] # None /\ sessions'[o].user = q.user
      BY <3>2 DEF Selected, RowsStay, SessionRequest
    <3> QED
      BY <3>1, <3>2, <3>3 DEF Selected
  <2>2. CASE request'[r] = request[r] /\ request[r].phase # "ending"
    BY <2>2 DEF Orderly, RequestsKnown
  <2> QED
    BY <2>1, <2>2
<1>3. RequestsKnown'
  BY <1>2 DEF RequestsKnown
<1> QED
  BY <1>1, <1>3 DEF Orderly

\* What a request with a session does to the rows
LEMMA TouchedRows ==
  ASSUME Orderly, NEW s \in SessionIds, sessions[s] # None, NEW ids \in SUBSET SessionIds,
         sessions' = Revoked(Touched(s), ids),
         lastUse' = lastUse \/ lastUse' = [lastUse EXCEPT ![s] = clock]
  PROVE  /\ sessions' \in [SessionIds -> Session \union {None}]
         /\ lastUse' \in [SessionIds -> Times]
         /\ RowsStay /\ UsesWritten'
         /\ \A o \in ids : sessions[o] # None => sessions'[o] # None /\ sessions'[o].revoked
<1>1. SessionTypeOK /\ UsesWritten /\ lastUse \in [SessionIds -> Times] /\ clock \in Times /\ Times \subseteq Nat
      /\ TouchEvery \in Nat
  BY SessionFacts DEF Orderly, SessionTypeOK
<1>2. PICK table : table = Touched(s)
  OBVIOUS
<1>3. /\ table \in [SessionIds -> Session \union {None}]
      /\ \A o \in SessionIds \ {s} : table[o] = sessions[o]
      /\ table[s] \in Session /\ table[s] # None
      /\ table[s].user = sessions[s].user /\ table[s].revoked = sessions[s].revoked
      /\ table[s].seen \in Times /\ sessions[s].seen \in Times
      /\ table[s].seen >= sessions[s].seen
      /\ clock < table[s].seen + TouchEvery
  BY <1>1, <1>2, TouchedFacts, SessionFacts
<1>4. /\ sessions' \in [SessionIds -> Session \union {None}]
      /\ \A o \in SessionIds \ ids : sessions'[o] = table[o]
      /\ \A o \in SessionIds : sessions'[o] = None <=> table[o] = None
      /\ \A o \in SessionIds : table[o] # None =>
           /\ sessions'[o].user = table[o].user
           /\ sessions'[o].seen = table[o].seen
           /\ table[o].revoked \/ o \in ids => sessions'[o].revoked
  BY <1>2, <1>3, RevokedFacts
<1>5. RowsStay
  BY <1>3, <1>4 DEF RowsStay
<1>6. lastUse' \in [SessionIds -> Times]
  BY <1>1
<1>7. ASSUME NEW o \in SessionIds, sessions'[o] # None
      PROVE  lastUse'[o] < sessions'[o].seen + TouchEvery
  <2>1. CASE o # s
    BY <1>1, <1>3, <1>4, <1>7, <2>1 DEF UsesWritten
  <2>2. CASE o = s
    <3>1. lastUse[s] < sessions[s].seen + TouchEvery /\ lastUse[s] \in Nat /\ clock \in Nat
          /\ sessions[s].seen \in Nat /\ table[s].seen \in Nat
      BY <1>1, <1>3 DEF UsesWritten
    <3>2. sessions'[o].seen = table[s].seen
      BY <1>3, <1>4, <2>2
    <3>3. lastUse'[o] = lastUse[s] \/ lastUse'[o] = clock
      BY <1>1, <2>2
    <3> QED
      BY <1>1, <1>3, <3>1, <3>2, <3>3
  <2> QED
    BY <2>1, <2>2
<1> QED
  BY <1>3, <1>4, <1>5, <1>6, <1>7 DEF UsesWritten

LEMMA OnlyTouchedRows ==
  ASSUME Orderly, NEW s \in SessionIds, sessions[s] # None, sessions' = Touched(s),
         lastUse' = lastUse \/ lastUse' = [lastUse EXCEPT ![s] = clock]
  PROVE  /\ sessions' \in [SessionIds -> Session \union {None}]
         /\ lastUse' \in [SessionIds -> Times]
         /\ RowsStay /\ UsesWritten'
<1>1. Touched(s) = Revoked(Touched(s), {})
  BY TouchedFacts, NothingRevoked DEF Orderly
<1> QED
  BY <1>1, TouchedRows

LEMMA SameRows ==
  ASSUME Orderly, UNCHANGED <<sessions, lastUse>>
  PROVE  RowsStay /\ UsesWritten'
  BY DEF Orderly, RowsStay, UsesWritten

LEMMA SessionOfBy ==
  ASSUME NEW s \in SessionIds, By(s)
  PROVE  sessions[s] # None /\ Accepted(s) /\ lastUse' = [lastUse EXCEPT ![s] = clock]
         /\ requested' = requested + 1
  BY DEF By, Works, Accepted, Start

LEMMA OrderlyInit == SessionInit => Orderly
<1> SUFFICES ASSUME SessionInit PROVE Orderly
  OBVIOUS
<1>1. 0 \in Times /\ TouchEvery \in Nat \ {0} /\ MaxAge \in Nat
  BY SessionFacts DEF Times
<1>2. \A u \in Members : [user |-> u, seen |-> 0, expires |-> MaxAge, revoked |-> FALSE] \in Session
  BY <1>1 DEF Session
<1>3. SessionTypeOK
  <2>1. sessions \in [SessionIds -> Session \union {None}]
    BY <1>2 DEF SessionInit
  <2>2. failures \in [Members \union {Client} -> Seq(Times)]
    BY DEF SessionInit, NoFailures
  <2> QED
    BY <1>1, <2>1, <2>2, NoRequestFacts, SessionConstants DEF SessionInit, SessionTypeOK, SessionConstants
<1>4. UsesWritten
  <2> SUFFICES ASSUME NEW s \in SessionIds, sessions[s] # None PROVE lastUse[s] < sessions[s].seen + TouchEvery
    BY DEF UsesWritten
  <2>1. PICK u \in Members : sessions[s] = [user |-> u, seen |-> 0, expires |-> MaxAge, revoked |-> FALSE]
    BY DEF SessionInit
  <2> QED
    BY <1>1, <2>1 DEF SessionInit
<1>5. EndedRows /\ RequestsKnown
  BY NoRequestFacts DEF SessionInit, EndedRows, RequestsKnown
<1> QED
  BY <1>3, <1>4, <1>5 DEF Orderly

\* What one request does to its own variables
LEMMA OneRequest ==
  ASSUME SessionTypeOK, NEW r \in Visits, NEW q \in SessionRequest, request' = [request EXCEPT ![r] = q]
  PROVE  /\ request' \in [Visits -> SessionRequest]
         /\ request'[r] = q
         /\ \A o \in Visits \ {r} : request'[o] = request[o]
  BY DEF SessionTypeOK

LEMMA OrderlyLogin ==
  ASSUME Orderly, NEW r \in Visits, NEW u \in Members, Login(r, u) \/ SsoSignIn(r, u)
  PROVE  Orderly'
<1>1. PICK q : /\ q \in {[NoRequest EXCEPT !.phase = "verifying", !.op = "login", !.user = u],
                        [NoRequest EXCEPT !.phase = "signing", !.op = "sso", !.user = u]}
               /\ request' = [request EXCEPT ![r] = q]
  BY DEF Login, SsoSignIn
<1>2. q \in SessionRequest /\ q.phase # "ending" /\ q.user = u
  BY <1>1 DEF NoRequest, SessionRequest
<1>3. SessionTypeOK /\ UNCHANGED <<clock, tables, failures, history>> /\ requested' = requested + 1
  BY DEF Orderly, Login, SsoSignIn, Start
<1>4. /\ request' \in [Visits -> SessionRequest]
      /\ request'[r] = q /\ \A o \in Visits \ {r} : request'[o] = request[o]
  BY <1>1, <1>2, <1>3, OneRequest
<1>5. SessionTypeOK'
  BY <1>3, <1>4 DEF SessionTypeOK, tables, history
<1> QED
  BY <1>2, <1>3, <1>4, <1>5, SameRows, Keeps DEF tables, history

LEMMA FailureTypes ==
  ASSUME SessionTypeOK, NEW u \in Members
  PROVE  /\ FailedSignIn(u) \in [Members \union {Client} -> Seq(Times)]
         /\ Succeeded(u) \in [Members \union {Client} -> Seq(Times)]
<1>1. clock \in Times /\ failures \in [Members \union {Client} -> Seq(Times)]
  BY DEF SessionTypeOK
<1>2. \A s \in Seq(Times) : Append(s, clock) \in Seq(Times)
  BY <1>1
<1>3. FailedSignIn(u) \in [Members \union {Client} -> Seq(Times)]
  BY <1>1, <1>2 DEF FailedSignIn
<1>4. Succeeded(u) \in [Members \union {Client} -> Seq(Times)]
  BY <1>1 DEF Succeeded, NoFailures
<1> QED
  BY <1>3, <1>4

LEMMA OrderlyAuthenticate ==
  ASSUME Orderly, NEW r \in Visits, Authenticate(r)
  PROVE  Orderly'
<1>1. request[r].phase = "verifying" /\ request[r].user \in Members /\ request[r] \in SessionRequest
  BY DEF Authenticate, Orderly, RequestsKnown, SessionTypeOK
<1>2. PICK u \in Members : u = request[r].user
  BY <1>1
<1>3. PICK q : /\ q \in {[request[r] EXCEPT !.phase = "signing"], NoRequest}
               /\ request' = [request EXCEPT ![r] = q]
               /\ failures' = Succeeded(u) \/ failures' = FailedSignIn(u)
  BY <1>2 DEF Authenticate, Orderly, SessionTypeOK
<1>4. q \in SessionRequest /\ q.phase # "ending" /\ (q.phase = "free" \/ q.user \in Members)
  BY <1>1, <1>3, NoRequestFacts DEF SessionRequest
<1>5. SessionTypeOK /\ UNCHANGED <<clock, tables, requested, history>>
  BY DEF Orderly, Authenticate
<1>6. /\ request' \in [Visits -> SessionRequest]
      /\ request'[r] = q /\ \A o \in Visits \ {r} : request'[o] = request[o]
  BY <1>3, <1>4, <1>5, OneRequest
<1>7. SessionTypeOK'
  BY <1>3, <1>5, <1>6, FailureTypes DEF SessionTypeOK, tables, history
<1> QED
  BY <1>4, <1>5, <1>6, <1>7, SameRows, Keeps DEF tables, history

LEMMA NewSessionFacts ==
  ASSUME SessionTypeOK, NEW u \in Members
  PROVE  NewSession(u) \in Session /\ NewSession(u).seen = clock /\ NewSession(u) # None
<1>1. clock \in Times /\ clock + MaxAge \in Nat
  BY SessionFacts DEF SessionTypeOK
<1>2. NewSession(u) \in Session /\ NewSession(u).seen = clock
  BY <1>1 DEF NewSession, Session
<1> QED
  BY <1>2, SessionFacts

\* A table of the same rows, in which more may be revoked
SameButRevoked(table) ==
  \A o \in SessionIds :
    /\ table[o] = None <=> sessions[o] = None
    /\ sessions[o] # None => /\ table[o].user = sessions[o].user
                             /\ table[o].seen = sessions[o].seen
                             /\ sessions[o].revoked => table[o].revoked

\* A new row where there was none
LEMMA InsertedRow ==
  ASSUME Orderly, NEW u \in Members, NEW s \in FreeIds, NEW table \in [SessionIds -> Session \union {None}],
         sessions' = [table EXCEPT ![s] = NewSession(u)], SameButRevoked(table),
         lastUse' = [lastUse EXCEPT ![s] = clock]
  PROVE  /\ sessions' \in [SessionIds -> Session \union {None}] /\ lastUse' \in [SessionIds -> Times]
         /\ RowsStay /\ UsesWritten'
         /\ \A o \in SessionIds \ {s} : sessions'[o] = table[o]
<1>1. s \in SessionIds /\ sessions[s] = None /\ table[s] = None
  BY DEF FreeIds, SameButRevoked
<1>2. NewSession(u) \in Session /\ NewSession(u).seen = clock /\ NewSession(u) # None
      /\ clock \in Times /\ clock \in Nat /\ TouchEvery \in Nat \ {0} /\ lastUse \in [SessionIds -> Times]
  BY NewSessionFacts, SessionFacts DEF Orderly, SessionTypeOK
<1>3. PICK new : new = NewSession(u)
  OBVIOUS
<1>4. sessions'[s] = new /\ \A o \in SessionIds \ {s} : sessions'[o] = table[o]
  BY <1>1, <1>3
<1>5. RowsStay
  BY <1>1, <1>4 DEF RowsStay, SameButRevoked
<1>6. UsesWritten'
  <2> SUFFICES ASSUME NEW o \in SessionIds, sessions'[o] # None
               PROVE  lastUse'[o] < sessions'[o].seen + TouchEvery
    BY DEF UsesWritten
  <2>1. CASE o = s
    BY <1>1, <1>2, <1>3, <1>4, <2>1
  <2>2. CASE o # s
    BY <1>1, <1>2, <1>4, <2>2 DEF Orderly, UsesWritten, SameButRevoked
  <2> QED
    BY <2>1, <2>2
<1> QED
  BY <1>1, <1>2, <1>3, <1>4, <1>5, <1>6

LEMMA OrderlyCommitSession ==
  ASSUME Orderly, NEW r \in Visits, CommitSession(r)
  PROVE  Orderly'
<1>1. request[r].user \in Members /\ SessionTypeOK
  BY DEF CommitSession, Orderly, RequestsKnown
<1>2. PICK u \in Members : u = request[r].user
  BY <1>1
<1>3. request' = [request EXCEPT ![r] = NoRequest] /\ UNCHANGED <<clock, members, keys, idle, failures, requested, ended>>
  BY DEF CommitSession
<1>4. /\ request' \in [Visits -> SessionRequest]
      /\ request'[r].phase = "free" /\ \A o \in Visits \ {r} : request'[o] = request[o]
  BY <1>1, <1>3, OneRequest, NoRequestFacts
<1>5. /\ sessions' \in [SessionIds -> Session \union {None}] /\ lastUse' \in [SessionIds -> Times]
      /\ RowsStay /\ UsesWritten'
  <2>1. CASE UNCHANGED <<sessions, lastUse>>
    BY <1>1, <2>1, SameRows DEF SessionTypeOK
  <2>2. ASSUME NEW s \in FreeIds, sessions' = [sessions EXCEPT ![s] = NewSession(u)],
               lastUse' = [lastUse EXCEPT ![s] = clock]
        PROVE  /\ sessions' \in [SessionIds -> Session \union {None}] /\ lastUse' \in [SessionIds -> Times]
               /\ RowsStay /\ UsesWritten'
    <3>1. PICK table : table = sessions
      OBVIOUS
    <3>2. table \in [SessionIds -> Session \union {None}] /\ sessions' = [table EXCEPT ![s] = NewSession(u)]
      BY <1>1, <2>2, <3>1 DEF SessionTypeOK
    <3>3. SameButRevoked(table)
      BY <3>1 DEF SameButRevoked
    <3> QED
      BY <2>2, <3>2, <3>3, InsertedRow
  <2> QED
    BY <1>2, <2>1, <2>2 DEF CommitSession
<1>6. SessionTypeOK'
  BY <1>1, <1>3, <1>4, <1>5 DEF SessionTypeOK
<1> QED
  BY <1>3, <1>4, <1>5, <1>6, Keeps

LEMMA OrderlyVisit ==
  ASSUME Orderly, NEW s \in SessionIds, Visit(s)
  PROVE  Orderly'
<1>1. /\ sessions[s] # None /\ requested' = requested + 1 /\ SessionTypeOK
      /\ UNCHANGED <<clock, members, keys, idle, failures, request, ended>>
  BY DEF Visit, Start, Orderly
<1>2. /\ sessions' \in [SessionIds -> Session \union {None}] /\ lastUse' \in [SessionIds -> Times]
      /\ RowsStay /\ UsesWritten'
  <2>1. CASE ~IdleSince(s)
    BY <1>1, <2>1, OnlyTouchedRows DEF Visit
  <2>2. CASE IdleSince(s)
    <3>1. sessions' = Revoked(sessions, {s}) /\ lastUse' = lastUse
      BY <2>2 DEF Visit
    <3>2. PICK table : table = sessions
      OBVIOUS
    <3>3. /\ table \in [SessionIds -> Session \union {None}] /\ sessions' = Revoked(table, {s})
          /\ lastUse \in [SessionIds -> Times]
      BY <1>1, <3>1, <3>2 DEF SessionTypeOK
    <3>4. /\ sessions' \in [SessionIds -> Session \union {None}]
          /\ \A o \in SessionIds : sessions'[o] = None <=> table[o] = None
          /\ \A o \in SessionIds : table[o] # None =>
               /\ sessions'[o].user = table[o].user
               /\ sessions'[o].seen = table[o].seen
               /\ table[o].revoked => sessions'[o].revoked
      BY <3>3, RevokedFacts
    <3> QED
      BY <3>1, <3>2, <3>3, <3>4 DEF Orderly, RowsStay, UsesWritten
  <2> QED
    BY <2>1, <2>2
<1>3. SessionTypeOK'
  BY <1>1, <1>2 DEF SessionTypeOK
<1> QED
  BY <1>1, <1>2, <1>3, Keeps

LEMMA OrderlyLogout ==
  ASSUME Orderly, NEW s \in SessionIds, Logout(s)
  PROVE  Orderly'
<1>1. /\ sessions[s] # None /\ requested' = requested + 1 /\ SessionTypeOK /\ lastUse' = lastUse
      /\ sessions' = Revoked(Touched(s), {s}) /\ ended' = ended \union {s}
      /\ UNCHANGED <<clock, members, keys, idle, failures, request>>
  BY DEF Logout, Start, Orderly, Accepted
<1>2. /\ sessions' \in [SessionIds -> Session \union {None}] /\ lastUse' \in [SessionIds -> Times]
      /\ RowsStay /\ UsesWritten' /\ sessions'[s] # None /\ sessions'[s].revoked
  BY <1>1, TouchedRows
<1>3. ended' \subseteq SessionIds
  BY <1>1 DEF SessionTypeOK
<1>4. SessionTypeOK'
  <2>1. SessionTypeOK /\ requested' = requested + 1 /\ UNCHANGED <<clock, members, keys, idle, failures, request>>
    BY <1>1
  <2> QED
    BY <1>2, <1>3, <2>1 DEF SessionTypeOK
<1> QED
  BY <1>1, <1>2, <1>4, Keeps

LEMMA OrderlySessionEnd ==
  ASSUME Orderly, NEW s \in SessionIds, NEW o \in SessionIds, SessionEnd(s, o)
  PROVE  Orderly'
<1>1. /\ sessions[s] # None /\ sessions[o] # None /\ requested' = requested + 1 /\ SessionTypeOK
      /\ lastUse' = [lastUse EXCEPT ![s] = clock]
      /\ sessions' = Revoked(Touched(s), {o}) /\ ended' = ended \union {o}
      /\ UNCHANGED <<clock, members, keys, idle, failures, request>>
  BY SessionOfBy DEF SessionEnd, Orderly
<1>2. /\ sessions' \in [SessionIds -> Session \union {None}] /\ lastUse' \in [SessionIds -> Times]
      /\ RowsStay /\ UsesWritten' /\ sessions'[o] # None /\ sessions'[o].revoked
  BY <1>1, TouchedRows
<1>3. ended' \subseteq SessionIds
  BY <1>1 DEF SessionTypeOK
<1>4. SessionTypeOK'
  <2>1. SessionTypeOK /\ requested' = requested + 1 /\ UNCHANGED <<clock, members, keys, idle, failures, request>>
    BY <1>1
  <2> QED
    BY <1>2, <1>3, <2>1 DEF SessionTypeOK
<1> QED
  BY <1>1, <1>2, <1>4, Keeps

\* The pages list what is accepted
LEMMA ActiveIsAccepted ==
  ASSUME SessionTypeOK, NEW u \in Members, NEW o \in SessionIds
  PROVE  o \in Active(u) <=> Accepted(o) /\ sessions[o].user = u
<1>1. clock \in Nat /\ idle \in Nat
  BY SessionFacts DEF SessionTypeOK
<1>2. sessions[o] # None => sessions[o] \in Session /\ sessions[o].seen \in Nat /\ sessions[o].expires \in Nat
  BY RowFacts, SessionFacts DEF Session
<1> QED
  BY <1>1, <1>2 DEF Active, Accepted, IdleSince

LEMMA OrderlyStartEnding ==
  ASSUME Orderly, NEW r \in Visits, NEW s \in SessionIds, NEW op \in Endings, NEW u \in Members,
         StartEnding(r, s, op, u)
  PROVE  Orderly'
<1>1. /\ sessions[s] # None /\ requested' = requested + 1 /\ SessionTypeOK
      /\ lastUse' = [lastUse EXCEPT ![s] = clock] /\ sessions' = Touched(s)
      /\ UNCHANGED <<clock, members, keys, idle, failures, ended>>
  BY SessionOfBy DEF StartEnding, Orderly
<1>2. /\ sessions' \in [SessionIds -> Session \union {None}] /\ lastUse' \in [SessionIds -> Times]
      /\ RowsStay /\ UsesWritten'
  BY <1>1, OnlyTouchedRows
<1>3. PICK keep, ids, cut :
        /\ keep = Kept(op, s, u) /\ ids = Active(u) \ {keep}
        /\ cut = {o \in SessionIds \ {IF op \in {"end_others", "user_end"} THEN s ELSE None} :
                   Accepted(o) /\ sessions[o].user = u}
  OBVIOUS
<1>4. PICK q : q = [phase |-> "ending", op |-> op, user |-> u, keep |-> keep, ids |-> ids, cut |-> cut]
  OBVIOUS
<1>5. request' = [request EXCEPT ![r] = q]
  BY <1>3, <1>4 DEF StartEnding
<1>6. keep \in SessionIds \union {None} /\ ids \subseteq SessionIds /\ cut \subseteq SessionIds
  BY <1>3 DEF Kept, Active
<1>7. q \in SessionRequest
  BY <1>4, <1>6 DEF SessionRequest
<1>8. cut \subseteq ids
  BY <1>1, <1>3, ActiveIsAccepted, SessionFacts DEF Kept
<1>9. \A o \in ids : sessions[o] # None /\ sessions[o].user = u
  BY <1>1, <1>3, <1>6, ActiveIsAccepted DEF Accepted
<1>10. /\ request' \in [Visits -> SessionRequest]
       /\ request'[r] = q /\ \A o \in Visits \ {r} : request'[o] = request[o]
  BY <1>1, <1>5, <1>7, OneRequest
<1>11. Selected(request[r])' /\ request'[r].user \in Members
  <2>1. /\ request'[r].cut \subseteq request'[r].ids /\ request'[r].user = u
        /\ \A o \in request'[r].ids : sessions'[o] # None /\ sessions'[o].user = u
    BY <1>2, <1>4, <1>6, <1>8, <1>9, <1>10 DEF RowsStay
  <2> QED
    BY <2>1 DEF Selected
<1>12. SessionTypeOK'
  BY <1>1, <1>2, <1>10 DEF SessionTypeOK
<1> QED
  BY <1>1, <1>2, <1>10, <1>11, <1>12, Keeps

LEMMA OrderlyCommitEnding ==
  ASSUME Orderly, NEW r \in Visits, CommitEnding(r)
  PROVE  Orderly'
<1>1. SessionTypeOK /\ request[r].user \in Members /\ Selected(request[r]) /\ request[r] \in SessionRequest
  BY DEF CommitEnding, Orderly, RequestsKnown, SessionTypeOK
<1>2. PICK q : q = request[r]
  OBVIOUS
<1>3. /\ q.user \in Members /\ q.ids \subseteq SessionIds /\ q.cut \subseteq q.ids
      /\ members[q.user] # "gone" => \A o \in q.ids : sessions[o] # None
  BY <1>1, <1>2 DEF Selected, SessionRequest
<1>4. /\ request' = [request EXCEPT ![r] = NoRequest] /\ UNCHANGED <<clock, keys, idle, failures, requested>>
      /\ \/ members' = members
         \/ members[q.user] # "gone" /\ members' = [members EXCEPT ![q.user] = "disabled"]
      /\ \/ ended' = ended
         \/ members[q.user] # "gone" /\ ended' = ended \union q.cut
  <2>1. /\ members' = IF request[r].op = "user_toggle" /\ ~(members[request[r].user] = "gone")
                      THEN [members EXCEPT ![request[r].user] = "disabled"] ELSE members
        /\ ended' = IF members[request[r].user] = "gone" THEN ended ELSE ended \union request[r].cut
        /\ request' = [request EXCEPT ![r] = NoRequest] /\ UNCHANGED <<clock, keys, idle, failures, requested>>
    BY Zenon DEF CommitEnding
  <2> QED
    BY <1>2, <2>1
<1>5. /\ request' \in [Visits -> SessionRequest]
      /\ request'[r].phase = "free" /\ \A o \in Visits \ {r} : request'[o] = request[o]
  BY <1>1, <1>4, OneRequest, NoRequestFacts
<1>6. /\ members' \in [Members -> {"enabled", "disabled", "gone"}]
      /\ \A u \in Members : members[u] = "gone" => members'[u] = "gone"
      /\ ended' \subseteq SessionIds
  <2>1. members \in [Members -> {"enabled", "disabled", "gone"}] /\ ended \subseteq SessionIds
    BY <1>1 DEF SessionTypeOK
  <2> QED
    BY <1>3, <1>4, <2>1
<1>7. PICK table : table = Revoked(sessions, q.ids)
  OBVIOUS
<1>8. /\ table \in [SessionIds -> Session \union {None}]
      /\ SameButRevoked(table)
      /\ \A o \in q.ids : sessions[o] # None => table[o].revoked
  <2>1. PICK old : old = sessions
    OBVIOUS
  <2>2. old \in [SessionIds -> Session \union {None}] /\ table = Revoked(old, q.ids)
    BY <1>1, <1>7, <2>1 DEF SessionTypeOK
  <2> QED
    BY <1>3, <2>1, <2>2, RevokedFacts DEF SameButRevoked
<1>9. /\ sessions' \in [SessionIds -> Session \union {None}] /\ lastUse' \in [SessionIds -> Times]
      /\ RowsStay /\ UsesWritten'
      /\ members[q.user] # "gone" => \A o \in q.ids : sessions'[o] # None /\ sessions'[o].revoked
  <2>1. CASE UNCHANGED <<sessions, lastUse>> /\ members[q.user] = "gone"
    BY <1>1, <2>1, SameRows DEF SessionTypeOK
  <2>2. ASSUME NEW s \in FreeIds, sessions' = [table EXCEPT ![s] = NewSession(q.user)],
               lastUse' = [lastUse EXCEPT ![s] = clock]
        PROVE  /\ sessions' \in [SessionIds -> Session \union {None}] /\ lastUse' \in [SessionIds -> Times]
               /\ RowsStay /\ UsesWritten'
               /\ members[q.user] # "gone" => \A o \in q.ids : sessions'[o] # None /\ sessions'[o].revoked
    <3>1. /\ sessions' \in [SessionIds -> Session \union {None}] /\ lastUse' \in [SessionIds -> Times]
          /\ RowsStay /\ UsesWritten'
          /\ \A o \in SessionIds \ {s} : sessions'[o] = table[o]
      <4>1. PICK u \in Members : u = q.user
        BY <1>3
      <4>2. sessions' = [table EXCEPT ![s] = NewSession(u)]
        BY <2>2, <4>1
      <4> QED
        BY <1>8, <2>2, <4>2, InsertedRow
    <3>2. sessions[s] = None
      BY <2>2 DEF FreeIds
    <3> QED
      BY <1>3, <1>8, <3>1, <3>2 DEF SameButRevoked
  <2>3. CASE sessions' = table /\ lastUse' = lastUse
    BY <1>1, <1>3, <1>8, <2>3 DEF Orderly, SessionTypeOK, RowsStay, UsesWritten, SameButRevoked
  <2> QED
    BY <1>2, <1>7, <2>1, <2>2, <2>3 DEF CommitEnding
<1>10. SessionTypeOK'
  BY <1>1, <1>4, <1>5, <1>6, <1>9 DEF SessionTypeOK
<1>11. \A o \in ended' : o \in ended \/ (sessions'[o] # None /\ sessions'[o].revoked)
  BY <1>3, <1>4, <1>9
<1> QED
  BY <1>5, <1>6, <1>9, <1>10, <1>11, Keeps

\* The other requests of administrators and users
LEMMA OrderlyPages ==
  ASSUME Orderly, NEW s \in SessionIds,
         \/ \E u \in Members : Enable(s, u)
         \/ \E limit \in IdleLimits : SettingsSave(s, limit)
         \/ \E k \in KeyIds : KeyRevoke(s, k) \/ \E u \in Members, days \in KeyDays : KeyCreate(s, k, u, days)
  PROVE  Orderly'
<1>1. /\ By(s) /\ sessions' = Touched(s) /\ UNCHANGED <<clock, failures, request, ended>>
      /\ \/ UNCHANGED <<keys, idle>> /\ \E u \in Members : members' = [members EXCEPT ![u] = "enabled"] /\ members[u] = "disabled"
         \/ UNCHANGED <<keys, members>> /\ idle' \in IdleLimits
         \/ UNCHANGED <<members, idle>> /\ \E k \in KeyIds : keys[k] # None /\ keys' = WithoutKey(k)
         \/ UNCHANGED <<members, idle>> /\ \E k \in KeyIds, u \in Members, days \in KeyDays : keys' = [keys EXCEPT ![k] = NewKey(u, days)]
  BY DEF Enable, SettingsSave, KeyCreate, KeyRevoke
<1>2. SessionTypeOK /\ sessions[s] # None /\ lastUse' = [lastUse EXCEPT ![s] = clock] /\ requested' = requested + 1
  BY <1>1, SessionOfBy DEF Orderly
<1>3. /\ sessions' \in [SessionIds -> Session \union {None}] /\ lastUse' \in [SessionIds -> Times]
      /\ RowsStay /\ UsesWritten'
  BY <1>1, <1>2, OnlyTouchedRows
<1>4. keys' \in [KeyIds -> Key \union {None}]
  <2>1. ASSUME NEW u \in Members, NEW days \in KeyDays PROVE NewKey(u, days) \in Key
    <3>1. clock \in Nat /\ (days \in Nat \/ days = None)
      BY <1>2, SessionFacts, SessionConstants DEF SessionTypeOK, SessionConstants
    <3> QED
      BY <3>1 DEF NewKey, Key
  <2>2. ASSUME NEW k \in KeyIds, keys[k] # None PROVE WithoutKey(k) \in [KeyIds -> Key \union {None}]
    <3>1. keys \in [KeyIds -> Key \union {None}] /\ keys[k] \in Key
      BY <1>2, <2>2 DEF SessionTypeOK
    <3>2. [keys[k] EXCEPT !.revoked = TRUE] \in Key
      BY <3>1 DEF Key
    <3> QED
      BY <3>1, <3>2 DEF WithoutKey
  <2>3. keys \in [KeyIds -> Key \union {None}]
    BY <1>2 DEF SessionTypeOK
  <2> QED
    BY <1>1, <2>1, <2>2, <2>3
<1>5. members' \in [Members -> {"enabled", "disabled", "gone"}] /\ \A u \in Members : members[u] = "gone" => members'[u] = "gone"
  BY <1>1, <1>2 DEF SessionTypeOK
<1>6. idle' \in Nat
  BY <1>1, <1>2, SessionConstants DEF SessionTypeOK, SessionConstants
<1>7. SessionTypeOK'
  <2>1. UNCHANGED <<clock, failures, request, ended>>
    BY <1>1
  <2> QED
    BY <1>2, <1>3, <1>4, <1>5, <1>6, <2>1 DEF SessionTypeOK
<1>8. UNCHANGED <<request, ended>>
  BY <1>1
<1> QED
  BY <1>3, <1>5, <1>7, <1>8, Keeps

\* A user goes, with the sessions; requests about that user will find that out
LEMMA OrderlyMemberDelete ==
  ASSUME Orderly, NEW s \in SessionIds, NEW u \in Members, MemberDelete(s, u)
  PROVE  Orderly'
<1>1. SessionTypeOK /\ sessions[s] # None /\ lastUse' = [lastUse EXCEPT ![s] = clock] /\ requested' = requested + 1
      /\ UNCHANGED <<clock, idle, failures, request>>
  BY SessionOfBy DEF MemberDelete, Orderly
<1>2. PICK table : table = Touched(s)
  OBVIOUS
<1>3. /\ table \in [SessionIds -> Session \union {None}]
      /\ \A o \in SessionIds \ {s} : table[o] = sessions[o]
      /\ table[s] \in Session /\ table[s] # None
      /\ table[s].user = sessions[s].user /\ table[s].revoked = sessions[s].revoked
      /\ table[s].seen \in Times /\ clock < table[s].seen + TouchEvery
  BY <1>1, <1>2, TouchedFacts, SessionFacts
<1>4. sessions' = [o \in SessionIds |-> IF table[o] = None THEN None
                                        ELSE IF sessions[o].user = u THEN None ELSE table[o]]
  BY <1>2 DEF MemberDelete
<1>5. \A o \in SessionIds :
        sessions'[o] = IF table[o] = None THEN None ELSE IF sessions[o].user = u THEN None ELSE table[o]
  BY <1>4
<1>6. /\ members' = [members EXCEPT ![u] = "gone"]
      /\ ended' = {o \in ended : sessions'[o] # None}
      /\ keys' \in [KeyIds -> Key \union {None}]
  BY <1>1 DEF MemberDelete, SessionTypeOK
<1>7. SessionTypeOK'
  <2>1. sessions' \in [SessionIds -> Session \union {None}]
    BY <1>3, <1>4
  <2>2. members' \in [Members -> {"enabled", "disabled", "gone"}] /\ ended' \subseteq SessionIds
    BY <1>1, <1>6 DEF SessionTypeOK
  <2>3. SessionTypeOK /\ keys' \in [KeyIds -> Key \union {None}] /\ requested' = requested + 1
        /\ UNCHANGED <<clock, idle, failures, request>>
    BY <1>1, <1>6
  <2>4. lastUse' \in [SessionIds -> Times]
    BY <1>1 DEF SessionTypeOK
  <2> QED
    BY <2>1, <2>2, <2>3, <2>4 DEF SessionTypeOK
<1>8. EndedRows'
  BY <1>1, <1>3, <1>5, <1>6 DEF Orderly, EndedRows, SessionTypeOK
<1>9. UsesWritten'
  <2> SUFFICES ASSUME NEW o \in SessionIds, sessions'[o] # None
               PROVE  lastUse'[o] < sessions'[o].seen + TouchEvery
    BY DEF UsesWritten
  <2>1. sessions'[o] = table[o]
    BY <1>5
  <2> QED
    BY <1>1, <1>3, <2>1 DEF Orderly, UsesWritten, SessionTypeOK
<1>10. ASSUME NEW r \in Visits, request[r].phase = "ending"
       PROVE  Selected(request[r])'
  <2>1. PICK q : q = request[r] /\ q = request'[r]
    BY <1>1
  <2>2. q \in SessionRequest /\ q.user \in Members /\ Selected(q)
    BY <1>10, <2>1 DEF Orderly, SessionTypeOK, RequestsKnown
  <2>3. members'[q.user] # "gone" => members[q.user] # "gone" /\ q.user # u
    BY <1>1, <1>6, <2>2 DEF SessionTypeOK
  <2>4. /\ q.cut \subseteq q.ids /\ q.ids \subseteq SessionIds
        /\ members'[q.user] # "gone" => \A o \in q.ids : sessions'[o] # None /\ sessions'[o].user = q.user
    BY <1>3, <1>5, <2>2, <2>3 DEF Selected, SessionRequest
  <2> QED
    BY <2>1, <2>4 DEF Selected
<1>11. RequestsKnown'
  BY <1>1, <1>10 DEF Orderly, RequestsKnown
<1> QED
  BY <1>7, <1>8, <1>9, <1>11 DEF Orderly

\* The console, time and restarts
LEMMA OrderlyWorld ==
  ASSUME Orderly, Tick \/ ServerRestart \/ \E u \in Members : ResetPassword(u)
  PROVE  Orderly'
<1>1. UNCHANGED <<sessions, keys, idle, lastUse, ended>> /\ SessionTypeOK
  BY DEF Orderly, Tick, ServerRestart, ResetPassword, tables, history
<1>2. clock' \in Times
  BY <1>1, SessionFacts DEF Tick, ServerRestart, ResetPassword, SessionTypeOK, Times
<1>3. requested' \in Nat
  BY <1>1 DEF Tick, ServerRestart, ResetPassword, Start, SessionTypeOK
<1>4. failures' \in [Members \union {Client} -> Seq(Times)]
  <2>1. CASE ServerRestart
    BY <1>1, <2>1 DEF ServerRestart, SessionTypeOK, NoFailures
  <2>2. CASE ~ServerRestart
    BY <1>1, <2>2 DEF Tick, ResetPassword, SessionTypeOK
  <2> QED
    BY <2>1, <2>2
<1>5. members' \in [Members -> {"enabled", "disabled", "gone"}] /\ \A u \in Members : members[u] = "gone" => members'[u] = "gone"
  BY <1>1 DEF Tick, ServerRestart, ResetPassword, SessionTypeOK, tables
<1>6. /\ request' \in [Visits -> SessionRequest]
      /\ \A r \in Visits : request'[r].phase = "free" \/ request'[r] = request[r]
  BY <1>1, NoRequestFacts DEF Tick, ServerRestart, ResetPassword, SessionTypeOK
<1>7. SessionTypeOK'
  BY <1>1, <1>2, <1>3, <1>4, <1>5, <1>6 DEF SessionTypeOK
<1> QED
  BY <1>1, <1>5, <1>6, <1>7, SameRows, Keeps

LEMMA OrderlyStep ==
  ASSUME Orderly, [SessionNext]_sessionVars
  PROVE  Orderly'
<1>1. CASE UNCHANGED sessionVars
  BY <1>1 DEF sessionVars, Orderly, SessionTypeOK, EndedRows, RequestsKnown, Selected, UsesWritten
<1> QED
  BY <1>1, OrderlyLogin, OrderlyAuthenticate, OrderlyCommitSession, OrderlyCommitEnding, OrderlyStartEnding,
     OrderlyVisit, OrderlyLogout, OrderlySessionEnd, OrderlyPages, OrderlyMemberDelete, OrderlyWorld
  DEF SessionNext

-----------------------------------------------------------------------------
(* What ended stays ended, what is used stays open                           *)

\* Rows, requests and what was ended belong together in every state: who may
\* still revoke what, and what is written of the last use (end_sessions,
\* current_session, the foreign keys of user_sessions).
THEOREM SessionsAreOrderly == SessionSpec => []Orderly
<1>1. SessionInit => Orderly
  BY OrderlyInit
<1>2. Orderly /\ [SessionNext]_sessionVars => Orderly'
  BY OrderlyStep
<1> QED
  BY <1>1, <1>2, PTL DEF SessionSpec

\* A session that was signed out or ended is never accepted again: end_sessions,
\* logout, user_toggle, current_session.
THEOREM EndsAreFinal == SessionSpec => []EndedForGood
<1>1. Orderly => EndedForGood
  BY DEF Orderly, EndedRows, EndedForGood, Accepted
<1> QED
  BY <1>1, SessionsAreOrderly, PTL

\* A session in use is not ended for inactivity, although only one use per
\* TOUCH_EVERY is written down: current_session.
THEOREM UseKeepsOpen == SessionSpec => []UsedSessionStaysOpen
<1>1. ASSUME Orderly PROVE UsedSessionStaysOpen
  <2> SUFFICES ASSUME NEW s \in SessionIds, sessions[s] # None, clock + TouchEvery <= lastUse[s] + idle
               PROVE  ~IdleSince(s)
    BY DEF UsedSessionStaysOpen
  <2>1. /\ clock \in Nat /\ idle \in Nat /\ TouchEvery \in Nat /\ lastUse[s] \in Nat
        /\ sessions[s].seen \in Nat /\ lastUse[s] < sessions[s].seen + TouchEvery
    BY <1>1, RowFacts, SessionFacts DEF Orderly, SessionTypeOK, UsesWritten, Session
  <2> QED
    BY <2>1 DEF IdleSince
<1> QED
  BY <1>1, SessionsAreOrderly, PTL

\* The pages list as usable what a request is accepted with: active_sessions and
\* current_session, api_keys.status and api_keys.check.
THEOREM ListsAreTrue == SessionSpec => []ListsTellTheTruth
<1>1. ASSUME Orderly PROVE ListsTellTheTruth
  <2>1. SessionTypeOK
    BY <1>1 DEF Orderly
  <2>2. ASSUME NEW s \in SessionIds PROVE Accepted(s) <=> \E u \in Members : s \in Active(u)
    <3>1. Accepted(s) => sessions[s].user \in Members
      BY <2>1, RowFacts DEF Accepted, Session
    <3> QED
      BY <2>1, <3>1, ActiveIsAccepted
  <2>3. ASSUME NEW k \in KeyIds, keys[k] # None, members[keys[k].user] = "enabled"
        PROVE  KeyWorks(k) <=> Status(k) \in {"active", "expires soon"}
    <3>1. keys[k] \in Key /\ clock \in Nat /\ SoonDays \in Nat
      BY <2>1, <2>3, SessionFacts DEF SessionTypeOK
    <3>2. keys[k].revoked \in BOOLEAN /\ (keys[k].expires = None \/ keys[k].expires \in Nat)
      BY <3>1 DEF Key
    <3> QED
      BY <2>3, <3>1, <3>2 DEF KeyWorks, Status
  <2> QED
    BY <2>2, <2>3 DEF ListsTellTheTruth
<1> QED
  BY <1>1, SessionsAreOrderly, PTL

-----------------------------------------------------------------------------
(* The limit on failed sign-ins: a request past the limiter is on its way to *)
(* one more failure, so it counts with those that happened                   *)

Verifying(key) == {r \in Visits : request[r].phase = "verifying" /\ (key = Client \/ request[r].user = key)}
LimitOf(key) == IF key = Client THEN PerClient ELSE PerAccount
Limited(key) == Failures(key) + Cardinality(Verifying(key)) <= LimitOf(key) + Cardinality(Visits) - 1
Attempts == \A key \in Members \union {Client} : Limited(key)

\* The indexes of what the limiter still counts, of a deque f at time t
RecentAt(f, t) == {i \in DOMAIN f : t - f[i] < Window}

LEMMA RecentCount ==
  ASSUME NEW f \in Seq(Times), NEW t \in Times
  PROVE  /\ IsFiniteSet(RecentAt(f, t)) /\ Cardinality(RecentAt(f, t)) \in Nat
         /\ RecentAt(f, t) \subseteq 1..Len(f)
         /\ f = NoFailures => Cardinality(RecentAt(f, t)) = 0
<1>1. Len(f) \in Nat /\ DOMAIN f = 1..Len(f)
  OBVIOUS
<1>2. IsFiniteSet(1..Len(f)) /\ RecentAt(f, t) \in SUBSET (1..Len(f))
  BY <1>1, FS_Interval DEF RecentAt
<1>3. IsFiniteSet(RecentAt(f, t))
  BY <1>2, FS_Subset
<1>4. f = NoFailures => RecentAt(f, t) = {}
  BY DEF NoFailures, RecentAt
<1> QED
  BY <1>2, <1>3, <1>4, FS_CardinalityType, FS_EmptySet

\* A failure counts once
LEMMA RecentAppend ==
  ASSUME NEW f \in Seq(Times), NEW t \in Times
  PROVE  Cardinality(RecentAt(Append(f, t), t)) = Cardinality(RecentAt(f, t)) + 1
<1>1. Len(f) \in Nat /\ DOMAIN f = 1..Len(f) /\ DOMAIN Append(f, t) = 1..(Len(f) + 1)
  OBVIOUS
<1>2. \A i \in 1..Len(f) : Append(f, t)[i] = f[i]
  OBVIOUS
<1>3. Append(f, t)[Len(f) + 1] = t /\ t - t < Window
  BY <1>1, SessionFacts
<1>4. Len(f) + 1 \notin RecentAt(f, t)
  BY <1>1 DEF RecentAt
<1>5. RecentAt(Append(f, t), t) = RecentAt(f, t) \union {Len(f) + 1}
  BY <1>1, <1>2, <1>3 DEF RecentAt
<1> QED
  BY <1>4, <1>5, RecentCount, FS_AddElement

\* Time only forgets
LEMMA RecentLater ==
  ASSUME NEW f \in Seq(Times), NEW t \in Times, NEW later \in Times, t <= later
  PROVE  Cardinality(RecentAt(f, later)) <= Cardinality(RecentAt(f, t))
<1>1. ASSUME NEW i \in DOMAIN f, later - f[i] < Window PROVE t - f[i] < Window
  <2>1. Times \subseteq Nat /\ Window \in Nat
    BY SessionFacts
  <2>2. f \in [1..Len(f) -> Times] /\ DOMAIN f = 1..Len(f)
    OBVIOUS
  <2>3. f[i] \in Nat /\ t \in Nat /\ later \in Nat
    BY <2>1, <2>2
  <2> QED
    BY <1>1, <2>1, <2>3
<1>2. RecentAt(f, later) \in SUBSET RecentAt(f, t)
  BY <1>1 DEF RecentAt
<1> QED
  BY <1>2, RecentCount, FS_Subset

LEMMA CountFacts ==
  ASSUME SessionTypeOK, NEW key \in Members \union {Client}
  PROVE  /\ failures[key] \in Seq(Times) /\ clock \in Times
         /\ Failures(key) = Cardinality(RecentAt(failures[key], clock)) /\ Failures(key) \in Nat
         /\ IsFiniteSet(Verifying(key)) /\ Cardinality(Verifying(key)) \in Nat
         /\ Cardinality(Verifying(key)) <= Cardinality(Visits) /\ Cardinality(Visits) \in Nat
         /\ LimitOf(key) \in Nat \ {0}
<1>1. failures[key] \in Seq(Times) /\ clock \in Times
  BY DEF SessionTypeOK
<1>2. Failures(key) = Cardinality(RecentAt(failures[key], clock))
  BY DEF Failures, RecentAt
<1>3. IsFiniteSet(Visits) /\ Verifying(key) \in SUBSET Visits
  BY SessionConstants DEF Verifying, SessionConstants
<1>4. IsFiniteSet(Verifying(key)) /\ Cardinality(Verifying(key)) <= Cardinality(Visits)
  BY <1>3, FS_Subset
<1> QED
  BY <1>1, <1>2, <1>3, <1>4, RecentCount, FS_CardinalityType, SessionFacts DEF LimitOf

\* No more failures and no more requests on their way
LEMMA NoMoreAttempts ==
  ASSUME SessionTypeOK, SessionTypeOK', NEW key \in Members \union {Client}, Limited(key),
         Failures(key)' <= Failures(key), Verifying(key)' \subseteq Verifying(key)
  PROVE  Limited(key)'
<1>1. Cardinality(Verifying(key)') <= Cardinality(Verifying(key))
  BY CountFacts, FS_Subset
<1>2. PICK a, b, c, d, n, m : /\ a = Failures(key) /\ b = Cardinality(Verifying(key)) /\ n = Cardinality(Visits)
                              /\ c = Failures(key)' /\ d = Cardinality(Verifying(key))' /\ m = LimitOf(key)
  OBVIOUS
<1>3. {a, b, n, m} \subseteq Nat
  BY <1>2, CountFacts
<1>4. {c, d} \subseteq Nat
  <2>1. failures'[key] \in Seq(Times) /\ clock' \in Times
    BY DEF SessionTypeOK
  <2>2. Failures(key)' = Cardinality(RecentAt(failures'[key], clock'))
    BY DEF Failures, RecentAt
  <2>3. IsFiniteSet(Verifying(key)')
    BY CountFacts, FS_Subset
  <2> QED
    BY <1>2, <2>1, <2>2, <2>3, RecentCount, FS_CardinalityType
<1>5. a + b <= m + n - 1 /\ c <= a /\ d <= b
  BY <1>1, <1>2 DEF Limited
<1>6. c + d <= m + n - 1
  BY <1>3, <1>4, <1>5
<1> QED
  BY <1>2, <1>6 DEF Limited, LimitOf

LEMMA AttemptsInit == SessionInit => Attempts
<1> SUFFICES ASSUME SessionInit, NEW key \in Members \union {Client}
             PROVE  Limited(key)
  BY DEF Attempts
<1>1. SessionTypeOK /\ failures[key] = NoFailures /\ \A r \in Visits : request[r].phase = "free"
  BY OrderlyInit, NoRequestFacts DEF SessionInit, Orderly
<1>2. Failures(key) = 0 /\ Verifying(key) = {} /\ Cardinality(Verifying(key)) = 0
  BY <1>1, CountFacts, RecentCount, FS_EmptySet DEF Verifying
<1>3. LimitOf(key) \in Nat \ {0} /\ Cardinality(Visits) \in Nat
  BY <1>1, CountFacts
<1> QED
  BY <1>2, <1>3 DEF Limited

\* The limiter lets a request in only below the limit
LEMMA AttemptsLogin ==
  ASSUME Orderly, Orderly', Attempts, NEW r \in Visits, NEW u \in Members, Login(r, u)
  PROVE  Attempts'
<1> SUFFICES ASSUME NEW key \in Members \union {Client}
             PROVE  Limited(key)'
  BY DEF Attempts
<1>1. /\ SessionTypeOK /\ SessionTypeOK' /\ Limited(key) /\ UNCHANGED <<clock, failures>>
      /\ Failures(u) < PerAccount /\ Failures(Client) < PerClient
      /\ \A q \in Visits \ {r} : request'[q] = request[q]
      /\ request'[r].user = u
  BY DEF Login, MayTry, Orderly, Attempts, SessionTypeOK, NoRequest
<1>2. Failures(key)' = Failures(key)
  BY <1>1 DEF Failures
<1>3. CASE key = Client \/ key = u
  <2>1. IsFiniteSet(Visits) /\ Verifying(key)' \in SUBSET Visits /\ Client \notin Members
    BY SessionConstants DEF Verifying, SessionConstants
  <2>2. IsFiniteSet(Verifying(key)') /\ Cardinality(Verifying(key)') <= Cardinality(Visits)
    BY <2>1, FS_Subset
  <2>3. Failures(key) < LimitOf(key)
    BY <1>1, <1>3, <2>1 DEF LimitOf
  <2>4. Failures(key) \in Nat /\ LimitOf(key) \in Nat /\ Cardinality(Visits) \in Nat
    BY <1>1, CountFacts
  <2>5. Cardinality(Verifying(key)') \in Nat
    BY <2>2, FS_CardinalityType
  <2>6. PICK a, m : a = Failures(key) /\ m = LimitOf(key)
    OBVIOUS
  <2>7. a + Cardinality(Verifying(key)') <= m + Cardinality(Visits) - 1
    BY <2>2, <2>3, <2>4, <2>5, <2>6
  <2>8. Failures(key)' = a /\ LimitOf(key)' = m
    BY <1>2, <2>6 DEF LimitOf
  <2> QED
    BY <2>7, <2>8 DEF Limited
<1>4. CASE ~(key = Client \/ key = u)
  <2>1. Verifying(key)' \subseteq Verifying(key)
    BY <1>1, <1>4 DEF Verifying
  <2>2. Failures(key)' <= Failures(key)
    BY <1>1, <1>2, CountFacts
  <2> QED
    BY <1>1, <2>1, <2>2, NoMoreAttempts
<1> QED
  BY <1>3, <1>4

\* A request on its way becomes a failure, or none
LEMMA AttemptsAuthenticate ==
  ASSUME Orderly, Orderly', Attempts, NEW r \in Visits, Authenticate(r)
  PROVE  Attempts'
<1> SUFFICES ASSUME NEW key \in Members \union {Client}
             PROVE  Limited(key)'
  BY DEF Attempts
<1>1. PICK u : u = request[r].user
  OBVIOUS
<1>2. /\ SessionTypeOK /\ SessionTypeOK' /\ Limited(key) /\ clock' = clock
      /\ request[r].phase = "verifying" /\ u \in Members /\ u # Client
      /\ failures' = Succeeded(u) \/ failures' = FailedSignIn(u)
      /\ \A q \in Visits \ {r} : request'[q] = request[q]
      /\ request'[r].phase # "verifying"
  <2>1. request'[r].phase # "verifying" /\ \A q \in Visits \ {r} : request'[q] = request[q]
    <3>1. \/ request' = [request EXCEPT ![r] = [request[r] EXCEPT !.phase = "signing"]]
          \/ request' = [request EXCEPT ![r] = NoRequest]
      BY DEF Authenticate
    <3>2. request \in [Visits -> SessionRequest] /\ request[r] \in SessionRequest
      BY DEF Orderly, SessionTypeOK
    <3>3. [request[r] EXCEPT !.phase = "signing"].phase = "signing"
      BY <3>2 DEF SessionRequest
    <3> QED
      BY <3>1, <3>2, <3>3, NoRequestFacts
  <2>2. request[r].phase = "verifying" /\ u \in Members /\ u # Client
    BY <1>1, SessionConstants DEF Authenticate, Orderly, RequestsKnown, SessionConstants
  <2> QED
    BY <1>1, <2>1, <2>2 DEF Authenticate, Orderly, Attempts
<1>3. Verifying(key)' = Verifying(key) \ {r}
  BY <1>2 DEF Verifying
<1>4. failures \in [Members \union {Client} -> Seq(Times)] /\ clock \in Times
  BY <1>2 DEF SessionTypeOK
<1>5. CASE failures' = FailedSignIn(u) /\ (key = Client \/ key = u)
  <2>1. failures'[key] = Append(failures[key], clock)
    BY <1>2, <1>4, <1>5 DEF FailedSignIn
  <2>2. Failures(key)' = Failures(key) + 1
    <3>1. Failures(key)' = Cardinality(RecentAt(failures'[key], clock))
      BY <1>2 DEF Failures, RecentAt
    <3> QED
      BY <1>2, <1>4, <2>1, <3>1, CountFacts, RecentAppend
  <2>3. r \in Verifying(key)
    BY <1>1, <1>2, <1>5 DEF Verifying
  <2>4. Cardinality(Verifying(key)') = Cardinality(Verifying(key)) - 1
    BY <1>2, <1>3, <2>3, CountFacts, FS_RemoveElement
  <2>5. /\ Failures(key) \in Nat /\ Cardinality(Verifying(key)) \in Nat
        /\ LimitOf(key) \in Nat /\ Cardinality(Visits) \in Nat
    BY <1>2, CountFacts
  <2>6. PICK a, b, m : a = Failures(key) /\ b = Cardinality(Verifying(key)) /\ m = LimitOf(key)
    OBVIOUS
  <2>7. a + b <= m + Cardinality(Visits) - 1
    BY <1>2, <2>6 DEF Limited
  <2>8. (a + 1) + (b - 1) <= m + Cardinality(Visits) - 1
    BY <2>5, <2>6, <2>7
  <2>9. Failures(key)' = a + 1 /\ Cardinality(Verifying(key))' = b - 1 /\ LimitOf(key)' = m
    BY <2>2, <2>4, <2>6 DEF LimitOf
  <2> QED
    BY <2>8, <2>9 DEF Limited
<1>6. CASE ~(failures' = FailedSignIn(u) /\ (key = Client \/ key = u))
  <2>1. failures'[key] = failures[key] \/ failures'[key] = NoFailures
    BY <1>2, <1>4, <1>6 DEF FailedSignIn, Succeeded
  <2>2. Failures(key)' <= Failures(key)
    <3>1. Failures(key)' = Cardinality(RecentAt(failures'[key], clock)) /\ failures'[key] \in Seq(Times)
      BY <1>2 DEF Failures, RecentAt, SessionTypeOK
    <3>2. CASE failures'[key] = NoFailures
      <4>1. Failures(key)' = 0
        BY <1>4, <3>1, <3>2, RecentCount
      <4> QED
        BY <1>2, <4>1, CountFacts
    <3> QED
      BY <1>2, <2>1, <3>1, <3>2, CountFacts
  <2> QED
    BY <1>2, <1>3, <2>2, NoMoreAttempts
<1> QED
  BY <1>5, <1>6

\* Everybody else fails nowhere and is let in nowhere
LEMMA AttemptsElsewhere ==
  ASSUME Orderly, Orderly', Attempts, clock <= clock',
         failures' = failures \/ failures' = [key \in DOMAIN failures |-> NoFailures],
         \A r \in Visits : request'[r] = request[r] \/ request'[r].phase # "verifying"
  PROVE  Attempts'
<1> SUFFICES ASSUME NEW key \in Members \union {Client}
             PROVE  Limited(key)'
  BY DEF Attempts
<1>1. SessionTypeOK /\ SessionTypeOK' /\ Limited(key)
  BY DEF Orderly, Attempts
<1>2. Verifying(key)' \subseteq Verifying(key)
  BY DEF Verifying
<1>3. /\ Failures(key)' = Cardinality(RecentAt(failures'[key], clock'))
      /\ failures'[key] \in Seq(Times) /\ clock' \in Times
  BY <1>1 DEF Failures, RecentAt, SessionTypeOK
<1>4. Failures(key)' <= Failures(key)
  <2>1. CASE failures'[key] = failures[key]
    BY <1>1, <1>3, <2>1, CountFacts, RecentLater
  <2>2. CASE failures'[key] = NoFailures
    <3>1. Failures(key)' = 0
      BY <1>3, <2>2, RecentCount
    <3> QED
      BY <1>1, <3>1, CountFacts
  <2> QED
    BY <1>1, <2>1, <2>2 DEF SessionTypeOK
<1> QED
  BY <1>1, <1>2, <1>4, NoMoreAttempts

LEMMA AttemptsStep ==
  ASSUME Orderly, Orderly', Attempts, [SessionNext]_sessionVars
  PROVE  Attempts'
<1>1. ASSUME NEW r \in Visits, Authenticate(r) PROVE Attempts'
  BY <1>1, AttemptsAuthenticate
<1>2. ASSUME NEW r \in Visits, NEW u \in Members, Login(r, u) PROVE Attempts'
  BY <1>2, AttemptsLogin
<1>3. SessionTypeOK /\ \A r \in Visits : request[r] \in SessionRequest
  BY DEF Orderly, SessionTypeOK
<1>4. clock \in Nat /\ clock <= clock /\ clock <= clock + 1
  BY <1>3, SessionFacts DEF SessionTypeOK
<1>5. CASE \E r \in Visits : CommitSession(r) \/ CommitEnding(r)
  <2>1. /\ clock' = clock /\ failures' = failures
        /\ \A r \in Visits : request'[r] = request[r] \/ request'[r].phase # "verifying"
    BY <1>3, <1>5, NoRequestFacts DEF CommitSession, CommitEnding, SessionTypeOK
  <2> QED
    BY <1>4, <2>1, AttemptsElsewhere
<1>6. CASE \E r \in Visits, u \in Members : SsoSignIn(r, u)
  <2>1. /\ clock' = clock /\ failures' = failures
        /\ \A r \in Visits : request'[r] = request[r] \/ request'[r].phase # "verifying"
    BY <1>3, <1>6 DEF SsoSignIn, SessionTypeOK, NoRequest
  <2> QED
    BY <1>4, <2>1, AttemptsElsewhere
<1>7. CASE \E r \in Visits, s \in SessionIds, op \in Endings, u \in Members : StartEnding(r, s, op, u)
  <2>1. /\ clock' = clock /\ failures' = failures
        /\ \A r \in Visits : request'[r] = request[r] \/ request'[r].phase # "verifying"
    BY <1>3, <1>7 DEF StartEnding, SessionTypeOK
  <2> QED
    BY <1>4, <2>1, AttemptsElsewhere
<1>8. CASE \/ \E s \in SessionIds : Visit(s) \/ Logout(s) \/ \E o \in SessionIds : SessionEnd(s, o)
           \/ \E s \in SessionIds, u \in Members : Enable(s, u) \/ MemberDelete(s, u)
           \/ \E s \in SessionIds, limit \in IdleLimits : SettingsSave(s, limit)
           \/ \E s \in SessionIds, k \in KeyIds :
                KeyRevoke(s, k) \/ \E u \in Members, days \in KeyDays : KeyCreate(s, k, u, days)
           \/ \E u \in Members : ResetPassword(u)
  <2>1. clock' = clock /\ failures' = failures /\ request' = request
    BY <1>8 DEF Visit, Logout, SessionEnd, Enable, MemberDelete, SettingsSave, KeyRevoke, KeyCreate, ResetPassword
  <2> QED
    BY <1>4, <2>1, AttemptsElsewhere
<1>9. CASE Tick
  BY <1>4, <1>9, AttemptsElsewhere DEF Tick
<1>10. CASE ServerRestart
  <2>1. clock' = clock /\ \A r \in Visits : request'[r].phase # "verifying"
    BY <1>10, NoRequestFacts DEF ServerRestart
  <2> QED
    BY <1>4, <1>10, <2>1, AttemptsElsewhere DEF ServerRestart
<1>11. CASE UNCHANGED sessionVars
  BY <1>4, <1>11, AttemptsElsewhere DEF sessionVars
<1> QED
  BY <1>1, <1>2, <1>5, <1>6, <1>7, <1>8, <1>9, <1>10, <1>11 DEF SessionNext

\* An account and a client collect no more failures within a window than the
\* limit and the requests that were past the limiter then: retry_after, failed.
THEOREM SignInsAreLimited == SessionSpec => []AttemptsAreLimited
<1>1. ASSUME Orderly, Attempts PROVE AttemptsAreLimited
  <2>1. ASSUME NEW key \in Members \union {Client}
        PROVE  Failures(key) <= LimitOf(key) + (Cardinality(Visits) - 1)
    <3>1. SessionTypeOK /\ Limited(key)
      BY <1>1 DEF Orderly, Attempts
    <3>2. /\ Failures(key) \in Nat /\ Cardinality(Verifying(key)) \in Nat
          /\ LimitOf(key) \in Nat /\ Cardinality(Visits) \in Nat
      BY <3>1, CountFacts
    <3> QED
      BY <3>1, <3>2 DEF Limited
  <2>2. \A u \in Members : LimitOf(u) = PerAccount
    BY SessionConstants DEF LimitOf, SessionConstants
  <2>3. LimitOf(Client) = PerClient
    BY DEF LimitOf
  <2> QED
    BY <2>1, <2>2, <2>3 DEF AttemptsAreLimited
<1>2. SessionInit => Attempts
  BY AttemptsInit
<1>3. Orderly /\ Orderly' /\ Attempts /\ [SessionNext]_sessionVars => Attempts'
  BY AttemptsStep
<1> QED
  BY <1>1, <1>2, <1>3, SessionsAreOrderly, PTL DEF SessionSpec
=============================================================================
