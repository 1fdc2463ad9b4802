----------------------------- MODULE ActivityLog -----------------------------
(***************************************************************************)
(* The activity log (app/activity.py, and its page, export and API in      *)
(* app/web): around every request a middleware notes what the request is   *)
(* about before the handler runs, and writes the event when it has         *)
(* answered, each in a transaction of its own, while other requests rename *)
(* and delete the same objects, users are deleted and the process stops.   *)
(* The log is read page by page while it grows and is purged.              *)
(*                                                                         *)
(* Names are 1 and 2, 0 is none.  Ids are not given out again.             *)
(***************************************************************************)
EXTENDS Integers, FiniteSets, FiniteSetsExt

CONSTANTS
  Actors,
  Objects,         \* ids of what requests are about
  Slots,           \* requests that may be answered at the same time
  PageSize,        \* ACTIVITY_PAGE_SIZE, and the limit given to the API
  RetentionDays,   \* activity_retention_days
  MaxEvents,       \* bound on the requests of a behaviour
  LastLogDay,      \* bound on the clock
  MaxLost          \* bound on stops, and on namings and events that fail

ASSUME ActivityConstants ==
  {PageSize, RetentionDays, MaxEvents} \subseteq Nat \ {0} /\ {LastLogDay, MaxLost} \subseteq Nat

VARIABLES
  logDay,
  accounts,   \* the users there are
  nameOf,     \* nameOf[o]: the name of an object, 0 when it is gone
  serving,    \* serving[r]: a request and its context variable activity_note, and
              \* whether the object could be looked up for it (history)
  events,     \* the table activity_events
  reader,     \* somebody who reads the log, through the API or on the page
  committed,    \* what was committed (history)
  excused,    \* the requests whose event could not be written (history)
  count       \* of requests, events and losses

logVars == <<logDay, accounts, nameOf, serving, events, reader, committed, excused, count>>

table == <<events, reader>>

NoServing == [step |-> "none", number |-> 0, by |-> "", op |-> "", object |-> 0, noted |-> 0,
              named |-> TRUE, outcome |-> ""]
NoReader == [way |-> "none", done |-> FALSE, from |-> 0, seen |-> {}, asked |-> {}, twice |-> FALSE]

LogInit ==
  /\ logDay = 0
  /\ accounts = Actors
  /\ nameOf = [o \in Objects |-> 1]
  /\ serving = [r \in Slots |-> NoServing]
  /\ events = {} /\ reader = NoReader
  /\ committed = {} /\ excused = {}
  /\ count = [requests |-> 0, events |-> 0, losses |-> 0]

Operations == {"edit", "delete", "view", "select"}

\* Mutant: the object is named when the event is written
NotedLate(step, noted, o) == IF step = "record" THEN nameOf[o] ELSE noted

\* prepare names the object, later steps keep the name
Noted(step, noted, o) == IF step = "prepare" THEN nameOf[o] ELSE noted

\* A naming that fails is no reason to fail the request, which goes on without a name
Prepare(r, u, op, o) ==
  /\ serving[r].step = "none" /\ u \in accounts /\ count.requests < MaxEvents
  /\ \E named \in BOOLEAN :
       /\ named \/ count.losses < MaxLost
       /\ count' = [count EXCEPT !.requests = @ + 1, !.losses = IF named THEN @ ELSE @ + 1]
       /\ serving' = [serving EXCEPT ![r] = [NoServing EXCEPT
            !.step = "handle", !.number = count'.requests, !.by = u, !.op = op, !.object = o,
            !.noted = IF named THEN Noted("prepare", 0, o) ELSE 0, !.named = named]]
  /\ UNCHANGED <<logDay, accounts, nameOf, table, committed, excused>>

Answers(r, outcome) ==
  serving' = [serving EXCEPT ![r].step = "record", ![r].outcome = outcome]

\* A handler is refused, finds its object gone, or commits a change; it may have
\* left something out and say so.  Looking on changes nothing.  It may also raise, before
\* its commit or after it (schedule_toggle and schedule_delete when the jobs cannot be
\* reloaded): the event says failed.  A commit the database refuses expires the user
\* whom record would name, and there is no event.
HandleRequest(r) ==
  LET s == serving[r]
      o == s.object
      more == committed \union {[number |-> s.number, by |-> s.by, object |-> o, day |-> logDay, named |-> s.named]}
  IN  /\ s.step = "handle"
      /\ \/ /\ UNCHANGED <<nameOf, committed>>
            /\ \E outcome \in {"denied", "failed"} : Answers(r, outcome)
         \/ /\ nameOf[o] # 0 /\ s.op \in {"view", "select"} /\ UNCHANGED <<nameOf, committed>>
            /\ Answers(r, "ok")
         \/ /\ nameOf[o] # 0 /\ s.op \in {"edit", "delete"} /\ UNCHANGED <<nameOf, committed>>
            /\ serving' = [serving EXCEPT ![r] = NoServing]
         \/ /\ nameOf[o] # 0 /\ s.op \in {"edit", "delete"} /\ committed' = more
            /\ \E name \in IF s.op = "edit" THEN 1..2 ELSE {0} : nameOf' = [nameOf EXCEPT ![o] = name]
            /\ \E outcome \in {"ok", "failed"} : Answers(r, outcome)
      /\ UNCHANGED <<logDay, accounts, table, excused, count>>

\* action_for: which tenant the header shows is not recorded
Recorded(op) == op # "select"

Event(s, id) ==
  [id |-> id, of |-> s.number, at |-> logDay, by |-> s.by, op |-> s.op, object |-> s.object,
   name |-> Noted("record", s.noted, s.object), outcome |-> s.outcome]

Loses(numbers) ==
  /\ count.losses < MaxLost /\ count' = [count EXCEPT !.losses = @ + 1]
  /\ excused' = excused \union numbers

\* record: the foreign key of actor_id refuses the event of a user who is gone,
\* and the database may refuse any; the request is answered all the same
Record(r) ==
  LET s == serving[r]
  IN  /\ s.step = "record"
      /\ serving' = [serving EXCEPT ![r] = NoServing]
      /\ \/ ~Recorded(s.op) /\ UNCHANGED <<events, excused, count>>
         \/ /\ Recorded(s.op) /\ s.by \in accounts
            /\ count' = [count EXCEPT !.events = @ + 1]
            /\ events' = events \union {Event(s, count'.events)}
            /\ UNCHANGED excused
         \/ /\ Recorded(s.op) /\ s.by \notin accounts
            /\ excused' = excused \union {s.number} /\ UNCHANGED <<events, count>>
         \/ Recorded(s.op) /\ Loses({s.number}) /\ UNCHANGED events
      /\ UNCHANGED <<logDay, accounts, nameOf, reader, committed>>

\* user_delete, for whoever has requests of their own
ActorDelete(u) ==
  /\ u \in accounts /\ accounts' = accounts \ {u}
  /\ UNCHANGED <<logDay, nameOf, serving, table, committed, excused, count>>

\* A stop: what was committed and not yet recorded never is
LogStop ==
  /\ \E r \in Slots : serving[r].step # "none"
  /\ Loses({serving[r].number : r \in Slots})
  /\ serving' = [r \in Slots |-> NoServing]
  /\ UNCHANGED <<logDay, accounts, nameOf, table, committed>>

\* The night: purge_old_data
NextLogDay ==
  /\ logDay < LastLogDay /\ logDay' = logDay + 1
  /\ events' = {e \in events : e.at >= logDay' - RetentionDays}
  /\ UNCHANGED <<accounts, nameOf, serving, reader, committed, excused, count>>

-----------------------------------------------------------------------------
(* Reading the log *)

Ids == {e.id : e \in events}

\* How many of them are newer
NewerIn(ids, i) == Cardinality({j \in ids : j > i})

OpenLog(way) ==
  /\ reader.way = "none" /\ events # {}
  /\ reader' = [NoReader EXCEPT !.way = way, !.asked = Ids]
  /\ UNCHANGED <<logDay, accounts, nameOf, serving, events, committed, excused, count>>

\* before_id
Before(before) == {i \in Ids : before = 0 \/ i < before}

\* api_activity
ReadApi ==
  LET ids == Before(reader.from)
      rows == {i \in ids : NewerIn(ids, i) < PageSize}
  IN  /\ reader.way = "api" /\ ~reader.done
      /\ reader' = [reader EXCEPT !.from = IF rows = {} THEN 0 ELSE Min(rows),
                                  !.done = (rows = {}), !.seen = @ \union rows,
                                  !.twice = @ \/ rows \intersect reader.seen # {}]
      /\ UNCHANGED <<logDay, accounts, nameOf, serving, events, committed, excused, count>>

\* activity_page: by the number of rows, and a row more than a page to know of others
ReadPage ==
  LET first == reader.from * PageSize
      rows == {i \in Ids : NewerIn(Ids, i) \in first..(first + PageSize - 1)}
      more == Cardinality(Ids) > first + PageSize
  IN  /\ reader.way = "page" /\ ~reader.done
      /\ reader' = [reader EXCEPT !.from = @ + 1, !.done = ~more, !.seen = @ \union rows]
      /\ UNCHANGED <<logDay, accounts, nameOf, serving, events, committed, excused, count>>

LogNext ==
  \/ \E r \in Slots :
       \/ \E u \in Actors, op \in Operations, o \in Objects : Prepare(r, u, op, o)
       \/ HandleRequest(r) \/ Record(r)
  \/ \E u \in Actors : ActorDelete(u)
  \/ LogStop \/ NextLogDay
  \/ \E way \in {"api", "page"} : OpenLog(way)
  \/ ReadApi \/ ReadPage

-----------------------------------------------------------------------------

\* activity.py:17: every change that was committed has one event once its request
\* is answered, also when the handler raised after its commit, with who made it and
\* what the object was called, if that could be looked up, also when it is gone by
\* then - unless the process stopped, the database refused the event or the user was
\* deleted before it was written.  No event calls done what was not.
ChangesAreTold ==
  /\ \A c \in committed :
       /\ c.day >= logDay - RetentionDays /\ c.number \notin excused
       /\ \A r \in Slots : serving[r].number # c.number
       => \E e \in events :
            /\ {f \in events : f.of = c.number} = {e}
            /\ e.by = c.by /\ e.object = c.object /\ (c.named => e.name # 0) /\ e.outcome # "denied"
  /\ \A e \in events : e.op \in {"edit", "delete"} /\ e.outcome = "ok" =>
       \E c \in committed : c.number = e.of /\ c.object = e.object

\* routes_api.py:160: who reads the log to its end has seen everything that was in
\* it at the start and has not been purged; through the API everything once, on
\* the pages what has come in meanwhile may show a line again.
ReadersMissNothing ==
  /\ reader.done => reader.asked \intersect Ids \subseteq reader.seen
  /\ ~reader.twice

ActivityIsTold == ChangesAreTold /\ ReadersMissNothing
=============================================================================
