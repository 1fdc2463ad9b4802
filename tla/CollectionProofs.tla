--------------------------- MODULE CollectionProofs ---------------------------
(***************************************************************************)
(* The collectors of one tenant, for any number of overlapping runs, any   *)
(* messages, horizon, windows and budget: the requests of a day are        *)
(* counted once, an error is shown while it lasts, every day before the    *)
(* last collection has its row, and every message from the cursor on that  *)
(* some run could have seen is stored.                                     *)
(***************************************************************************)
EXTENDS CollectionProps, WellFoundedInduction, TLAPS

-----------------------------------------------------------------------------
(* Types                                                                     *)

CollectionTypeOK ==
  /\ clock \in Start..MaxClock
  /\ sent \in [Messages -> Days]
  /\ verdict \in [Messages -> Day]
  /\ tenant \in Columns
  /\ calls \in [day : Day, count : Nat]
  /\ stored \subseteq Messages
  /\ rows \in [Days -> Day]
  /\ run \in [Runs -> Run]
  /\ started \in Nat /\ faults \in Nat /\ spent \in Nat
  /\ first \in Day
  /\ origin \in [from : Day, day : Day]
  /\ failing \subseteq Streams /\ doubtful \subseteq Streams
  /\ older \subseteq Days

\* A run is over within a day of its start, and a verdict does not come before
\* the message
Timely(q) == q.stream # "none" => Horizon <= q.now /\ q.now <= clock /\ clock <= q.now + 1
Known == \A m \in Messages : verdict[m] # Null => sent[m] <= verdict[m] /\ verdict[m] <= clock

Typed == CollectionTypeOK /\ Known /\ \A r \in Runs : Timely(run[r])

LEMMA CollectionFacts ==
  /\ Start \in Nat /\ MaxClock \in Nat /\ Horizon \in Nat /\ InitialDays \in Nat /\ RescanDays \in Nat
  /\ WindowDays \in Nat /\ DaysBack \in Nat /\ DailyBudget \in Nat
  /\ Horizon <= Start /\ Start <= MaxClock /\ DaysBack <= Horizon
  /\ SentDays \subseteq Days /\ Days \subseteq Nat /\ Null \notin Nat /\ Null \notin Days
  /\ \A d : d \in Days <=> d \in Nat /\ d <= MaxClock
  BY CollectionConstants DEF CollectionConstants, Days

LEMMA ClockFacts ==
  ASSUME CollectionTypeOK
  PROVE  /\ clock \in Days /\ clock \in Nat /\ clock >= Horizon /\ clock <= MaxClock
         /\ clock - Horizon \in Days
  BY CollectionFacts DEF CollectionTypeOK

LEMMA IdleFacts ==
  /\ Idle \in Run /\ Idle.stream = "none" /\ Idle.errors = {} /\ Idle.used = 0 /\ Idle.budget = 0
  /\ Idle.cursor = Null /\ Idle.due = {} /\ Idle.waits = "none" /\ Idle.rows = FALSE /\ Idle.fresh = {}
  /\ Idle.from = 0 /\ Idle.upto = 0
  BY CollectionFacts DEF Idle, Run, Day

\* A set of days that is not empty has a first one
LEMMA FirstDay ==
  ASSUME NEW S \in SUBSET Nat, S # {}
  PROVE  Min(S) \in S /\ \A d \in S : Min(S) <= d
<1>1. PICK x \in S : \A y \in S : <<y, x>> \notin OpToRel(<, Nat)
  BY NatLessThanWellFounded, WFMin
<1>2. \A y \in S : x <= y
  <2> SUFFICES ASSUME NEW y \in S PROVE x <= y
    OBVIOUS
  <2>1. x \in Nat /\ y \in Nat /\ <<y, x>> \in Nat \X Nat
    OBVIOUS
  <2>2. ~(y < x)
    BY <1>1, <2>1 DEF OpToRel
  <2> QED
    BY <2>1, <2>2
<1> QED
  BY <1>2 DEF Min

-----------------------------------------------------------------------------
(* A run begins: the windows stay within the days                            *)

LEMMA WindowTypes ==
  ASSUME CollectionTypeOK
  PROVE  /\ \A s \in Day : StatsFrom(s) \in Days
         /\ \A w \in Day : RescanFrom(w) \in Days
         /\ \A c \in Days : WindowFrom(c, clock) \in Days
         /\ \A c \in Days, now \in Days : now >= Horizon => WindowFrom(c, now) \in Days
<1>1. /\ clock \in Nat /\ clock <= MaxClock /\ Horizon <= clock
      /\ MaxClock \in Nat /\ Horizon \in Nat /\ InitialDays \in Nat /\ RescanDays \in Nat
      /\ WindowDays \in Nat /\ DaysBack \in Nat
  BY ClockFacts, CollectionFacts
<1>2. ASSUME NEW s \in Day PROVE StatsFrom(s) \in Days
  <2>1. CASE s = Null
    BY <1>1, <2>1, CollectionFacts DEF StatsFrom
  <2>2. CASE s \in Nat
    <3>1. PICK n \in Int : n = clock - s
      BY <1>1, <2>2
    <3>2. PICK back : back = Larger(DaysBack, Smaller(Horizon, n))
      OBVIOUS
    <3>3. back \in Nat /\ back <= Horizon
      BY <1>1, <3>1, <3>2, CollectionFacts DEF Larger, Smaller
    <3>4. StatsFrom(s) = clock - back
      BY <2>2, <3>1, <3>2, CollectionFacts DEF StatsFrom
    <3> QED
      BY <1>1, <3>3, <3>4, CollectionFacts
  <2> QED
    BY <2>1, <2>2, CollectionFacts DEF Day
<1>3. ASSUME NEW w \in Day PROVE RescanFrom(w) \in Days
  <2>1. CASE w = Null
    BY <1>1, <2>1, CollectionFacts DEF RescanFrom, Larger
  <2>2. CASE w \in Nat /\ w <= MaxClock
    BY <1>1, <2>2, CollectionFacts DEF RescanFrom, Larger
  <2> QED
    BY <2>1, <2>2, CollectionFacts DEF Day
<1>4. ASSUME NEW c \in Days, NEW now \in Days, now >= Horizon PROVE WindowFrom(c, now) \in Days
  BY <1>1, <1>4, CollectionFacts DEF WindowFrom, Larger
<1> QED
  BY <1>1, <1>2, <1>3, <1>4, ClockFacts

\* What is the same in every run that begins
LEMMA BegunFacts ==
  ASSUME CollectionTypeOK, NEW s \in Streams, NEW chain \in BOOLEAN
  PROVE  /\ Begun(s, chain) \in Run
         /\ Begun(s, chain).stream = s /\ Begun(s, chain).now = clock
         /\ Begun(s, chain).errors = tenant.errors /\ Begun(s, chain).used = 0
<1>1. tenant.errors \in SUBSET Streams /\ clock \in Days
  BY ClockFacts DEF CollectionTypeOK, Columns
<1> QED
  BY <1>1, IdleFacts DEF Begun, Run

\* A row of the table run after one that begins
Beginner(q, s) ==
  /\ q \in Run /\ q.stream = s /\ q.now = clock /\ q.errors = tenant.errors /\ q.used = 0

LEMMA CursorType ==
  ASSUME CollectionTypeOK
  PROVE  InitialCursor \in Days
<1>1. CASE stored # {}
  <2>1. {sent[m] : m \in stored} \in SUBSET Nat /\ {sent[m] : m \in stored} # {}
        /\ {sent[m] : m \in stored} \subseteq Days
    BY <1>1, CollectionFacts DEF CollectionTypeOK
  <2> QED
    BY <1>1, <2>1, FirstDay DEF InitialCursor
<1>2. CASE stored = {}
  BY <1>2, ClockFacts DEF InitialCursor, CollectionTypeOK, Columns, Day
<1> QED
  BY <1>1, <1>2

StatsBegins(r) ==
  /\ \E q : /\ run' = [run EXCEPT ![r] = q] /\ Beginner(q, "stats")
            /\ q.from = StatsFrom(tenant.stats) /\ q.upto = clock
  /\ UNCHANGED <<tenant, origin, first>>

ConvictionsBegin(r) ==
  /\ \E q : /\ run' = [run EXCEPT ![r] = q] /\ Beginner(q, "convictions")
            /\ q.from = RescanFrom(tenant.watermark) /\ q.upto = clock
            /\ q.due = Found(q.from, clock)
            /\ first' = IF tenant.watermark = Null THEN q.from ELSE first
  /\ UNCHANGED <<tenant, origin>>

BackfillBegins(r) ==
  /\ \E q : /\ run' = [run EXCEPT ![r] = q] /\ Beginner(q, "backfill")
            /\ q.cursor = IF tenant.cursor = Null THEN InitialCursor ELSE tenant.cursor
            /\ q.cursor \in Days
            /\ q.from = WindowFrom(q.cursor, clock) /\ q.upto = q.cursor
            /\ q.due = Found(q.from, q.cursor)
            /\ tenant' = [tenant EXCEPT !.cursor = q.cursor]
            /\ origin' = IF tenant.cursor = Null THEN [from |-> q.cursor, day |-> clock] ELSE origin
  /\ UNCHANGED first

NothingBegins(r) == run' = [run EXCEPT ![r] = Idle] /\ UNCHANGED <<tenant, origin, first>>

LEMMA StartFacts ==
  ASSUME CollectionTypeOK, NEW r \in Runs, NEW s \in Streams, NEW chain \in BOOLEAN,
         StartStream(r, s, chain)
  PROVE  StatsBegins(r) \/ ConvictionsBegin(r) \/ BackfillBegins(r) \/ NothingBegins(r)
<1>1. ASSUME StartStats(r, chain) PROVE StatsBegins(r)
  <2>1. PICK b : b = Begun("stats", chain)
    OBVIOUS
  <2>2. b \in Run /\ b.stream = "stats" /\ b.now = clock /\ b.errors = tenant.errors /\ b.used = 0
    BY <2>1, BegunFacts DEF Streams
  <2>3. PICK q : q = [b EXCEPT !.from = StatsFrom(tenant.stats), !.upto = clock]
    OBVIOUS
  <2>4. StatsFrom(tenant.stats) \in Days /\ clock \in Days
    BY WindowTypes, ClockFacts DEF CollectionTypeOK, Columns
  <2>5. Beginner(q, "stats") /\ q.from = StatsFrom(tenant.stats) /\ q.upto = clock
    BY <2>2, <2>3, <2>4 DEF Beginner, Run
  <2>6. run' = [run EXCEPT ![r] = q] /\ UNCHANGED <<tenant, origin, first>>
    BY <1>1, <2>1, <2>3 DEF StartStats
  <2> QED
    BY <2>5, <2>6 DEF StatsBegins
<1>2. ASSUME StartConvictions(r, chain) PROVE ConvictionsBegin(r)
  <2>1. PICK b : b = Begun("convictions", chain)
    OBVIOUS
  <2>2. b \in Run /\ b.stream = "convictions" /\ b.now = clock /\ b.errors = tenant.errors /\ b.used = 0
    BY <2>1, BegunFacts DEF Streams
  <2>3. PICK from : from = RescanFrom(tenant.watermark)
    OBVIOUS
  <2>4. PICK due : due = Found(from, clock)
    OBVIOUS
  <2>5. PICK q : q = [b EXCEPT !.from = from, !.upto = clock, !.due = due]
    OBVIOUS
  <2>6. from \in Days /\ clock \in Days /\ due \in SUBSET Messages
    BY <2>3, <2>4, WindowTypes, ClockFacts DEF CollectionTypeOK, Columns, Found
  <2>7. Beginner(q, "convictions") /\ q.from = from /\ q.upto = clock /\ q.due = due
    BY <2>2, <2>5, <2>6 DEF Beginner, Run
  <2>8. /\ run' = [run EXCEPT ![r] = q]
        /\ first' = IF tenant.watermark = Null THEN from ELSE first
        /\ UNCHANGED <<tenant, origin>>
    BY <1>2, <2>1, <2>3, <2>4, <2>5 DEF StartConvictions
  <2> QED
    BY <2>3, <2>4, <2>7, <2>8 DEF ConvictionsBegin
<1>3. ASSUME StartBackfill(r, chain) PROVE BackfillBegins(r)
  <2>1. PICK b : b = Begun("backfill", chain)
    OBVIOUS
  <2>2. b \in Run /\ b.stream = "backfill" /\ b.now = clock /\ b.errors = tenant.errors /\ b.used = 0
    BY <2>1, BegunFacts DEF Streams
  <2>3. PICK cursor : cursor = IF tenant.cursor = Null THEN InitialCursor ELSE tenant.cursor
    OBVIOUS
  <2>4. PICK from : from = WindowFrom(cursor, clock)
    OBVIOUS
  <2>5. PICK due : due = Found(from, cursor)
    OBVIOUS
  <2>6. PICK budget : budget = BudgetLeft
    OBVIOUS
  <2>7. PICK q : q = [b EXCEPT !.cursor = cursor, !.from = from, !.upto = cursor, !.due = due, !.budget = budget]
    OBVIOUS
  <2>8. cursor \in Days
    BY <2>3, CursorType DEF CollectionTypeOK, Columns, Day
  <2>9. from \in Days /\ due \in SUBSET Messages
    BY <2>4, <2>5, <2>8, WindowTypes DEF Found
  <2>10. budget \in Nat
    <3>1. CallsToday \in Nat
      BY DEF CallsToday, CollectionTypeOK
    <3> QED
      BY <2>6, <3>1, CollectionFacts DEF BudgetLeft, Larger
  <2>11. /\ Beginner(q, "backfill") /\ q.cursor = cursor /\ q.from = from /\ q.upto = cursor /\ q.due = due
    BY <2>2, <2>7, <2>8, <2>9, <2>10 DEF Beginner, Run, Day
  <2>12. /\ run' = [run EXCEPT ![r] = q]
         /\ tenant' = [tenant EXCEPT !.cursor = cursor]
         /\ origin' = IF tenant.cursor = Null THEN [from |-> cursor, day |-> clock] ELSE origin
         /\ UNCHANGED first
    BY <1>3, <2>1, <2>3, <2>4, <2>5, <2>6, <2>7 DEF StartBackfill
  <2> QED
    BY <2>3, <2>4, <2>5, <2>8, <2>11, <2>12 DEF BackfillBegins
<1> QED
  BY <1>1, <1>2, <1>3 DEF StartStream, SkipBackfill, NothingBegins, Streams

-----------------------------------------------------------------------------
(* A run ends                                                                *)

LEMMA EndFacts ==
  ASSUME CollectionTypeOK, NEW r \in Runs, NEW ok \in BOOLEAN, NEW row \in Columns, NEW n \in Nat,
         run[r].stream # "none", End(r, ok, row, n)
  PROVE  /\ tenant' \in Columns
         /\ tenant'.watermark = row.watermark /\ tenant'.cursor = row.cursor /\ tenant'.stats = row.stats
         /\ tenant'.errors = ErrorsAfter(r, ok)
         /\ calls' \in [day : Day, count : Nat] /\ spent' \in Nat
         /\ failing' \subseteq Streams /\ doubtful' \subseteq Streams
         /\ run' \in [Runs -> Run] /\ run'[r].stream = "none"
         /\ \A o \in Runs \ {r} : run'[o] = run[o]
<1>1. run \in [Runs -> Run] /\ run[r] \in Run /\ run[r].stream \in Streams /\ run[r].errors \subseteq Streams
  BY DEF CollectionTypeOK, Run
<1>2. tenant \in Columns /\ tenant.errors \subseteq Streams
  BY DEF CollectionTypeOK, Columns
<1>3. PICK errors : errors = ErrorsAfter(r, ok)
  OBVIOUS
<1>4. errors \subseteq Streams
  BY <1>1, <1>2, <1>3 DEF ErrorsAfter
<1>5. PICK written : written = Written(r, row)
  OBVIOUS
<1>6. /\ written \in Columns /\ written.watermark = row.watermark
      /\ written.cursor = row.cursor /\ written.stats = row.stats
  BY <1>2, <1>5 DEF Written, Columns
<1>7. tenant' = [written EXCEPT !.errors = errors]
  BY <1>3, <1>5 DEF End
<1>8. /\ tenant' \in Columns
      /\ tenant'.watermark = row.watermark /\ tenant'.cursor = row.cursor /\ tenant'.stats = row.stats
      /\ tenant'.errors = errors
  BY <1>4, <1>6, <1>7 DEF Columns
<1>9. calls' \in [day : Day, count : Nat] /\ spent' \in Nat
  <2>1. CallsToday \in Nat /\ clock \in Day
    BY ClockFacts DEF CallsToday, CollectionTypeOK, Day
  <2> QED
    BY <2>1 DEF End, Usage, CollectionTypeOK
<1>10. failing' \subseteq Streams /\ doubtful' \subseteq Streams
  BY <1>1 DEF End, CollectionTypeOK
<1>11. /\ run' \in [Runs -> Run] /\ run'[r].stream = "none"
       /\ \A o \in Runs \ {r} : run'[o] = run[o]
  <2>1. PICK next : next = NextOf(r, ok)
    OBVIOUS
  <2>2. next \in Streams \union {"none"}
    BY <2>1 DEF NextOf, Streams
  <2>3. PICK chain \in BOOLEAN : chain = (next # "none")
    OBVIOUS
  <2>4. PICK q : q = [Idle EXCEPT !.waits = next, !.chain = chain]
    OBVIOUS
  <2>5. q \in Run /\ q.stream = "none"
    BY <2>2, <2>4, IdleFacts DEF Run
  <2>6. run' = [run EXCEPT ![r] = q]
    BY <2>1, <2>3, <2>4 DEF End
  <2> QED
    BY <1>1, <2>5, <2>6
<1> QED
  BY <1>3, <1>8, <1>9, <1>10, <1>11

-----------------------------------------------------------------------------
(* Types are kept                                                            *)

LEMMA TypedKeeps ==
  ASSUME Typed, CollectionTypeOK', clock <= clock',
         UNCHANGED sent,
         \A m \in Messages : verdict'[m] = verdict[m] \/ (verdict'[m] = clock /\ sent[m] <= clock),
         \/ clock' = clock
         \/ clock' = clock + 1 /\ run' = run /\ \A r \in Runs : run[r].stream # "none" => run[r].now = clock,
         \A r \in Runs : \/ run'[r].stream = "none"
                         \/ run'[r].now = clock
                         \/ run[r].stream # "none" /\ run'[r].now = run[r].now
  PROVE  Typed'
<1>1. clock \in Nat /\ clock' \in Nat
  BY CollectionFacts DEF CollectionTypeOK, Typed
<1>2. Known'
  <2> SUFFICES ASSUME NEW m \in Messages, verdict'[m] # Null
               PROVE  sent'[m] <= verdict'[m] /\ verdict'[m] <= clock'
    BY DEF Known
  <2>1. sent[m] \in Nat /\ sent'[m] = sent[m] /\ verdict'[m] \in Nat
    BY CollectionFacts DEF CollectionTypeOK, Typed, Day
  <2> QED
    BY <1>1, <2>1 DEF Typed, Known
<1>3. ASSUME NEW r \in Runs, run'[r].stream # "none"
      PROVE  Horizon <= run'[r].now /\ run'[r].now <= clock' /\ clock' <= run'[r].now + 1
  <2>1. run[r].now \in Nat /\ run'[r].now \in Nat
    BY CollectionFacts DEF CollectionTypeOK, Typed, Run
  <2>2. run[r].stream # "none" => Horizon <= run[r].now /\ run[r].now <= clock /\ clock <= run[r].now + 1
    BY DEF Typed, Timely
  <2>3. Horizon <= clock
    BY ClockFacts DEF Typed
  <2> QED
    BY <1>1, <1>3, <2>1, <2>2, <2>3
<1> QED
  BY <1>2, <1>3 DEF Typed, Timely

LEMMA TypedInit == Init => Typed
<1> SUFFICES ASSUME Init PROVE Typed
  OBVIOUS
<1>1. clock = Start /\ Start \in Start..MaxClock /\ Start \in Days
  BY CollectionFacts DEF Init
<1>2. NoColumns \in Columns /\ [day |-> Null, count |-> 0] \in [day : Day, count : Nat]
      /\ [from |-> Null, day |-> Null] \in [from : Day, day : Day]
  BY DEF NoColumns, Columns, Day
<1>3. CollectionTypeOK
  <2>1. sent \in [Messages -> Days] /\ verdict \in [Messages -> Day] /\ rows \in [Days -> Day]
    BY <1>1, CollectionFacts DEF Init, Day
  <2>2. run \in [Runs -> Run]
    BY IdleFacts DEF Init
  <2> QED
    BY <1>1, <1>2, <2>1, <2>2 DEF Init, CollectionTypeOK, Day
<1>4. \A m \in Messages : verdict[m] # Null => verdict[m] = Start /\ sent[m] <= Start
  <2> SUFFICES ASSUME NEW m \in Messages, verdict[m] # Null PROVE verdict[m] = Start /\ sent[m] <= Start
    OBVIOUS
  <2>1. verdict[m] = Start /\ ~(sent[m] > Start) /\ sent[m] \in Nat
    BY <1>3, CollectionFacts DEF Init, CollectionTypeOK
  <2> QED
    BY <2>1, CollectionFacts
<1>5. Known
  BY <1>1, <1>4, CollectionFacts DEF Known
<1> QED
  BY <1>3, <1>5, IdleFacts DEF Typed, Timely, Init

LEMMA TypedStart ==
  ASSUME Typed, NEW r \in Runs, NEW s \in Streams, NEW chain \in BOOLEAN,
         Begin(r, s, chain) \/ (Continue(r) /\ run[r].waits = s /\ chain = TRUE)
  PROVE  Typed'
<1>1. CollectionTypeOK /\ StartStream(r, s, chain) /\ started' \in Nat
  <2>1. CASE Begin(r, s, chain)
    BY <2>1 DEF Typed, Begin, CollectionTypeOK
  <2>2. CASE Continue(r) /\ run[r].waits = s /\ chain = TRUE
    BY <2>2 DEF Typed, Continue, world, CollectionTypeOK
  <2> QED
    BY <2>1, <2>2
<1>2. UNCHANGED <<clock, sent, verdict, calls, data, faults, spent, failing, doubtful>>
  BY DEF Begin, Continue, world
<1>3. /\ run' \in [Runs -> Run] /\ tenant' \in Columns /\ origin' \in [from : Day, day : Day] /\ first' \in Day
      /\ \A o \in Runs \ {r} : run'[o] = run[o]
      /\ run'[r].stream = "none" \/ run'[r].now = clock
  <2>1. CASE StatsBegins(r)
    BY <1>1, <2>1 DEF StatsBegins, Beginner, CollectionTypeOK
  <2>2. CASE ConvictionsBegin(r)
    <3>1. PICK q : /\ run' = [run EXCEPT ![r] = q] /\ Beginner(q, "convictions")
                   /\ first' = IF tenant.watermark = Null THEN q.from ELSE first
                   /\ UNCHANGED <<tenant, origin>>
      BY <2>2 DEF ConvictionsBegin
    <3>2. q \in Run /\ q.now = clock /\ q.from \in Day
      BY <3>1 DEF Beginner, Run, Day
    <3> QED
      BY <1>1, <3>1, <3>2 DEF CollectionTypeOK
  <2>3. CASE BackfillBegins(r)
    <3>1. PICK q : /\ run' = [run EXCEPT ![r] = q] /\ Beginner(q, "backfill")
                   /\ q.cursor \in Days
                   /\ tenant' = [tenant EXCEPT !.cursor = q.cursor]
                   /\ origin' = IF tenant.cursor = Null THEN [from |-> q.cursor, day |-> clock] ELSE origin
                   /\ UNCHANGED first
      BY <2>3 DEF BackfillBegins
    <3>2. q \in Run /\ q.now = clock /\ q.cursor \in Day /\ clock \in Day
      BY <1>1, <3>1, ClockFacts DEF Beginner, Day
    <3>3. tenant' \in Columns
      BY <1>1, <3>1, <3>2 DEF CollectionTypeOK, Columns
    <3> QED
      BY <1>1, <3>1, <3>2, <3>3 DEF CollectionTypeOK
  <2>4. CASE NothingBegins(r)
    BY <1>1, <2>4, IdleFacts DEF NothingBegins, CollectionTypeOK
  <2> QED
    BY <1>1, <2>1, <2>2, <2>3, <2>4, StartFacts
<1>4. CollectionTypeOK'
  BY <1>1, <1>2, <1>3 DEF CollectionTypeOK, data
<1>5. clock <= clock'
  BY <1>1, <1>2, ClockFacts
<1>6. \A o \in Runs : run'[o].stream = "none" \/ run'[o].now = clock
                      \/ (run[o].stream # "none" /\ run'[o].now = run[o].now)
  BY <1>3
<1> QED
  BY <1>2, <1>4, <1>5, <1>6, TypedKeeps

\* The step is that of one run, whose row may change, and the clock stands still
LEMMA TypedRun ==
  ASSUME Typed, NEW r \in Runs, run[r].stream # "none",
         UNCHANGED <<world, first, origin>>,
         tenant' \in Columns, calls' \in [day : Day, count : Nat], stored' \subseteq Messages,
         rows' \in [Days -> Day], run' \in [Runs -> Run], faults' \in Nat, spent' \in Nat,
         failing' \subseteq Streams, doubtful' \subseteq Streams, older' \subseteq Days,
         run'[r].stream = "none" \/ run'[r].now = run[r].now,
         \A o \in Runs \ {r} : run'[o] = run[o]
  PROVE  Typed'
<1>1. CollectionTypeOK /\ UNCHANGED <<clock, sent, verdict, started, first, origin>>
  BY DEF Typed, world
<1>2. CollectionTypeOK'
  BY <1>1 DEF CollectionTypeOK
<1>3. clock <= clock'
  BY <1>1, ClockFacts
<1>4. \A o \in Runs : run'[o].stream = "none" \/ run'[o].now = clock
                      \/ (run[o].stream # "none" /\ run'[o].now = run[o].now)
  BY <1>1
<1> QED
  BY <1>1, <1>2, <1>3, <1>4, TypedKeeps

\* A run ends, and rows of tables are written
LEMMA TypedEnd ==
  ASSUME Typed, NEW r \in Runs, NEW ok \in BOOLEAN, NEW row \in Columns, NEW n \in Nat,
         run[r].stream # "none", End(r, ok, row, n), UNCHANGED <<world, first, origin>>,
         stored' \subseteq Messages, rows' \in [Days -> Day], older' \subseteq Days, faults' \in Nat
  PROVE  Typed'
<1>1. CollectionTypeOK
  BY DEF Typed
<1>2. /\ tenant' \in Columns
      /\ calls' \in [day : Day, count : Nat] /\ spent' \in Nat
      /\ failing' \subseteq Streams /\ doubtful' \subseteq Streams
      /\ run' \in [Runs -> Run] /\ run'[r].stream = "none"
      /\ \A o \in Runs \ {r} : run'[o] = run[o]
  BY <1>1, EndFacts
<1> QED
  BY <1>2, TypedRun

LEMMA TenantRows ==
  ASSUME CollectionTypeOK, NEW d \in Days
  PROVE  /\ tenant \in Columns
         /\ [tenant EXCEPT !.watermark = d] \in Columns /\ [tenant EXCEPT !.watermark = d].watermark = d
         /\ [tenant EXCEPT !.watermark = d].cursor = tenant.cursor
         /\ [tenant EXCEPT !.watermark = d].stats = tenant.stats
         /\ [tenant EXCEPT !.stats = d] \in Columns /\ [tenant EXCEPT !.stats = d].stats = d
         /\ [tenant EXCEPT !.stats = d].cursor = tenant.cursor
         /\ [tenant EXCEPT !.stats = d].watermark = tenant.watermark
         /\ [tenant EXCEPT !.cursor = d] \in Columns /\ [tenant EXCEPT !.cursor = d].cursor = d
         /\ [tenant EXCEPT !.cursor = d].watermark = tenant.watermark
         /\ [tenant EXCEPT !.cursor = d].stats = tenant.stats
         /\ [tenant EXCEPT !.cursor = d].errors = tenant.errors
         /\ [tenant EXCEPT !.done = TRUE] \in Columns
         /\ [tenant EXCEPT !.done = TRUE].cursor = tenant.cursor
         /\ [tenant EXCEPT !.done = TRUE].watermark = tenant.watermark
         /\ [tenant EXCEPT !.done = TRUE].stats = tenant.stats
  BY DEF CollectionTypeOK, Columns, Day

\* A page: what was due is stored or still due
LEMMA PageFacts ==
  ASSUME CollectionTypeOK, NEW r \in Runs, NEW got, NEW more \in BOOLEAN, Page(r, got, more)
  PROVE  /\ stored' = stored \union got /\ stored' \subseteq Messages
         /\ got \subseteq run[r].due /\ (run[r].due \ got) \subseteq Messages
         /\ ~more => got = run[r].due
         /\ run[r] \in Run
  BY DEF Page, CollectionTypeOK, Run

\* The next request of a run: more of the same window
Onward(r, q) ==
  /\ run' = [run EXCEPT ![r] = q] /\ q \in Run
  /\ q.stream = run[r].stream /\ q.now = run[r].now /\ q.errors = run[r].errors
  /\ q.from = run[r].from /\ q.upto = run[r].upto /\ q.cursor = run[r].cursor

LEMMA ConvictionsPageFacts ==
  ASSUME CollectionTypeOK, NEW r \in Runs, ConvictionsPage(r)
  PROVE  /\ \E got, q : /\ got \subseteq run[r].due /\ stored' = stored \union got
                        /\ Onward(r, q) /\ q.due = run[r].due \ got
         /\ stored' \subseteq Messages /\ run[r].stream = "convictions"
<1>1. PICK got \in SUBSET run[r].due :
         /\ run[r].stream = "convictions" /\ Page(r, got, TRUE)
         /\ run' = [run EXCEPT ![r].due = @ \ got, ![r].used = @ + 1]
  BY DEF ConvictionsPage
<1>2. PICK q : q = [run[r] EXCEPT !.due = run[r].due \ got, !.used = run[r].used + 1]
  OBVIOUS
<1>3. run[r] \in Run /\ (run[r].due \ got) \subseteq Messages /\ stored' = stored \union got
      /\ stored' \subseteq Messages /\ run[r].used + 1 \in Nat
  BY <1>1 DEF Page, CollectionTypeOK, Run
<1>4. q \in Run /\ q.due = run[r].due \ got
      /\ q.stream = run[r].stream /\ q.now = run[r].now /\ q.errors = run[r].errors
      /\ q.from = run[r].from /\ q.upto = run[r].upto /\ q.cursor = run[r].cursor
  BY <1>2, <1>3 DEF Run
<1>5. run' = [run EXCEPT ![r] = q]
  BY <1>1, <1>2 DEF CollectionTypeOK
<1> QED
  BY <1>1, <1>3, <1>4, <1>5 DEF Onward

\* A page of the backfill: the run ends, goes on in the window, or begins the next
NextWindow(r) ==
  /\ \E q : /\ run' = [run EXCEPT ![r] = q] /\ q \in Run
            /\ q.stream = "backfill" /\ q.now = run[r].now /\ q.errors = run[r].errors
            /\ q.cursor = run[r].from /\ q.cursor \in Days /\ q.upto = run[r].from
            /\ q.from = WindowFrom(q.cursor, run[r].now)
            /\ q.due = Found(q.from, q.cursor)
            /\ tenant' = [tenant EXCEPT !.cursor = q.cursor]
  /\ stored' = stored \union run[r].due

LEMMA BackfillPageFacts ==
  ASSUME Typed, NEW r \in Runs, BackfillPage(r)
  PROVE  /\ run[r].stream = "backfill"
         /\ stored' \subseteq Messages
         /\ \/ /\ \E n \in Nat : End(r, TRUE, tenant, n)
               /\ stored \subseteq stored'
            \/ /\ \E got, q : /\ got \subseteq run[r].due /\ stored' = stored \union got
                              /\ Onward(r, q) /\ q.due = run[r].due \ got
               /\ UNCHANGED <<tenant, calls, spent, failing, doubtful>>
            \/ NextWindow(r) /\ UNCHANGED <<calls, spent, failing, doubtful>>
<1>1. CollectionTypeOK /\ run[r] \in Run
  BY DEF Typed, CollectionTypeOK
<1>2. PICK got \in SUBSET run[r].due, more \in BOOLEAN :
         /\ run[r].stream = "backfill" /\ Page(r, got, more)
         /\ \/ /\ ~Complete(r, run[r].used + 1)
               /\ End(r, TRUE, Cut(r), run[r].used + 1)
            \/ /\ Complete(r, run[r].used + 1) /\ more
               /\ run' = [run EXCEPT ![r].due = @ \ got, ![r].used = run[r].used + 1]
               /\ UNCHANGED <<tenant, calls, spent, failing, doubtful>>
            \/ /\ Complete(r, run[r].used + 1) /\ ~more
               /\ tenant' = [tenant EXCEPT !.cursor = run[r].from]
               /\ run' = [run EXCEPT ![r].cursor = run[r].from, ![r].upto = run[r].from,
                           ![r].from = WindowFrom(run[r].from, run[r].now),
                           ![r].due = Found(WindowFrom(run[r].from, run[r].now), run[r].from),
                           ![r].used = run[r].used + 1]
               /\ UNCHANGED <<calls, spent, failing, doubtful>>
  BY DEF BackfillPage
<1>3. /\ stored' = stored \union got /\ stored' \subseteq Messages
      /\ (run[r].due \ got) \subseteq Messages /\ (~more => got = run[r].due)
      /\ run[r].used + 1 \in Nat
  BY <1>1, <1>2, PageFacts DEF Run
<1>4. CASE End(r, TRUE, Cut(r), run[r].used + 1)
  BY <1>2, <1>3, <1>4 DEF Cut
<1>5. CASE run' = [run EXCEPT ![r].due = @ \ got, ![r].used = run[r].used + 1]
           /\ UNCHANGED <<tenant, calls, spent, failing, doubtful>>
  <2>1. PICK q : q = [run[r] EXCEPT !.due = run[r].due \ got, !.used = run[r].used + 1]
    OBVIOUS
  <2>2. q \in Run /\ q.due = run[r].due \ got
        /\ q.stream = run[r].stream /\ q.now = run[r].now /\ q.errors = run[r].errors
        /\ q.from = run[r].from /\ q.upto = run[r].upto /\ q.cursor = run[r].cursor
    BY <1>1, <1>3, <2>1 DEF Run
  <2>3. run' = [run EXCEPT ![r] = q]
    BY <1>1, <1>5, <2>1 DEF CollectionTypeOK
  <2> QED
    BY <1>2, <1>3, <1>5, <2>2, <2>3 DEF Onward
<1>6. CASE /\ ~more /\ tenant' = [tenant EXCEPT !.cursor = run[r].from]
           /\ run' = [run EXCEPT ![r].cursor = run[r].from, ![r].upto = run[r].from,
                       ![r].from = WindowFrom(run[r].from, run[r].now),
                       ![r].due = Found(WindowFrom(run[r].from, run[r].now), run[r].from),
                       ![r].used = run[r].used + 1]
           /\ UNCHANGED <<calls, spent, failing, doubtful>>
  <2>1. PICK lower : lower = run[r].from
    OBVIOUS
  <2>2. PICK from : from = WindowFrom(lower, run[r].now)
    OBVIOUS
  <2>3. PICK due : due = Found(from, lower)
    OBVIOUS
  <2>4. PICK q : q = [run[r] EXCEPT !.cursor = lower, !.upto = lower, !.from = from, !.due = due,
                                    !.used = run[r].used + 1]
    OBVIOUS
  <2>5. lower \in Days /\ lower \in Day /\ run[r].now \in Days /\ due \subseteq Messages
    BY <1>1, <2>1, <2>3 DEF Run, Found, Day
  <2>6. from \in Days
    <3>1. run[r].now >= Horizon
      BY <1>2, <2>5, CollectionFacts DEF Typed, Timely
    <3> QED
      BY <1>1, <2>2, <2>5, <3>1, WindowTypes
  <2>7. q \in Run
        /\ q.stream = "backfill" /\ q.now = run[r].now /\ q.errors = run[r].errors
        /\ q.cursor = lower /\ q.upto = lower /\ q.from = from /\ q.due = due
    BY <1>1, <1>2, <1>3, <2>4, <2>5, <2>6 DEF Run
  <2>8. run' = [run EXCEPT ![r] = q]
    BY <1>1, <1>6, <2>1, <2>2, <2>3, <2>4 DEF CollectionTypeOK
  <2> QED
    BY <1>2, <1>3, <1>6, <2>1, <2>2, <2>3, <2>5, <2>7, <2>8 DEF NextWindow
<1> QED
  BY <1>2, <1>4, <1>5, <1>6

LEMMA ReportFacts ==
  ASSUME CollectionTypeOK, NEW r \in Runs, Report(r)
  PROVE  /\ \E q : Onward(r, q)
         /\ run[r].stream = "stats"
         /\ UNCHANGED <<tenant, calls, stored, rows, older, spent, failing, doubtful>>
<1>1. PICK fresh : fresh = {d \in run[r].from..run[r].upto : rows[d] = Null}
  OBVIOUS
<1>2. PICK q : q = [run[r] EXCEPT !.rows = TRUE, !.used = run[r].used + 1, !.fresh = fresh]
  OBVIOUS
<1>3. run[r] \in Run /\ run[r].used + 1 \in Nat /\ run[r].from \in Days /\ run[r].upto \in Days
  BY DEF CollectionTypeOK, Run
<1>4. fresh \subseteq Days
  BY <1>1, <1>3, CollectionFacts
<1>5. /\ q \in Run
      /\ q.stream = run[r].stream /\ q.now = run[r].now /\ q.errors = run[r].errors
      /\ q.from = run[r].from /\ q.upto = run[r].upto /\ q.cursor = run[r].cursor
  BY <1>2, <1>3, <1>4 DEF Run
<1>6. run' = [run EXCEPT ![r] = q]
  BY <1>1, <1>2 DEF Report, CollectionTypeOK
<1> QED
  BY <1>5, <1>6 DEF Onward, Report, data

LEMMA StoreTypes ==
  ASSUME CollectionTypeOK, NEW r \in Runs, NEW lists, StoreStats(r, lists)
  PROVE  rows' \in [Days -> Day] /\ older' \subseteq Days /\ stored' = stored /\ stored' \subseteq Messages
<1>1. run[r].now \in Day
  BY DEF CollectionTypeOK, Run, Day
<1> QED
  BY <1>1 DEF StoreStats, CollectionTypeOK

\* A run that is dropped
LEMMA TypedDropped ==
  ASSUME Typed, run' \in [Runs -> Run], \A r \in Runs : run'[r] = Idle \/ run'[r] = run[r],
         faults' \in Nat, UNCHANGED <<world, tenant, calls, data, first, origin, spent, failing, doubtful>>
  PROVE  Typed'
<1>1. CollectionTypeOK /\ UNCHANGED <<clock, sent, verdict>>
  BY DEF Typed, world
<1>2. CollectionTypeOK'
  BY <1>1 DEF CollectionTypeOK, world, data
<1>3. clock <= clock'
  BY <1>1, ClockFacts
<1>4. \A o \in Runs : run'[o].stream = "none" \/ run'[o].now = clock
                      \/ (run[o].stream # "none" /\ run'[o].now = run[o].now)
  BY IdleFacts
<1> QED
  BY <1>1, <1>2, <1>3, <1>4, TypedKeeps

LEMMA DroppedFacts ==
  ASSUME CollectionTypeOK, (\E r \in Runs : Raise(r)) \/ Stop
  PROVE  /\ run' \in [Runs -> Run] /\ \A r \in Runs : run'[r] = Idle \/ run'[r] = run[r]
         /\ faults' \in Nat /\ UNCHANGED <<world, tenant, calls, data, first, origin, spent, failing, doubtful>>
<1>1. CASE \E r \in Runs : Raise(r)
  <2>1. PICK r \in Runs : run' = [run EXCEPT ![r] = Idle] /\ faults' \in {faults, faults + 1}
    BY <1>1 DEF Raise
  <2> QED
    BY <1>1, <2>1, IdleFacts DEF Raise, CollectionTypeOK
<1>2. CASE Stop
  BY <1>2, IdleFacts DEF Stop, CollectionTypeOK
<1> QED
  BY <1>1, <1>2

\* A run that goes on
LEMMA TypedOnward ==
  ASSUME Typed, NEW r \in Runs, NEW q, Onward(r, q), run[r].stream # "none",
         stored' \subseteq Messages,
         UNCHANGED <<world, tenant, calls, rows, older, faults, first, origin, spent, failing, doubtful>>
  PROVE  Typed'
<1>1. CollectionTypeOK
  BY DEF Typed
<1>2. /\ run' \in [Runs -> Run] /\ run'[r] = q /\ \A o \in Runs \ {r} : run'[o] = run[o]
      /\ q.now = run[r].now
  BY <1>1 DEF Onward, CollectionTypeOK
<1>3. /\ tenant' \in Columns /\ calls' \in [day : Day, count : Nat]
      /\ rows' \in [Days -> Day] /\ faults' \in Nat /\ spent' \in Nat
      /\ failing' \subseteq Streams /\ doubtful' \subseteq Streams /\ older' \subseteq Days
  BY <1>1 DEF CollectionTypeOK
<1> QED
  BY <1>2, <1>3, TypedRun

LEMMA TypedStep ==
  ASSUME Typed, [Next]_vars
  PROVE  Typed'
<1>1. CollectionTypeOK /\ faults \in Nat /\ faults + 1 \in Nat /\ clock \in Days /\ tenant \in Columns
  BY ClockFacts DEF Typed, CollectionTypeOK
<1>2. ASSUME NEW r \in Runs, NEW s \in Streams, NEW chain \in BOOLEAN, Begin(r, s, chain) PROVE Typed'
  BY <1>2, TypedStart
<1>3. ASSUME NEW r \in Runs, Continue(r) PROVE Typed'
  <2>1. run[r].waits \in Streams
    BY <1>1, <1>3 DEF Continue, CollectionTypeOK, Run
  <2>2. PICK chain \in BOOLEAN : chain = TRUE
    OBVIOUS
  <2> QED
    BY <1>3, <2>1, <2>2, TypedStart
<1>4. ASSUME NEW r \in Runs, ConvictionsPage(r) PROVE Typed'
  <2>1. PICK q : Onward(r, q)
    BY <1>1, <1>4, ConvictionsPageFacts
  <2>2. stored' \subseteq Messages /\ run[r].stream # "none"
    BY <1>1, <1>4, ConvictionsPageFacts
  <2> QED
    BY <1>4, <2>1, <2>2, TypedOnward DEF ConvictionsPage
<1>5. ASSUME NEW r \in Runs, ConvictionsEnd(r) PROVE Typed'
  <2>1. /\ run[r].now \in Days /\ run[r].used + 1 \in Nat /\ run[r].due \subseteq Messages
        /\ run[r].stream # "none"
    BY <1>1, <1>5 DEF CollectionTypeOK, Run, ConvictionsEnd
  <2>2. PICK row : row = [tenant EXCEPT !.watermark = run[r].now]
    OBVIOUS
  <2>3. row \in Columns /\ End(r, TRUE, row, run[r].used + 1)
    BY <1>1, <1>5, <2>1, <2>2, TenantRows DEF ConvictionsEnd
  <2>4. /\ UNCHANGED <<world, first, origin>> /\ stored' \subseteq Messages
        /\ rows' \in [Days -> Day] /\ older' \subseteq Days /\ faults' \in Nat
    BY <1>1, <1>5, <2>1 DEF ConvictionsEnd, Page, CollectionTypeOK
  <2> QED
    BY <2>1, <2>3, <2>4, TypedEnd
<1>6. ASSUME NEW r \in Runs, BackfillPaused(r) \/ BackfillDone(r) PROVE Typed'
  <2>1. run[r].used \in Nat /\ run[r].stream # "none"
    BY <1>1, <1>6 DEF CollectionTypeOK, Run, BackfillPaused, BackfillDone
  <2>2. PICK row \in Columns : End(r, TRUE, row, run[r].used)
    BY <1>1, <1>6, TenantRows DEF BackfillPaused, BackfillDone, Succeed
  <2>3. /\ UNCHANGED <<world, first, origin>> /\ stored' \subseteq Messages
        /\ rows' \in [Days -> Day] /\ older' \subseteq Days /\ faults' \in Nat
    BY <1>1, <1>6 DEF BackfillPaused, BackfillDone, Succeed, data, CollectionTypeOK
  <2> QED
    BY <2>1, <2>2, <2>3, TypedEnd
<1>7. ASSUME NEW r \in Runs, BackfillPage(r) PROVE Typed'
  <2>1. /\ run[r].stream = "backfill" /\ stored' \subseteq Messages
        /\ UNCHANGED <<world, rows, month, older, faults, first, origin>>
    BY <1>7, BackfillPageFacts DEF BackfillPage
  <2>2. ASSUME NEW n \in Nat, End(r, TRUE, tenant, n) PROVE Typed'
    <3>1. rows' \in [Days -> Day] /\ older' \subseteq Days /\ faults' \in Nat
      BY <1>1, <2>1 DEF CollectionTypeOK
    <3> QED
      BY <1>1, <2>1, <2>2, <3>1, TypedEnd
  <2>3. ASSUME NEW q, Onward(r, q), UNCHANGED <<tenant, calls, spent, failing, doubtful>> PROVE Typed'
    BY <2>1, <2>3, TypedOnward
  <2>4. ASSUME NextWindow(r), UNCHANGED <<calls, spent, failing, doubtful>> PROVE Typed'
    <3>1. PICK q : /\ run' = [run EXCEPT ![r] = q] /\ q \in Run /\ q.now = run[r].now
                   /\ q.cursor \in Days /\ tenant' = [tenant EXCEPT !.cursor = q.cursor]
      BY <2>4 DEF NextWindow
    <3>2. tenant' \in Columns
      BY <1>1, <3>1, TenantRows
    <3>3. /\ run' \in [Runs -> Run] /\ run'[r].now = run[r].now /\ \A o \in Runs \ {r} : run'[o] = run[o]
      BY <1>1, <3>1 DEF CollectionTypeOK
    <3>4. /\ calls' \in [day : Day, count : Nat]
          /\ rows' \in [Days -> Day] /\ faults' \in Nat /\ spent' \in Nat
          /\ failing' \subseteq Streams /\ doubtful' \subseteq Streams /\ older' \subseteq Days
      BY <1>1, <2>1, <2>4 DEF CollectionTypeOK
    <3> QED
      BY <2>1, <3>2, <3>3, <3>4, TypedRun
  <2> QED
    BY <1>7, <2>2, <2>3, <2>4, BackfillPageFacts
<1>8. ASSUME NEW r \in Runs, Report(r) PROVE Typed'
  <2>1. PICK q : Onward(r, q)
    BY <1>1, <1>8, ReportFacts
  <2>2. run[r].stream # "none" /\ stored' \subseteq Messages
    BY <1>1, <1>8, ReportFacts DEF CollectionTypeOK
  <2> QED
    BY <1>8, <2>1, <2>2, TypedOnward DEF Report, data
<1>9. ASSUME NEW r \in Runs, StatsEnd(r) PROVE Typed'
  <2>1. run[r].now \in Days /\ run[r].used + 1 \in Nat /\ run[r].stream # "none"
    BY <1>1, <1>9 DEF CollectionTypeOK, Run, StatsEnd
  <2>2. PICK row : row = [tenant EXCEPT !.stats = run[r].now]
    OBVIOUS
  <2>3. row \in Columns /\ End(r, TRUE, row, run[r].used + 1)
    BY <1>1, <1>9, <2>1, <2>2, TenantRows DEF StatsEnd
  <2>4. /\ UNCHANGED <<world, first, origin>> /\ stored' \subseteq Messages
        /\ rows' \in [Days -> Day] /\ older' \subseteq Days /\ faults' \in Nat
    BY <1>1, <1>9, StoreTypes DEF StatsEnd
  <2> QED
    BY <2>1, <2>3, <2>4, TypedEnd
<1>10. ASSUME NEW r \in Runs, ApiError(r) PROVE Typed'
  <2>1. run[r].used + 1 \in Nat /\ run[r].stream # "none" /\ End(r, FALSE, tenant, run[r].used + 1)
    <3>1. run[r].used + 1 \in Nat
      BY <1>1 DEF CollectionTypeOK, Run
    <3>2. run[r].stream # "none" /\ End(r, FALSE, tenant, run[r].used + 1)
      BY <1>10, Zenon DEF ApiError
    <3> QED
      BY <3>1, <3>2
  <2>2. stored' \subseteq Messages /\ rows' \in [Days -> Day] /\ older' \subseteq Days
    <3>1. ASSUME NEW lists, StoreStats(r, lists) PROVE stored' \subseteq Messages /\ rows' \in [Days -> Day] /\ older' \subseteq Days
      BY <1>1, <3>1, StoreTypes
    <3>2. ASSUME UNCHANGED data PROVE stored' \subseteq Messages /\ rows' \in [Days -> Day] /\ older' \subseteq Days
      BY <1>1, <3>2 DEF data, CollectionTypeOK
    <3> QED
      BY <1>10, <3>1, <3>2 DEF ApiError
  <2> QED
    BY <1>1, <1>10, <2>1, <2>2, TypedEnd DEF ApiError
<1>11. CASE (\E r \in Runs : Raise(r)) \/ Stop
  BY <1>1, <1>11, DroppedFacts, TypedDropped
<1>12. CASE Tick
  <2>1. clock' = clock + 1 /\ clock' \in Start..MaxClock /\ clock <= clock'
    BY <1>1, <1>12, CollectionFacts DEF Tick, CollectionTypeOK
  <2>2. CollectionTypeOK'
    BY <1>1, <1>12, <2>1 DEF Tick, CollectionTypeOK, data
  <2>3. \A r \in Runs : run'[r] = run[r] /\ verdict' = verdict
    BY <1>12 DEF Tick
  <2> QED
    BY <1>12, <2>1, <2>2, <2>3, TypedKeeps DEF Tick
<1>13. ASSUME NEW m \in Messages, Convict(m) PROVE Typed'
  <2>1. verdict' \in [Messages -> Day] /\ clock' = clock /\ clock <= clock'
    BY <1>1, <1>13, ClockFacts DEF Convict, CollectionTypeOK, Day
  <2>2. CollectionTypeOK'
    BY <1>1, <1>13, <2>1 DEF Convict, CollectionTypeOK, data
  <2>3. \A o \in Messages : verdict'[o] = verdict[o] \/ (verdict'[o] = clock /\ sent[o] <= clock)
    BY <1>1, <1>13 DEF Convict, CollectionTypeOK
  <2> QED
    BY <1>13, <2>1, <2>2, <2>3, TypedKeeps DEF Convict
<1>14. CASE UNCHANGED vars
  BY <1>14 DEF vars, Typed, CollectionTypeOK, Known, Timely
<1> QED
  BY <1>2, <1>3, <1>4, <1>5, <1>6, <1>7, <1>8, <1>9, <1>10, <1>11, <1>12, <1>13, <1>14 DEF Next

LEMMA CollectionTyped == Spec => []Typed
<1>1. Init => Typed
  BY TypedInit
<1>2. Typed /\ [Next]_vars => Typed'
  BY TypedStep
<1> QED
  BY <1>1, <1>2, PTL DEF Spec

-----------------------------------------------------------------------------
(* Usage and errors change when a run ends                                   *)

Ends ==
  \E r \in Runs, ok \in BOOLEAN, row \in Columns, n \in Nat :
    run[r].stream # "none" /\ End(r, ok, row, n)

EndsNothing ==
  /\ UNCHANGED <<calls, spent, failing, doubtful>> /\ tenant'.errors = tenant.errors
  /\ \A r \in Runs : \/ run'[r].stream = "none"
                     \/ run'[r].errors = tenant.errors
                     \/ run[r].stream # "none" /\ run'[r].errors = run[r].errors

LEMMA EndOrNot ==
  ASSUME Typed, [Next]_vars
  PROVE  Tick \/ (clock' = clock /\ (Ends \/ EndsNothing))
<1>1. CollectionTypeOK /\ tenant \in Columns /\ clock \in Days
  BY ClockFacts DEF Typed, CollectionTypeOK
<1>2. ASSUME NEW r \in Runs, NEW s \in Streams, NEW chain \in BOOLEAN, StartStream(r, s, chain),
             UNCHANGED <<calls, spent, failing, doubtful>>
      PROVE  EndsNothing
  <2>1. CASE StatsBegins(r)
    BY <1>1, <1>2, <2>1 DEF StatsBegins, Beginner, EndsNothing, CollectionTypeOK
  <2>2. CASE ConvictionsBegin(r)
    BY <1>1, <1>2, <2>2 DEF ConvictionsBegin, Beginner, EndsNothing, CollectionTypeOK
  <2>3. CASE BackfillBegins(r)
    <3>1. PICK q : /\ run' = [run EXCEPT ![r] = q] /\ Beginner(q, "backfill")
                   /\ q.cursor \in Days /\ tenant' = [tenant EXCEPT !.cursor = q.cursor]
      BY <2>3 DEF BackfillBegins
    <3>2. tenant'.errors = tenant.errors
      BY <1>1, <3>1, TenantRows
    <3> QED
      BY <1>1, <1>2, <3>1, <3>2 DEF Beginner, EndsNothing, CollectionTypeOK
  <2>4. CASE NothingBegins(r)
    BY <1>1, <1>2, <2>4, IdleFacts DEF NothingBegins, EndsNothing, CollectionTypeOK
  <2> QED
    BY <1>1, <1>2, <2>1, <2>2, <2>3, <2>4, StartFacts
<1>3. ASSUME NEW r \in Runs, NEW q, Onward(r, q), run[r].stream # "none",
             UNCHANGED <<tenant, calls, spent, failing, doubtful>>
      PROVE  EndsNothing
  BY <1>1, <1>3 DEF Onward, EndsNothing, CollectionTypeOK
<1>4. ASSUME NEW r \in Runs, NEW s \in Streams, NEW chain \in BOOLEAN, Begin(r, s, chain)
      PROVE  clock' = clock /\ EndsNothing
  BY <1>2, <1>4 DEF Begin
<1>5. ASSUME NEW r \in Runs, Continue(r)
      PROVE  clock' = clock /\ EndsNothing
  <2>1. run[r].waits \in Streams
    BY <1>1, <1>5 DEF Continue, CollectionTypeOK, Run
  <2>2. PICK chain \in BOOLEAN : chain = TRUE
    OBVIOUS
  <2> QED
    BY <1>2, <1>5, <2>1, <2>2 DEF Continue, world
<1>6. ASSUME NEW r \in Runs, ConvictionsPage(r)
      PROVE  clock' = clock /\ EndsNothing
  <2>1. PICK q : Onward(r, q)
    BY <1>1, <1>6, ConvictionsPageFacts
  <2> QED
    BY <1>3, <1>6, <2>1 DEF ConvictionsPage, world
<1>7. ASSUME NEW r \in Runs, ConvictionsEnd(r) \/ StatsEnd(r)
      PROVE  clock' = clock /\ Ends
  <2>1. run[r].now \in Days /\ run[r].used + 1 \in Nat
    BY <1>1 DEF CollectionTypeOK, Run
  <2>2. run[r].stream # "none" /\ UNCHANGED world
    BY <1>7 DEF StatsEnd, ConvictionsEnd
  <2>3. PICK row \in Columns : End(r, TRUE, row, run[r].used + 1)
    <3>1. CASE ConvictionsEnd(r)
      <4>1. PICK row : row = [tenant EXCEPT !.watermark = run[r].now]
        OBVIOUS
      <4> QED
        BY <1>1, <2>1, <3>1, <4>1, TenantRows DEF ConvictionsEnd
    <3>2. CASE StatsEnd(r)
      <4>1. PICK row : row = [tenant EXCEPT !.stats = run[r].now]
        OBVIOUS
      <4> QED
        BY <1>1, <2>1, <3>2, <4>1, TenantRows DEF StatsEnd
    <3> QED
      BY <1>7, <3>1, <3>2
  <2> QED
    BY <2>1, <2>2, <2>3 DEF Ends, world
<1>8. ASSUME NEW r \in Runs, BackfillPaused(r) \/ BackfillDone(r)
      PROVE  clock' = clock /\ Ends
  <2>1. run[r].used \in Nat /\ run[r].stream # "none"
    BY <1>1, <1>8 DEF CollectionTypeOK, Run, BackfillPaused, BackfillDone
  <2>2. PICK row \in Columns : End(r, TRUE, row, run[r].used)
    BY <1>1, <1>8, TenantRows DEF BackfillPaused, BackfillDone, Succeed
  <2> QED
    BY <1>8, <2>1, <2>2 DEF Ends, BackfillPaused, BackfillDone, Succeed, world
<1>9. ASSUME NEW r \in Runs, BackfillPage(r)
      PROVE  clock' = clock /\ (Ends \/ EndsNothing)
  <2>1. clock' = clock /\ run[r].stream = "backfill"
    BY <1>9 DEF BackfillPage, world
  <2>2. ASSUME NEW n \in Nat, End(r, TRUE, tenant, n) PROVE Ends
    BY <1>1, <2>1, <2>2 DEF Ends
  <2>3. ASSUME NEW q, Onward(r, q), UNCHANGED <<tenant, calls, spent, failing, doubtful>> PROVE EndsNothing
    BY <1>3, <2>1, <2>3
  <2>4. ASSUME NextWindow(r), UNCHANGED <<calls, spent, failing, doubtful>> PROVE EndsNothing
    <3>1. PICK q : /\ run' = [run EXCEPT ![r] = q] /\ q.errors = run[r].errors
                   /\ q.cursor \in Days /\ tenant' = [tenant EXCEPT !.cursor = q.cursor]
      BY <2>4 DEF NextWindow
    <3>2. tenant'.errors = tenant.errors
      BY <1>1, <3>1, TenantRows
    <3> QED
      BY <1>1, <2>1, <2>4, <3>1, <3>2 DEF EndsNothing, CollectionTypeOK
  <2> QED
    BY <1>9, <2>1, <2>2, <2>3, <2>4, BackfillPageFacts
<1>10. ASSUME NEW r \in Runs, Report(r)
       PROVE  clock' = clock /\ EndsNothing
  <2>1. PICK q : Onward(r, q)
    BY <1>1, <1>10, ReportFacts
  <2> QED
    BY <1>3, <1>10, <2>1 DEF Report, world
<1>11. ASSUME NEW r \in Runs, ApiError(r)
       PROVE  clock' = clock /\ Ends
  <2>1. run[r].used + 1 \in Nat
    BY <1>1 DEF CollectionTypeOK, Run
  <2>2. run[r].stream # "none" /\ End(r, FALSE, tenant, run[r].used + 1) /\ UNCHANGED world
    BY <1>11, Zenon DEF ApiError
  <2> QED
    BY <1>1, <2>1, <2>2 DEF Ends, world
<1>12. CASE (\E r \in Runs : Raise(r)) \/ Stop
  <2>1. /\ UNCHANGED <<world, tenant, calls, spent, failing, doubtful>>
        /\ \A r \in Runs : run'[r] = Idle \/ run'[r] = run[r]
    BY <1>1, <1>12, DroppedFacts
  <2> QED
    BY <2>1, IdleFacts DEF EndsNothing, world
<1>13. ASSUME NEW m \in Messages, Convict(m)
       PROVE  clock' = clock /\ EndsNothing
  BY <1>13 DEF Convict, EndsNothing
<1>14. CASE UNCHANGED vars
  BY <1>14 DEF vars, EndsNothing
<1> QED
  BY <1>4, <1>5, <1>6, <1>7, <1>8, <1>9, <1>10, <1>11, <1>12, <1>13, <1>14 DEF Next

Counting == CallsToday = spent /\ (calls.day # Null => calls.day <= clock)

LEMMA CountingStep ==
  ASSUME Typed, Counting, [Next]_vars
  PROVE  Counting'
<1>1. /\ clock \in Nat /\ Null # clock /\ (calls.day = Null \/ calls.day \in Nat)
      /\ calls.count \in Nat /\ spent \in Nat
  BY ClockFacts, CollectionFacts DEF Typed, CollectionTypeOK, Day
<1>2. CASE Tick
  <2>1. clock' = clock + 1 /\ calls' = calls /\ spent' = 0
    BY <1>2 DEF Tick
  <2> QED
    BY <1>1, <2>1, CollectionFacts DEF Counting, CallsToday
<1>3. CASE clock' = clock /\ Ends
  <2>1. PICK n \in Nat : calls' = Usage(n) /\ spent' = spent + n
    BY <1>3 DEF Ends, End
  <2>2. CASE n = 0
    BY <1>1, <1>3, <2>1, <2>2 DEF Usage, Counting, CallsToday
  <2>3. CASE n # 0
    <3>1. calls' = [day |-> clock, count |-> spent + n]
      BY <2>1, <2>3 DEF Usage, Counting
    <3>2. calls'.day = clock /\ calls'.count = spent + n
      BY <3>1
    <3> QED
      BY <1>1, <1>3, <2>1, <3>2 DEF Counting, CallsToday
  <2> QED
    BY <2>2, <2>3
<1>4. CASE clock' = clock /\ EndsNothing
  BY <1>4 DEF EndsNothing, Counting, CallsToday
<1> QED
  BY <1>2, <1>3, <1>4, EndOrNot

\* A day's count of requests is what the runs that ended on it used, also when
\* they overlap and when a day goes over into the next: record_api_usage,
\* api_calls_today.
THEOREM RequestsAreCounted == Spec => []UsageIsCounted
<1>1. Init => Counting
  BY CollectionFacts DEF Init, Counting, CallsToday
<1>2. Typed /\ Counting /\ [Next]_vars => Counting'
  BY CountingStep
<1>3. Counting => UsageIsCounted
  BY DEF Counting, UsageIsCounted
<1> QED
  BY <1>1, <1>2, <1>3, CollectionTyped, PTL DEF Spec

-----------------------------------------------------------------------------
(* Errors: the copy of a run is that of the tenant, but for what others may  *)
(* have written meanwhile                                                    *)

Copies ==
  /\ \A s \in Streams \ doubtful : s \in tenant.errors <=> s \in failing
  /\ \A r \in Runs : run[r].stream # "none" =>
       \A s \in Streams \ doubtful : s \in run[r].errors <=> s \in tenant.errors

LEMMA CopiesStep ==
  ASSUME Typed, Copies, [Next]_vars
  PROVE  Copies'
<1>1. CollectionTypeOK /\ tenant.errors \subseteq Streams
  BY DEF Typed, CollectionTypeOK, Columns
<1>2. CASE Tick
  BY <1>2 DEF Tick, Copies
<1>3. CASE EndsNothing
  BY <1>3 DEF EndsNothing, Copies
<1>4. CASE Ends
  <2>1. PICK r \in Runs, ok \in BOOLEAN, row \in Columns, n \in Nat : run[r].stream # "none" /\ End(r, ok, row, n)
    BY <1>4 DEF Ends
  <2>2. PICK s : s = run[r].stream
    OBVIOUS
  <2>3. PICK old : old = run[r].errors
    OBVIOUS
  <2>4. PICK now : now = tenant.errors
    OBVIOUS
  <2>5. /\ tenant'.errors = IF ok THEN IF s \in old THEN old \ {s} ELSE now ELSE old \union {s}
        /\ run'[r].stream = "none" /\ \A o \in Runs \ {r} : run'[o] = run[o]
        /\ failing' = IF ok THEN failing \ {s} ELSE failing \union {s}
    BY <1>1, <2>1, <2>2, <2>3, <2>4, EndFacts DEF ErrorsAfter, End
  <2>6. \/ doubtful' = doubtful \union {s}
        \/ /\ doubtful' = doubtful \ {s}
           /\ \A o \in Runs \ {r} : run[o].stream = "none"
           /\ s \in old <=> s \in now
    BY <2>1, <2>2, <2>3, <2>4 DEF End
  <2>7. \A x \in Streams \ doubtful : (x \in old <=> x \in now) /\ (x \in now <=> x \in failing)
    BY <2>1, <2>3, <2>4 DEF Copies
  <2>8. ASSUME NEW x \in Streams, x \notin doubtful' PROVE x \in tenant'.errors <=> x \in failing'
    <3>1. CASE x = s
      BY <2>5, <2>6, <2>8, <3>1
    <3>2. CASE x # s
      BY <2>5, <2>6, <2>7, <2>8, <3>2
    <3> QED
      BY <3>1, <3>2
  <2>9. ASSUME NEW o \in Runs, run'[o].stream # "none", NEW x \in Streams, x \notin doubtful'
        PROVE  x \in run'[o].errors <=> x \in tenant'.errors
    <3>1. o # r /\ run'[o] = run[o] /\ doubtful' = doubtful \union {s}
      BY <2>5, <2>6, <2>9
    <3>2. x # s /\ x \notin doubtful
      BY <2>9, <3>1
    <3>3. x \in run[o].errors <=> x \in now
      BY <2>4, <2>9, <3>1, <3>2 DEF Copies
    <3> QED
      BY <2>5, <2>7, <3>1, <3>2, <3>3
  <2> QED
    BY <2>8, <2>9 DEF Copies
<1> QED
  BY <1>2, <1>3, <1>4, EndOrNot

\* A collector's error is shown exactly while its last run failed, although each
\* run writes the errors from the copy it loaded: _set_stream_error.
THEOREM ErrorsAreTrue == Spec => []ErrorsAreCurrent
<1>1. Init => Copies
  BY IdleFacts DEF Init, Copies, NoColumns
<1>2. Typed /\ Copies /\ [Next]_vars => Copies'
  BY CopiesStep
<1>3. Copies => ErrorsAreCurrent
  BY DEF Copies, ErrorsAreCurrent
<1> QED
  BY <1>1, <1>2, <1>3, CollectionTyped, PTL DEF Spec

-----------------------------------------------------------------------------
(* Daily statistics                                                          *)

\* Every day before b has its row, and the day was over when it was read
Counted(b) == \A d \in Days \ older : d < b /\ d >= clock - Horizon => rows[d] # Null /\ rows[d] > d

\* A row is not read before its day, and a row written over is a row
RowsDated ==
  /\ \A d \in Days : rows[d] # Null => rows[d] >= d
  /\ \A d \in older : rows[d] # Null

\* A run asks for no day less than the days that are not counted yet
Asked(q) == q.stream = "stats" => q.upto = q.now /\ Counted(q.from)

DaysCounted ==
  /\ RowsDated
  /\ tenant.stats # Null => Counted(tenant.stats)
  /\ \A r \in Runs : Asked(run[r])

LEMMA AskedFromStats ==
  ASSUME CollectionTypeOK, DaysCounted
  PROVE  Counted(StatsFrom(tenant.stats))
<1> SUFFICES ASSUME NEW d \in Days \ older, d < StatsFrom(tenant.stats), d >= clock - Horizon
             PROVE  rows[d] # Null /\ rows[d] > d
  BY DEF Counted
<1>1. PICK s : s = tenant.stats
  OBVIOUS
<1>2. /\ clock \in Nat /\ Horizon \in Nat /\ DaysBack \in Nat /\ d \in Nat
      /\ (s = Null \/ s \in Nat) /\ Null \notin Nat
  BY <1>1, ClockFacts, CollectionFacts DEF CollectionTypeOK, Columns, Day
<1>3. s # Null
  BY <1>1, <1>2 DEF StatsFrom
<1>4. d < s
  <2> SUFFICES ASSUME ~(d < s) PROVE FALSE
    OBVIOUS
  <2>1. s \in Nat /\ s <= d
    BY <1>2, <1>3
  <2>2. PICK n \in Int : n = clock - s
    BY <1>2, <2>1
  <2>3. PICK back : back = Larger(DaysBack, Smaller(Horizon, n))
    OBVIOUS
  <2>4. back \in Int /\ (back >= Horizon \/ back >= n)
    BY <1>2, <2>3 DEF Larger, Smaller
  <2>5. d < clock - back
    BY <1>1, <1>3, <2>2, <2>3 DEF StatsFrom
  <2> QED
    BY <1>2, <2>1, <2>2, <2>4, <2>5
<1> QED
  BY <1>1, <1>3, <1>4 DEF DaysCounted, Counted

\* Writing the days of a run takes no day away that was counted
LEMMA StoreKeeps ==
  ASSUME Typed, RowsDated, NEW r \in Runs, NEW lists, StoreStats(r, lists), run[r].stream = "stats",
         run[r].upto = run[r].now, clock' = clock
  PROVE  /\ RowsDated'
         /\ \A b \in Nat : Counted(b) => Counted(b)'
         /\ run[r].rows => \A d \in Days : d >= run[r].from /\ d < run[r].now => rows'[d] = run[r].now
         /\ \A d \in Days : d < run[r].from => rows'[d] = rows[d]
<1>1. PICK from, now : from = run[r].from /\ now = run[r].now
  OBVIOUS
<1>2. from \in Nat /\ now \in Nat /\ Null # now
  BY <1>1, CollectionFacts DEF Typed, CollectionTypeOK, Run
<1>3. /\ \A d \in Days : rows'[d] = IF run[r].rows /\ d \in from..now THEN now ELSE rows[d]
      /\ older' = {d \in older : rows'[d] = rows[d]} \union {d \in Days : rows[d] # Null /\ rows'[d] < rows[d]}
  BY <1>1 DEF StoreStats
<1>4. \A d \in Days : d \in Nat /\ (rows[d] = Null \/ rows[d] \in Nat)
  BY CollectionFacts DEF Typed, CollectionTypeOK, Day
<1>5. RowsDated'
  BY <1>2, <1>3, <1>4 DEF RowsDated, Typed, CollectionTypeOK
<1>6. ASSUME NEW b \in Nat, Counted(b), NEW d \in Days, d \notin older', d < b, d >= clock - Horizon
      PROVE  rows'[d] # Null /\ rows'[d] > d
  <2>1. CASE rows'[d] = rows[d]
    <3>1. d \notin older
      BY <1>3, <1>6, <2>1
    <3> QED
      BY <1>6, <2>1, <3>1 DEF Counted
  <2>2. CASE rows'[d] # rows[d]
    <3>1. rows'[d] = now /\ d <= now
      BY <1>2, <1>3, <1>4, <2>2
    <3>2. rows[d] # Null => ~(now < rows[d])
      BY <1>3, <1>6, <3>1
    <3>3. CASE d \in older
      BY <1>2, <1>4, <2>2, <3>1, <3>2, <3>3 DEF RowsDated
    <3>4. CASE d \notin older
      <4>1. rows[d] # Null /\ rows[d] > d
        BY <1>6, <3>4 DEF Counted
      <4> QED
        BY <1>2, <1>4, <3>1, <3>2, <4>1
    <3> QED
      BY <3>3, <3>4
  <2> QED
    BY <2>1, <2>2
<1>7. \A b \in Nat : Counted(b) => Counted(b)'
  BY <1>6 DEF Counted
<1>8. run[r].rows => \A d \in Days : d >= from /\ d < now => rows'[d] = now
  BY <1>2, <1>3, <1>4
<1>9. \A d \in Days : d < from => rows'[d] = rows[d]
  BY <1>2, <1>3, <1>4
<1> QED
  BY <1>1, <1>5, <1>7, <1>8, <1>9

\* Nothing is written, and runs that ask have asked or begin
LEMMA NothingCounted ==
  ASSUME Typed, Typed', DaysCounted, rows' = rows, older' = older, clock' = clock \/ clock' = clock + 1,
         tenant'.stats = tenant.stats,
         \A r \in Runs : run'[r].stream = "stats" =>
            \/ run[r].stream = "stats" /\ run'[r].from = run[r].from
               /\ run'[r].upto = run[r].upto /\ run'[r].now = run[r].now
            \/ run'[r].upto = run'[r].now /\ Counted(run'[r].from)
  PROVE  DaysCounted'
<1>1. clock \in Nat /\ clock' \in Nat /\ Horizon \in Nat
  BY ClockFacts, CollectionFacts DEF Typed
<1>2. \A b : Counted(b) => Counted(b)'
  <2> SUFFICES ASSUME NEW b, Counted(b), NEW d \in Days \ older, d < b, d >= clock' - Horizon
               PROVE  rows[d] # Null /\ rows[d] > d
    BY DEF Counted
  <2>1. d \in Nat
    BY CollectionFacts
  <2>2. d >= clock - Horizon
    BY <1>1, <2>1
  <2> QED
    BY <2>2 DEF Counted
<1>3. RowsDated'
  BY DEF DaysCounted, RowsDated
<1>4. tenant'.stats # Null => Counted(tenant.stats)'
  <2>1. PICK b : b = tenant.stats /\ b = tenant'.stats
    OBVIOUS
  <2>2. b # Null => Counted(b)
    BY <2>1 DEF DaysCounted
  <2>3. Counted(b) => Counted(b)'
    BY <1>2
  <2> QED
    BY <2>1, <2>2, <2>3 DEF Counted
<1>5. ASSUME NEW r \in Runs, run'[r].stream = "stats"
      PROVE  run'[r].upto = run'[r].now /\ Counted(run[r].from)'
  <2>1. PICK b : b = run'[r].from
    OBVIOUS
  <2>2. run'[r].upto = run'[r].now /\ Counted(b)
    BY <1>5, <2>1 DEF DaysCounted, Asked
  <2>3. Counted(b)'
    BY <1>2, <2>2
  <2> QED
    BY <2>1, <2>2, <2>3 DEF Counted
<1> QED
  BY <1>3, <1>4, <1>5 DEF DaysCounted, Asked

\* A run of another collector, or one that ends without a row
LEMMA DaysElsewhere ==
  ASSUME Typed, Typed', DaysCounted, UNCHANGED <<rows, older, clock>>, tenant'.stats = tenant.stats,
         \A r \in Runs : run'[r] = run[r] \/ run'[r].stream # "stats"
  PROVE  DaysCounted'
  BY NothingCounted

LEMMA DaysEnd ==
  ASSUME Typed, Typed', DaysCounted, NEW r \in Runs, NEW ok \in BOOLEAN, NEW row \in Columns, NEW n \in Nat,
         run[r].stream # "none", End(r, ok, row, n), row.stats = tenant.stats,
         UNCHANGED <<rows, older, clock>>
  PROVE  DaysCounted'
<1>1. tenant'.stats = tenant.stats /\ run'[r].stream = "none" /\ \A o \in Runs \ {r} : run'[o] = run[o]
  BY EndFacts DEF Typed
<1> QED
  BY <1>1, DaysElsewhere

\* A run that stores what it has read, and ends
LEMMA DaysStored ==
  ASSUME Typed, Typed', DaysCounted, NEW r \in Runs, NEW lists, StoreStats(r, lists),
         run[r].stream = "stats", clock' = clock,
         \A o \in Runs \ {r} : run'[o] = run[o], run'[r].stream = "none",
         tenant'.stats = tenant.stats \/ (tenant'.stats = run[r].now /\ run[r].rows)
  PROVE  DaysCounted'
<1>1. /\ RowsDated'
      /\ \A b \in Nat : Counted(b) => Counted(b)'
      /\ run[r].rows => \A d \in Days : d >= run[r].from /\ d < run[r].now => rows'[d] = run[r].now
      /\ \A d \in Days : d < run[r].from => rows'[d] = rows[d]
  BY StoreKeeps DEF DaysCounted, Asked
<1>2. ASSUME tenant'.stats = tenant.stats
      PROVE  tenant'.stats # Null => Counted(tenant.stats)'
  <2>1. PICK b : b = tenant.stats /\ b = tenant'.stats
    BY <1>2
  <2>2. b # Null => b \in Nat /\ Counted(b)
    BY <2>1, CollectionFacts DEF DaysCounted, Typed, CollectionTypeOK, Columns, Day
  <2>3. b # Null => Counted(b)'
    BY <1>1, <2>2
  <2> QED
    BY <2>1, <2>3 DEF Counted
<1>3. ASSUME tenant'.stats = run[r].now, run[r].rows
      PROVE  Counted(tenant.stats)'
  <2>1. PICK from, now : from = run[r].from /\ now = run[r].now
    OBVIOUS
  <2>2. from \in Nat /\ now \in Nat /\ now # Null /\ \A d \in Days : d \in Nat
    BY <2>1, CollectionFacts DEF Typed, CollectionTypeOK, Run
  <2>3. Counted(from)'
    BY <1>1, <2>1, <2>2 DEF DaysCounted, Asked
  <2>4. ASSUME NEW d \in Days, d \notin older', d < now, d >= clock' - Horizon
        PROVE  rows'[d] # Null /\ rows'[d] > d
    <3>1. CASE d < from
      BY <2>3, <2>4, <3>1 DEF Counted
    <3>2. CASE d >= from
      BY <1>1, <1>3, <2>1, <2>2, <2>4, <3>2
    <3> QED
      BY <2>2, <3>1, <3>2
  <2> QED
    BY <1>3, <2>1, <2>4 DEF Counted
<1>4. ASSUME NEW o \in Runs PROVE Asked(run[o])'
  <2>1. CASE o = r
    BY <2>1 DEF Asked
  <2>2. CASE o # r /\ run[o].stream = "stats"
    <3>1. PICK from : from = run[o].from /\ from = run'[o].from
      BY <2>2
    <3>2. from \in Nat /\ Counted(from)
      BY <2>2, <3>1, CollectionFacts DEF DaysCounted, Asked, Typed, CollectionTypeOK, Run
    <3>3. Counted(from)'
      BY <1>1, <3>2
    <3>4. run'[o].upto = run'[o].now
      BY <2>2 DEF DaysCounted, Asked
    <3> QED
      BY <3>1, <3>3, <3>4 DEF Asked, Counted
  <2>3. CASE o # r /\ run[o].stream # "stats"
    BY <2>3 DEF Asked
  <2> QED
    BY <2>1, <2>2, <2>3
<1> QED
  BY <1>1, <1>2, <1>3, <1>4 DEF DaysCounted

LEMMA DaysStep ==
  ASSUME Typed, Typed', DaysCounted, [Next]_vars
  PROVE  DaysCounted'
<1>1. CollectionTypeOK /\ tenant \in Columns /\ clock \in Days
  BY ClockFacts DEF Typed, CollectionTypeOK
<1>2. ASSUME NEW r \in Runs, NEW s \in Streams, NEW chain \in BOOLEAN, StartStream(r, s, chain),
             UNCHANGED <<clock, rows, older>>
      PROVE  DaysCounted'
  <2>1. CASE StatsBegins(r)
    <3>1. PICK q : /\ run' = [run EXCEPT ![r] = q] /\ q.from = StatsFrom(tenant.stats)
                   /\ q.upto = clock /\ q.now = clock
      BY <2>1 DEF StatsBegins, Beginner
    <3>2. q.upto = q.now /\ Counted(q.from)
      BY <1>1, <3>1, AskedFromStats
    <3>3. tenant'.stats = tenant.stats
      BY <2>1 DEF StatsBegins
    <3>4. run'[r] = q /\ \A o \in Runs \ {r} : run'[o] = run[o]
      BY <1>1, <3>1 DEF CollectionTypeOK
    <3> QED
      BY <1>2, <3>2, <3>3, <3>4, NothingCounted
  <2>2. CASE ConvictionsBegin(r)
    BY <1>1, <1>2, <2>2, DaysElsewhere DEF ConvictionsBegin, Beginner, CollectionTypeOK
  <2>3. CASE BackfillBegins(r)
    <3>1. PICK q : /\ run' = [run EXCEPT ![r] = q] /\ Beginner(q, "backfill")
                   /\ q.cursor \in Days /\ tenant' = [tenant EXCEPT !.cursor = q.cursor]
      BY <2>3 DEF BackfillBegins
    <3>2. tenant'.stats = tenant.stats
      BY <1>1, <3>1, TenantRows
    <3> QED
      BY <1>1, <1>2, <3>1, <3>2, DaysElsewhere DEF Beginner, CollectionTypeOK
  <2>4. CASE NothingBegins(r)
    BY <1>1, <1>2, <2>4, IdleFacts, DaysElsewhere DEF NothingBegins, CollectionTypeOK
  <2> QED
    BY <1>1, <1>2, <2>1, <2>2, <2>3, <2>4, StartFacts
<1>3. ASSUME NEW r \in Runs, NEW s \in Streams, NEW chain \in BOOLEAN, Begin(r, s, chain)
      PROVE  DaysCounted'
  BY <1>2, <1>3 DEF Begin, data
<1>4. ASSUME NEW r \in Runs, Continue(r)
      PROVE  DaysCounted'
  <2>1. run[r].waits \in Streams
    BY <1>1, <1>4 DEF Continue, CollectionTypeOK, Run
  <2>2. PICK chain \in BOOLEAN : chain = TRUE
    OBVIOUS
  <2> QED
    BY <1>2, <1>4, <2>1, <2>2 DEF Continue, world, data
<1>5. ASSUME NEW r \in Runs, NEW q, Onward(r, q), UNCHANGED <<tenant, clock, rows, older>>
      PROVE  DaysCounted'
  <2>1. run'[r] = q /\ \A o \in Runs \ {r} : run'[o] = run[o]
    BY <1>1, <1>5 DEF Onward, CollectionTypeOK
  <2> QED
    BY <1>5, <2>1, NothingCounted DEF Onward
<1>6. ASSUME NEW r \in Runs, ConvictionsPage(r)
      PROVE  DaysCounted'
  <2>1. PICK q : Onward(r, q)
    BY <1>1, <1>6, ConvictionsPageFacts
  <2> QED
    BY <1>5, <1>6, <2>1 DEF ConvictionsPage, world
<1>7. ASSUME NEW r \in Runs, ConvictionsEnd(r)
      PROVE  DaysCounted'
  <2>1. run[r].now \in Days /\ run[r].used + 1 \in Nat
    BY <1>1 DEF CollectionTypeOK, Run
  <2>2. PICK row : row = [tenant EXCEPT !.watermark = run[r].now]
    OBVIOUS
  <2>3. row \in Columns /\ row.stats = tenant.stats
    BY <1>1, <2>1, <2>2, TenantRows
  <2> QED
    BY <1>7, <2>1, <2>2, <2>3, DaysEnd DEF ConvictionsEnd, world
<1>8. ASSUME NEW r \in Runs, BackfillPaused(r) \/ BackfillDone(r)
      PROVE  DaysCounted'
  <2>1. run[r].used \in Nat
    BY <1>1 DEF CollectionTypeOK, Run
  <2>2. PICK row \in Columns : row.stats = tenant.stats /\ End(r, TRUE, row, run[r].used)
    BY <1>1, <1>8, TenantRows DEF BackfillPaused, BackfillDone, Succeed
  <2> QED
    BY <1>8, <2>1, <2>2, DaysEnd DEF BackfillPaused, BackfillDone, Succeed, world, data
<1>9. ASSUME NEW r \in Runs, BackfillPage(r)
      PROVE  DaysCounted'
  <2>1. UNCHANGED <<clock, rows, older>> /\ run[r].stream = "backfill"
    BY <1>9 DEF BackfillPage, world
  <2>2. ASSUME NEW n \in Nat, End(r, TRUE, tenant, n) PROVE DaysCounted'
    BY <1>1, <2>1, <2>2, DaysEnd
  <2>3. ASSUME NEW q, Onward(r, q), UNCHANGED tenant PROVE DaysCounted'
    BY <1>5, <2>1, <2>3
  <2>4. ASSUME NextWindow(r) PROVE DaysCounted'
    <3>1. PICK q : /\ run' = [run EXCEPT ![r] = q] /\ q.stream = "backfill"
                   /\ q.cursor \in Days /\ tenant' = [tenant EXCEPT !.cursor = q.cursor]
      BY <2>4 DEF NextWindow
    <3>2. tenant'.stats = tenant.stats
      BY <1>1, <3>1, TenantRows
    <3> QED
      BY <1>1, <2>1, <3>1, <3>2, DaysElsewhere DEF CollectionTypeOK
  <2> QED
    BY <1>9, <2>2, <2>3, <2>4, BackfillPageFacts
<1>10. ASSUME NEW r \in Runs, Report(r)
       PROVE  DaysCounted'
  <2>1. PICK q : Onward(r, q)
    BY <1>1, <1>10, ReportFacts
  <2> QED
    BY <1>5, <1>10, <2>1 DEF Report, world, data
<1>11. ASSUME NEW r \in Runs, StatsEnd(r)
       PROVE  DaysCounted'
  <2>1. run[r].now \in Days /\ run[r].used + 1 \in Nat
    BY <1>1 DEF CollectionTypeOK, Run
  <2>2. PICK row : row = [tenant EXCEPT !.stats = run[r].now]
    OBVIOUS
  <2>3. row \in Columns /\ row.stats = run[r].now
    BY <1>1, <2>1, <2>2, TenantRows
  <2>4. /\ run[r].stream = "stats" /\ run[r].rows /\ StoreStats(r, MonthLists(r)) /\ clock' = clock
        /\ End(r, TRUE, row, run[r].used + 1)
    BY <1>11, <2>2 DEF StatsEnd, world
  <2>5. tenant'.stats = run[r].now /\ run'[r].stream = "none" /\ \A o \in Runs \ {r} : run'[o] = run[o]
    BY <1>1, <2>1, <2>3, <2>4, EndFacts
  <2> QED
    BY <2>4, <2>5, DaysStored
<1>12. ASSUME NEW r \in Runs, ApiError(r)
       PROVE  DaysCounted'
  <2>1. run[r].used + 1 \in Nat
    BY <1>1 DEF CollectionTypeOK, Run
  <2>2. run[r].stream # "none" /\ End(r, FALSE, tenant, run[r].used + 1) /\ clock' = clock
    BY <1>12, Zenon DEF ApiError, world
  <2>3. CASE run[r].stream = "stats"
    <3>1. PICK lists : StoreStats(r, lists)
      BY <1>12, <2>3 DEF ApiError
    <3>2. tenant'.stats = tenant.stats /\ run'[r].stream = "none" /\ \A o \in Runs \ {r} : run'[o] = run[o]
      BY <1>1, <2>1, <2>2, EndFacts
    <3> QED
      BY <2>2, <2>3, <3>1, <3>2, DaysStored
  <2>4. CASE run[r].stream # "stats"
    <3>1. UNCHANGED <<rows, older>>
      BY <1>12, <2>4 DEF ApiError, data
    <3> QED
      BY <1>1, <2>1, <2>2, <3>1, DaysEnd
  <2> QED
    BY <2>3, <2>4
<1>13. CASE (\E r \in Runs : Raise(r)) \/ Stop
  <2>1. /\ UNCHANGED <<world, tenant, data>>
        /\ \A r \in Runs : run'[r] = Idle \/ run'[r] = run[r]
    BY <1>1, <1>13, DroppedFacts
  <2> QED
    BY <2>1, IdleFacts, DaysElsewhere DEF world, data
<1>14. ASSUME NEW m \in Messages, Convict(m)
       PROVE  DaysCounted'
  BY <1>14, DaysElsewhere DEF Convict, data
<1>15. CASE Tick
  BY <1>15, NothingCounted DEF Tick, data
<1>16. CASE UNCHANGED vars
  BY <1>16, DaysElsewhere DEF vars
<1> QED
  BY <1>3, <1>4, <1>6, <1>7, <1>8, <1>9, <1>10, <1>11, <1>12, <1>13, <1>14, <1>15, <1>16 DEF Next

\* Every day before the last successful collection has a row that was read when
\* the day was over; only a run that was overtaken may have put an older row
\* back: collect_daily_stats.
THEOREM DaysAreCounted == Spec => []EveryDayIsCounted
<1>1. Init => DaysCounted
  BY IdleFacts DEF Init, DaysCounted, RowsDated, Asked, NoColumns
<1>2. Typed /\ Typed' /\ DaysCounted /\ [Next]_vars => DaysCounted'
  BY DaysStep
<1>3. DaysCounted => EveryDayIsCounted
  BY DEF DaysCounted, Counted, EveryDayIsCounted
<1> QED
  BY <1>1, <1>2, <1>3, CollectionTyped, PTL DEF Spec

-----------------------------------------------------------------------------
(* Convicted messages                                                        *)

\* What a collection up to w has to bring
Seen(w) ==
  {m \in Messages : /\ verdict[m] # Null /\ verdict[m] < w /\ verdict[m] <= sent[m] + RescanDays
                    /\ sent[m] >= first /\ sent[m] >= clock - Horizon}

\* What the backfill has to bring by the time it has come down to c
Earlier(c) ==
  {m \in Messages : /\ verdict[m] # Null /\ verdict[m] < origin.day
                    /\ sent[m] >= c /\ sent[m] < origin.from /\ sent[m] >= clock - Horizon}

\* What a run has not stored yet is on the pages to come
Gathering(q) == q.stream = "convictions" => first # Null /\ Seen(q.now) \subseteq stored \union q.due
Filling(q) == q.stream = "backfill" => tenant.cursor # Null /\ Earlier(q.from) \subseteq stored \union q.due

Covered ==
  /\ tenant.watermark = Null /\ first # Null => first <= Larger(clock - InitialDays, clock - Horizon)
  /\ tenant.watermark # Null => first # Null /\ tenant.watermark <= clock /\ Seen(tenant.watermark) \subseteq stored
  /\ tenant.cursor # Null => /\ origin.from # Null /\ origin.day # Null /\ origin.day <= clock
                             /\ Earlier(tenant.cursor) \subseteq stored
  /\ \A r \in Runs : Gathering(run[r]) /\ Filling(run[r])

\* Nothing old is convicted
VerdictsAreNew == \A m \in Messages : verdict'[m] = verdict[m] \/ verdict'[m] = clock

LEMMA SeenShrinks ==
  ASSUME Typed, Typed', sent' = sent, VerdictsAreNew, clock <= clock', NEW w \in Nat, w <= clock,
         first' = first \/ (first \in Nat /\ first' \in Nat /\ first <= first')
  PROVE  Seen(w)' \subseteq Seen(w)
<1> SUFFICES ASSUME NEW m \in Messages, verdict'[m] # Null, verdict'[m] < w,
                    verdict'[m] <= sent[m] + RescanDays, sent[m] >= first', sent[m] >= clock' - Horizon
             PROVE  m \in Seen(w)
  BY DEF Seen
<1>1. clock \in Nat /\ clock' \in Nat /\ Horizon \in Nat /\ sent[m] \in Nat
  BY ClockFacts, CollectionFacts DEF Typed, CollectionTypeOK
<1>2. verdict'[m] = verdict[m]
  <2>1. verdict'[m] # clock
    BY <1>1
  <2> QED
    BY <2>1 DEF VerdictsAreNew
<1>3. sent[m] >= first /\ sent[m] >= clock - Horizon
  BY <1>1
<1> QED
  BY <1>2, <1>3 DEF Seen

LEMMA EarlierShrinks ==
  ASSUME Typed, Typed', sent' = sent, VerdictsAreNew, clock <= clock', NEW c,
         origin' = origin, origin.day # Null, origin.day <= clock
  PROVE  Earlier(c)' \subseteq Earlier(c)
<1> SUFFICES ASSUME NEW m \in Messages, verdict'[m] # Null, verdict'[m] < origin.day,
                    sent[m] >= c, sent[m] < origin.from, sent[m] >= clock' - Horizon
             PROVE  m \in Earlier(c)
  BY DEF Earlier
<1>1. clock \in Nat /\ clock' \in Nat /\ Horizon \in Nat /\ sent[m] \in Nat /\ origin.day \in Nat
  BY ClockFacts, CollectionFacts DEF Typed, CollectionTypeOK, Day
<1>2. verdict'[m] = verdict[m]
  <2>1. verdict'[m] # clock
    BY <1>1
  <2> QED
    BY <2>1 DEF VerdictsAreNew
<1>3. sent[m] >= clock - Horizon
  BY <1>1
<1> QED
  BY <1>2, <1>3 DEF Earlier

LEMMA LargerGrows ==
  ASSUME NEW k \in Nat, NEW l \in Nat, k <= l, NEW i \in Nat, NEW h \in Nat,
         NEW b \in Nat, b <= Larger(k - i, k - h)
  PROVE  b <= Larger(l - i, l - h)
<1>1. (k - i >= k - h) <=> (l - i >= l - h)
  OBVIOUS
<1>2. CASE k - i >= k - h
  BY <1>1, <1>2 DEF Larger
<1>3. CASE ~(k - i >= k - h)
  BY <1>1, <1>3 DEF Larger
<1> QED
  BY <1>2, <1>3

\* What the rows claim after a step, in terms of the messages before it
LEMMA CoveredKeeps ==
  ASSUME Typed, Typed', Covered, sent' = sent, VerdictsAreNew, clock <= clock', stored \subseteq stored',
         first' = first, origin' = origin,
         \/ tenant'.watermark = tenant.watermark
         \/ /\ tenant'.watermark # Null /\ first # Null /\ tenant'.watermark <= clock
            /\ Seen(tenant'.watermark) \subseteq stored',
         \/ tenant'.cursor = tenant.cursor
         \/ /\ tenant.cursor # Null /\ tenant'.cursor # Null
            /\ Earlier(tenant'.cursor) \subseteq stored',
         \A r \in Runs : run'[r].stream = "convictions" =>
            /\ first # Null /\ run'[r].now <= clock
            /\ Seen(run'[r].now) \subseteq stored' \union run'[r].due,
         \A r \in Runs : run'[r].stream = "backfill" =>
            /\ tenant.cursor # Null
            /\ Earlier(run'[r].from) \subseteq stored' \union run'[r].due
  PROVE  Covered'
<1>1. \A w \in Nat : w <= clock => Seen(w)' \subseteq Seen(w)
  BY SeenShrinks
<1>2. \A c : origin.day # Null /\ origin.day <= clock => Earlier(c)' \subseteq Earlier(c)
  BY EarlierShrinks
<1>3. /\ clock \in Nat /\ clock' \in Nat /\ Horizon \in Nat /\ InitialDays \in Nat
      /\ (first = Null \/ first \in Nat) /\ (origin.day = Null \/ origin.day \in Nat)
      /\ (tenant'.watermark = Null \/ tenant'.watermark \in Nat)
  BY ClockFacts, CollectionFacts DEF Typed, CollectionTypeOK, Day, Columns
<1>4. tenant'.watermark = Null /\ first' # Null => first' <= Larger(clock' - InitialDays, clock' - Horizon)
  <2> SUFFICES ASSUME tenant'.watermark = Null, first # Null
               PROVE  first <= Larger(clock' - InitialDays, clock' - Horizon)
    OBVIOUS
  <2>1. tenant.watermark = Null
    OBVIOUS
  <2>2. first <= Larger(clock - InitialDays, clock - Horizon)
    BY <2>1 DEF Covered
  <2>3. PICK b : b = first
    OBVIOUS
  <2>4. b \in Nat /\ b <= Larger(clock - InitialDays, clock - Horizon) /\ clock <= clock'
    BY <1>3, <2>2, <2>3
  <2>5. b <= Larger(clock' - InitialDays, clock' - Horizon)
    BY <1>3, <2>4, LargerGrows
  <2> QED
    BY <2>3, <2>5
<1>5. ASSUME tenant'.watermark # Null
      PROVE  first' # Null /\ tenant'.watermark <= clock' /\ Seen(tenant.watermark)' \subseteq stored'
  <2>1. PICK w : w = tenant'.watermark
    OBVIOUS
  <2>2. w \in Nat /\ first # Null /\ w <= clock /\ Seen(w) \subseteq stored'
    BY <1>3, <1>5, <2>1 DEF Covered
  <2>3. Seen(w)' \subseteq stored'
    BY <1>1, <2>2
  <2>4. w <= clock'
    BY <1>3, <2>2
  <2> QED
    BY <2>1, <2>2, <2>3, <2>4 DEF Seen
<1>6. ASSUME tenant'.cursor # Null
      PROVE  /\ origin'.from # Null /\ origin'.day # Null /\ origin'.day <= clock'
             /\ Earlier(tenant.cursor)' \subseteq stored'
  <2>1. PICK c : c = tenant'.cursor
    OBVIOUS
  <2>2. /\ origin.from # Null /\ origin.day # Null /\ origin.day <= clock
        /\ Earlier(c) \subseteq stored'
    BY <1>6, <2>1 DEF Covered
  <2>3. Earlier(c)' \subseteq stored'
    BY <1>2, <2>2
  <2>4. origin'.day <= clock'
    BY <1>3, <2>2
  <2> QED
    BY <2>1, <2>2, <2>3, <2>4 DEF Earlier
<1>7. ASSUME NEW r \in Runs PROVE Gathering(run[r])'
  <2>1. PICK q : q = run'[r]
    OBVIOUS
  <2>2. ASSUME q.stream = "convictions" PROVE Seen(q.now)' \subseteq stored' \union q.due
    <3>1. q.now \in Nat /\ q.now <= clock /\ Seen(q.now) \subseteq stored' \union q.due
      BY <2>1, <2>2, CollectionFacts DEF Typed, CollectionTypeOK, Run
    <3> QED
      BY <1>1, <3>1
  <2> QED
    BY <2>1, <2>2 DEF Gathering, Seen
<1>8. ASSUME NEW r \in Runs PROVE Filling(run[r])'
  <2>1. PICK q : q = run'[r]
    OBVIOUS
  <2>2. ASSUME q.stream = "backfill" PROVE tenant'.cursor # Null /\ Earlier(q.from)' \subseteq stored' \union q.due
    <3>1. tenant.cursor # Null /\ tenant'.cursor # Null /\ Earlier(q.from) \subseteq stored' \union q.due
      BY <2>1, <2>2
    <3>2. origin.day # Null /\ origin.day <= clock
      BY <3>1 DEF Covered
    <3> QED
      BY <1>2, <3>1, <3>2
  <2> QED
    BY <2>1, <2>2 DEF Filling, Earlier
<1> QED
  BY <1>4, <1>5, <1>6, <1>7, <1>8 DEF Covered

\* Steps that leave tenant and messages alone, and whose runs are those of
\* before, with less to come, or none of the two collectors
LEMMA CoveredElsewhere ==
  ASSUME Typed, Typed', Covered, sent' = sent, VerdictsAreNew, clock <= clock', stored \subseteq stored',
         first' = first, origin' = origin,
         tenant'.watermark = tenant.watermark, tenant'.cursor = tenant.cursor,
         \A r \in Runs : \/ run'[r].stream \notin {"convictions", "backfill"}
                         \/ /\ run'[r].stream = run[r].stream
                            /\ run'[r].now = run[r].now /\ run'[r].from = run[r].from
                            /\ run[r].due \subseteq stored' \union run'[r].due
  PROVE  Covered'
<1>1. ASSUME NEW r \in Runs, run'[r].stream = "convictions"
      PROVE  /\ first # Null /\ run'[r].now <= clock
             /\ Seen(run'[r].now) \subseteq stored' \union run'[r].due
  <2>1. Gathering(run[r]) /\ Timely(run[r])
    BY DEF Covered, Typed
  <2>2. first # Null /\ Seen(run[r].now) \subseteq stored \union run[r].due /\ run[r].now <= clock
    BY <1>1, <2>1 DEF Gathering, Timely
  <2> QED
    BY <1>1, <2>2
<1>2. ASSUME NEW r \in Runs, run'[r].stream = "backfill"
      PROVE  /\ tenant.cursor # Null
             /\ Earlier(run'[r].from) \subseteq stored' \union run'[r].due
  <2>1. tenant.cursor # Null /\ Earlier(run[r].from) \subseteq stored \union run[r].due
    BY <1>2 DEF Covered, Filling
  <2> QED
    BY <1>2, <2>1
<1> QED
  BY <1>1, <1>2, CoveredKeeps

LEMMA CoveredConvictionsBegin ==
  ASSUME Typed, Typed', Covered, NEW r \in Runs, ConvictionsBegin(r),
         UNCHANGED <<clock, sent, verdict, stored>>
  PROVE  Covered'
<1>1. CollectionTypeOK /\ VerdictsAreNew /\ tenant' = tenant /\ origin' = origin
  BY DEF Typed, VerdictsAreNew, ConvictionsBegin
<1>2. PICK q : /\ run' = [run EXCEPT ![r] = q] /\ Beginner(q, "convictions")
               /\ q.from = RescanFrom(tenant.watermark) /\ q.due = Found(q.from, clock)
               /\ first' = IF tenant.watermark = Null THEN q.from ELSE first
  BY DEF ConvictionsBegin
<1>3. run'[r] = q /\ \A o \in Runs \ {r} : run'[o] = run[o]
  BY <1>1, <1>2 DEF CollectionTypeOK
<1>4. /\ clock \in Nat /\ Horizon \in Nat /\ InitialDays \in Nat /\ RescanDays \in Nat /\ clock <= clock
      /\ (first = Null \/ first \in Nat) /\ (tenant.watermark = Null \/ tenant.watermark \in Nat)
      /\ q.from \in Nat /\ q.now = clock /\ Null \notin Nat /\ q.stream = "convictions"
  BY <1>1, <1>2, ClockFacts, CollectionFacts DEF CollectionTypeOK, Day, Columns, Beginner, Run
<1>5. \A m \in Messages : verdict[m] # Null => sent[m] <= verdict[m] /\ sent[m] \in Nat /\ verdict[m] \in Nat
  BY <1>1, CollectionFacts DEF Typed, Known, CollectionTypeOK, Day
<1>6. CASE tenant.watermark # Null
  <2>1. first # Null /\ first' = first /\ Seen(tenant.watermark) \subseteq stored
    BY <1>2, <1>6 DEF Covered
  <2>2. ASSUME NEW m \in Seen(clock) PROVE m \in stored \union q.due
    <3>1. /\ m \in Messages /\ verdict[m] # Null /\ verdict[m] < clock /\ verdict[m] <= sent[m] + RescanDays
          /\ sent[m] >= first /\ sent[m] >= clock - Horizon
      BY <2>2 DEF Seen
    <3>2. sent[m] \in Nat /\ verdict[m] \in Nat /\ sent[m] <= clock
      BY <1>4, <1>5, <3>1
    <3>3. CASE sent[m] >= q.from
      BY <1>2, <3>1, <3>2, <3>3 DEF Found
    <3>4. CASE ~(sent[m] >= q.from)
      <4>1. PICK w \in Nat : w = tenant.watermark
        BY <1>4, <1>6
      <4>2. q.from = Larger(w - RescanDays, clock - Horizon)
        BY <1>2, <1>6, <4>1 DEF RescanFrom
      <4>3. sent[m] < w - RescanDays
        BY <1>4, <3>1, <3>2, <3>4, <4>1, <4>2 DEF Larger
      <4>4. verdict[m] < w
        BY <1>4, <3>1, <3>2, <4>3
      <4> QED
        BY <2>1, <3>1, <4>1, <4>4 DEF Seen
    <3> QED
      BY <3>3, <3>4
  <2>3. \A o \in Runs : run'[o].stream = "convictions" =>
            /\ first # Null /\ run'[o].now <= clock
            /\ Seen(run'[o].now) \subseteq stored' \union run'[o].due
    <3> SUFFICES ASSUME NEW o \in Runs, run'[o].stream = "convictions"
                 PROVE  run'[o].now <= clock /\ Seen(run'[o].now) \subseteq stored \union run'[o].due
      BY <2>1
    <3>1. CASE o = r
      BY <1>3, <1>4, <2>2, <3>1
    <3>2. CASE o # r
      <4>1. Gathering(run[o]) /\ Timely(run[o]) /\ run'[o] = run[o]
        BY <1>3, <3>2 DEF Covered, Typed
      <4> QED
        BY <4>1 DEF Gathering, Timely
    <3> QED
      BY <3>1, <3>2
  <2>4. \A o \in Runs : run'[o].stream = "backfill" =>
            /\ tenant.cursor # Null
            /\ Earlier(run'[o].from) \subseteq stored' \union run'[o].due
    BY <1>3, <1>4 DEF Covered, Filling
  <2> QED
    BY <1>1, <1>4, <2>1, <2>3, <2>4, CoveredKeeps
<1>7. CASE tenant.watermark = Null
  <2>1. first' = q.from /\ q.from = Larger(clock - InitialDays, clock - Horizon)
    BY <1>2, <1>7 DEF RescanFrom
  <2>2. first = Null \/ (first \in Nat /\ first <= first')
    BY <1>4, <1>7, <2>1 DEF Covered
  <2>3. \A c : Earlier(c)' = Earlier(c)
    BY <1>1 DEF Earlier
  <2>4. ASSUME NEW o \in Runs PROVE Gathering(run[o])'
    <3> SUFFICES ASSUME run'[o].stream = "convictions"
                 PROVE  first' # Null /\ Seen(run[o].now)' \subseteq stored' \union run'[o].due
      BY DEF Gathering
    <3>1. CASE o = r
      <4>1. ASSUME NEW m \in Seen(clock)' PROVE m \in q.due
        <5>1. m \in Messages /\ verdict[m] # Null /\ verdict[m] < clock /\ sent[m] >= q.from
          BY <2>1, <4>1 DEF Seen
        <5>2. sent[m] <= clock
          BY <1>4, <1>5, <5>1
        <5> QED
          BY <1>2, <5>1, <5>2 DEF Found
      <4> QED
        BY <1>3, <1>4, <2>1, <3>1, <4>1 DEF Seen
    <3>2. CASE o # r
      <4>1. Gathering(run[o]) /\ Timely(run[o]) /\ run'[o] = run[o]
        BY <1>3, <3>2 DEF Covered, Typed
      <4>2. PICK w : w = run[o].now /\ w = run'[o].now
        BY <4>1
      <4>3. first # Null /\ Seen(w) \subseteq stored \union run[o].due /\ w <= clock /\ w \in Nat
        BY <1>1, <4>1, <4>2, CollectionFacts DEF Gathering, Timely, CollectionTypeOK, Run
      <4>4. Seen(w)' \subseteq Seen(w)
        BY <1>1, <1>4, <2>1, <2>2, <4>3, SeenShrinks
      <4> QED
        BY <1>4, <2>1, <4>1, <4>2, <4>3, <4>4 DEF Seen
    <3> QED
      BY <3>1, <3>2
  <2>5. ASSUME NEW o \in Runs PROVE Filling(run[o])'
    <3>1. CASE o = r
      BY <1>3, <1>4, <3>1 DEF Filling
    <3>2. CASE o # r
      <4>1. Filling(run[o]) /\ run'[o] = run[o]
        BY <1>3, <3>2 DEF Covered
      <4> QED
        BY <1>1, <4>1 DEF Filling, Earlier
    <3> QED
      BY <3>1, <3>2
  <2>6. tenant'.cursor # Null => /\ origin'.from # Null /\ origin'.day # Null /\ origin'.day <= clock'
                                 /\ Earlier(tenant.cursor)' \subseteq stored'
    BY <1>1 DEF Covered, Earlier
  <2>7. first' <= Larger(clock' - InitialDays, clock' - Horizon)
    BY <1>4, <2>1
  <2> QED
    BY <1>1, <1>7, <2>4, <2>5, <2>6, <2>7 DEF Covered
<1> QED
  BY <1>6, <1>7

LEMMA CoveredBackfillBegins ==
  ASSUME Typed, Typed', Covered, NEW r \in Runs, BackfillBegins(r),
         UNCHANGED <<clock, sent, verdict, stored>>
  PROVE  Covered'
<1>1. CollectionTypeOK /\ VerdictsAreNew /\ first' = first
  BY DEF Typed, VerdictsAreNew, BackfillBegins
<1>2. PICK q : /\ run' = [run EXCEPT ![r] = q] /\ Beginner(q, "backfill")
               /\ q.cursor = IF tenant.cursor = Null THEN InitialCursor ELSE tenant.cursor
               /\ q.cursor \in Days
               /\ q.from = WindowFrom(q.cursor, clock)
               /\ q.due = Found(q.from, q.cursor)
               /\ tenant' = [tenant EXCEPT !.cursor = q.cursor]
               /\ origin' = IF tenant.cursor = Null THEN [from |-> q.cursor, day |-> clock] ELSE origin
  BY DEF BackfillBegins
<1>3. run'[r] = q /\ \A o \in Runs \ {r} : run'[o] = run[o]
  BY <1>1, <1>2 DEF CollectionTypeOK
<1>4. PICK c \in Nat : c = q.cursor /\ c # Null
  BY <1>2, CollectionFacts
<1>5. tenant'.watermark = tenant.watermark /\ tenant'.cursor = c
  BY <1>1, <1>2, <1>4, TenantRows
<1>6. clock \in Nat /\ clock <= clock /\ q.stream = "backfill" /\ Null \notin Nat
  BY <1>1, <1>2, ClockFacts, CollectionFacts DEF Beginner
<1>7. ASSUME NEW o \in Runs, run'[o].stream = "convictions"
      PROVE  first # Null /\ run'[o].now <= clock /\ Seen(run'[o].now) \subseteq stored' \union run'[o].due
  <2>1. o # r /\ Gathering(run[o]) /\ Timely(run[o]) /\ run'[o] = run[o]
    BY <1>3, <1>6, <1>7 DEF Covered, Typed
  <2> QED
    BY <1>7, <2>1 DEF Gathering, Timely
<1>8. CASE tenant.cursor # Null
  <2>1. origin' = origin /\ c = tenant.cursor /\ Earlier(c) \subseteq stored
    BY <1>2, <1>4, <1>8 DEF Covered
  <2>2. Earlier(q.from) \subseteq stored \union q.due
    <3> SUFFICES ASSUME NEW m \in Earlier(q.from), m \notin stored PROVE m \in q.due
      OBVIOUS
    <3>1. m \in Messages /\ verdict[m] # Null /\ sent[m] >= q.from /\ sent[m] \in Nat
      BY <1>1, CollectionFacts DEF Earlier, CollectionTypeOK
    <3>2. ~(sent[m] >= c)
      BY <2>1 DEF Earlier
    <3> QED
      BY <1>2, <1>4, <3>1, <3>2 DEF Found
  <2>3. \A o \in Runs : run'[o].stream = "backfill" =>
            /\ tenant.cursor # Null
            /\ Earlier(run'[o].from) \subseteq stored' \union run'[o].due
    BY <1>3, <1>8, <2>2 DEF Covered, Filling
  <2> QED
    BY <1>1, <1>5, <1>6, <1>7, <2>1, <2>3, CoveredKeeps
<1>9. CASE tenant.cursor = Null
  <2>1. origin' = [from |-> c, day |-> clock]
    BY <1>2, <1>4, <1>9
  <2>2. origin'.from = c /\ origin'.day = clock
    BY <2>1
  <2>3. \A w : Seen(w)' = Seen(w)
    BY <1>1 DEF Seen
  <2>4. Earlier(c)' = {}
    BY <2>2, <1>1, CollectionFacts DEF Earlier, CollectionTypeOK
  <2>5. ASSUME NEW m \in Earlier(q.from)' PROVE m \in q.due
    <3>1. m \in Messages /\ verdict[m] # Null /\ sent[m] >= q.from /\ sent[m] < c /\ sent[m] \in Nat
      BY <2>2, <1>1, CollectionFacts DEF Earlier, CollectionTypeOK
    <3> QED
      BY <1>2, <1>4, <3>1 DEF Found
  <2>6. ASSUME NEW o \in Runs PROVE Gathering(run[o])' /\ Filling(run[o])'
    <3>1. Gathering(run[o])'
      BY <1>1, <1>7 DEF Gathering, Seen
    <3>2. CASE o = r
      BY <1>3, <1>4, <1>5, <2>5, <3>1, <3>2 DEF Filling, Earlier
    <3>3. CASE o # r
      <4>1. Filling(run[o]) /\ run'[o] = run[o]
        BY <1>3, <3>3 DEF Covered
      <4> QED
        BY <1>9, <3>1, <4>1 DEF Filling
    <3> QED
      BY <3>2, <3>3
  <2>7. tenant'.watermark # Null => first' # Null /\ tenant'.watermark <= clock' /\ Seen(tenant.watermark)' \subseteq stored'
    BY <1>1, <1>5 DEF Covered, Seen
  <2>8. tenant'.watermark = Null /\ first' # Null => first' <= Larger(clock' - InitialDays, clock' - Horizon)
    BY <1>1, <1>5 DEF Covered
  <2>9. /\ origin'.from # Null /\ origin'.day # Null /\ origin'.day <= clock'
        /\ Earlier(tenant.cursor)' \subseteq stored'
    BY <1>4, <1>5, <1>6, <2>2, <2>4 DEF Earlier
  <2> QED
    BY <2>6, <2>7, <2>8, <2>9 DEF Covered
<1> QED
  BY <1>8, <1>9

\* A run of convictions or of the backfill ends, or a step of another collector
LEMMA CoveredEnd ==
  ASSUME Typed, Typed', Covered, NEW r \in Runs, NEW ok \in BOOLEAN, NEW row \in Columns, NEW n \in Nat,
         run[r].stream # "none", End(r, ok, row, n), UNCHANGED <<clock, sent, verdict, first, origin>>,
         stored \subseteq stored', row.cursor = tenant.cursor,
         \/ row.watermark = tenant.watermark
         \/ /\ run[r].stream = "convictions" /\ row.watermark = run[r].now
            /\ run[r].due \subseteq stored'
  PROVE  Covered'
<1>1. CollectionTypeOK /\ VerdictsAreNew /\ clock <= clock'
  <2>1. CollectionTypeOK
    BY DEF Typed
  <2> QED
    BY <2>1, ClockFacts DEF VerdictsAreNew
<1>2. /\ tenant'.watermark = row.watermark /\ tenant'.cursor = tenant.cursor
      /\ run'[r].stream = "none" /\ \A o \in Runs \ {r} : run'[o] = run[o]
  BY <1>1, EndFacts
<1>3. CASE row.watermark = tenant.watermark
  <2>1. \A o \in Runs : \/ run'[o].stream \notin {"convictions", "backfill"}
                        \/ /\ run'[o].stream = run[o].stream
                           /\ run'[o].now = run[o].now /\ run'[o].from = run[o].from
                           /\ run[o].due \subseteq stored' \union run'[o].due
    BY <1>2
  <2> QED
    BY <1>1, <1>2, <1>3, <2>1, CoveredElsewhere
<1>4. CASE /\ run[r].stream = "convictions" /\ row.watermark = run[r].now
           /\ run[r].due \subseteq stored'
  <2>1. Gathering(run[r]) /\ Timely(run[r])
    BY DEF Covered, Typed
  <2>2. first # Null /\ Seen(run[r].now) \subseteq stored' /\ run[r].now <= clock /\ run[r].now # Null
    BY <1>1, <1>4, <2>1, CollectionFacts DEF Gathering, Timely, CollectionTypeOK, Run
  <2>3. \A o \in Runs : run'[o].stream = "convictions" =>
            /\ first # Null /\ run'[o].now <= clock
            /\ Seen(run'[o].now) \subseteq stored' \union run'[o].due
    <3> SUFFICES ASSUME NEW o \in Runs, run'[o].stream = "convictions"
                 PROVE  run'[o].now <= clock /\ Seen(run'[o].now) \subseteq stored' \union run'[o].due
      BY <2>2
    <3>1. Gathering(run[o]) /\ Timely(run[o]) /\ run'[o] = run[o]
      BY <1>2 DEF Covered, Typed
    <3> QED
      BY <3>1 DEF Gathering, Timely
  <2>4. \A o \in Runs : run'[o].stream = "backfill" =>
            /\ tenant.cursor # Null
            /\ Earlier(run'[o].from) \subseteq stored' \union run'[o].due
    BY <1>2 DEF Covered, Filling
  <2> QED
    BY <1>1, <1>2, <1>4, <2>2, <2>3, <2>4, CoveredKeeps
<1> QED
  BY <1>3, <1>4

\* The window is complete: the cursor moves down to its start
LEMMA CoveredNextWindow ==
  ASSUME Typed, Typed', Covered, NEW r \in Runs, run[r].stream = "backfill", NextWindow(r),
         UNCHANGED <<clock, sent, verdict, first, origin>>
  PROVE  Covered'
<1>1. CollectionTypeOK /\ VerdictsAreNew /\ clock <= clock'
  <2>1. CollectionTypeOK
    BY DEF Typed
  <2> QED
    BY <2>1, ClockFacts DEF VerdictsAreNew
<1>2. PICK q : /\ run' = [run EXCEPT ![r] = q] /\ q.stream = "backfill"
               /\ q.cursor = run[r].from /\ q.cursor \in Days
               /\ q.from = WindowFrom(q.cursor, run[r].now) /\ q.due = Found(q.from, q.cursor)
               /\ tenant' = [tenant EXCEPT !.cursor = q.cursor]
  BY DEF NextWindow
<1>3. run'[r] = q /\ \A o \in Runs \ {r} : run'[o] = run[o]
  BY <1>1, <1>2 DEF CollectionTypeOK
<1>4. PICK c \in Nat : c = q.cursor /\ c # Null
  BY <1>2, CollectionFacts
<1>5. tenant'.watermark = tenant.watermark /\ tenant'.cursor = c
  BY <1>1, <1>2, <1>4, TenantRows
<1>6. stored' = stored \union run[r].due
  BY DEF NextWindow
<1>7. tenant.cursor # Null /\ Earlier(c) \subseteq stored'
  BY <1>2, <1>4, <1>6 DEF Covered, Filling
<1>8. Earlier(q.from) \subseteq stored' \union q.due
  <2> SUFFICES ASSUME NEW m \in Earlier(q.from), m \notin stored' PROVE m \in q.due
    OBVIOUS
  <2>1. m \in Messages /\ verdict[m] # Null /\ sent[m] >= q.from /\ sent[m] \in Nat
    BY <1>1, CollectionFacts DEF Earlier, CollectionTypeOK
  <2>2. ~(sent[m] >= c)
    BY <1>7 DEF Earlier
  <2> QED
    BY <1>2, <1>4, <2>1, <2>2 DEF Found
<1>9. \A o \in Runs : run'[o].stream = "backfill" =>
          /\ tenant.cursor # Null
          /\ Earlier(run'[o].from) \subseteq stored' \union run'[o].due
  BY <1>3, <1>6, <1>7, <1>8 DEF Covered, Filling
<1>10. \A o \in Runs : run'[o].stream = "convictions" =>
          /\ first # Null /\ run'[o].now <= clock
          /\ Seen(run'[o].now) \subseteq stored' \union run'[o].due
  <2> SUFFICES ASSUME NEW o \in Runs, run'[o].stream = "convictions"
               PROVE  first # Null /\ run'[o].now <= clock /\ Seen(run'[o].now) \subseteq stored' \union run'[o].due
    OBVIOUS
  <2>1. o # r
    BY <1>2, <1>3
  <2>2. Gathering(run[o]) /\ Timely(run[o]) /\ run'[o] = run[o]
    BY <1>3, <2>1 DEF Covered, Typed
  <2> QED
    BY <1>6, <2>2 DEF Gathering, Timely
<1>11. stored \subseteq stored'
  BY <1>6
<1> QED
  BY <1>1, <1>4, <1>5, <1>7, <1>9, <1>10, <1>11, CoveredKeeps

LEMMA CoveredStep ==
  ASSUME Typed, Typed', Covered, [Next]_vars
  PROVE  Covered'
<1>1. CollectionTypeOK /\ tenant \in Columns /\ clock \in Days /\ clock \in Nat
  BY ClockFacts DEF Typed, CollectionTypeOK
<1>2. clock' = clock => clock <= clock'
  BY <1>1
<1>3. verdict' = verdict => VerdictsAreNew
  BY DEF VerdictsAreNew
<1>4. ASSUME NEW r \in Runs, NEW s \in Streams, NEW chain \in BOOLEAN, StartStream(r, s, chain),
             UNCHANGED <<clock, sent, verdict, stored>>
      PROVE  Covered'
  <2>1. CASE StatsBegins(r)
    <3>1. PICK q : run' = [run EXCEPT ![r] = q] /\ q.stream = "stats"
      BY <2>1 DEF StatsBegins, Beginner
    <3>2. run'[r] = q /\ \A o \in Runs \ {r} : run'[o] = run[o]
      BY <1>1, <3>1 DEF CollectionTypeOK
    <3>3. tenant' = tenant /\ first' = first /\ origin' = origin
      BY <2>1 DEF StatsBegins
    <3> QED
      BY <1>2, <1>3, <1>4, <3>1, <3>2, <3>3, CoveredElsewhere
  <2>2. CASE ConvictionsBegin(r)
    BY <1>4, <2>2, CoveredConvictionsBegin
  <2>3. CASE BackfillBegins(r)
    BY <1>4, <2>3, CoveredBackfillBegins
  <2>4. CASE NothingBegins(r)
    <3>1. run'[r].stream = "none" /\ \A o \in Runs \ {r} : run'[o] = run[o]
      BY <1>1, <2>4, IdleFacts DEF NothingBegins, CollectionTypeOK
    <3>2. tenant' = tenant /\ first' = first /\ origin' = origin
      BY <2>4 DEF NothingBegins
    <3> QED
      BY <1>2, <1>3, <1>4, <3>1, <3>2, CoveredElsewhere
  <2> QED
    BY <1>1, <1>4, <2>1, <2>2, <2>3, <2>4, StartFacts
<1>5. ASSUME NEW r \in Runs, NEW s \in Streams, NEW chain \in BOOLEAN, Begin(r, s, chain)
      PROVE  Covered'
  BY <1>4, <1>5 DEF Begin, data
<1>6. ASSUME NEW r \in Runs, Continue(r)
      PROVE  Covered'
  <2>1. run[r].waits \in Streams
    BY <1>1, <1>6 DEF Continue, CollectionTypeOK, Run
  <2>2. PICK chain \in BOOLEAN : chain = TRUE
    OBVIOUS
  <2> QED
    BY <1>4, <1>6, <2>1, <2>2 DEF Continue, world, data
<1>7. ASSUME NEW r \in Runs, NEW got, NEW q, got \subseteq run[r].due, stored' = stored \union got,
             Onward(r, q), q.due = run[r].due \ got,
             UNCHANGED <<tenant, clock, sent, verdict, first, origin>>
      PROVE  Covered'
  <2>1. run'[r] = q /\ \A o \in Runs \ {r} : run'[o] = run[o]
    BY <1>1, <1>7 DEF Onward, CollectionTypeOK
  <2>2. \A o \in Runs : /\ run'[o].stream = run[o].stream
                        /\ run'[o].now = run[o].now /\ run'[o].from = run[o].from
                        /\ run[o].due \subseteq stored' \union run'[o].due
    BY <1>7, <2>1 DEF Onward
  <2>3. stored \subseteq stored'
    BY <1>7
  <2> QED
    BY <1>2, <1>3, <1>7, <2>2, <2>3, CoveredElsewhere
<1>8. ASSUME NEW r \in Runs, ConvictionsPage(r)
      PROVE  Covered'
  <2>1. PICK got, q : /\ got \subseteq run[r].due /\ stored' = stored \union got
                      /\ Onward(r, q) /\ q.due = run[r].due \ got
    BY <1>1, <1>8, ConvictionsPageFacts
  <2> QED
    BY <1>7, <1>8, <2>1 DEF ConvictionsPage, world
<1>9. ASSUME NEW r \in Runs, ConvictionsEnd(r)
      PROVE  Covered'
  <2>1. run[r].now \in Days /\ run[r].used + 1 \in Nat
    BY <1>1 DEF CollectionTypeOK, Run
  <2>2. PICK row : row = [tenant EXCEPT !.watermark = run[r].now]
    OBVIOUS
  <2>3. row \in Columns /\ row.watermark = run[r].now /\ row.cursor = tenant.cursor
    BY <1>1, <2>1, <2>2, TenantRows
  <2>4. /\ run[r].stream = "convictions" /\ stored' = stored \union run[r].due
        /\ End(r, TRUE, row, run[r].used + 1) /\ UNCHANGED <<clock, sent, verdict, first, origin>>
    BY <1>9, <2>2 DEF ConvictionsEnd, Page, world
  <2>5. stored \subseteq stored' /\ run[r].due \subseteq stored' /\ run[r].stream # "none"
    BY <2>4
  <2>6. PICK ok \in BOOLEAN : ok = TRUE
    OBVIOUS
  <2> QED
    BY <2>1, <2>3, <2>4, <2>5, <2>6, CoveredEnd
<1>10. ASSUME NEW r \in Runs, BackfillPaused(r) \/ BackfillDone(r)
       PROVE  Covered'
  <2>1. run[r].used \in Nat
    BY <1>1 DEF CollectionTypeOK, Run
  <2>2. PICK row \in Columns : /\ row.watermark = tenant.watermark /\ row.cursor = tenant.cursor
                               /\ End(r, TRUE, row, run[r].used)
    BY <1>1, <1>10, TenantRows DEF BackfillPaused, BackfillDone, Succeed
  <2>3. run[r].stream # "none" /\ stored' = stored /\ UNCHANGED <<clock, sent, verdict, first, origin>>
    BY <1>10 DEF BackfillPaused, BackfillDone, Succeed, world, data
  <2>4. stored \subseteq stored'
    BY <2>3
  <2>5. PICK ok \in BOOLEAN : ok = TRUE
    OBVIOUS
  <2> QED
    BY <2>1, <2>2, <2>3, <2>4, <2>5, CoveredEnd
<1>11. ASSUME NEW r \in Runs, BackfillPage(r)
       PROVE  Covered'
  <2>1. UNCHANGED <<clock, sent, verdict, first, origin>> /\ run[r].stream = "backfill"
    BY <1>11 DEF BackfillPage, world
  <2>2. ASSUME NEW n \in Nat, End(r, TRUE, tenant, n), stored \subseteq stored' PROVE Covered'
    <3>1. PICK ok \in BOOLEAN : ok = TRUE
      OBVIOUS
    <3> QED
      BY <1>1, <2>1, <2>2, <3>1, CoveredEnd
  <2>3. ASSUME NEW got, NEW q, got \subseteq run[r].due, stored' = stored \union got,
               Onward(r, q), q.due = run[r].due \ got, UNCHANGED tenant
        PROVE  Covered'
    BY <1>7, <2>1, <2>3
  <2>4. ASSUME NextWindow(r) PROVE Covered'
    BY <2>1, <2>4, CoveredNextWindow
  <2> QED
    BY <1>11, <2>2, <2>3, <2>4, BackfillPageFacts
<1>12. ASSUME NEW r \in Runs, Report(r)
       PROVE  Covered'
  <2>1. PICK q : Onward(r, q)
    BY <1>1, <1>12, ReportFacts
  <2>2. run'[r].stream = "stats" /\ \A o \in Runs \ {r} : run'[o] = run[o]
    BY <1>1, <1>12, <2>1, ReportFacts DEF Onward, CollectionTypeOK
  <2>3. UNCHANGED <<clock, sent, verdict, stored, tenant, first, origin>>
    BY <1>12 DEF Report, world, data
  <2>4. stored \subseteq stored' /\ clock <= clock' /\ VerdictsAreNew
    BY <1>2, <1>3, <2>3
  <2>5. \A o \in Runs : \/ run'[o].stream \notin {"convictions", "backfill"}
                        \/ /\ run'[o].stream = run[o].stream
                           /\ run'[o].now = run[o].now /\ run'[o].from = run[o].from
                           /\ run[o].due \subseteq stored' \union run'[o].due
    BY <2>2
  <2> QED
    BY <2>3, <2>4, <2>5, CoveredElsewhere
<1>13. ASSUME NEW r \in Runs, StatsEnd(r)
       PROVE  Covered'
  <2>1. run[r].now \in Days /\ run[r].used + 1 \in Nat
    BY <1>1 DEF CollectionTypeOK, Run
  <2>2. PICK row : row = [tenant EXCEPT !.stats = run[r].now]
    OBVIOUS
  <2>3. row \in Columns /\ row.watermark = tenant.watermark /\ row.cursor = tenant.cursor
    BY <1>1, <2>1, <2>2, TenantRows
  <2>4. /\ run[r].stream # "none" /\ stored' = stored
        /\ End(r, TRUE, row, run[r].used + 1) /\ UNCHANGED <<clock, sent, verdict, first, origin>>
    BY <1>13, <2>2 DEF StatsEnd, StoreStats, world
  <2>5. stored \subseteq stored'
    BY <2>4
  <2>6. PICK ok \in BOOLEAN : ok = TRUE
    OBVIOUS
  <2> QED
    BY <2>1, <2>3, <2>4, <2>5, <2>6, CoveredEnd
<1>14. ASSUME NEW r \in Runs, ApiError(r)
       PROVE  Covered'
  <2>1. run[r].used + 1 \in Nat
    BY <1>1 DEF CollectionTypeOK, Run
  <2>2. /\ run[r].stream # "none" /\ End(r, FALSE, tenant, run[r].used + 1)
        /\ UNCHANGED <<clock, sent, verdict, first, origin>>
    BY <1>14, Zenon DEF ApiError, world
  <2>3. stored' = stored
    <3>1. ASSUME NEW lists, StoreStats(r, lists) PROVE stored' = stored
      BY <3>1 DEF StoreStats
    <3> QED
      BY <1>14, <3>1 DEF ApiError, data
  <2>4. stored \subseteq stored'
    BY <2>3
  <2>5. PICK ok \in BOOLEAN : ok = FALSE
    OBVIOUS
  <2> QED
    BY <1>1, <2>1, <2>2, <2>4, <2>5, CoveredEnd
<1>15. CASE (\E r \in Runs : Raise(r)) \/ Stop
  <2>1. /\ UNCHANGED <<world, tenant, data, first, origin>>
        /\ \A r \in Runs : run'[r] = Idle \/ run'[r] = run[r]
    BY <1>1, <1>15, DroppedFacts
  <2>2. UNCHANGED <<clock, sent, verdict, stored>>
    BY <2>1 DEF world, data
  <2> QED
    BY <1>2, <1>3, <2>1, <2>2, IdleFacts, CoveredElsewhere
<1>16. ASSUME NEW m \in Messages, Convict(m)
       PROVE  Covered'
  <2>1. VerdictsAreNew
    BY <1>1, <1>16 DEF VerdictsAreNew, Convict, CollectionTypeOK
  <2>2. UNCHANGED <<clock, sent, tenant, stored, run, first, origin>>
    BY <1>16 DEF Convict, data
  <2> QED
    BY <1>2, <2>1, <2>2, CoveredElsewhere
<1>17. CASE Tick
  <2>1. clock <= clock'
    BY <1>1, <1>17 DEF Tick
  <2>2. UNCHANGED <<sent, verdict, tenant, stored, run, first, origin>>
    BY <1>17 DEF Tick, data
  <2> QED
    BY <1>3, <2>1, <2>2, CoveredElsewhere
<1>18. CASE UNCHANGED vars
  <2>1. UNCHANGED <<clock, sent, verdict, tenant, stored, run, first, origin>>
    BY <1>18 DEF vars
  <2> QED
    BY <1>2, <1>3, <2>1, CoveredElsewhere
<1> QED
  BY <1>5, <1>6, <1>8, <1>9, <1>10, <1>11, <1>12, <1>13, <1>14, <1>15, <1>16, <1>17, <1>18 DEF Next

\* What models.py says of backfill_cursor: from the cursor on every convicted
\* message is stored that was convicted within the days a collection looks
\* back, whatever overlapped, failed or stopped, for any windows and horizon.
THEOREM CollectionIsComplete == Spec => []CompleteFromCursor
<1>1. Init => Covered
  BY IdleFacts DEF Init, Covered, NoColumns, Gathering, Filling
<1>2. Typed /\ Typed' /\ Covered /\ [Next]_vars => Covered'
  BY CoveredStep
<1>3. Typed /\ Covered => CompleteFromCursor
  <2> SUFFICES ASSUME Typed, Covered, tenant.cursor # Null, tenant.watermark # Null, NEW m \in Messages,
                      verdict[m] # Null, verdict[m] < tenant.watermark, verdict[m] <= sent[m] + RescanDays,
                      sent[m] >= tenant.cursor, sent[m] >= clock - Horizon,
                      sent[m] >= first \/ (sent[m] < origin.from /\ verdict[m] < origin.day)
               PROVE  m \in stored
    BY DEF CompleteFromCursor
  <2>1. CASE sent[m] >= first
    BY <2>1 DEF Covered, Seen
  <2>2. CASE sent[m] < origin.from /\ verdict[m] < origin.day
    BY <2>2 DEF Covered, Earlier
  <2> QED
    BY <2>1, <2>2
<1> QED
  BY <1>1, <1>2, <1>3, CollectionTyped, PTL DEF Spec
===============================================================================
