---------------------------- MODULE LogExportProofs ----------------------------
(***************************************************************************)
(* Log Export for any number of collectors, files and hours: the types,    *)
(* that nothing is ever counted twice and nothing passed over, and that     *)
(* what counts as covered is.                                               *)
(***************************************************************************)
EXTENDS LogExportProps, FiniteSetTheorems, TLAPS

\* The clock starts at the first horizon, so that no window begins before 0
LogInv == LogTypeOK /\ Retention <= clock

LEMMA ConstantFacts ==
  /\ MaxClock \in Nat /\ Window \in Nat /\ Window > 0 /\ Lookback \in Nat
  /\ Retention \in Nat /\ Retention <= MaxClock /\ MaxManual \in Nat /\ MaxFaults \in Nat
  /\ Null \notin Hours
  /\ IsFiniteSet(Files)
  BY LogConstants DEF LogConstants, Hours

LEMMA IdleIsRun == Idle \in Run
  BY ConstantFacts DEF Idle, Run, Hour, Hours

\* The hours between two hours of the clock
LEMMA HoursBetween ==
  ASSUME NEW x \in Hours, NEW y \in Hours
  PROVE  x..(y - 1) \subseteq Hours
  BY ConstantFacts DEF Hours

\* A window lies within the clock
LEMMA WindowFacts ==
  ASSUME NEW r \in Run, r.win < r.now
  PROVE  WindowEnd(r) \in Hours /\ Asked(r) \subseteq Hours
<1>1. r.win \in Hours /\ r.now \in Hours
  BY DEF Run
<1>2. WindowEnd(r) \in Hours
  BY <1>1, ConstantFacts DEF WindowEnd, Hours
<1> QED
  BY <1>1, <1>2, HoursBetween DEF Asked

LEMMA StartFacts ==
  ASSUME LogInv
  PROVE  Horizon \in Hours /\ FirstWindow \in Hours /\ WithOutage \subseteq Hours
<1>1. Horizon \in Hours
  BY ConstantFacts DEF LogInv, LogTypeOK, Horizon, Hours
<1>2. FirstWindow \in Hours
  BY <1>1, ConstantFacts DEF LogInv, LogTypeOK, FirstWindow, Hour, Hours
<1>3. WithOutage \subseteq Hours
  <2>1. CASE Behind
    BY <2>1, <1>1, HoursBetween DEF LogInv, LogTypeOK, WithOutage, Behind, Hour
  <2>2. CASE ~Behind
    BY <2>2 DEF LogInv, LogTypeOK, WithOutage
  <2> QED
    BY <2>1, <2>2
<1> QED
  BY <1>1, <1>2, <1>3

\* The local variables of a run that begins
LEMMA BeginIsRun ==
  ASSUME LogInv, NEW c \in Collectors, Begin(c)
  PROVE  col' \in [Collectors -> Run] /\ overlapped' \in BOOLEAN
<1> DEFINE first == IF cursor = Null /\ firstHour = Null THEN Horizon ELSE firstHour
           dirty == {x \in {"first", "gaps"} :
                       IF x = "gaps" THEN Behind ELSE cursor = Null /\ firstHour = Null}
           r == [Idle EXCEPT !.phase = "window", !.now = clock, !.win = FirstWindow,
                   !.cursor = cursor, !.gaps = WithOutage, !.seen = recorded,
                   !.first = first, !.dirty = dirty]
<1>1. first \in Hour
  BY StartFacts DEF LogInv, LogTypeOK, Hour
<1>2. dirty \subseteq {"first", "gaps"}
  OBVIOUS
<1>3. col' = [col EXCEPT ![c] = r]
  BY DEF Begin
<1>4. r \in Run
  <2> HIDE DEF first, dirty
  <2> QED
    BY <1>1, <1>2, IdleIsRun, StartFacts DEF LogInv, LogTypeOK, Run
<1>5. overlapped' \in BOOLEAN
  BY DEF Begin
<1> QED
  BY <1>3, <1>4, <1>5 DEF LogInv, LogTypeOK

\* What an action that changes only one run's variables has to show
LEMMA RunUpdate ==
  ASSUME LogInv, NEW c \in Collectors, NEW r \in Run, col' = [col EXCEPT ![c] = r]
  PROVE  col' \in [Collectors -> Run]
  BY DEF LogInv, LogTypeOK

LEMMA TypeRefuse ==
  ASSUME LogInv, NEW c \in Collectors, Refuse(c)
  PROVE  LogInv'
<1> DEFINE r == col[c]
<1>1. r \in Run /\ r.win < r.now
  BY DEF LogInv, LogTypeOK, Refuse, Asking
<1>2. WindowEnd(r) \in Hours /\ Asked(r) \subseteq Hours
  BY <1>1, WindowFacts
<1>3. [r EXCEPT !.win = WindowEnd(r)] \in Run
  BY <1>1, <1>2 DEF Run
<1>4. col' = [col EXCEPT ![c] = [r EXCEPT !.win = WindowEnd(r)]]
  BY DEF Refuse, LogInv, LogTypeOK
<1>5. col' \in [Collectors -> Run]
  BY <1>3, <1>4, RunUpdate
<1> QED
  BY <1>2, <1>5 DEF Refuse, LogInv, LogTypeOK, worldVars, tenantVars, storeVars

\* What is listed is what has come and is not yet stored, but for the hours at the limit
LEMMA FetchUpdates ==
  ASSUME LogInv, NEW c \in Collectors, Fetch(c)
  PROVE  \E full \in SUBSET Asked(col[c]), new \in SUBSET Files :
           /\ col' = [col EXCEPT ![c] = [col[c] EXCEPT !.phase = "fetched", !.upto = WindowEnd(col[c]),
                                           !.batch = new, !.seen = @ \union new, !.capped = full]]
           /\ \A f \in arrived : HourOf[f] \in Asked(col[c]) \ full => f \in new \/ f \in col[c].seen
           /\ new \intersect col[c].seen = {}
<1> DEFINE r == col[c]
<1>1. PICK full \in SUBSET Asked(r) :
        \E shown \in SUBSET {f \in arrived : HourOf[f] \in full} :
          LET links == shown \union {f \in arrived : HourOf[f] \in Asked(r) \ full}
              new   == Unseen(r, links)
          IN  col' = [col EXCEPT ![c].phase = "fetched", ![c].upto = WindowEnd(r),
                                 ![c].batch = new, ![c].seen = @ \union new, ![c].capped = full]
  BY DEF Fetch
<1>2. PICK shown \in SUBSET {f \in arrived : HourOf[f] \in full} :
          LET links == shown \union {f \in arrived : HourOf[f] \in Asked(r) \ full}
              new   == Unseen(r, links)
          IN  col' = [col EXCEPT ![c].phase = "fetched", ![c].upto = WindowEnd(r),
                                 ![c].batch = new, ![c].seen = @ \union new, ![c].capped = full]
  BY <1>1
<1> DEFINE new == Unseen(r, shown \union {f \in arrived : HourOf[f] \in Asked(r) \ full})
<1>3. /\ new \in SUBSET Files /\ new \intersect r.seen = {}
      /\ \A f \in arrived : HourOf[f] \in Asked(r) \ full => f \in new \/ f \in r.seen
  BY <1>2 DEF Unseen, LogInv, LogTypeOK
<1>4. col' = [col EXCEPT ![c].phase = "fetched", ![c].upto = WindowEnd(r),
                         ![c].batch = new, ![c].seen = @ \union new, ![c].capped = full]
  BY <1>2
<1>5. col' = [col EXCEPT ![c] = [r EXCEPT !.phase = "fetched", !.upto = WindowEnd(r),
                                   !.batch = new, !.seen = @ \union new, !.capped = full]]
  <2> HIDE DEF new
  <2> QED
    BY <1>4 DEF LogInv, LogTypeOK
<1> QED
  BY <1>3, <1>5

LEMMA TypeFetch ==
  ASSUME LogInv, NEW c \in Collectors, Fetch(c)
  PROVE  LogInv'
<1> DEFINE r == col[c]
<1>1. r \in Run /\ r.win < r.now
  BY DEF LogInv, LogTypeOK, Fetch, Asking
<1>2. WindowEnd(r) \in Hours /\ Asked(r) \subseteq Hours
  BY <1>1, WindowFacts
<1>3. PICK full \in SUBSET Asked(r), new \in SUBSET Files :
        col' = [col EXCEPT ![c] = [r EXCEPT !.phase = "fetched", !.upto = WindowEnd(r),
                                     !.batch = new, !.seen = @ \union new, !.capped = full]]
  BY FetchUpdates
<1>4. [r EXCEPT !.phase = "fetched", !.upto = WindowEnd(r),
                !.batch = new, !.seen = @ \union new, !.capped = full] \in Run
  BY <1>1, <1>2, <1>3 DEF Run
<1>5. col' \in [Collectors -> Run]
  BY <1>3, <1>4, RunUpdate
<1>6. UNCHANGED faults \/ Fault
  BY Zenon DEF Fetch
<1>7. faults' \in Nat
  BY <1>6 DEF Fault, LogInv, LogTypeOK
<1> QED
  BY <1>5, <1>7 DEF Fetch, LogInv, LogTypeOK, worldVars, tenantVars, storeVars, historyVars

LEMMA TypeLoad ==
  ASSUME LogInv, NEW c \in Collectors, Load(c)
  PROVE  LogInv'
<1> DEFINE r == col[c]
<1>1. r \in Run
  BY DEF LogInv, LogTypeOK
<1>2. [r EXCEPT !.phase = "loaded", !.loaded = counts] \in Run
  BY <1>1 DEF Run, LogInv, LogTypeOK
<1>3. col' = [col EXCEPT ![c] = [r EXCEPT !.phase = "loaded", !.loaded = counts]]
  BY DEF Load, LogInv, LogTypeOK
<1>4. col' \in [Collectors -> Run]
  BY <1>2, <1>3, RunUpdate
<1> QED
  BY <1>4 DEF Load, LogInv, LogTypeOK, worldVars, tenantVars, storeVars, historyVars

\* A set of files has a size
LEMMA FileSets ==
  ASSUME NEW d, NEW fs \in SUBSET Files
  PROVE  IsFiniteSet(Of(d, fs)) /\ Cardinality(Of(d, fs)) \in Nat
<1>1. Of(d, fs) \subseteq Files
  BY DEF Of
<1>2. IsFiniteSet(Of(d, fs))
  BY <1>1, ConstantFacts, FS_Subset
<1> QED
  BY <1>2, FS_CardinalityType

LEMMA TypeCommit ==
  ASSUME LogInv, NEW c \in Collectors, Commit(c)
  PROVE  LogInv'
<1> DEFINE r == col[c]
           covered == r.win..(r.upto - 1)
           moved == IF Moves(r) THEN r.upto ELSE r.cursor
           noted == NotedGaps(r)
           done == [r EXCEPT !.phase = "window", !.win = r.upto, !.gaps = noted, !.dirty = {},
                             !.cursor = moved, !.batch = {}, !.capped = {}, !.loaded = Idle.loaded]
<1>1. r \in Run
  BY DEF LogInv, LogTypeOK
<1>2. /\ r.win \in Hours /\ r.upto \in Hours /\ r.cursor \in Hour /\ r.first \in Hour
      /\ r.batch \subseteq Files /\ r.capped \subseteq Hours /\ r.gaps \subseteq Hours
      /\ r.loaded \in [Days -> Nat]
  BY <1>1 DEF Run
<1>3. covered \subseteq Hours
  BY <1>2, HoursBetween
<1>4. counts' \in [Days -> Nat]
  <2>1. \A d \in Days : Counted(r, d) \in Nat
    BY <1>2, FileSets DEF Counted
  <2>2. counts' = [d \in Days |-> IF Of(d, r.batch) = {} THEN counts[d] ELSE Counted(r, d)]
    BY DEF Commit
  <2> QED
    BY <2>1, <2>2 DEF LogInv, LogTypeOK
<1>5. noted \subseteq Hours /\ moved \in Hour
  BY <1>2 DEF NotedGaps, Hour
<1>6. col' = [col EXCEPT ![c] = done]
  BY DEF Commit
<1>7. done \in Run
  <2>1. Idle.loaded \in [Days -> Nat]
    BY IdleIsRun DEF Run
  <2> HIDE DEF noted, moved
  <2> QED
    BY <1>1, <1>2, <1>5, <2>1 DEF Run
<1>8. col' \in [Collectors -> Run]
  <2> HIDE DEF done
  <2> QED
    BY <1>6, <1>7, RunUpdate
<1>9. gaps' \subseteq Hours /\ cursor' \in Hour /\ firstHour' \in Hour
  BY <1>2, <1>5 DEF Commit, Hour, LogInv, LogTypeOK
<1>10. listed' \subseteq Hours /\ began' \in Hour
  BY <1>2, <1>3 DEF Commit, Hour, LogInv, LogTypeOK
<1>12. hidden' \subseteq Hours \X Hours
  <2>1. hidden \subseteq Hours \X Hours /\ r.capped \X {r.now} \subseteq Hours \X Hours
    BY <1>1 DEF Run, LogInv, LogTypeOK
  <2>2. hidden' \subseteq hidden \union (r.capped \X {r.now})
    BY DEF Commit
  <2> QED
    BY <2>1, <2>2
<1>11. recorded' \subseteq Files
  BY <1>2 DEF Commit, LogInv, LogTypeOK
<1> QED
  BY <1>4, <1>8, <1>9, <1>10, <1>11, <1>12 DEF Commit, LogInv, LogTypeOK, worldVars

LEMMA TypeEnds ==
  ASSUME LogInv, NEW c \in Collectors, Clash(c) \/ Finish(c) \/ Pause(c) \/ Fail(c)
  PROVE  LogInv'
<1>1. col[c] \in Run
  BY DEF LogInv, LogTypeOK
<1>2. col' = [col EXCEPT ![c] = Idle]
  BY DEF Clash, Finish, Pause, Fail, EndSession
<1>3. col' \in [Collectors -> Run]
  BY <1>2, IdleIsRun, RunUpdate
<1>4. gaps' \subseteq Hours /\ firstHour' \in Hour /\ cursor' = cursor
  BY <1>1 DEF Clash, Finish, Pause, Fail, EndSession, tenantVars, Run, LogInv, LogTypeOK
<1>5. faults' \in Nat
  BY DEF Clash, Finish, Pause, Fail, Fault, LogInv, LogTypeOK
<1> QED
  BY <1>3, <1>4, <1>5 DEF Clash, Finish, Pause, Fail, EndSession, LogInv, LogTypeOK,
       worldVars, tenantVars, storeVars, historyVars

LEMMA TypeWorld ==
  ASSUME LogInv,
         \/ Hourly \/ Tick \/ Stop \/ Resume
         \/ \E c \in Manual : ByHand(c)
         \/ \E f \in Files : Arrive(f)
  PROVE  LogInv'
<1>1. Scheduled \in Collectors /\ Manual \subseteq Collectors
  BY DEF Collectors
<1>2. CASE Hourly
  <2>1. col' \in [Collectors -> Run] /\ overlapped' \in BOOLEAN
    BY <1>1, <1>2, BeginIsRun DEF Hourly, LogInv, LogTypeOK
  <2> QED
    BY <1>2, <2>1 DEF Hourly, LogInv, LogTypeOK, tenantVars, storeVars
<1>3. ASSUME NEW c \in Manual, ByHand(c) PROVE LogInv'
  <2>1. col' \in [Collectors -> Run] /\ overlapped' \in BOOLEAN
    BY <1>1, <1>3, BeginIsRun DEF ByHand
  <2> QED
    BY <1>3, <2>1 DEF ByHand, LogInv, LogTypeOK, tenantVars, storeVars
<1>4. CASE Tick
  <2>1. clock' \in Hours /\ Retention <= clock'
    BY <1>4, ConstantFacts DEF Tick, LogInv, LogTypeOK, Hours
  <2> QED
    BY <1>4, <2>1 DEF Tick, LogInv, LogTypeOK, tenantVars, storeVars, historyVars
<1>5. CASE Stop
  BY <1>5, IdleIsRun DEF Stop, Fault, LogInv, LogTypeOK, tenantVars, storeVars, historyVars
<1>6. CASE Resume
  BY <1>6 DEF Resume, LogInv, LogTypeOK, tenantVars, storeVars, historyVars
<1>7. ASSUME NEW f \in Files, Arrive(f) PROVE LogInv'
  BY <1>7 DEF Arrive, LogInv, LogTypeOK, tenantVars, storeVars, historyVars
<1> QED
  BY <1>2, <1>3, <1>4, <1>5, <1>6, <1>7

LEMMA TypeStep == LogInv /\ [Next]_vars => LogInv'
<1> SUFFICES ASSUME LogInv, [Next]_vars PROVE LogInv'
  OBVIOUS
<1>1. CASE UNCHANGED vars
  BY <1>1 DEF vars, LogInv, LogTypeOK
<1>2. ASSUME NEW c \in Collectors, Step(c) \/ Pause(c) \/ Fail(c) PROVE LogInv'
  BY <1>2, TypeRefuse, TypeFetch, TypeLoad, TypeCommit, TypeEnds DEF Step
<1> QED
  BY <1>1, <1>2, TypeWorld DEF Next

LEMMA LogTyping == Spec => []LogInv
<1>1. Init => LogInv
  <2> SUFFICES ASSUME Init PROVE LogInv
    OBVIOUS
  <2>1. clock \in Hours /\ Retention <= clock
    BY ConstantFacts DEF Init, Hours
  <2>2. col \in [Collectors -> Run] /\ counts \in [Days -> Nat]
    BY IdleIsRun DEF Init
  <2> QED
    BY <2>1, <2>2 DEF Init, LogInv, LogTypeOK, Hour
<1> QED
  BY <1>1, TypeStep, PTL DEF Spec

(* The tenant's row, the day rows and every run's variables keep their      *)
(* types: no window begins before the first horizon or ends after the clock.*)
THEOREM LogTypeCorrect == Spec => []LogTypeOK
  BY LogTyping, PTL DEF LogInv

-----------------------------------------------------------------------------
(* The counts.  A run that has read the day rows may commit much later:     *)
(* what it read is still no more than what log_files holds by then, because *)
(* log_files only grows.  If it runs alone, what it read is what is there.  *)
SizeOf(d) == Cardinality(Of(d, recorded))

LoadedIsOld ==
  \A c \in Collectors : col[c].phase = "loaded" =>
    \A d \in Days : col[c].loaded[d] <= SizeOf(d)

Alone ==
  ~overlapped =>
    \A c, o \in Collectors : c # o => col[c].phase = "idle" \/ col[o].phase = "idle"

LoadedIsFresh ==
  ~overlapped =>
    \A c \in Collectors : col[c].phase = "loaded" => col[c].loaded = counts

CountInv == NeverDoubleCounted /\ LoadedIsOld /\ Alone /\ LoadedIsFresh

\* Everything but a commit leaves the stores alone; a phase other than
\* "loaded" says nothing about what was read
LEMMA CountsKept ==
  ASSUME LogInv, CountInv, UNCHANGED storeVars, NEW c \in Collectors,
         NEW r, col' = [col EXCEPT ![c] = r], r.phase # "loaded",
         overlapped' \/ UNCHANGED overlapped,
         ~overlapped' => (r.phase = "idle" \/ col[c].phase # "idle"
                            \/ \A o \in Collectors \ {c} : col[o].phase = "idle")
  PROVE  CountInv'
<1>1. \A o \in Collectors : col'[o] = IF o = c THEN r ELSE col[o]
  BY DEF LogInv, LogTypeOK
<1>2. \A d : SizeOf(d)' = SizeOf(d)
  BY DEF SizeOf, storeVars
<1>3. NeverDoubleCounted'
  BY DEF CountInv, NeverDoubleCounted, storeVars
<1>4. LoadedIsOld'
  BY <1>1, <1>2 DEF CountInv, LoadedIsOld
<1>5. Alone'
  BY <1>1 DEF CountInv, Alone
<1>6. LoadedIsFresh'
  BY <1>1 DEF CountInv, LoadedIsFresh, storeVars, LogInv, LogTypeOK
<1> QED
  BY <1>3, <1>4, <1>5, <1>6 DEF CountInv

\* Of a batch that is new to log_files every file adds one
LEMMA BatchAdds ==
  ASSUME NEW d, NEW old \in SUBSET Files, NEW new \in SUBSET Files, new \intersect old = {}
  PROVE  /\ Cardinality(Of(d, old \union new)) = Cardinality(Of(d, old)) + Cardinality(Of(d, new))
         /\ Of(d, new) = {} => Cardinality(Of(d, old \union new)) = Cardinality(Of(d, old))
<1>1. IsFiniteSet(Of(d, old)) /\ IsFiniteSet(Of(d, new))
  BY FileSets
<1>2. Of(d, old \union new) = Of(d, old) \union Of(d, new)
  BY DEF Of
<1>3. Of(d, old) \intersect Of(d, new) = {}
  BY DEF Of
<1>4. Cardinality(Of(d, old \union new))
        = Cardinality(Of(d, old)) + Cardinality(Of(d, new)) - Cardinality(Of(d, old) \intersect Of(d, new))
  BY <1>1, <1>2, FS_Union
<1>5. Cardinality({}) = 0
  BY FS_EmptySet
<1>6. Cardinality(Of(d, old)) \in Nat /\ Cardinality(Of(d, new)) \in Nat
  BY FileSets
<1>7. Cardinality(Of(d, old \union new)) = Cardinality(Of(d, old)) + Cardinality(Of(d, new))
  <2>1. Cardinality(Of(d, old) \intersect Of(d, new)) = 0
    BY <1>3, <1>5
  <2> QED
    BY <1>4, <1>6, <2>1
<1>8. Of(d, new) = {} => Of(d, old \union new) = Of(d, old)
  BY <1>2
<1> QED
  BY <1>7, <1>8

LEMMA CommitCounts ==
  ASSUME LogInv, CountInv, NEW c \in Collectors, Commit(c)
  PROVE  CountInv'
<1> DEFINE r == col[c]
<1>1. /\ r \in Run /\ r.phase = "loaded" /\ r.batch \in SUBSET Files
      /\ r.loaded \in [Days -> Nat] /\ recorded \in SUBSET Files
  BY DEF Commit, LogInv, LogTypeOK, Run
<1>2. r.batch \intersect recorded = {}
  BY DEF Commit, Conflict
<1>3. recorded' = recorded \union r.batch
  BY DEF Commit
<1>4. \A d \in Days :
        /\ SizeOf(d)' = SizeOf(d) + Cardinality(Of(d, r.batch))
        /\ Of(d, r.batch) = {} => SizeOf(d)' = SizeOf(d)
        /\ SizeOf(d) \in Nat /\ Cardinality(Of(d, r.batch)) \in Nat
  BY <1>1, <1>2, <1>3, BatchAdds, FileSets, ZenonT(60) DEF SizeOf
<1>5. counts' = [d \in Days |-> IF Of(d, r.batch) = {} THEN counts[d] ELSE Counted(r, d)]
  BY DEF Commit
<1>6. \A d \in Days : counts[d] \in Nat /\ counts[d] <= SizeOf(d) /\ r.loaded[d] \in Nat /\ r.loaded[d] <= SizeOf(d)
  BY <1>1 DEF CountInv, NeverDoubleCounted, LoadedIsOld, SizeOf, LogInv, LogTypeOK
<1>7. ~overlapped => r.loaded = counts /\ \A d \in Days : counts[d] = SizeOf(d)
  BY <1>1 DEF CountInv, NeverDoubleCounted, LoadedIsFresh, SizeOf
<1>8. overlapped' = overlapped
  BY DEF Commit
<1>9. NeverDoubleCounted'
  <2> SUFFICES ASSUME NEW d \in Days
               PROVE  counts'[d] <= SizeOf(d)' /\ (~overlapped' => counts'[d] = SizeOf(d)')
    BY DEF NeverDoubleCounted, SizeOf
  <2>1. CASE Of(d, r.batch) = {}
    BY <1>4, <1>5, <1>6, <1>7, <1>8, <2>1
  <2>2. CASE Of(d, r.batch) # {}
    BY <1>4, <1>5, <1>6, <1>7, <1>8, <2>2 DEF Counted
  <2> QED
    BY <2>1, <2>2
<1>10. /\ \A o \in Collectors \ {c} : col'[o] = col[o]
       /\ col'[c].phase = "window"
  BY <1>1 DEF Commit, LogInv, LogTypeOK, Run
<1>11. LoadedIsOld'
  <2> SUFFICES ASSUME NEW o \in Collectors, col'[o].phase = "loaded", NEW d \in Days
               PROVE  col'[o].loaded[d] <= SizeOf(d)'
    BY DEF LoadedIsOld
  <2>1. o # c /\ col'[o] = col[o]
    BY <1>10
  <2>2. col[o].loaded[d] \in Nat /\ col[o].loaded[d] <= SizeOf(d)
    BY <2>1 DEF CountInv, LoadedIsOld, LogInv, LogTypeOK, Run
  <2> QED
    BY <1>4, <2>1, <2>2
<1>12. Alone'
  BY <1>1, <1>8, <1>10 DEF CountInv, Alone
<1>13. LoadedIsFresh'
  BY <1>1, <1>8, <1>10 DEF CountInv, Alone, LoadedIsFresh
<1> QED
  BY <1>9, <1>11, <1>12, <1>13 DEF CountInv

LEMMA LoadCounts ==
  ASSUME LogInv, CountInv, NEW c \in Collectors, Load(c)
  PROVE  CountInv'
<1>1. /\ \A o \in Collectors \ {c} : col'[o] = col[o]
      /\ col'[c].phase = "loaded" /\ col'[c].loaded = counts /\ col[c].phase = "fetched"
  BY DEF Load, LogInv, LogTypeOK, Run
<1>2. UNCHANGED <<counts, recorded, overlapped>>
  BY DEF Load, storeVars, historyVars
<1>3. \A d : SizeOf(d)' = SizeOf(d)
  BY <1>2 DEF SizeOf
<1>4. NeverDoubleCounted'
  BY <1>2 DEF CountInv, NeverDoubleCounted
<1>5. LoadedIsOld'
  BY <1>1, <1>2, <1>3 DEF CountInv, LoadedIsOld, NeverDoubleCounted, SizeOf
<1>6. Alone'
  BY <1>1, <1>2 DEF CountInv, Alone
<1>7. LoadedIsFresh'
  BY <1>1, <1>2 DEF CountInv, LoadedIsFresh
<1> QED
  BY <1>4, <1>5, <1>6, <1>7 DEF CountInv

\* A run that begins is noted as overlapping unless all others are idle
LEMMA BeginCounts ==
  ASSUME LogInv, CountInv, NEW c \in Collectors, Begin(c), UNCHANGED storeVars
  PROVE  CountInv'
<1> DEFINE r == col'[c]
<1>1. col' = [col EXCEPT ![c] = r] /\ r.phase = "window"
  <2>1. Idle \in Run
    BY IdleIsRun
  <2>2. r = [Idle EXCEPT !.phase = "window", !.now = clock, !.win = FirstWindow,
               !.cursor = cursor, !.gaps = WithOutage, !.seen = recorded,
               !.first = IF cursor = Null /\ firstHour = Null THEN Horizon ELSE firstHour,
               !.dirty = {x \in {"first", "gaps"} :
                            IF x = "gaps" THEN Behind ELSE cursor = Null /\ firstHour = Null}]
    BY DEF Begin, LogInv, LogTypeOK
  <2>3. r.phase = "window"
    BY <2>1, <2>2 DEF Run
  <2>4. col' = [col EXCEPT ![c] = r]
    BY <2>2 DEF Begin
  <2> QED
    BY <2>3, <2>4
<1>2. overlapped' = (overlapped \/ \E o \in Collectors \ {c} : col[o].phase # "idle")
  BY DEF Begin
<1>3. overlapped \in BOOLEAN
  BY DEF LogInv, LogTypeOK
<1>4. overlapped' \/ UNCHANGED overlapped
  BY <1>2, <1>3
<1>5. ~overlapped' => \A o \in Collectors \ {c} : col[o].phase = "idle"
  BY <1>2
<1> QED
  BY <1>1, <1>4, <1>5, CountsKept

LEMMA RunCounts ==
  ASSUME LogInv, CountInv, NEW c \in Collectors, Step(c) \/ Pause(c) \/ Fail(c)
  PROVE  CountInv'
<1>1. col[c] \in Run
  BY DEF LogInv, LogTypeOK
<1>2. CASE Refuse(c)
  <2>1. col' = [col EXCEPT ![c] = [col[c] EXCEPT !.win = WindowEnd(col[c])]]
    BY <1>2 DEF Refuse, LogInv, LogTypeOK
  <2>2. [col[c] EXCEPT !.win = WindowEnd(col[c])].phase = "window"
    BY <1>1, <1>2 DEF Run, Refuse, Asking
  <2>3. col[c].phase # "idle" /\ UNCHANGED <<storeVars, overlapped>>
    BY <1>2 DEF Refuse, Asking
  <2> HIDE DEF Run
  <2> QED
    BY <2>1, <2>2, <2>3, CountsKept
<1>3. CASE Fetch(c)
  <2>1. PICK full \in SUBSET Asked(col[c]), new \in SUBSET Files :
          col' = [col EXCEPT ![c] = [col[c] EXCEPT !.phase = "fetched", !.upto = WindowEnd(col[c]),
                                       !.batch = new, !.seen = @ \union new, !.capped = full]]
    BY <1>3, FetchUpdates
  <2> DEFINE r == [col[c] EXCEPT !.phase = "fetched", !.upto = WindowEnd(col[c]),
                     !.batch = new, !.seen = @ \union new, !.capped = full]
  <2>2. r.phase = "fetched"
    BY <1>1 DEF Run
  <2>3. col[c].phase # "idle" /\ UNCHANGED <<storeVars, overlapped>>
    BY <1>3, Zenon DEF Fetch, Asking, historyVars
  <2>4. col' = [col EXCEPT ![c] = r]
    BY <2>1
  <2>5. r.phase # "loaded" /\ (overlapped' \/ UNCHANGED overlapped) /\ UNCHANGED storeVars
    BY <2>2, <2>3
  <2> HIDE DEF r
  <2> QED
    BY <2>3, <2>4, <2>5, CountsKept
<1>4. CASE Clash(c) \/ Finish(c) \/ Pause(c) \/ Fail(c)
  <2>1. col' = [col EXCEPT ![c] = Idle] /\ UNCHANGED <<storeVars, overlapped>>
    BY <1>4 DEF Clash, Finish, Pause, Fail, EndSession, historyVars
  <2>2. Idle.phase = "idle"
    BY DEF Idle
  <2> QED
    BY <2>1, <2>2, CountsKept
<1> QED
  BY <1>2, <1>3, <1>4, CommitCounts, LoadCounts DEF Step

LEMMA WorldCounts ==
  ASSUME LogInv, CountInv,
         \/ Hourly \/ Tick \/ Stop \/ Resume
         \/ \E c \in Manual : ByHand(c)
         \/ \E f \in Files : Arrive(f)
  PROVE  CountInv'
<1>1. Scheduled \in Collectors /\ Manual \subseteq Collectors
  BY DEF Collectors
<1>2. CASE UNCHANGED <<col, storeVars, overlapped>>
  BY <1>2 DEF CountInv, NeverDoubleCounted, LoadedIsOld, Alone, LoadedIsFresh, SizeOf, storeVars
<1>3. CASE Hourly
  BY <1>1, <1>2, <1>3, BeginCounts DEF Hourly
<1>4. ASSUME NEW c \in Manual, ByHand(c) PROVE CountInv'
  BY <1>1, <1>4, BeginCounts DEF ByHand
<1>5. CASE Stop
  <2>1. \A c \in Collectors : col'[c].phase = "idle"
    BY <1>5 DEF Stop, Idle
  <2>2. UNCHANGED <<storeVars, overlapped>>
    BY <1>5 DEF Stop, historyVars
  <2> QED
    BY <2>1, <2>2 DEF CountInv, NeverDoubleCounted, LoadedIsOld, Alone, LoadedIsFresh, storeVars
<1>6. CASE Tick \/ Resume \/ \E f \in Files : Arrive(f)
  BY <1>2, <1>6 DEF Tick, Resume, Arrive, historyVars
<1> QED
  BY <1>3, <1>4, <1>5, <1>6

LEMMA Counting == Spec => []CountInv
<1>1. Init => CountInv
  <2> SUFFICES ASSUME Init PROVE CountInv
    OBVIOUS
  <2>1. \A c \in Collectors : col[c].phase = "idle"
    BY DEF Init, Idle
  <2>2. \A d : Of(d, recorded) = {}
    BY DEF Init, Of
  <2>3. \A d \in Days : counts[d] = 0 /\ Cardinality(Of(d, recorded)) = 0
    BY <2>2, FS_EmptySet DEF Init
  <2> QED
    BY <2>1, <2>3 DEF CountInv, NeverDoubleCounted, LoadedIsOld, Alone, LoadedIsFresh
<1>2. LogInv /\ CountInv /\ [Next]_vars => CountInv'
  <2> SUFFICES ASSUME LogInv, CountInv, [Next]_vars PROVE CountInv'
    OBVIOUS
  <2>1. CASE UNCHANGED vars
    BY <2>1 DEF vars, CountInv, NeverDoubleCounted, LoadedIsOld, Alone, LoadedIsFresh, SizeOf
  <2>2. CASE Next
    BY <2>2, RunCounts, WorldCounts DEF Next
  <2> QED
    BY <2>1, <2>2
<1> QED
  BY <1>1, <1>2, LogTyping, PTL DEF Spec

(* No file is ever counted twice in the day rows, and a run that overlaps   *)
(* with no other counts each of its files exactly once: whatever files      *)
(* come late, and wherever a run fails, pauses or is killed.                *)
THEOREM CountedOnce == Spec => []NeverDoubleCounted
<1>1. CountInv => NeverDoubleCounted
  BY DEF CountInv
<1> QED
  BY <1>1, Counting, PTL

-----------------------------------------------------------------------------
(* Nothing is passed over.  A file comes at most Lookback hours after its    *)
(* own; whoever asked for its hour before has not got further than the next  *)
(* look-back reaches.                                                        *)

\* The hour was refused, or a run for which the file was not too late to be
\* there has listed it at the limit last
Excused(h) == h \in refused \/ \E n \in Hours : <<h, n>> \in hidden /\ n > h + Lookback

\* A file that is not stored, when the hours until u are done
Accounted(f, u) == HourOf[f] >= u - Lookback \/ HourOf[f] < Horizon \/ Excused(HourOf[f])

Missing == arrived \ recorded

\* Behind the cursor
BehindCursor == cursor # Null => cursor <= clock /\ \A f \in Missing : Accounted(f, cursor)

\* Behind a run, and in the window it has listed
BehindRun(c) ==
  col[c].phase # "idle" =>
    /\ col[c].now <= clock /\ col[c].seen \subseteq recorded \union col[c].batch
    /\ col[c].phase = "window" => col[c].batch = {}
    /\ \A f \in Missing : HourOf[f] < col[c].win => Accounted(f, col[c].now)

InWindow(c) ==
  col[c].phase \in {"fetched", "loaded"} =>
    /\ col[c].win <= col[c].upto /\ col[c].upto <= col[c].now
    /\ \A f \in Missing : HourOf[f] \in col[c].win..(col[c].upto - 1) =>
         f \in col[c].batch \/ HourOf[f] \in col[c].capped \/ HourOf[f] >= col[c].now - Lookback

RunsReach == \A c \in Collectors : BehindRun(c) /\ InWindow(c)

PassInv == BehindCursor /\ RunsReach

LEMMA FileHours ==
  ASSUME LogInv
  PROVE  /\ \A f \in Missing : f \in Files /\ HourOf[f] \in Nat
         /\ clock \in Nat /\ Horizon \in Nat /\ Lookback \in Nat /\ \A h \in Hours : h \in Nat
<1>1. \A f \in Files : HourOf[f] \in Nat
  BY LogConstants DEF LogConstants
<1> QED
  BY <1>1, StartFacts, ConstantFacts DEF LogInv, LogTypeOK, Missing, Hours

\* What is accounted for stays so while no hour is listed again
LEMMA AccountedKept ==
  ASSUME LogInv, LogInv', clock <= clock', refused \subseteq refused', hidden \subseteq hidden',
         NEW f \in Files, NEW u \in Hours, Accounted(f, u)
  PROVE  Accounted(f, u)'
<1>1. clock \in Nat /\ clock' \in Nat /\ Retention \in Nat
  BY ConstantFacts DEF LogInv, LogTypeOK, Hours
<1>2. HourOf[f] \in Nat
  BY LogConstants DEF LogConstants
<1>3. HourOf[f] < Horizon => HourOf[f] < Horizon'
  BY <1>1, <1>2 DEF Horizon
<1>4. Excused(HourOf[f]) => Excused(HourOf[f])'
  BY DEF Excused
<1> QED
  BY <1>3, <1>4 DEF Accounted

\* A run that nothing touches
LEMMA RunKept ==
  ASSUME LogInv, NEW o \in Collectors, BehindRun(o), InWindow(o), col'[o] = col[o],
         clock \in Int, clock' \in Int, clock <= clock', Missing' \subseteq Missing, recorded \subseteq recorded',
         \A f \in Missing' : \A u \in Hours : Accounted(f, u) => Accounted(f, u)'
  PROVE  BehindRun(o)' /\ InWindow(o)'
<1>1. col[o] \in Run /\ col[o].now \in Hours
  BY DEF LogInv, LogTypeOK, Run
<1>2. \A f \in Missing' : Accounted(f, col[o].now) => Accounted(f, col[o].now)'
  <2>1. PICK n \in Hours : n = col[o].now
    BY <1>1
  <2>2. \A f \in Missing' : Accounted(f, n)' <=> Accounted(f, col[o].now)'
    BY <2>1 DEF Accounted
  <2>3. \A f \in Missing' : Accounted(f, n) => Accounted(f, n)'
    OBVIOUS
  <2>4. \A f \in Missing' : Accounted(f, n) <=> Accounted(f, col[o].now)
    BY <2>1
  <2> QED
    BY <2>2, <2>3, <2>4
<1>3. col[o].now <= clock => col[o].now <= clock'
  BY <1>1, ConstantFacts DEF Hours
<1>4. BehindRun(o)'
  BY <1>2, <1>3 DEF BehindRun
<1>5. InWindow(o)'
  BY DEF InWindow
<1> QED
  BY <1>4, <1>5

LEMMA BeginFacts ==
  ASSUME LogInv, NEW c \in Collectors, Begin(c)
  PROVE  /\ \A o \in Collectors \ {c} : col'[o] = col[o]
         /\ col'[c].phase = "window" /\ col'[c].now = clock /\ col'[c].win = FirstWindow
         /\ col'[c].seen = recorded /\ col'[c].batch = {} /\ col'[c].cursor = cursor
         /\ col'[c].gaps = WithOutage
         /\ "gaps" \in col'[c].dirty <=> Behind
<1> DEFINE first == IF cursor = Null /\ firstHour = Null THEN Horizon ELSE firstHour
           dirty == {x \in {"first", "gaps"} :
                       IF x = "gaps" THEN Behind ELSE cursor = Null /\ firstHour = Null}
           r == [Idle EXCEPT !.phase = "window", !.now = clock, !.win = FirstWindow,
                   !.cursor = cursor, !.gaps = WithOutage, !.seen = recorded,
                   !.first = first, !.dirty = dirty]
<1>1. col' = [col EXCEPT ![c] = r]
  BY DEF Begin
<1>2. col'[c] = r /\ \A o \in Collectors \ {c} : col'[o] = col[o]
  <2> HIDE DEF r
  <2> QED
    BY <1>1 DEF LogInv, LogTypeOK
<1>3. "gaps" \in dirty <=> Behind
  OBVIOUS
<1>4. Idle \in Run /\ Idle.batch = {}
  BY IdleIsRun DEF Idle
<1> HIDE DEF first, dirty
<1>5. /\ r.phase = "window" /\ r.now = clock /\ r.win = FirstWindow /\ r.seen = recorded /\ r.batch = {}
      /\ r.cursor = cursor /\ r.gaps = WithOutage /\ r.dirty = dirty
  BY <1>4 DEF Run
<1> HIDE DEF r
<1> QED
  BY <1>2, <1>3, <1>5

\* The cursor where nothing is listed again
LEMMA CursorKept ==
  ASSUME LogInv, LogInv', BehindCursor, clock <= clock', UNCHANGED cursor, Missing' \subseteq Missing,
         \A f \in Missing' : \A u \in Hours : Accounted(f, u) => Accounted(f, u)'
  PROVE  BehindCursor'
<1>1. cursor # Null => cursor \in Hours /\ cursor \in Nat /\ clock \in Nat /\ clock' \in Nat
  BY ConstantFacts DEF LogInv, LogTypeOK, Hour, Hours
<1>2. ASSUME cursor # Null, NEW f \in Missing' PROVE Accounted(f, cursor)'
  <2>1. PICK u \in Hours : u = cursor
    BY <1>1, <1>2
  <2>2. Accounted(f, u) /\ cursor' = u
    BY <1>2, <2>1 DEF BehindCursor
  <2>3. Accounted(f, u)'
    BY <1>2, <2>2
  <2> QED
    BY <2>2, <2>3 DEF Accounted
<1> QED
  BY <1>1, <1>2 DEF BehindCursor

\* A run that changes its own variables and at most adds to what is refused
LEMMA OwnStep ==
  ASSUME LogInv, LogInv', PassInv, NEW c \in Collectors,
         \A o \in Collectors \ {c} : col'[o] = col[o],
         UNCHANGED <<clock, arrived, cursor, recorded, hidden>>, refused \subseteq refused',
         BehindRun(c)', InWindow(c)'
  PROVE  PassInv'
<1>1. Missing' = Missing /\ Missing \subseteq Files /\ clock \in Int
  BY FileHours DEF Missing, LogInv, LogTypeOK
<1>2. \A f \in Files, u \in Hours : Accounted(f, u) => Accounted(f, u)'
  BY AccountedKept, FileHours
<1>3. BehindCursor'
  BY <1>1, <1>2, CursorKept DEF PassInv
<1>4. ASSUME NEW o \in Collectors \ {c} PROVE BehindRun(o)' /\ InWindow(o)'
  BY <1>1, <1>2, RunKept DEF PassInv, RunsReach
<1> QED
  BY <1>3, <1>4 DEF PassInv, RunsReach

LEMMA BeginPasses ==
  ASSUME LogInv, LogInv', PassInv, NEW c \in Collectors, Begin(c),
         UNCHANGED <<clock, arrived, cursor, recorded, refused, hidden>>
  PROVE  PassInv'
<1>1. Missing' = Missing
  BY DEF Missing
<1>5. BehindRun(c)'
  <2>1. ASSUME NEW f \in Missing, HourOf[f] < FirstWindow PROVE Accounted(f, clock)'
    <3>1. cursor # Null => Accounted(f, cursor) /\ cursor \in Nat
      BY FileHours DEF PassInv, BehindCursor, LogInv, LogTypeOK, Hour
    <3>2. HourOf[f] < Horizon \/ Excused(HourOf[f])
      BY <2>1, <3>1, FileHours DEF FirstWindow, Accounted
    <3> QED
      BY <3>2 DEF Accounted, Excused, Horizon
  <2>2. clock \in Nat
    BY FileHours
  <2> QED
    BY <1>1, <2>1, <2>2, BeginFacts DEF BehindRun, Accounted
<1>6. InWindow(c)'
  BY BeginFacts DEF InWindow
<1> QED
  BY <1>5, <1>6, BeginFacts, OwnStep

\* A run that ends
LEMMA EndPasses ==
  ASSUME LogInv, LogInv', PassInv, NEW c \in Collectors, Clash(c) \/ Finish(c) \/ Pause(c) \/ Fail(c)
  PROVE  PassInv'
<1>1. col' = [col EXCEPT ![c] = Idle] /\ UNCHANGED <<clock, arrived, cursor, recorded, hidden, refused>>
  BY DEF Clash, Finish, Pause, Fail, EndSession, worldVars, tenantVars, storeVars, historyVars
<1>2. col'[c].phase = "idle" /\ \A o \in Collectors \ {c} : col'[o] = col[o]
  BY <1>1 DEF Idle, LogInv, LogTypeOK
<1>3. BehindRun(c)' /\ InWindow(c)'
  BY <1>2 DEF BehindRun, InWindow
<1> QED
  BY <1>1, <1>2, <1>3, OwnStep

LEMMA RefusePasses ==
  ASSUME LogInv, LogInv', PassInv, NEW c \in Collectors, Refuse(c)
  PROVE  PassInv'
<1> DEFINE r == col[c]
<1>1. r \in Run /\ r.phase = "window" /\ r.win < r.now /\ r.win \in Nat /\ WindowEnd(r) \in Nat
  BY WindowFacts, FileHours DEF Refuse, Asking, LogInv, LogTypeOK, Run
<1>2. col' = [col EXCEPT ![c] = [r EXCEPT !.win = WindowEnd(r)]]
  BY DEF Refuse, LogInv, LogTypeOK
<1>3. /\ \A o \in Collectors \ {c} : col'[o] = col[o]
      /\ col'[c].phase = "window" /\ col'[c].win = WindowEnd(r) /\ col'[c].now = r.now
      /\ col'[c].seen = r.seen /\ col'[c].batch = r.batch
  BY <1>1, <1>2 DEF LogInv, LogTypeOK, Run
<1>4. /\ UNCHANGED <<clock, arrived, cursor, recorded, hidden>> /\ refused' = refused \union Asked(r)
  BY DEF Refuse, worldVars, tenantVars, storeVars
<1>5. Missing' = Missing
  BY <1>4 DEF Missing
<1>6. ASSUME NEW f \in Missing, HourOf[f] < WindowEnd(r) PROVE Accounted(f, r.now) \/ HourOf[f] \in refused'
  <2>1. CASE HourOf[f] < r.win
    BY <1>1, <2>1 DEF PassInv, RunsReach, BehindRun
  <2>2. CASE HourOf[f] >= r.win
    <3>1. HourOf[f] \in Nat
      BY FileHours
    <3>2. HourOf[f] \in Asked(r)
      BY <1>1, <1>6, <2>2, <3>1 DEF Asked
    <3> QED
      BY <1>4, <3>2
  <2> QED
    BY <1>1, <2>1, <2>2, FileHours
<1>7. BehindRun(c)'
  <2>1. ASSUME NEW f \in Missing, HourOf[f] < WindowEnd(r) PROVE Accounted(f, col[c].now)'
    BY <1>3, <1>4, <1>6, <2>1 DEF Accounted, Excused, Horizon
  <2> QED
    BY <1>1, <1>3, <1>4, <1>5, <2>1 DEF PassInv, RunsReach, BehindRun
<1>8. InWindow(c)'
  BY <1>3 DEF InWindow
<1> QED
  BY <1>3, <1>4, <1>7, <1>8, OwnStep

LEMMA LoadPasses ==
  ASSUME LogInv, LogInv', PassInv, NEW c \in Collectors, Load(c)
  PROVE  PassInv'
<1> DEFINE r == col[c]
<1>1. r \in Run /\ r.phase = "fetched"
  BY DEF Load, LogInv, LogTypeOK
<1>2. col' = [col EXCEPT ![c] = [r EXCEPT !.phase = "loaded", !.loaded = counts]]
  BY DEF Load, LogInv, LogTypeOK
<1>3. /\ \A o \in Collectors \ {c} : col'[o] = col[o]
      /\ col'[c].phase = "loaded" /\ col'[c].win = r.win /\ col'[c].now = r.now /\ col'[c].upto = r.upto
      /\ col'[c].seen = r.seen /\ col'[c].batch = r.batch /\ col'[c].capped = r.capped
  BY <1>1, <1>2 DEF LogInv, LogTypeOK, Run
<1>4. UNCHANGED <<clock, arrived, cursor, recorded, hidden, refused>>
  BY DEF Load, worldVars, tenantVars, storeVars, historyVars
<1>5. Missing' = Missing
  BY <1>4 DEF Missing
<1>6. BehindRun(c)'
  BY <1>1, <1>3, <1>4, <1>5 DEF PassInv, RunsReach, BehindRun, Accounted, Excused, Horizon
<1>7. InWindow(c)'
  BY <1>1, <1>3, <1>4, <1>5 DEF PassInv, RunsReach, InWindow
<1> QED
  BY <1>3, <1>4, <1>6, <1>7, OwnStep

LEMMA FetchPasses ==
  ASSUME LogInv, LogInv', PassInv, NEW c \in Collectors, Fetch(c)
  PROVE  PassInv'
<1> DEFINE r == col[c]
<1>1. /\ r \in Run /\ r.phase = "window" /\ r.win < r.now /\ {r.win, r.now, WindowEnd(r)} \subseteq Nat
      /\ r.win <= WindowEnd(r) /\ WindowEnd(r) <= r.now
  <2>1. Asking(c)
    BY Zenon DEF Fetch
  <2>2. r \in Run /\ r.phase = "window" /\ r.win < r.now /\ {r.win, r.now} \subseteq Nat
    BY <2>1, FileHours DEF Asking, LogInv, LogTypeOK, Run
  <2> QED
    BY <2>2, ConstantFacts DEF WindowEnd
<1>2. PICK full \in SUBSET Asked(r), new \in SUBSET Files :
        /\ col' = [col EXCEPT ![c] = [r EXCEPT !.phase = "fetched", !.upto = WindowEnd(r),
                                        !.batch = new, !.seen = @ \union new, !.capped = full]]
        /\ \A f \in arrived : HourOf[f] \in Asked(r) \ full => f \in new \/ f \in r.seen
        /\ new \intersect r.seen = {}
  BY FetchUpdates
<1>3. /\ \A o \in Collectors \ {c} : col'[o] = col[o]
      /\ col'[c].phase = "fetched" /\ col'[c].win = r.win /\ col'[c].now = r.now
      /\ col'[c].upto = WindowEnd(r) /\ col'[c].seen = r.seen \union new /\ col'[c].batch = new
      /\ col'[c].capped = full
  BY <1>1, <1>2 DEF LogInv, LogTypeOK, Run
<1>4. UNCHANGED <<clock, arrived, cursor, recorded, hidden, refused>>
  BY Zenon DEF Fetch, worldVars, tenantVars, storeVars, historyVars
<1>5. Missing' = Missing
  BY <1>4 DEF Missing
<1>6. r.seen \subseteq recorded /\ r.now <= clock /\ \A f \in Missing : HourOf[f] < r.win => Accounted(f, r.now)
  BY <1>1 DEF PassInv, RunsReach, BehindRun
<1>7. BehindRun(c)'
  BY <1>3, <1>4, <1>5, <1>6 DEF BehindRun, Accounted, Excused, Horizon
<1>8. InWindow(c)'
  <2>1. \A f \in Missing : HourOf[f] \in Asked(r) => f \in new \/ HourOf[f] \in full
    BY <1>2, <1>6 DEF Missing
  <2> QED
    BY <1>1, <1>3, <1>5, <2>1 DEF InWindow, Asked
<1> QED
  BY <1>3, <1>4, <1>7, <1>8, OwnStep

\* A commit takes back an excuse only where it has listed the file itself
LEMMA CommitExcuses ==
  ASSUME LogInv, PassInv, NEW c \in Collectors, Commit(c), NEW f \in Missing', NEW u \in Hours, Accounted(f, u)
  PROVE  Accounted(f, u)'
<1> DEFINE r == col[c]
           h == HourOf[f]
<1>1. /\ r \in Run /\ r.phase = "loaded" /\ {r.win, r.upto, r.now} \subseteq Nat /\ r.now \in Hours
      /\ recorded' = recorded \union r.batch
      /\ hidden' = {p \in hidden : p[1] \notin r.win..(r.upto - 1) \/ p[2] > r.now} \union (r.capped \X {r.now})
      /\ UNCHANGED <<clock, arrived, refused>>
  BY FileHours DEF Commit, LogInv, LogTypeOK, Run, worldVars
<1>2. f \in Missing /\ f \notin r.batch /\ h \in Nat
  BY <1>1, FileHours DEF Missing
<1>3. Horizon' = Horizon
  BY <1>1 DEF Horizon
<1>4. ASSUME NEW n \in Hours, <<h, n>> \in hidden, n > h + Lookback PROVE Excused(h)'
  <2>1. CASE <<h, n>> \in hidden'
    BY <1>4, <2>1 DEF Excused
  <2>2. CASE <<h, n>> \notin hidden'
    <3>1. h \in r.win..(r.upto - 1) /\ n <= r.now
      BY <1>1, <1>2, <1>4, <2>2, FileHours
    <3>2. h \in r.capped \/ h >= r.now - Lookback
      BY <1>1, <1>2, <3>1 DEF PassInv, RunsReach, InWindow
    <3>3. r.now > h + Lookback
      BY <1>1, <1>2, <1>4, <3>1, FileHours
    <3>4. h \in r.capped
      BY <1>1, <1>2, <3>2, <3>3, FileHours
    <3>5. <<h, r.now>> \in hidden'
      BY <1>1, <3>4
    <3> QED
      BY <1>1, <3>3, <3>5 DEF Excused
  <2> QED
    BY <2>1, <2>2
<1>5. Excused(h) => Excused(h)'
  BY <1>1, <1>4 DEF Excused
<1> QED
  BY <1>3, <1>5 DEF Accounted

\* Of the window that is committed, every file is stored or accounted for
LEMMA WindowAccounted ==
  ASSUME LogInv, PassInv, NEW c \in Collectors, Commit(c), NEW f \in Missing',
         HourOf[f] < col[c].upto
  PROVE  HourOf[f] >= col[c].now - Lookback \/ HourOf[f] < Horizon \/ Excused(HourOf[f])'
<1> DEFINE r == col[c]
           h == HourOf[f]
<1>1. /\ r \in Run /\ r.phase = "loaded" /\ {r.win, r.upto, r.now} \subseteq Nat /\ r.now \in Hours
      /\ recorded' = recorded \union r.batch
      /\ r.capped \X {r.now} \subseteq hidden'
      /\ UNCHANGED <<clock, arrived, refused>>
  BY FileHours DEF Commit, LogInv, LogTypeOK, Run, worldVars
<1>2. f \in Missing /\ f \notin r.batch /\ h \in Nat
  BY <1>1, FileHours DEF Missing
<1>3. CASE h < r.win
  <2>1. Accounted(f, r.now)
    BY <1>1, <1>2, <1>3 DEF PassInv, RunsReach, BehindRun
  <2>2. PICK n \in Hours : n = r.now
    BY <1>1
  <2>3. Accounted(f, n)'
    BY <2>1, <2>2, CommitExcuses
  <2>4. h >= n - Lookback \/ h < Horizon' \/ Excused(h)'
    BY <2>3 DEF Accounted
  <2> QED
    BY <1>1, <2>2, <2>4 DEF Horizon
<1>4. CASE h >= r.win
  <2>1. h \in r.capped \/ h >= r.now - Lookback
    BY <1>1, <1>2, <1>4 DEF PassInv, RunsReach, InWindow
  <2>2. h \in r.capped => <<h, r.now>> \in hidden'
    BY <1>1
  <2>3. r.now > h + Lookback \/ h >= r.now - Lookback
    BY <1>1, <1>2, FileHours
  <2> QED
    BY <1>1, <2>1, <2>2, <2>3 DEF Excused
<1> QED
  BY <1>1, <1>2, <1>3, <1>4

LEMMA CommitPasses ==
  ASSUME LogInv, LogInv', PassInv, NEW c \in Collectors, Commit(c)
  PROVE  PassInv'
<1> DEFINE r == col[c]
           moved == IF Moves(r) THEN r.upto ELSE r.cursor
           done == [r EXCEPT !.phase = "window", !.win = r.upto, !.gaps = NotedGaps(r), !.dirty = {},
                             !.cursor = moved, !.batch = {}, !.capped = {}, !.loaded = Idle.loaded]
<1>1. /\ r \in Run /\ r.phase = "loaded" /\ {r.win, r.upto, r.now} \subseteq Nat /\ {r.now, r.upto} \subseteq Hours
      /\ recorded' = recorded \union r.batch /\ recorded \subseteq recorded'
      /\ cursor' = IF Moves(r) THEN r.upto ELSE cursor
      /\ UNCHANGED <<clock, arrived, refused>> /\ clock \in Nat
  BY FileHours, SMTT(60) DEF Commit, LogInv, LogTypeOK, Run, worldVars
<1>2. Missing' \subseteq Missing /\ Horizon' = Horizon
  BY <1>1 DEF Missing, Horizon
<1>3. r.upto <= r.now /\ r.now <= clock /\ r.seen \subseteq recorded'
  BY <1>1 DEF PassInv, RunsReach, BehindRun, InWindow
<1>4. \A f \in Missing' : \A u \in Hours : Accounted(f, u) => Accounted(f, u)'
  BY CommitExcuses
<1>5. BehindCursor'
  <2>1. CASE cursor' = cursor
    BY <1>1, <1>2, <1>4, <2>1, CursorKept DEF PassInv
  <2>2. CASE cursor' = r.upto
    <3>1. ASSUME NEW f \in Missing' PROVE Accounted(f, cursor)'
      <4>1. HourOf[f] \in Nat
        BY <1>2, FileHours
      <4>2. CASE HourOf[f] >= r.upto
        BY <1>1, <2>2, <4>1, <4>2, FileHours DEF Accounted
      <4>3. CASE HourOf[f] < r.upto
        BY <1>1, <1>2, <1>3, <2>2, <4>1, <4>3, WindowAccounted, FileHours DEF Accounted
      <4> QED
        BY <1>1, <4>1, <4>2, <4>3
    <3> QED
      BY <1>1, <1>3, <2>2, <3>1 DEF BehindCursor
  <2> QED
    BY <1>1, <2>1, <2>2
<1>6. /\ \A o \in Collectors \ {c} : col'[o] = col[o]
      /\ col'[c].phase = "window" /\ col'[c].win = r.upto /\ col'[c].now = r.now /\ col'[c].seen = r.seen
      /\ col'[c].batch = {}
  <2>1. col' = [col EXCEPT ![c] = done]
    BY DEF Commit
  <2>2. col'[c] = done /\ \A o \in Collectors \ {c} : col'[o] = col[o]
    <3> HIDE DEF done
    <3> QED
      BY <2>1 DEF LogInv, LogTypeOK
  <2> HIDE DEF moved
  <2> QED
    BY <1>1, <2>2 DEF Run
<1>7. ASSUME NEW o \in Collectors \ {c} PROVE BehindRun(o)' /\ InWindow(o)'
  BY <1>1, <1>2, <1>4, <1>6, RunKept DEF PassInv, RunsReach
<1>8. BehindRun(c)'
  <2>1. ASSUME NEW f \in Missing', HourOf[f] < r.upto PROVE Accounted(f, col[c].now)'
    BY <1>2, <1>6, <2>1, WindowAccounted DEF Accounted
  <2> QED
    BY <1>1, <1>3, <1>6, <2>1 DEF BehindRun
<1>9. InWindow(c)'
  BY <1>6 DEF InWindow
<1> QED
  BY <1>5, <1>7, <1>8, <1>9 DEF PassInv, RunsReach

\* A file that comes is not late for anybody who has asked for its hour
LEMMA ArrivePasses ==
  ASSUME LogInv, LogInv', PassInv, NEW f \in Files, Arrive(f)
  PROVE  PassInv'
<1>1. /\ arrived' = arrived \union {f}
      /\ UNCHANGED <<clock, col, cursor, recorded, hidden, refused>>
      /\ HourOf[f] \in Nat /\ clock \in Nat /\ HourOf[f] >= clock - Lookback
  <2>1. HourOf[f] \in Nat /\ Lateness \in Nat /\ Lateness <= Lookback
    BY LogConstants DEF LogConstants
  <2> QED
    BY <2>1, FileHours DEF Arrive, tenantVars, storeVars, historyVars
<1>2. Missing' \subseteq Missing \union {f}
  BY <1>1 DEF Missing
<1>3. ASSUME NEW u \in Nat, u <= clock PROVE HourOf[f] >= u - Lookback
  BY <1>1, <1>3, FileHours
<1>4. BehindCursor'
  <2>1. cursor # Null => cursor \in Nat /\ cursor <= clock
    BY FileHours DEF PassInv, BehindCursor, LogInv, LogTypeOK, Hour
  <2> QED
    BY <1>1, <1>2, <1>3, <2>1 DEF PassInv, BehindCursor, Accounted, Excused, Horizon
<1>5. ASSUME NEW c \in Collectors PROVE BehindRun(c)' /\ InWindow(c)'
  <2>1. col[c].phase # "idle" => col[c].now \in Nat /\ col[c].now <= clock /\ HourOf[f] >= col[c].now - Lookback
    BY <1>3, FileHours DEF PassInv, RunsReach, BehindRun, LogInv, LogTypeOK, Run
  <2>2. BehindRun(c) /\ InWindow(c)
    BY DEF PassInv, RunsReach
  <2>3. BehindRun(c)'
    BY <1>1, <1>2, <2>1, <2>2 DEF BehindRun, Accounted, Excused, Horizon
  <2>4. InWindow(c)'
    BY <1>1, <1>2, <2>1, <2>2 DEF InWindow
  <2> QED
    BY <2>3, <2>4
<1> QED
  BY <1>4, <1>5 DEF PassInv, RunsReach

\* Time passes, or the service stops or comes back
LEMMA PassesBy ==
  ASSUME LogInv, LogInv', PassInv, Tick \/ Stop \/ Resume
  PROVE  PassInv'
<1>1. /\ UNCHANGED <<arrived, cursor, recorded, hidden, refused>> /\ {clock, clock'} \subseteq Nat /\ clock <= clock'
      /\ \A c \in Collectors : col'[c] = col[c] \/ col'[c] = Idle
  <2>1. clock \in Nat /\ clock' \in Nat
    BY ConstantFacts DEF LogInv, LogTypeOK, Hours
  <2>2. UNCHANGED <<arrived, cursor, recorded, hidden, refused>>
    BY DEF Tick, Stop, Resume, tenantVars, storeVars, historyVars
  <2>3. clock <= clock'
    <3>1. clock' = clock \/ clock' = clock + 1
      BY DEF Tick, Stop, Resume
    <3> QED
      BY <2>1, <3>1
  <2>4. \A c \in Collectors : col'[c] = col[c] \/ col'[c] = Idle
    BY DEF Tick, Stop, Resume
  <2> QED
    BY <2>1, <2>2, <2>3, <2>4
<1>2. Missing' = Missing /\ Missing \subseteq Files
  BY <1>1 DEF Missing, LogInv, LogTypeOK
<1>3. \A f \in Files, u \in Hours : Accounted(f, u) => Accounted(f, u)'
  BY <1>1, AccountedKept
<1>4. BehindCursor'
  BY <1>1, <1>2, <1>3, CursorKept DEF PassInv
<1>5. ASSUME NEW c \in Collectors PROVE BehindRun(c)' /\ InWindow(c)'
  <2>1. CASE col'[c] = col[c]
    BY <1>1, <1>2, <1>3, <2>1, RunKept DEF PassInv, RunsReach
  <2>2. CASE col'[c] = Idle
    BY <2>2 DEF BehindRun, InWindow, Idle
  <2> QED
    BY <1>1, <2>1, <2>2
<1> QED
  BY <1>4, <1>5 DEF PassInv, RunsReach

LEMMA Passing == Spec => []PassInv
<1>1. Init => PassInv
  BY DEF Init, PassInv, BehindCursor, RunsReach, BehindRun, InWindow, Idle
<1>2. LogInv /\ LogInv' /\ PassInv /\ [Next]_vars => PassInv'
  <2> SUFFICES ASSUME LogInv, LogInv', PassInv, [Next]_vars PROVE PassInv'
    OBVIOUS
  <2>1. Scheduled \in Collectors /\ Manual \subseteq Collectors
    BY DEF Collectors
  <2>2. CASE UNCHANGED vars
    BY <2>2 DEF vars, PassInv, BehindCursor, RunsReach, BehindRun, InWindow, Missing, Accounted, Excused, Horizon
  <2>3. ASSUME NEW c \in Collectors, Step(c) \/ Pause(c) \/ Fail(c) PROVE PassInv'
    BY <2>3, RefusePasses, FetchPasses, LoadPasses, CommitPasses, EndPasses DEF Step
  <2>4. ASSUME NEW c \in Manual, ByHand(c) PROVE PassInv'
    <3>1. Begin(c) /\ UNCHANGED <<clock, arrived, cursor, recorded, refused, hidden>>
      BY <2>4 DEF ByHand, tenantVars, storeVars
    <3> QED
      BY <2>1, <2>4, <3>1, BeginPasses
  <2>5. CASE Hourly
    <3>1. UNCHANGED <<clock, arrived, cursor, recorded, refused, hidden>>
      BY <2>5 DEF Hourly, tenantVars, storeVars
    <3>2. CASE Begin(Scheduled)
      BY <2>1, <3>1, <3>2, BeginPasses
    <3>3. CASE UNCHANGED col
      BY <3>1, <3>3 DEF PassInv, BehindCursor, RunsReach, BehindRun, InWindow, Missing, Accounted, Excused, Horizon
    <3> QED
      BY <2>5, <3>2, <3>3 DEF Hourly
  <2> QED
    BY <2>2, <2>3, <2>4, <2>5, ArrivePasses, PassesBy DEF Next
<1> QED
  BY <1>1, <1>2, LogTyping, PTL DEF Spec

(* However late a file comes, and however many runs overlap, fail, pause,   *)
(* stop or take long: when the cursor has passed the look-back after its    *)
(* hour, it is stored, or its hour was refused or listed at the limit, or   *)
(* is older than the retention.                                             *)
THEOREM NoFileIsPassedOver == Spec => []NothingPassedOver
<1>1. LogInv /\ PassInv => NothingPassedOver
  <2> SUFFICES ASSUME LogInv, PassInv, cursor # Null, NEW f \in Missing
               PROVE  HourOf[f] >= cursor - Lookback \/ HourOf[f] < Horizon \/ HourOf[f] \in AtLimit \union refused
    BY DEF NothingPassedOver, Missing
  <2>1. Accounted(f, cursor)
    BY DEF PassInv, BehindCursor
  <2>2. \A n \in Hours : <<HourOf[f], n>> \in hidden => HourOf[f] \in AtLimit
    BY DEF AtLimit
  <2> QED
    BY <2>1, <2>2 DEF Accounted, Excused
<1> QED
  BY <1>1, LogTyping, Passing, PTL

-----------------------------------------------------------------------------
(* What counts as covered.  Runs that do not overlap work on copies that     *)
(* agree with the tenant's row, so no gap that was noted is lost; every hour *)
(* between the first window and the cursor has been asked for, or refused,   *)
(* or is a gap.                                                              *)

AskedSinceFirst ==
  /\ began = Null <=> cursor = Null
  /\ AtLimit \subseteq gaps
  /\ cursor # Null =>
       /\ \A h \in Hours : began <= h /\ h < cursor => h \in listed \union refused \union gaps
       /\ \A h \in Hours : Horizon <= h /\ h < began => h \in refused

\* The copy of the tenant a run works on, and the hours it has left behind
CopyAgrees(c) ==
  col[c].phase # "idle" =>
    /\ col[c].cursor = cursor
    /\ gaps \subseteq col[c].gaps
    /\ "gaps" \in col[c].dirty \/ col[c].gaps = gaps
    /\ cursor # Null =>
         /\ \A h \in Hours : cursor <= h /\ h < col[c].win => h \in listed \union refused \union col[c].gaps
         /\ \A h \in Hours : col[c].win <= h /\ h < began => h \in refused
    /\ cursor = Null => \A h \in Hours : Horizon <= h /\ h < col[c].win => h \in refused

CoverInv == ~overlapped => AskedSinceFirst /\ \A c \in Collectors : CopyAgrees(c)

\* The hours that are numbers
LEMMA CoverHours ==
  ASSUME LogInv
  PROVE  /\ \A h \in Hours : h \in Nat
         /\ cursor # Null => cursor \in Hours
         /\ began # Null => began \in Hours
         /\ clock \in Nat /\ Horizon \in Nat /\ Horizon \in Hours
  BY StartFacts DEF LogInv, LogTypeOK, Hour, Hours

\* The other runs are idle when one runs alone
LEMMA OthersIdle ==
  ASSUME Alone, ~overlapped, NEW c \in Collectors, col[c].phase # "idle",
         \A o \in Collectors \ {c} : col'[o] = col[o], CopyAgrees(c)'
  PROVE  \A o \in Collectors : CopyAgrees(o)'
  BY DEF Alone, CopyAgrees

LEMMA BeginCovers ==
  ASSUME LogInv, CoverInv, NEW c \in Collectors, Begin(c), ~overlapped',
         UNCHANGED <<clock, cursor, gaps, listed, hidden, refused, began>>
  PROVE  AskedSinceFirst' /\ \A o \in Collectors : CopyAgrees(o)'
<1>1. ~overlapped /\ \A o \in Collectors \ {c} : col[o].phase = "idle"
  BY DEF Begin
<1>2. AskedSinceFirst'
  BY <1>1 DEF CoverInv, AskedSinceFirst, AtLimit, Horizon
<1>3. \A o \in Collectors \ {c} : CopyAgrees(o)'
  BY <1>1, BeginFacts DEF CopyAgrees
<1>4. gaps \subseteq WithOutage /\ (Behind \/ WithOutage = gaps)
  BY DEF WithOutage
<1>5. ASSUME cursor # Null, NEW h \in Hours, cursor <= h, h < FirstWindow
      PROVE  h \in WithOutage
  <2>1. cursor \in Nat /\ h \in Nat /\ Lookback \in Nat /\ Horizon \in Nat
    BY <1>5, CoverHours, ConstantFacts
  <2>2. Behind /\ h < Horizon
    BY <1>5, <2>1 DEF FirstWindow, Behind
  <2> QED
    BY <1>5, <2>1, <2>2 DEF WithOutage
<1>6. ASSUME cursor # Null, NEW h \in Hours, FirstWindow <= h, h < began
      PROVE  h \in refused
  <2>1. cursor \in Nat /\ h \in Nat /\ Lookback \in Nat /\ Horizon \in Nat
    BY <1>6, CoverHours, ConstantFacts
  <2>2. Horizon <= h
    BY <1>6, <2>1 DEF FirstWindow
  <2> QED
    BY <1>1, <1>6, <2>2 DEF CoverInv, AskedSinceFirst
<1>7. ASSUME cursor = Null, NEW h \in Hours, Horizon <= h, h < FirstWindow
      PROVE  h \in refused
  BY <1>7, CoverHours DEF FirstWindow
<1>8. CopyAgrees(c)'
  BY <1>4, <1>5, <1>6, <1>7, BeginFacts DEF CopyAgrees, Horizon
<1> QED
  BY <1>2, <1>3, <1>8

\* A run that ends; what it has not written yet are gaps more
LEMMA EndCovers ==
  ASSUME LogInv, Alone, CoverInv, NEW c \in Collectors, Clash(c) \/ Finish(c) \/ Pause(c) \/ Fail(c), ~overlapped'
  PROVE  AskedSinceFirst' /\ \A o \in Collectors : CopyAgrees(o)'
<1>1. /\ col[c].phase # "idle" /\ ~overlapped
      /\ col' = [col EXCEPT ![c] = Idle] /\ UNCHANGED <<clock, cursor, listed, hidden, refused, began>>
      /\ gaps' = gaps \/ gaps' = col[c].gaps
  BY DEF Clash, Finish, Pause, Fail, Asking, EndSession, worldVars, tenantVars, historyVars
<1>2. gaps \subseteq gaps'
  BY <1>1 DEF CoverInv, CopyAgrees
<1>3. AskedSinceFirst'
  BY <1>1, <1>2 DEF CoverInv, AskedSinceFirst, AtLimit, Horizon
<1>4. col'[c].phase = "idle" /\ \A o \in Collectors \ {c} : col'[o] = col[o]
  BY <1>1 DEF Idle, LogInv, LogTypeOK
<1> QED
  BY <1>1, <1>3, <1>4, OthersIdle DEF CopyAgrees

LEMMA RefuseCovers ==
  ASSUME LogInv, Alone, CoverInv, NEW c \in Collectors, Refuse(c), ~overlapped'
  PROVE  AskedSinceFirst' /\ \A o \in Collectors : CopyAgrees(o)'
<1> DEFINE r == col[c]
<1>1. r \in Run /\ r.phase = "window" /\ r.win \in Nat /\ WindowEnd(r) \in Nat /\ r.win <= WindowEnd(r) /\ ~overlapped
  <2>1. r \in Run /\ r.phase = "window" /\ r.win < r.now /\ ~overlapped /\ {r.win, r.now} \subseteq Nat
    BY CoverHours DEF Refuse, Asking, LogInv, LogTypeOK, Run
  <2> QED
    BY <2>1, ConstantFacts DEF WindowEnd
<1>2. col' = [col EXCEPT ![c] = [r EXCEPT !.win = WindowEnd(r)]]
  BY DEF Refuse, LogInv, LogTypeOK
<1>3. /\ \A o \in Collectors \ {c} : col'[o] = col[o]
      /\ col'[c].phase = "window" /\ col'[c].win = WindowEnd(r) /\ col'[c].cursor = r.cursor
      /\ col'[c].gaps = r.gaps /\ col'[c].dirty = r.dirty
  BY <1>1, <1>2 DEF LogInv, LogTypeOK, Run
<1>4. UNCHANGED <<clock, cursor, gaps, listed, hidden, began>> /\ refused' = refused \union Asked(r)
  BY DEF Refuse, worldVars, tenantVars
<1>5. AskedSinceFirst'
  BY <1>1, <1>4 DEF CoverInv, AskedSinceFirst, AtLimit, Horizon
<1>6. \A h \in Hours : r.win <= h /\ h < WindowEnd(r) => h \in refused'
  BY <1>1, <1>4, CoverHours DEF Asked
<1>7. CopyAgrees(c) /\ refused \subseteq refused'
  BY <1>1, <1>4 DEF CoverInv
<1>8. CopyAgrees(c)'
  <2>1. ASSUME NEW h \in Hours, h < WindowEnd(r) PROVE h < r.win \/ h \in refused'
    BY <1>1, <1>6, <2>1, CoverHours
  <2>2. \A h \in Hours : WindowEnd(r) <= h => r.win <= h
    BY <1>1, CoverHours
  <2> QED
    BY <1>1, <1>3, <1>4, <1>7, <2>1, <2>2 DEF CopyAgrees, Horizon
<1> QED
  BY <1>1, <1>3, <1>5, <1>8, OthersIdle

LEMMA FetchLoadCovers ==
  ASSUME LogInv, Alone, CoverInv, NEW c \in Collectors, Fetch(c) \/ Load(c), ~overlapped'
  PROVE  AskedSinceFirst' /\ \A o \in Collectors : CopyAgrees(o)'
<1> DEFINE r == col[c]
<1>1. UNCHANGED <<clock, cursor, gaps, listed, hidden, refused, began, overlapped>>
  BY Zenon DEF Fetch, Load, worldVars, tenantVars, historyVars
<1>2. r \in Run /\ r.phase # "idle"
  <2>1. r.phase # "idle"
    <3>1. CASE Fetch(c)
      <4>1. Asking(c)
        BY <3>1, Zenon DEF Fetch
      <4> QED
        BY <4>1 DEF Asking
    <3>2. CASE Load(c)
      BY <3>2 DEF Load
    <3> QED
      BY <3>1, <3>2
  <2> QED
    BY <2>1 DEF LogInv, LogTypeOK
<1>3. /\ \A o \in Collectors \ {c} : col'[o] = col[o]
      /\ col'[c].phase # "idle" /\ col'[c].win = r.win /\ col'[c].cursor = r.cursor
      /\ col'[c].gaps = r.gaps /\ col'[c].dirty = r.dirty
  <2>1. CASE Fetch(c)
    <3>1. PICK full \in SUBSET Asked(r), new \in SUBSET Files :
            col' = [col EXCEPT ![c] = [r EXCEPT !.phase = "fetched", !.upto = WindowEnd(r),
                                         !.batch = new, !.seen = @ \union new, !.capped = full]]
      BY <2>1, FetchUpdates
    <3> QED
      BY <1>2, <3>1 DEF LogInv, LogTypeOK, Run
  <2>2. CASE Load(c)
    <3>1. col' = [col EXCEPT ![c] = [r EXCEPT !.phase = "loaded", !.loaded = counts]]
      BY <2>2 DEF Load, LogInv, LogTypeOK
    <3> QED
      BY <1>2, <3>1 DEF LogInv, LogTypeOK, Run
  <2> QED
    BY <2>1, <2>2
<1>4. AskedSinceFirst'
  BY <1>1 DEF CoverInv, AskedSinceFirst, AtLimit, Horizon
<1>5. CopyAgrees(c)'
  BY <1>1, <1>2, <1>3 DEF CoverInv, CopyAgrees, Horizon
<1> QED
  BY <1>1, <1>2, <1>3, <1>4, <1>5, OthersIdle

\* A run that is alone has the row's gaps, or writes its own
LEMMA CommitCovers ==
  ASSUME LogInv, PassInv, Alone, CoverInv, NEW c \in Collectors, Commit(c), ~overlapped'
  PROVE  AskedSinceFirst' /\ \A o \in Collectors : CopyAgrees(o)'
<1> DEFINE r == col[c]
           moved == IF Moves(r) THEN r.upto ELSE r.cursor
           done == [r EXCEPT !.phase = "window", !.win = r.upto, !.gaps = NotedGaps(r), !.dirty = {},
                             !.cursor = moved, !.batch = {}, !.capped = {}, !.loaded = Idle.loaded]
           covered == r.win..(r.upto - 1)
<1>1. /\ r \in Run /\ r.phase = "loaded" /\ {r.win, r.upto, r.now} \subseteq Nat /\ ~overlapped
      /\ gaps' = IF r.capped # {} \/ "gaps" \in r.dirty THEN NotedGaps(r) ELSE gaps
      /\ cursor' = IF Moves(r) THEN r.upto ELSE cursor
      /\ listed' = listed \union covered
      /\ hidden' = {p \in hidden : p[1] \notin covered \/ p[2] > r.now} \union (r.capped \X {r.now})
      /\ began' = IF began = Null THEN r.win ELSE IF r.win < began THEN r.win ELSE began
      /\ UNCHANGED <<clock, refused>>
  BY CoverHours DEF Commit, LogInv, LogTypeOK, Run, worldVars
<1>2. /\ AskedSinceFirst /\ r.cursor = cursor /\ gaps \subseteq r.gaps /\ ("gaps" \in r.dirty \/ r.gaps = gaps)
      /\ cursor # Null =>
           /\ \A h \in Hours : cursor <= h /\ h < r.win => h \in listed \union refused \union r.gaps
           /\ \A h \in Hours : r.win <= h /\ h < began => h \in refused
      /\ cursor = Null => \A h \in Hours : Horizon <= h /\ h < r.win => h \in refused
  BY <1>1 DEF CoverInv, CopyAgrees
<1>3. gaps' = NotedGaps(r) /\ gaps \subseteq gaps' /\ r.gaps \subseteq gaps' /\ r.capped \subseteq gaps'
  BY <1>1, <1>2 DEF NotedGaps
<1>4. cursor' # Null /\ began' # Null /\ moved = cursor' /\ r.win <= r.upto
  <2>1. r.upto # Null /\ r.win # Null
    BY <1>1, ConstantFacts DEF Run
  <2>2. (cursor = Null) => Moves(r)
    BY <1>2 DEF Moves
  <2>3. r.win <= r.upto
    BY <1>1 DEF PassInv, RunsReach, InWindow
  <2> QED
    BY <1>1, <1>2, <2>1, <2>2, <2>3
<1>5. AtLimit' \subseteq gaps'
  BY <1>1, <1>2, <1>3 DEF AskedSinceFirst, AtLimit
<1>6. ASSUME NEW h \in Hours, began' <= h, h < cursor' PROVE h \in listed' \union refused \union gaps'
  <2>1. h \in Nat /\ (cursor # Null => cursor \in Nat) /\ (began # Null => began \in Nat)
    BY CoverHours
  <2>2. h \in covered => h \in listed'
    BY <1>1
  <2>3. CASE cursor = Null
    BY <1>1, <1>2, <1>6, <2>1, <2>2, <2>3 DEF AskedSinceFirst, Moves
  <2>4. CASE cursor # Null /\ h < r.win
    <3>1. began <= h
      BY <1>1, <1>2, <1>6, <2>1, <2>4 DEF AskedSinceFirst
    <3> QED
      BY <1>1, <1>2, <1>3, <2>1, <2>4, <3>1 DEF AskedSinceFirst
  <2>5. CASE cursor # Null /\ r.win <= h
    <3>1. CASE h < r.upto
      BY <1>1, <2>1, <2>2, <2>5, <3>1
    <3>2. CASE r.upto <= h
      <4>1. h < cursor
        BY <1>1, <1>6, <2>1, <2>5, <3>2
      <4> QED
        BY <1>1, <1>2, <1>3, <2>1, <2>5, <4>1 DEF AskedSinceFirst
    <3> QED
      BY <1>1, <2>1, <3>1, <3>2
  <2> QED
    BY <1>1, <2>1, <2>3, <2>4, <2>5
<1>7. ASSUME NEW h \in Hours, Horizon <= h, h < began' PROVE h \in refused
  <2>1. h \in Nat /\ (began # Null => began \in Nat)
    BY CoverHours
  <2> QED
    BY <1>1, <1>2, <1>7, <2>1 DEF AskedSinceFirst
<1>8. AskedSinceFirst'
  BY <1>1, <1>4, <1>5, <1>6, <1>7 DEF AskedSinceFirst, Horizon
<1>9. /\ \A o \in Collectors \ {c} : col'[o] = col[o]
      /\ col'[c].win = r.upto /\ col'[c].gaps = NotedGaps(r) /\ col'[c].cursor = moved
  <2>1. col' = [col EXCEPT ![c] = done]
    BY DEF Commit
  <2>2. col'[c] = done /\ \A o \in Collectors \ {c} : col'[o] = col[o]
    <3> HIDE DEF done
    <3> QED
      BY <2>1 DEF LogInv, LogTypeOK
  <2> HIDE DEF moved
  <2> QED
    BY <1>1, <2>2 DEF Run
<1>10. CopyAgrees(c)'
  <2>1. r.upto <= cursor'
    <3>1. cursor # Null => cursor \in Nat
      BY CoverHours
    <3> QED
      BY <1>1, <1>2, <1>4, <3>1 DEF Moves
  <2>2. cursor' \in Nat
    BY <1>1, <1>4, CoverHours
  <2>3. \A h \in Hours : ~(cursor' <= h /\ h < r.upto)
    BY <1>1, <2>1, <2>2, CoverHours
  <2>4. ASSUME NEW h \in Hours, r.upto <= h, h < began' PROVE h \in refused
    <3>1. h \in Nat /\ (began # Null => began \in Nat)
      BY CoverHours
    <3> QED
      BY <1>1, <1>2, <1>4, <2>4, <3>1 DEF AskedSinceFirst
  <2> QED
    BY <1>1, <1>3, <1>4, <1>9, <2>3, <2>4 DEF CopyAgrees
<1>11. col[c].phase # "idle"
  BY <1>1
<1> HIDE DEF r, done, moved, covered
<1> QED
  BY <1>1, <1>8, <1>9, <1>10, <1>11, OthersIdle

LEMMA WorldCovers ==
  ASSUME LogInv, LogInv', CoverInv, Tick \/ Stop \/ Resume \/ (\E f \in Files : Arrive(f)), ~overlapped'
  PROVE  AskedSinceFirst' /\ \A o \in Collectors : CopyAgrees(o)'
<1> DEFINE kept == ~overlapped /\ UNCHANGED <<cursor, gaps, listed, hidden, refused, began>>
           runs == \A c \in Collectors : col'[c] = col[c] \/ col'[c].phase = "idle"
           time == clock' = clock \/ clock' = clock + 1
<1>0. kept /\ runs /\ time
  <2>1. CASE Tick \/ Resume
    <3>1. UNCHANGED <<tenantVars, historyVars, col>>
      BY <2>1 DEF Tick, Resume
    <3>3. kept /\ runs
      BY <3>1 DEF tenantVars, historyVars
    <3>2. time
      BY <2>1 DEF Tick, Resume
    <3> QED
      BY <3>2, <3>3
  <2>2. CASE Stop
    BY <2>2 DEF Stop, tenantVars, historyVars, Idle
  <2>3. ASSUME NEW f \in Files, Arrive(f) PROVE kept /\ runs /\ time
    BY <2>3 DEF Arrive, tenantVars, historyVars
  <2> HIDE DEF kept, runs, time
  <2> QED
    BY <2>1, <2>2, <2>3
<1>1. ~overlapped /\ UNCHANGED <<cursor, gaps, listed, hidden, refused, began>>
  BY <1>0
<1>2. \A c \in Collectors : col'[c] = col[c] \/ col'[c].phase = "idle"
  BY <1>0
<1>3. \A h \in Hours : Horizon' <= h => Horizon <= h
  <2>1. clock' = clock \/ clock' = clock + 1
    BY <1>0
  <2> QED
    BY <2>1, CoverHours, ConstantFacts DEF Horizon
<1>4. AskedSinceFirst'
  BY <1>1, <1>3 DEF CoverInv, AskedSinceFirst, AtLimit
<1> QED
  BY <1>1, <1>2, <1>3, <1>4 DEF CoverInv, CopyAgrees

(* As long as runs do not overlap, every hour the audit report counts as    *)
(* covered since the first window was asked for and not answered at the     *)
(* limit, or was refused, however runs fail, pause, stop or come back after *)
(* an outage that is longer than ETD's retention.                           *)
THEOREM CoverageIsTrue == Spec => []CoveredIsComplete
<1>1. Init => CoverInv
  BY DEF Init, CoverInv, AskedSinceFirst, AtLimit, CopyAgrees, Idle
<1>2. LogInv /\ LogInv' /\ PassInv /\ CountInv /\ CoverInv /\ [Next]_vars => CoverInv'
  <2> SUFFICES ASSUME LogInv, LogInv', PassInv, Alone, CoverInv, [Next]_vars, ~overlapped'
               PROVE  AskedSinceFirst' /\ \A o \in Collectors : CopyAgrees(o)'
    BY DEF CoverInv, CountInv
  <2>1. Scheduled \in Collectors /\ Manual \subseteq Collectors
    BY DEF Collectors
  <2>2. CASE UNCHANGED vars
    BY <2>2 DEF vars, CoverInv, AskedSinceFirst, AtLimit, CopyAgrees, Horizon
  <2>3. ASSUME NEW c \in Collectors, Step(c) \/ Pause(c) \/ Fail(c)
        PROVE  AskedSinceFirst' /\ \A o \in Collectors : CopyAgrees(o)'
    BY <2>3, RefuseCovers, FetchLoadCovers, CommitCovers, EndCovers DEF Step
  <2>4. ASSUME NEW c \in Manual, ByHand(c)
        PROVE  AskedSinceFirst' /\ \A o \in Collectors : CopyAgrees(o)'
    <3>1. Begin(c) /\ UNCHANGED <<clock, cursor, gaps, listed, hidden, refused, began>>
      BY <2>4 DEF ByHand, tenantVars
    <3> QED
      BY <2>1, <2>4, <3>1, BeginCovers
  <2>5. CASE Hourly
    <3>1. UNCHANGED <<clock, cursor, gaps, listed, hidden, refused, began>>
      BY <2>5 DEF Hourly, tenantVars
    <3>2. CASE Begin(Scheduled)
      BY <2>1, <3>1, <3>2, BeginCovers
    <3>3. CASE UNCHANGED <<col, overlapped>>
      BY <3>1, <3>3 DEF CoverInv, AskedSinceFirst, AtLimit, CopyAgrees, Horizon
    <3> QED
      BY <2>5, <3>2, <3>3 DEF Hourly
  <2> QED
    BY <2>2, <2>3, <2>4, <2>5, WorldCovers DEF Next
<1>3. LogInv /\ CoverInv => CoveredIsComplete
  <2> SUFFICES ASSUME LogInv, AskedSinceFirst, NEW h \in Covered, began # Null, began <= h
               PROVE  h \in listed \ AtLimit \/ h \in refused
    BY CoverHours DEF CoveredIsComplete, CoverInv, Covered
  <2>1. h \in Hours /\ h < cursor /\ h \notin gaps /\ cursor # Null
    BY DEF Covered
  <2> QED
    BY <2>1 DEF AskedSinceFirst
<1> QED
  BY <1>1, <1>2, <1>3, LogTyping, Counting, Passing, PTL DEF Spec
=============================================================================
