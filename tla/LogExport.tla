------------------------------ MODULE LogExport ------------------------------
(***************************************************************************)
(* The Log Export collector of one tenant (app/collectors/logs.py): ETD    *)
(* exports files per hour, a run asks for them window by window and writes *)
(* each window with the cursor in one transaction.  The hourly job and the *)
(* runs started by hand ("Collect now", the API) may overlap: nothing      *)
(* locks them out, each works on its own copy of the tenant.               *)
(*                                                                         *)
(* The clock counts hours.  Both log types are treated as one, and an      *)
(* unreadable file counts as read, as in the code.                         *)
(***************************************************************************)
EXTENDS Integers, FiniteSets

CONSTANTS
  Scheduled,   \* the hourly job (one instance)
  Manual,      \* the runs started by hand that may be active at once
  Files,       \* the log files ETD may export
  HourOf,      \* HourOf[f]: the hour a file's path names
  MaxClock,    \* bound on the clock
  DayLength,   \* hours of a day
  Window,      \* WINDOW_HOURS
  Lookback,    \* LOOKBACK_HOURS
  Lateness,    \* a file is exported at most so many hours after its own
  Retention,   \* RETENTION_DAYS, in hours
  EtdKeeps,    \* how long ETD lists files
  MaxManual,   \* bound on the runs started by hand
  MaxFaults,   \* bound on errors, pauses, capped listings and stops
  Null

Hours == 0..MaxClock

ASSUME LogConstants ==
  /\ MaxClock \in Nat
  /\ IsFiniteSet(Files)
  /\ HourOf \in [Files -> 0..(MaxClock - 1)]
  /\ {DayLength, Window, Lookback, Lateness, EtdKeeps} \subseteq Nat
  /\ DayLength > 0 /\ Window > 0
  /\ Lateness <= Lookback
  /\ Retention \in Hours /\ Retention <= EtdKeeps
  /\ {MaxManual, MaxFaults} \subseteq Nat
  /\ Scheduled \notin Manual
  /\ Null \notin Hours

Collectors == {Scheduled} \union Manual
Days == 0..(MaxClock \div DayLength)
DayOf(f) == HourOf[f] \div DayLength

VARIABLES
  clock,      \* floor_hour(now)
  arrived,    \* the files exported so far
  cursor,     \* tenants.logs_cursor
  firstHour,  \* tenants.logs_first_hour
  gaps,       \* the hours of tenants.logs_gaps
  recorded,   \* log_files
  counts,     \* sender_domain_daily: files counted per day, 0 without a row
  col,        \* the local variables of each run
  hourly,     \* the job of this hour was fired
  down,       \* the process is stopped, or collection switched off
  manuals,    \* runs started by hand so far
  faults,     \* faults so far
  listed,     \* hours of committed windows (history)
  hidden,     \* those of them last listed at the link limit, as <<hour, now of the run>> (history)
  refused,    \* hours ETD refused as past (history)
  began,      \* first hour of any committed window (history)
  overlapped  \* two runs were active at once (history)

tenantVars == <<cursor, firstHour, gaps>>
storeVars == <<recorded, counts>>
worldVars == <<clock, arrived, hourly, down, manuals>>
historyVars == <<listed, hidden, refused, began, overlapped>>
vars == <<clock, arrived, cursor, firstHour, gaps, recorded, counts, col, hourly,
          down, manuals, faults, listed, hidden, refused, began, overlapped>>

Hour == Hours \union {Null}

Run == [phase  : {"idle", "window", "fetched", "loaded"},
        now    : Hours,            \* current
        win    : Hours,            \* start of the window at hand
        upto   : Hours,            \* and its end
        cursor : Hour,             \* the session's copy of the tenant
        first  : Hour,
        gaps   : SUBSET Hours,
        dirty  : SUBSET {"first", "gaps"},  \* set on the copy, not yet written
        seen   : SUBSET Files,
        batch  : SUBSET Files,
        capped : SUBSET Hours,     \* truncated
        loaded : [Days -> Nat]]    \* the day rows store_batch has read

Idle == [phase |-> "idle", now |-> 0, win |-> 0, upto |-> 0, cursor |-> Null, first |-> Null,
         gaps |-> {}, dirty |-> {}, seen |-> {}, batch |-> {}, capped |-> {},
         loaded |-> [d \in Days |-> 0]]

Init ==
  /\ clock = Retention
  /\ arrived \in SUBSET {f \in Files : HourOf[f] < clock}
  /\ cursor = Null /\ firstHour = Null /\ gaps = {}
  /\ recorded = {} /\ counts = [d \in Days |-> 0]
  /\ col = [c \in Collectors |-> Idle]
  /\ hourly = FALSE /\ down = FALSE /\ manuals = 0 /\ faults = 0
  /\ listed = {} /\ hidden = {} /\ refused = {} /\ began = Null /\ overlapped = FALSE

Fault == faults < MaxFaults /\ faults' = faults + 1

-----------------------------------------------------------------------------
(* The start of a run: the tenant's copy, the first window, the files seen *)

Horizon == clock - Retention

Behind == IF cursor = Null THEN FALSE ELSE cursor < Horizon

\* Mutant: the look-back is forgotten
FromCursor == IF cursor = Null THEN Horizon ELSE IF cursor > Horizon THEN cursor ELSE Horizon

FirstWindow ==
  IF cursor = Null THEN Horizon
  ELSE IF cursor - Lookback > Horizon THEN cursor - Lookback ELSE Horizon

\* The gap list with the hours that ETD no longer has
WithOutage == IF Behind THEN gaps \union cursor..(Horizon - 1) ELSE gaps

Begin(c) ==
  /\ col' = [col EXCEPT ![c] =
       [Idle EXCEPT !.phase = "window", !.now = clock, !.win = FirstWindow,
          !.cursor = cursor, !.gaps = WithOutage, !.seen = recorded,
          !.first = IF cursor = Null /\ firstHour = Null THEN Horizon ELSE firstHour,
          !.dirty = {x \in {"first", "gaps"} :
                       IF x = "gaps" THEN Behind ELSE cursor = Null /\ firstHour = Null}]]
  /\ overlapped' = (overlapped \/ \E o \in Collectors \ {c} : col[o].phase # "idle")

-----------------------------------------------------------------------------
(* The windows *)

Asking(c) == col[c].phase = "window" /\ col[c].win < col[c].now

WindowEnd(r) == IF r.win + Window < r.now THEN r.win + Window ELSE r.now

\* The hours of the window at hand
Asked(r) == r.win..(WindowEnd(r) - 1)

TooOld(r) == r.win < clock - EtdKeeps

\* Mutant: the refused window is asked for again
AskAgain(c) ==
  /\ Asking(c) /\ TooOld(col[c])
  /\ refused' = refused \union Asked(col[c])
  /\ UNCHANGED <<worldVars, tenantVars, storeVars, col, faults, listed, hidden, began, overlapped>>

\* 400 "past": the window is skipped, nothing is written
Refuse(c) ==
  /\ Asking(c) /\ TooOld(col[c])
  /\ col' = [col EXCEPT ![c].win = WindowEnd(col[c])]
  /\ refused' = refused \union Asked(col[c])
  /\ UNCHANGED <<worldVars, tenantVars, storeVars, faults, listed, hidden, began, overlapped>>

Unseen(r, files) == files \ r.seen

\* fetch_links and the downloads.  At the link limit (full) the response may
\* lack some of an hour's files.
Fetch(c) ==
  /\ Asking(c) /\ ~TooOld(col[c])
  /\ \E full \in SUBSET Asked(col[c]) :
       /\ IF full = {} THEN UNCHANGED faults ELSE Fault
       /\ \E shown \in SUBSET {f \in arrived : HourOf[f] \in full} :
            LET links == shown \union {f \in arrived : HourOf[f] \in Asked(col[c]) \ full}
                new   == Unseen(col[c], links)
            IN  col' = [col EXCEPT ![c].phase = "fetched", ![c].upto = WindowEnd(col[c]),
                                   ![c].batch = new, ![c].seen = @ \union new,
                                   ![c].capped = full]
  /\ UNCHANGED <<worldVars, tenantVars, storeVars, historyVars>>

\* store_batch reads the day rows it will add to; nothing is flushed yet
Load(c) ==
  /\ col[c].phase = "fetched"
  /\ col' = [col EXCEPT ![c].phase = "loaded", ![c].loaded = counts]
  /\ UNCHANGED <<worldVars, tenantVars, storeVars, faults, historyVars>>

Of(d, files) == {f \in files : DayOf(f) = d}

\* uq_sender_domain_daily (alone a mutant: log_files without its constraint)
NewDayTwice(r) == \E d \in Days : Of(d, r.batch) # {} /\ r.loaded[d] = 0 /\ counts[d] > 0

\* uq_log_files_tenant_path too: another run has committed one of the files
Conflict(r) ==
  \/ r.batch \intersect recorded # {}
  \/ NewDayTwice(r)

\* `end > tenant.logs_cursor`, on the session's copy
Moves(r) == IF r.cursor = Null THEN TRUE ELSE r.upto > r.cursor

\* Mutant: the hours at the link limit are not written down
NotNoted(r) == r.gaps

NotedGaps(r) == r.gaps \union r.capped

Counted(r, d) == r.loaded[d] + Cardinality(Of(d, r.batch))

\* The commit of a window: counts, files, gaps and cursor, or nothing.  Only
\* attributes set on the copy are written, whatever the row holds by now.
Commit(c) ==
  LET r == col[c]
      covered == r.win..(r.upto - 1)
  IN
  /\ r.phase = "loaded"
  /\ ~Conflict(r)
  /\ counts' = [d \in Days |-> IF Of(d, r.batch) = {} THEN counts[d] ELSE Counted(r, d)]
  /\ recorded' = recorded \union r.batch
  /\ gaps' = IF r.capped # {} \/ "gaps" \in r.dirty THEN NotedGaps(r) ELSE gaps
  /\ cursor' = IF Moves(r) THEN r.upto ELSE cursor
  /\ firstHour' = IF "first" \in r.dirty THEN r.first ELSE firstHour
  /\ col' = [col EXCEPT ![c] =
       [r EXCEPT !.phase = "window", !.win = r.upto, !.gaps = NotedGaps(r), !.dirty = {},
                 !.cursor = IF Moves(r) THEN r.upto ELSE @,
                 !.batch = {}, !.capped = {}, !.loaded = Idle.loaded]]
  /\ listed' = listed \union covered
  /\ hidden' = {p \in hidden : p[1] \notin covered \/ p[2] > r.now} \union (r.capped \X {r.now})
  /\ began' = IF began = Null THEN r.win ELSE IF r.win < began THEN r.win ELSE began
  /\ UNCHANGED <<worldVars, faults, refused, overlapped>>

\* Another run committed the same file or day row first: IntegrityError
Clash(c) ==
  /\ col[c].phase = "loaded"
  /\ Conflict(col[c])
  /\ col' = [col EXCEPT ![c] = Idle]
  /\ UNCHANGED <<worldVars, tenantVars, storeVars, faults, historyVars>>

\* The session's last commit writes what no window has written
EndSession(c) ==
  /\ gaps' = IF "gaps" \in col[c].dirty THEN col[c].gaps ELSE gaps
  /\ firstHour' = IF "first" \in col[c].dirty THEN col[c].first ELSE firstHour
  /\ col' = [col EXCEPT ![c] = Idle]
  /\ UNCHANGED <<worldVars, cursor, storeVars, historyVars>>

Finish(c) ==
  /\ col[c].phase = "window" /\ col[c].win >= col[c].now
  /\ EndSession(c)
  /\ UNCHANGED faults

\* The day's API budget is used up
Pause(c) ==
  /\ Asking(c)
  /\ Fault
  /\ EndSession(c)

\* An error of ETD, a download or the database: rolled back
Fail(c) ==
  /\ col[c].phase # "idle"
  /\ Fault
  /\ col' = [col EXCEPT ![c] = Idle]
  /\ UNCHANGED <<worldVars, tenantVars, storeVars, historyVars>>

-----------------------------------------------------------------------------
(* What starts the runs, and the world around them *)

Hourly ==
  /\ ~down /\ ~hourly
  /\ hourly' = TRUE
  /\ IF col[Scheduled].phase = "idle" THEN Begin(Scheduled) ELSE UNCHANGED <<col, overlapped>>
  /\ UNCHANGED <<clock, arrived, down, manuals, tenantVars, storeVars, faults, listed, hidden, refused, began>>

ByHand(c) ==
  /\ ~down /\ col[c].phase = "idle"
  /\ manuals < MaxManual /\ manuals' = manuals + 1
  /\ Begin(c)
  /\ UNCHANGED <<clock, arrived, hourly, down, tenantVars, storeVars, faults, listed, hidden, refused, began>>

Arrive(f) ==
  /\ f \notin arrived
  /\ clock \in HourOf[f]..(HourOf[f] + Lateness)
  /\ arrived' = arrived \union {f}
  /\ UNCHANGED <<clock, hourly, down, manuals, tenantVars, storeVars, col, faults, historyVars>>

\* The last hour stands for all time after it
Tick ==
  /\ hourly \/ down
  /\ clock' = IF clock < MaxClock THEN clock + 1 ELSE clock
  /\ hourly' = FALSE
  /\ UNCHANGED <<arrived, down, manuals, tenantVars, storeVars, col, faults, historyVars>>

\* The service stops, with every run
Stop ==
  /\ ~down /\ Fault
  /\ down' = TRUE
  /\ col' = [c \in Collectors |-> Idle]
  /\ UNCHANGED <<clock, arrived, hourly, manuals, tenantVars, storeVars, historyVars>>

\* It may be past the minute of the job
Resume ==
  /\ down /\ down' = FALSE
  /\ hourly' \in {hourly, TRUE}
  /\ UNCHANGED <<clock, arrived, manuals, tenantVars, storeVars, col, faults, historyVars>>

Step(c) == Refuse(c) \/ Fetch(c) \/ Load(c) \/ Commit(c) \/ Clash(c) \/ Finish(c)

Next ==
  \/ \E c \in Collectors : Step(c) \/ Pause(c) \/ Fail(c)
  \/ \E c \in Manual : ByHand(c)
  \/ \E f \in Files : Arrive(f)
  \/ Hourly \/ Tick \/ Stop \/ Resume

Spec == Init /\ [][Next]_vars

FairSpec ==
  /\ Spec
  /\ WF_vars(Step(Scheduled)) /\ WF_vars(Hourly \/ Resume) /\ WF_vars(Tick)
=============================================================================
