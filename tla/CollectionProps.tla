-------------------------- MODULE CollectionProps --------------------------
(***************************************************************************)
(* What the collectors of Collection promise a reader of their tables.     *)
(***************************************************************************)
EXTENDS Collection

\* models.py:99: convictions are complete from backfill_cursor forward.  A
\* message from the cursor on that was convicted within the days a run looks
\* back, and before the last collection, is stored, whatever overlapped, failed
\* or stopped.  Only between the start of the backfill and that of the
\* collections before the first complete one may there be messages that are in
\* nobody's window: with two of them the later one begins later, and moves the
\* watermark past what was convicted after the earlier one had asked.
CompleteFromCursor ==
  tenant.cursor # Null /\ tenant.watermark # Null =>
    \A m \in Messages :
      /\ verdict[m] # Null
      /\ verdict[m] < tenant.watermark
      /\ verdict[m] <= sent[m] + RescanDays
      /\ sent[m] >= tenant.cursor /\ sent[m] >= clock - Horizon
      /\ sent[m] >= first \/ (sent[m] < origin.from /\ verdict[m] < origin.day)
      => m \in stored

\* Every day before the last successful collection, as far back as ETD keeps
\* them, has a row that was read after the day was over: an outage leaves no
\* gap and no half-counted day (stats.py:66-77).  Only a run that was overtaken
\* by a later one may have put its older figures back.
EveryDayIsCounted ==
  tenant.stats # Null =>
    \A d \in Days \ older : d < tenant.stats /\ d >= clock - Horizon => rows[d] # Null /\ rows[d] > d

\* The day's count of requests is what the runs that ended on it used,
\* however they overlap (runner.py:60-80).
UsageIsCounted == CallsToday = spent

\* A collector's error is shown exactly when its last run failed; another one's
\* success or failure does not hide it (runner.py:87-98).  Runs that overlap
\* work on stale copies: nothing is claimed of a result they may have written over.
ErrorsAreCurrent ==
  \A s \in Streams \ doubtful : s \in tenant.errors <=> s \in failing

=============================================================================
