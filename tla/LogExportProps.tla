---------------------------- MODULE LogExportProps ----------------------------
(***************************************************************************)
(* What Log Export promises: nothing counted twice, nothing passed over    *)
(* unnoticed, everything settled in the end                                *)
(***************************************************************************)
EXTENDS LogExport

LogTypeOK ==
  /\ clock \in Hours
  /\ arrived \subseteq Files
  /\ cursor \in Hour /\ firstHour \in Hour /\ gaps \subseteq Hours
  /\ recorded \subseteq Files
  /\ counts \in [Days -> Nat]
  /\ col \in [Collectors -> Run]
  /\ hourly \in BOOLEAN /\ down \in BOOLEAN /\ overlapped \in BOOLEAN
  /\ manuals \in Nat /\ faults \in Nat
  /\ listed \subseteq Hours /\ hidden \subseteq Hours \X Hours /\ refused \subseteq Hours
  /\ began \in Hour

\* The hours of which no run has seen more since it listed them at the limit
AtLimit == {p[1] : p \in hidden}

\* The hours log_coverage counts as covered
Covered == IF cursor = Null \/ firstHour = Null
           THEN {}
           ELSE {h \in Hours : firstHour <= h /\ h < cursor} \ gaps

(* README.md "re-runs never double count": the day counts hold no file      *)
(* more than once, also when runs overlap, die or are repeated.  Runs that  *)
(* overlap may lose an update, so this is a bound; a run alone counts each  *)
(* file it records exactly once.                                            *)
NeverDoubleCounted ==
  \A d \in Days :
    /\ counts[d] <= Cardinality(Of(d, recorded))
    /\ ~overlapped => counts[d] = Cardinality(Of(d, recorded))

(* An exported file of an hour below the cursor is stored, unless that hour *)
(* was listed at the link limit or refused, is older than ETD's retention,  *)
(* or is going to be asked for again: however late the file came, however   *)
(* long a run takes, and whatever failed or overlapped in between.          *)
(* collect_logs' start, its cursor and LOOKBACK_HOURS.                      *)
NothingPassedOver ==
  cursor # Null =>
    \A f \in arrived \ recorded :
      LET h == HourOf[f]
      IN  h >= cursor - Lookback \/ h < Horizon \/ h \in AtLimit \union refused

(* What the audit report counts as covered was asked for since the first    *)
(* window, and not answered at the link limit - the outage that outlasts    *)
(* ETD's retention and the capped hours are gaps - as long as runs do not   *)
(* overlap: log_coverage, the gaps of collect_logs.                         *)
CoveredIsComplete ==
  ~overlapped =>
    \A h \in Covered :
      \/ h \in listed \ AtLimit
      \/ h \in refused
      \/ IF began = Null THEN TRUE ELSE h < began

(* Every exported file is stored in the end, or its hour is one of the      *)
(* exceptions above: collect_logs picks up after pauses, errors, outages    *)
(* and refusals.                                                            *)
Settled(f) ==
  \/ f \in recorded
  \/ HourOf[f] \in gaps \union AtLimit \union refused
  \/ HourOf[f] < Horizon
  \/ IF began = Null THEN FALSE ELSE HourOf[f] < began

EveryFileIsSettled == \A f \in Files : f \in arrived ~> Settled(f)
=============================================================================
