--------------------------- MODULE ThreatReports ---------------------------
(***************************************************************************)
(* What the reports say of threats that are still in mailboxes: the        *)
(* exposure report, the campaigns with their severity, and the report on   *)
(* compromised senders (app/reports/exposure.py, campaigns.py,             *)
(* compromise_indicators.py), each from the messages of its own query.     *)
(***************************************************************************)
EXTENDS Campaigns

CONSTANTS
  MaxList,        \* MAX_LIST
  ManyExposed,    \* threats in mailboxes that make the report critical
  CampaignLimits, \* [exposed, reached, mass]: what makes a campaign critical or a warning
  ManySent        \* threats of one sender that make the report critical

ASSUME ReportConstants ==
  /\ {MaxList, ManyExposed, ManySent} \subseteq Nat \ {0}
  /\ CampaignLimits \in [{"exposed", "reached", "mass"} -> Nat \ {0}]

Sign(i) == convictions[i].sign
Found == DOMAIN convictions

-----------------------------------------------------------------------------
(* exposure.build *)

\* Messages on which nothing was done
Exposed == {i \in Found : ~Sign(i).acted}
Retro == {i \in Found : Sign(i).retro}

\* Oldest first, cut at MAX_LIST
ExposedRows == SubSeq(SetToSortSeq(Exposed, >), 1, Min({MaxList, Cardinality(Exposed)}))

Overall ==
  IF Cardinality(Exposed) >= ManyExposed \/ \E n \in DOMAIN ExposedRows : Sign(ExposedRows[n]).old
  THEN "critical"
  ELSE IF Exposed \union Retro # {} THEN "warning" ELSE "ok"

-----------------------------------------------------------------------------
(* Campaigns: not_remediated, severity *)

NotRemediated(g) == g \intersect Exposed
ReachedIn(g) == UNION {convictions[i].to : i \in g}
IsBec(i) == Sign(i).weight = 10

CampaignSeverity(g) ==
  IF \/ Cardinality(NotRemediated(g)) >= CampaignLimits.exposed
     \/ (\E i \in g : IsBec(i)) /\ Cardinality(ReachedIn(g)) >= CampaignLimits.reached
  THEN "critical"
  ELSE IF NotRemediated(g) # {} \/ Cardinality(ReachedIn(g)) >= CampaignLimits.mass THEN "warning"
  ELSE "ok"

StillExposed == MapThenSumSet(LAMBDA g : Cardinality(NotRemediated(g)), CampaignsOf(convictions))

-----------------------------------------------------------------------------
(* compromise_indicators.build *)

SentFrom(s) == {i \in Found : Sign(i).outgoing /\ Sign(i).from = s}
Compromising == {Sign(i).from : i \in {j \in Found : Sign(j).outgoing}}

\* A message counts as remediated by itself first
EntryOf(s) ==
  [count |-> Cardinality(SentFrom(s)),
   auto  |-> Cardinality({i \in SentFrom(s) : Sign(i).auto}),
   left  |-> Cardinality({i \in SentFrom(s) : ~Sign(i).auto /\ ~Sign(i).acted})]

CompromiseSeverity ==
  IF \E s \in Compromising : EntryOf(s).count >= ManySent THEN "critical"
  ELSE IF Compromising # {} THEN "warning" ELSE "ok"

-----------------------------------------------------------------------------

\* exposure.py:19-22, campaigns.py:17-20, compromise_indicators.py:17-20: the
\* reports agree on what is still in mailboxes, although each counts for itself:
\* the campaigns and the messages in none make up the exposure report, the senders
\* its outgoing part; a list that is cut does not hide a threat that makes the
\* report critical, and no report on a threat left in a mailbox says ok.
ExposureAgrees ==
  LET alone == UNION {g \in Groups(convictions) : Cardinality(g) < 2}
      outgoing == {i \in Found : Sign(i).outgoing}
  IN /\ StillExposed + Cardinality(alone \intersect Exposed) = Cardinality(Exposed)
     /\ MapThenSumSet(LAMBDA s : EntryOf(s).left, Compromising) = Cardinality(Exposed \intersect outgoing)
     /\ MapThenSumSet(LAMBDA s : EntryOf(s).count, Compromising) = Cardinality(outgoing)
     /\ (\E i \in Exposed : Sign(i).old) => Overall = "critical"
     /\ \A g \in CampaignsOf(convictions) : NotRemediated(g) # {} => "ok" \notin {CampaignSeverity(g), Overall}
     /\ Exposed \intersect outgoing # {} => "ok" \notin {CompromiseSeverity, Overall}

\* The figures of the reports on messages hang together
ThreatsAddUp == CampaignsAddUp /\ ExposureAgrees
=============================================================================
