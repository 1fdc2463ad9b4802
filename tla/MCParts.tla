------------------------------- MODULE MCParts -------------------------------
(***************************************************************************)
(* The smaller parts of the service, each on an instance of its own.  A    *)
(* behaviour is one of the part it is about; the others stay at their      *)
(* start.                                                                  *)
(***************************************************************************)
EXTENDS Archive, Calendar, StallAlerts, KeyReminders, Vendors, Lookalikes, DomainPosture,
        Effectiveness, ThreatReports, Backups, JobReload, MCTrends

VARIABLE component

allVars == <<component, ArchiveVars, CalendarVars, StallVars, KeyVars, VendorVars, LookalikeVars,
             PostureVars, EffectivenessVars, CampaignVars, BackupVars, ReloadVars, TrendVars>>

Components == {"archive", "calendar", "stalls", "keys", "vendors", "lookalikes", "posture",
               "effectiveness", "campaigns", "backups", "reloads", "trends"}

\* The parts that may start in several states do so only when it is about them
Start0 ==
  /\ component # "stalls" => channels = {} /\ \A s \in Streams : age[s] = 0
  /\ component # "keys" => \A k \in Keys : left[k] = 1
  /\ component # "lookalikes" => model = CHOOSE p \in Guarded : TRUE
  /\ component # "reloads" => \A s \in Saved : saved[s] = "absent"
  /\ component # "posture" => zone = [n \in Names |-> CHOOSE p \in Postings : TRUE]

MCInit ==
  /\ component \in Components
  /\ ArchiveInit /\ CalendarInit /\ StallInit /\ KeyInit /\ VendorInit /\ LookalikeInit
  /\ PostureInit /\ EffectivenessInit /\ CampaignInit /\ BackupInit /\ ReloadInit /\ TrendInit
  /\ Start0

Rest(x, y, itsVars) == IF x = y THEN TRUE ELSE UNCHANGED itsVars

Only(x) ==
  /\ component = x /\ UNCHANGED component
  /\ Rest(x, "archive", ArchiveVars) /\ Rest(x, "calendar", CalendarVars)
  /\ Rest(x, "stalls", StallVars) /\ Rest(x, "keys", KeyVars)
  /\ Rest(x, "vendors", VendorVars) /\ Rest(x, "lookalikes", LookalikeVars)
  /\ Rest(x, "posture", PostureVars) /\ Rest(x, "effectiveness", EffectivenessVars)
  /\ Rest(x, "campaigns", CampaignVars) /\ Rest(x, "backups", BackupVars)
  /\ Rest(x, "reloads", ReloadVars) /\ Rest(x, "trends", TrendVars)

MCNext ==
  \/ Only("archive") /\ ArchiveNext
  \/ Only("calendar") /\ CalendarNext
  \/ Only("stalls") /\ StallNext
  \/ Only("keys") /\ KeyNext
  \/ Only("vendors") /\ VendorNext
  \/ Only("lookalikes") /\ LookalikeNext
  \/ Only("posture") /\ PostureNext
  \/ Only("effectiveness") /\ EffectivenessNext
  \/ Only("campaigns") /\ CampaignNext
  \/ Only("backups") /\ BackupNext
  \/ Only("reloads") /\ ReloadNext
  \/ Only("trends") /\ TrendNext

\* In the archive what has begun goes on, days pass, and the purge runs night after
\* night
MCSpec ==
  /\ MCInit /\ [][MCNext]_allVars
  /\ \A c \in Calls : WF_ArchiveVars(component = "archive" /\ Report(c))
  /\ \A t \in Tenants : WF_ArchiveVars(component = "archive" /\ Deletion(t))
  /\ WF_ArchiveVars(component = "archive" /\ Purge) /\ SF_ArchiveVars(component = "archive" /\ Day)

-----------------------------------------------------------------------------
(* The instances *)

MCTenants == {"a1", "a2"}

\* The tables of confusable and of protected names
MCConfusables == <<<<<<"r", "n">>, "m">>, <<<<"i">>, "l">>>>
MCGuarded == {[label |-> <<"n", "i", "r", "n", "i">>, suffix |-> "se"],
              [label |-> <<"r", "i", "n", "i", "r", "n", "r">>, suffix |-> "co.uk"],
              [label |-> <<"i", "r", "n", "r">>, suffix |-> "se"]}

\* "look" imitates the listed vendor, the host of "evil" the own domain
MCRegistrable == [h \in Hosts |-> IF h = "host" THEN "evil" ELSE h]
MCResembles == [h \in Hosts |-> CASE h = "look" -> {"vendor"} [] h = "host" -> {"own"} [] OTHER -> {}]

\* A domain without records, and one with a strict policy that leaves subdomains out
MCPostings ==
  {[spf |-> <<>>, dmarc |-> <<>>, sts |-> FALSE, tls |-> FALSE],
   [spf |-> <<[all |-> "-all", redirect |-> FALSE, lookups |-> 1]>>,
    dmarc |-> <<[p |-> "reject", sp |-> "none", pct |-> 100]>>, sts |-> TRUE, tls |-> TRUE]}
MCOrgOf == [d \in {"sub"} |-> "acme"]
MCAnswers == {CheckDomain(p, p) : p \in MCPostings}

\* Threats of every shape; and some, to several people, that were dealt with or sent
\* from inside
MCSign == [weight |-> 10, severity |-> 4, impersonation |-> TRUE, retro |-> FALSE, acted |-> FALSE,
           auto |-> FALSE, outgoing |-> FALSE, from |-> 1, old |-> FALSE]
MCSigns == {[MCSign EXCEPT !.weight = 6, !.acted = TRUE, !.auto = TRUE, !.outgoing = TRUE],
            [MCSign EXCEPT !.weight = 6, !.outgoing = TRUE, !.from = 2],
            [MCSign EXCEPT !.weight = 6, !.retro = TRUE, !.old = TRUE],
            [MCSign EXCEPT !.acted = TRUE, !.outgoing = TRUE, !.old = TRUE]}
MCArrivals ==
  [links : {l \in SUBSET Links : Cardinality(l) <= 2}, to : SUBSET People, sign : {MCSign}]
  \union [links : {{}, {1}}, to : {{1, 2}}, sign : MCSigns]
MCCampaignLimits == [exposed |-> 2, reached |-> 2, mass |-> 2]

MCStalledAfter == [stats |-> 4, logs |-> 2]
=============================================================================
