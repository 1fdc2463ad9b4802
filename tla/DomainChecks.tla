---------------------------- MODULE DomainChecks ----------------------------
(***************************************************************************)
(* What app/reports/domains.py concludes from the DNS records of a domain. *)
(*                                                                         *)
(* What is published at a name is a record: spf and dmarc are sequences of *)
(* the records found there, sts and tls say whether MTA-STS and TLS-RPT    *)
(* are.  An SPF record is [all, redirect, lookups], a DMARC record         *)
(* [p, sp, pct]; "" is a term that is not there.                           *)
(***************************************************************************)
EXTENDS Integers, Sequences

\* parse_spf: the level of a domain's SPF records
SpfLevel(records) ==
  LET r == records[1]
      ends == r.all \in {"-all", "~all"} \/ (r.all = "" /\ r.redirect)
  IN IF Len(records) # 1 \/ r.all = "+all" THEN "critical"
     ELSE IF ends /\ r.lookups < 10 THEN "ok" ELSE "warning"

\* parse_dmarc: the policy in force, and its level
DmarcPolicy(records, subdomain) ==
  IF Len(records) # 1 THEN ""
  ELSE IF subdomain /\ records[1].sp # "" THEN records[1].sp ELSE records[1].p

DmarcLevel(records, subdomain) ==
  LET policy == DmarcPolicy(records, subdomain) IN
  IF policy = "reject" /\ records[1].pct >= 100 THEN "ok"
  ELSE IF policy \in {"reject", "quarantine"} THEN "warning" ELSE "critical"

\* _dmarc_lookup: without a record of its own a domain has that of its organisation
DmarcLookup(at, org) ==
  LET inherited == at.dmarc = <<>> /\ org.dmarc # <<>>
      records == IF inherited THEN org.dmarc ELSE at.dmarc
  IN [policy |-> DmarcPolicy(records, inherited), level |-> DmarcLevel(records, inherited),
      present |-> records # <<>>]

\* check_domain
CheckDomain(at, org) ==
  [spf |-> SpfLevel(at.spf), dmarc |-> DmarcLookup(at, org), sts |-> at.sts, tls |-> at.tls]

=============================================================================
