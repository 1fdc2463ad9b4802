---------------------------- MODULE DomainPosture ---------------------------
(***************************************************************************)
(* The posture of own domains as reports read it (cached_check in          *)
(* app/reports/domains.py): a cache of a day that several reports read and *)
(* fill at the same time, each in transactions of its own around lookups   *)
(* that take their time and may fail, while the records change.            *)
(***************************************************************************)
EXTENDS DomainChecks, FiniteSets

CONSTANTS
  Names,       \* names in DNS
  OwnDomains,  \* the own domains among them
  OrgOf,       \* registrable
  Postings,    \* what may be published at a domain
  Readers,     \* reports that check domains
  MaxAge,      \* max_age_hours, in the unit of the clock
  MaxHour,     \* bound on the clock
  MaxPostings  \* bound on the changes of DNS

ASSUME PostureConstants ==
  /\ OwnDomains \subseteq Names /\ OrgOf \in [OwnDomains -> Names] /\ MaxAge \in Nat /\ MaxHour \in Nat /\ MaxPostings \in Nat

Nothing == [none |-> TRUE]
Failed == [error |-> TRUE]

VARIABLES
  hour,
  zone,     \* zone[d]: what is published now
  dnsUp,
  cache,    \* DnsCache: [res, checked], and asked, when DNS was asked (history)
  reader,   \* reader[r]: [phase, d, seen, found, asked]
  reported, \* reported[r]: what the last report found: [d, res, asked, at]
  changes

PostureVars == <<hour, zone, dnsUp, cache, reader, reported, changes>>

Idle == [phase |-> "idle", d |-> "none", seen |-> FALSE, found |-> Nothing, asked |-> 0]

PostureInit ==
  /\ hour = 0 /\ dnsUp = TRUE /\ changes = 0
  /\ \E p \in Postings : zone = [n \in Names |-> p]
  /\ cache = [d \in OwnDomains |-> Nothing]
  /\ reader = [r \in Readers |-> Idle]
  /\ reported = [r \in Readers |-> Nothing]

Read(r, d, res, asked) ==
  /\ reported' = [reported EXCEPT ![r] = [d |-> d, res |-> res, asked |-> asked, at |-> hour]]
  /\ reader' = [reader EXCEPT ![r] = Idle]

\* Mutant: a row is taken whatever its age
EverCached(d) == cache[d] # Nothing

Fresh(d) == cache[d] # Nothing /\ cache[d].checked >= hour - MaxAge

\* The first transaction: the cached result while it is fresh
ReadCache(r, d) ==
  /\ reader[r].phase = "idle"
  /\ IF Fresh(d) THEN Read(r, d, cache[d].res, cache[d].asked)
     ELSE /\ reader' = [reader EXCEPT ![r] = [Idle EXCEPT !.phase = "ask", !.d = d]]
          /\ UNCHANGED reported
  /\ UNCHANGED <<hour, zone, dnsUp, cache, changes>>

\* The lookups; a failure is reported and never cached
Ask(r) == LET d == reader[r].d IN
  /\ reader[r].phase = "ask"
  /\ IF dnsUp
     THEN /\ reader' = [reader EXCEPT ![r].phase = "get", ![r].asked = hour,
                                      ![r].found = CheckDomain(zone[d], zone[OrgOf[d]])]
          /\ UNCHANGED reported
     ELSE Read(r, d, Failed, hour)
  /\ UNCHANGED <<hour, zone, dnsUp, cache, changes>>

\* The second transaction reads the row again ...
GetRow(r) ==
  /\ reader[r].phase = "get"
  /\ reader' = [reader EXCEPT ![r].phase = "commit", ![r].seen = cache[reader[r].d] # Nothing]
  /\ UNCHANGED <<hour, zone, dnsUp, cache, reported, changes>>

\* Mutant: only the time of an old row is renewed
Renewed(r) == LET me == reader[r] IN
  IF me.seen THEN [cache[me.d] EXCEPT !.checked = hour]
  ELSE [res |-> me.found, checked |-> hour, asked |-> me.asked]

Stored(r) == LET me == reader[r] IN
  [res |-> me.found, checked |-> hour, asked |-> me.asked]

\* ... and inserts or updates it; a row inserted in the meantime stays (IntegrityError)
CommitRow(r) == LET me == reader[r] IN
  /\ me.phase = "commit"
  /\ cache' = IF ~me.seen /\ cache[me.d] # Nothing THEN cache
              ELSE [cache EXCEPT ![me.d] = Stored(r)]
  /\ Read(r, me.d, me.found, me.asked)
  /\ UNCHANGED <<hour, zone, dnsUp, changes>>

Publish(d, p) ==
  /\ p # zone[d] /\ changes < MaxPostings /\ changes' = changes + 1
  /\ zone' = [zone EXCEPT ![d] = p]
  /\ UNCHANGED <<hour, dnsUp, cache, reader, reported>>

DnsToggle ==
  /\ changes < MaxPostings /\ changes' = changes + 1
  /\ dnsUp' = ~dnsUp
  /\ UNCHANGED <<hour, zone, cache, reader, reported>>

\* A lookup takes less than two units of time
HourPasses ==
  /\ hour < MaxHour /\ hour' = hour + 1
  /\ \A r \in Readers : reader[r].phase \in {"get", "commit"} => reader[r].asked = hour
  /\ UNCHANGED <<zone, dnsUp, cache, reader, reported, changes>>

PostureNext ==
  \/ \E r \in Readers : \/ \E d \in OwnDomains : ReadCache(r, d)
                        \/ Ask(r) \/ GetRow(r) \/ CommitRow(r)
  \/ \E d \in Names, p \in Postings : Publish(d, p)
  \/ DnsToggle \/ HourPasses

-----------------------------------------------------------------------------

\* domains.py:296-297: what a report says of a domain was the answer of DNS within
\* the last day (and the time a lookup takes), whichever of two reports that looked
\* it up at once wrote the cache last; a failure is reported and not cached.
PostureIsRecent ==
  /\ \A r \in Readers : reported[r] # Nothing => reported[r].asked >= reported[r].at - MaxAge - 1
  /\ \A d \in OwnDomains : cache[d] # Nothing => cache[d].res # Failed /\ cache[d].asked >= cache[d].checked - 1
=============================================================================
