------------------------------ MODULE Vendors ------------------------------
(***************************************************************************)
(* The vendor and look-alike report (app/reports/vendor_risk.py): which    *)
(* domains a tenant protects, which it has come to know by their clean     *)
(* mail, and which senders it reports as imitating them, as mail comes in  *)
(* day by day.                                                             *)
(*                                                                         *)
(* A host name is a model value with its organisational domain             *)
(* (registrable) and the domains its name resembles; how that resemblance  *)
(* is computed (find_lookalike's methods) is Lookalikes.                   *)
(***************************************************************************)
EXTENDS Integers, FiniteSets

CONSTANTS
  Hosts,         \* host names that send mail; a domain is its own host
  Outside,       \* those whose mail is followed
  Registrable,   \* registrable(h)
  Resembles,     \* Resembles[h]: the domains a protected list would flag h for
  Own,           \* own_regs
  Explicit,      \* explicit_regs, the listed vendors
  Freemail,
  MinDays,       \* ESTABLISHED_MIN_DAYS
  MaxProtected,  \* MAX_PROTECTED_ESTABLISHED
  LastMailDay,   \* bound on the days
  MaxThreats     \* bound on the convicted messages of a period

ASSUME VendorConstants ==
  /\ Outside \subseteq Hosts
  /\ Registrable \in [Hosts -> Hosts] /\ \A h \in Hosts : Registrable[Registrable[h]] = Registrable[h]
  /\ Resembles \in [Hosts -> SUBSET Hosts]
  /\ {MinDays, MaxProtected, LastMailDay, MaxThreats} \subseteq Nat

VARIABLES
  mailDay,      \* the day
  periodStart,  \* the first day of the period the report is about
  received,     \* sender_domain_daily: the hosts of each day with mail that was not convicted
  convicted     \* threats of the period: <<sender, reply-to>>

VendorVars == <<mailDay, periodStart, received, convicted>>

MailDays == 1..LastMailDay
Regs == {Registrable[h] : h \in Hosts}
HostsOf(reg) == {h \in Hosts : Registrable[h] = reg}

VendorInit ==
  /\ mailDay = 1 /\ periodStart = 1
  /\ received = [d \in MailDays |-> {}]
  /\ convicted = {}

\* store_batch counts a message into its host's day
Deliver(h) ==
  /\ received' = [received EXCEPT ![mailDay] = @ \union {h}]
  /\ UNCHANGED <<mailDay, periodStart, convicted>>

Convict(h, reply) ==
  /\ Cardinality(convicted) < MaxThreats
  /\ convicted' = convicted \union {<<h, reply>>}
  /\ UNCHANGED <<mailDay, periodStart, received>>

NextMailDay ==
  /\ mailDay < LastMailDay
  /\ mailDay' = mailDay + 1
  /\ UNCHANGED <<periodStart, received, convicted>>

NextPeriod ==
  /\ mailDay < LastMailDay
  /\ mailDay' = mailDay + 1 /\ periodStart' = mailDay + 1
  /\ convicted' = {}
  /\ UNCHANGED received

VendorNext ==
  \/ \E h \in Outside : Deliver(h)
  \/ \E h \in Outside, reply \in Hosts : Convict(h, reply)
  \/ NextMailDay \/ NextPeriod

-----------------------------------------------------------------------------
(* The report *)

\* find_lookalike: nothing that is protected itself, else what it resembles
LookalikeOf(h, protected) ==
  IF Registrable[h] \in protected THEN {} ELSE Resembles[h] \intersect protected

CleanDays(reg) == {d \in 1..periodStart - 1 : received[d] \intersect HostsOf(reg) # {}}
Delivered(reg) == \E d \in periodStart..mailDay : received[d] \intersect HostsOf(reg) # {}
Known(reg) == Cardinality(CleanDays(reg)) >= MinDays /\ reg \notin Freemail /\ reg \notin Own

Anchors == Own \union Explicit

\* Mutant: whoever has sent clean mail for long is a counterparty
EstablishedByMail == {reg \in Regs : Known(reg)}

\* One that imitates an own domain or a listed vendor never becomes established
Established == {reg \in Regs : Known(reg) /\ LookalikeOf(reg, Anchors) = {}}

\* Those with the most clean mail
TopEstablished ==
  {reg \in Established :
     Cardinality({q \in Established : Cardinality(CleanDays(q)) > Cardinality(CleanDays(reg))}) < MaxProtected}

Protected == Anchors \union TopEstablished

Senders == {Registrable[m[1]] : m \in convicted} \ Own
ReplyTos == {Registrable[m[2]] : m \in {n \in convicted : Registrable[n[2]] # Registrable[n[1]]}}
Candidates == Senders \union ReplyTos \union {reg \in Regs : Delivered(reg)}

\* The host names convicted mail was seen with; delivered mail is not among them
SeenHosts(reg) ==
  {h \in HostsOf(reg) : \E m \in convicted :
     \/ h = m[1] /\ Registrable[h] \notin Own
     \/ h = m[2] /\ Registrable[m[2]] # Registrable[m[1]]}

Flagged(reg) ==
  reg \notin Freemail /\ \E h \in SeenHosts(reg) \union {reg} : LookalikeOf(h, Protected) # {}

Lookalikes == {reg \in Candidates : Flagged(reg)}

\* Known senders whose mail was convicted; ETD's own technique "frequent sender" is left out
Compromised == {reg \in Senders \ Freemail : reg \in Explicit \/ reg \in Established}

-----------------------------------------------------------------------------

\* vendor_risk.py:93-95: a domain whose name imitates an own domain or a listed vendor
\* is found and counted whenever it delivers mail, is convicted or is answered to,
\* however long it has sent clean mail before, and is never taken for a known sender.
\* (The list shows the first MAX_ROWS of them, vendor_risk.py:232, the count all.)
ImitatorsAreFlagged ==
  \A reg \in Candidates \ (Anchors \union Freemail) :
    Resembles[reg] \intersect Anchors # {} => reg \in Lookalikes /\ reg \notin Compromised

=============================================================================
