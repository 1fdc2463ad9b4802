------------------------------ MODULE Campaigns ------------------------------
(***************************************************************************)
(* Convicted messages grouped into campaigns (app/reports/analysis.py),    *)
(* and what the reports on campaigns and on attacked people make of them,  *)
(* as the threats of a period come in.                                     *)
(*                                                                         *)
(* A message has links, what campaigns are recognised by (its subject with *)
(* the sender's domain, the hosts of its URLs, the hashes of its           *)
(* attachments), its recipients, and its signs, for which attack_score has *)
(* points.  Scores are in half points.                                     *)
(***************************************************************************)
EXTENDS Integers, FiniteSets, FiniteSetsExt, Sequences, SequencesExt

CONSTANTS
  Links,         \* numbers, in the order of campaign_keys
  GenericLinks,  \* hosts of GENERIC_URL_HOSTS among them
  People, Vips,  \* mailboxes, numbers in the order of their names
  Arrivals,      \* the messages that may come
  TargetedMax, MassMin, \* TARGETED_MAX_RECIPIENTS, MASS_MIN_RECIPIENTS
  ListedPeople,  \* TOP_N of the attack index
  MaxConvicted   \* bound on the messages of a period

\* What a row tells of a message besides its links and its recipients: the points
\* of its verdict and of its techniques; delivered before the verdict; something was
\* done about it, by ETD itself; outgoing or internal; the sender; a week old
Signs == [weight : 0..10, severity : 0..5, impersonation : BOOLEAN, retro : BOOLEAN, acted : BOOLEAN,
          auto : BOOLEAN, outgoing : BOOLEAN, from : Nat, old : BOOLEAN]

ConvictedMessage == [links : SUBSET Links, to : SUBSET People, sign : Signs]

ASSUME CampaignConstants ==
  /\ \A m \in Arrivals : m \in ConvictedMessage
  /\ Links \subseteq Nat /\ GenericLinks \subseteq Links /\ Vips \subseteq People
  /\ {TargetedMax, MassMin, ListedPeople, MaxConvicted} \subseteq Nat

VARIABLE convictions  \* the threats of the period, newest first

CampaignVars == <<convictions>>

CampaignInit == convictions = <<>>

\* A message of an earlier age does not come after one of a later
Convicted(m) ==
  /\ Len(convictions) < MaxConvicted
  /\ m.sign.old => \A i \in DOMAIN convictions : convictions[i].sign.old
  /\ convictions' = <<m>> \o convictions

CampaignNext == \E m \in Arrivals : Convicted(m)

-----------------------------------------------------------------------------
(* cluster_campaigns: a union-find over the links *)

\* campaign_keys: a host that many share never links
KeysOf(m) == SetToSortSeq(m.links \ GenericLinks, <)

RootOf(parent, i) ==
  LET root[j \in DOMAIN parent] == IF parent[j] = j THEN j ELSE root[parent[j]] IN root[i]

\* Mutant: the second message is hung below the first, without its group
UnionAlone(parent, a, b) == [parent EXCEPT ![b] = RootOf(parent, a)]

Union(parent, a, b) ==
  LET ra == RootOf(parent, a)
      rb == RootOf(parent, b)
  IN [parent EXCEPT ![rb] = ra]

KeysInTurn(messages) ==
  FlattenSeq([i \in DOMAIN messages |-> [j \in DOMAIN KeysOf(messages[i]) |-> <<i, KeysOf(messages[i])[j]>>]])

\* The first message with a key is noted, every other one united with it
Clustered(messages) ==
  LET Key(acc, at) ==
        LET i == at[1]
            key == at[2]
        IN IF acc.first[key] = 0 THEN [acc EXCEPT !.first[key] = i]
           ELSE [acc EXCEPT !.parent = Union(@, acc.first[key], i)]
  IN FoldLeft(Key, [parent |-> [i \in DOMAIN messages |-> i], first |-> [k \in Links |-> 0]],
              KeysInTurn(messages)).parent

\* Every group, as the set of its messages
Groups(messages) ==
  LET parent == Clustered(messages) IN
  {{i \in DOMAIN messages : RootOf(parent, i) = root} : root \in {RootOf(parent, j) : j \in DOMAIN messages}}

CampaignsOf(messages) == {g \in Groups(messages) : Cardinality(g) >= 2}
Singletons(messages) == Cardinality({g \in Groups(messages) : Cardinality(g) < 2})

-----------------------------------------------------------------------------
(* The attack index *)

\* attack_score: points of a message for each of its recipients
AttackScore(m) ==
  LET s == m.sign
      n == Cardinality(m.to)
      sum == s.weight + s.severity + (IF s.impersonation THEN 4 ELSE 0) + (IF s.retro THEN 3 ELSE 0)
             + (IF s.acted THEN 0 ELSE 5)
  IN sum * (IF n \in 1..TargetedMax THEN 3 ELSE IF n >= MassMin THEN 1 ELSE 2)

MessagesOf(p) == {i \in DOMAIN convictions : p \in convictions[i].to}
ScoreOf(p) == MapThenSumSet(LAMBDA i : AttackScore(convictions[i]), MessagesOf(p))
Attacked == {p \in People : MessagesOf(p) # {}}

\* By score, then by name
Ranked == SetToSortSeq(Attacked, LAMBDA p, q : ScoreOf(p) > ScoreOf(q) \/ (ScoreOf(p) = ScoreOf(q) /\ p < q))

ListedRows == SubSeq(Ranked, 1, Min({ListedPeople, Len(Ranked)}))

\* The campaigns a listed person was reached by; singletons count as campaigns here
ReachedBy(p) == {g \in Groups(convictions) : g \intersect MessagesOf(p) # {}}

\* VIPs among the rows, then those that were attacked and are not
AttackedVips ==
  SelectSeq(ListedRows, LAMBDA p : p \in Vips)
  \o SetToSeq({v \in Vips \intersect Attacked : ~Contains(ListedRows, v)})

-----------------------------------------------------------------------------

\* Messages linked to one of a set, directly or through others
Chain[n \in Nat, i \in Nat] ==
  IF n = 0 THEN {i}
  ELSE {j \in DOMAIN convictions : \E k \in Chain[n - 1, i] :
          j = k \/ (convictions[j].links \intersect convictions[k].links) \ GenericLinks # {}}

\* analysis.py:17-21: messages are in one campaign exactly when a chain of shared
\* subjects, hosts or hashes joins them, in whatever order they came; every message
\* is in one campaign or alone, a person's campaigns are the chains that reached
\* them, and every attacked VIP is shown once, on the list or below it.
CampaignsAddUp ==
  LET Whole(i) == Chain[Len(convictions), i]
      sizes == MapThenSumSet(Cardinality, CampaignsOf(convictions))
  IN /\ Groups(convictions) = {Whole(i) : i \in DOMAIN convictions}
     /\ sizes + Singletons(convictions) = Len(convictions)
     /\ \A p \in Attacked : Cardinality(ReachedBy(p)) = Cardinality({Whole(i) : i \in MessagesOf(p)})
     /\ \A v \in Vips \intersect Attacked : Cardinality({i \in DOMAIN AttackedVips : AttackedVips[i] = v}) = 1
=============================================================================
