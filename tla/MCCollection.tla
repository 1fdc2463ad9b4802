---------------------------- MODULE MCCollection ----------------------------
(* Instances of CollectionProps for TLC: two runs at once, one message. *)
EXTENDS CollectionProps, TLC

CONSTANTS c1, c2, m1

MCRuns == {c1, c2}
MCMessages == {m1}
MCSentDays == {2, 4}
MCSymmetry == Permutations(MCRuns)
=============================================================================
