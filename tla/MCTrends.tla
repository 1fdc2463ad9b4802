------------------------------ MODULE MCTrends ------------------------------
(* Two tenants that compare three months with the three before them. *)
EXTENDS Trends

TrendSpec == TrendInit /\ [][TrendNext]_TrendVars

\* Five days a month; the busy ones have up to twice the rate of the quiet ones
MCDaysOf == [busy |-> 3, quiet |-> 2]
MCMessages == [t1 |-> [busy |-> 10, quiet |-> 10], t2 |-> [busy |-> 10, quiet |-> 10]]
MCThreats == [t1 |-> [busy |-> 8, quiet |-> 4], t2 |-> [busy |-> 2, quiet |-> 1]]
MCGaps == {[busy |-> 3, quiet |-> 1], [busy |-> 2, quiet |-> 2], [busy |-> 3, quiet |-> 0],
           [busy |-> 0, quiet |-> 2], [busy |-> 0, quiet |-> 0]}
=============================================================================
