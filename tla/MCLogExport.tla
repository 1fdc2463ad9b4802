----------------------------- MODULE MCLogExport -----------------------------
(***************************************************************************)
(* An instance of LogExport for TLC: two files of the hours 2 and 3 of one *)
(* day, of which the second one never falls behind the horizon             *)
(***************************************************************************)
EXTENDS LogExportProps

CONSTANTS f1, f2

MCHourOf == [f \in Files |-> IF f = f1 THEN 2 ELSE 3]
=============================================================================
