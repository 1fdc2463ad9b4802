---------------------------- MODULE MCEtdClient ----------------------------
(* Two threads of one tenant, a search of two windows with three pages. *)
EXTENDS EtdClient, TLC

CONSTANTS t1, t2

MCThreads == {t1, t2}
MCPages == <<2, 1>>
=============================================================================
