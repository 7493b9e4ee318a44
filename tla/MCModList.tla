----------------------------- MODULE MCModList -----------------------------
(* Five list nodes, so that entries leave the middle of a list. *)
EXTENDS ModList

CONSTANTS n1, n2, n3, n4, n5

MCOrder == <<n1, n2, n3, n4, n5>>
=============================================================================
