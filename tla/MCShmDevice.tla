---------------------------- MODULE MCShmDevice ----------------------------
(* A small instance of ShmDevice: two processes that have one device open. *)
EXTENDS ShmDevice

CONSTANTS p1, p2, d1

SameDevice == [p \in Process |-> d1]
=============================================================================
