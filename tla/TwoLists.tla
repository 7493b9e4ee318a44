------------------------------ MODULE TwoLists ------------------------------
(***************************************************************************)
(* What the free and the busy list of a heap (struct Mod_heap) or of the   *)
(* control area (struct Shm_control_area) promise: two stacks over one set *)
(* of nodes.  Allocation moves the top of the free stack to the busy one;  *)
(* release takes a node out of the middle of the busy stack.               *)
(***************************************************************************)
EXTENDS Naturals, Sequences, SequencesExt

CONSTANT Node

VARIABLES free, busy

vars == <<free, busy>>

InSomeOrder == {s \in [1..Cardinality(Node) -> Node] : IsInjective(s)}

Init == free \in InSomeOrder /\ busy = <<>>

Allocate ==
    /\ free # <<>>
    /\ busy' = <<Head(free)>> \o busy
    /\ free' = Tail(free)

Release(n) ==
    /\ \E i \in 1..Len(busy) : busy[i] = n /\ busy' = RemoveAt(busy, i)
    /\ free' = <<n>> \o free

Next == Allocate \/ \E n \in Node : Release(n)

Spec == Init /\ [][Next]_vars
=============================================================================
