---------------------------- MODULE MCShmSegment ----------------------------
(* Small instances of ShmSegment: two cores, the smallest pool without blocks *)
(* unless a run is about it.                                                  *)
EXTENDS ShmSegment, TLC

CONSTANTS c0, c1, t0, t1, u0, h1, h2, n1, n2

MCCoreOf == t0 :> c0 @@ t1 :> c1 @@ u0 :> c0

MCOneEach == t0 :> c0 @@ t1 :> c1

\* Any thread may open, close and send, or one core sends what the other gets.
MCTwoOnOne ==
    t0 :> {"open", "close", "send"} @@ u0 :> {"close", "get"}
    @@ t1 :> {"open", "close"}
MCOneWay ==
    t0 :> {"open", "close", "send_offset"}
    @@ t1 :> {"open", "close", "get", "get_offset"}

\* A block of size 1 and one of size 2.
MCPoolNumber == 0 :> 0 @@ 1 :> 1 @@ 2 :> 1
MCBlockSize == 0 :> 1 @@ 1 :> 1 @@ 2 :> 2

\* One block of the smallest pool and one of size 2.
MCTwoNumber == 0 :> 1 @@ 1 :> 0 @@ 2 :> 1

Symmetry == Permutations(Handle) \cup Permutations(Name)
=============================================================================
