------------------------------ MODULE MCBoot ------------------------------
(* Small instances of Boot: an empty smallest pool and one that may run out. *)
EXTENDS Boot, TLC

CONSTANTS v1, v2

MCBuilds == {0 :> v1 @@ 1 :> v1, 0 :> v1 @@ 1 :> v2}

MCCore == Cpu \X (0..MaxResets)
MCPoolNumber == 0 :> 0 @@ 1 :> 4
MCBlockSize == 0 :> 1 @@ 1 :> 2
=============================================================================
