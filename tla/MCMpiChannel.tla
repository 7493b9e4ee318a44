---------------------------- MODULE MCMpiChannel ----------------------------
(* Small instances of MpiChannel. *)
EXTENDS MpiChannel, TLC

CONSTANTS h1, h2, h3, h4

Infos == Permutations(Handle)

AnyInfo == [nm \in SegmentName |-> Handle]

\* One info for each segment: infos are alike, so that it matters little which
\* of them a segment gets.
OneInfo == [nm \in SegmentName |->
               CASE nm = <<1, 0>> -> {h1} [] nm = <<1, 1>> -> {h2}
                 [] nm = <<2, 0>> -> {h3} [] nm = <<2, 1>> -> {h4} [] OTHER -> {}]

Sends == [c \in Core |-> {"send"}]
SendsDestroys == [c \in Core |-> IF c = 0 THEN {"send", "destroy"} ELSE {"destroy"}]
SenderReceiver == [c \in Core |-> IF c = 0 THEN {"send"} ELSE {"destroy"}]
=============================================================================
