---------------------------- MODULE MCPaymentLedger ----------------------------
(* PaymentLedger on a small instance: two buyers, one seller of both orders,   *)
(* the platform selling part of the second order itself.                       *)
EXTENDS PaymentLedger, TLC

CONSTANTS o1, o2, ann, bob, sue, platform, clearing, funding, topAnn, drawSue

MCOwners == {ann, bob, sue, platform, clearing, funding}
MCBuyer == (o1 :> ann) @@ (o2 :> bob)
\* With a fee of 10%: 15 and 25 give fees 1 and 2, and 5 gives none.
MCAllocation ==
    [o \in Orders |-> [w \in Owners |->
        CASE w = sue -> (IF o = o1 THEN 15 ELSE 25) [] w = platform /\ o = o2 -> 5 [] OTHER -> 0]]
MCTarget == (topAnn :> ann) @@ (drawSue :> sue)
MCDelta == (topAnn :> 15) @@ (drawSue :> -14)
MCOwnerOrder == (ann :> 1) @@ (bob :> 2) @@ (clearing :> 3) @@ (funding :> 4) @@ (platform :> 5) @@ (sue :> 6)
MCIdOrder == (sue :> 1) @@ (platform :> 2) @@ (funding :> 3) @@ (clearing :> 4) @@ (bob :> 5) @@ (ann :> 6)

Symmetry == Permutations(Workers)
=============================================================================
