---------------------------- MODULE MCTrustSync -----------------------------
(* Instances of TrustSync for TLC: a node that signs what it creates and one *)
(* without identity.                                                         *)
EXTENDS TrustSync, TLC

CONSTANTS a, b, s

OneWay == {<<a, b>>}

OneAndTwo == a :> 1 @@ b :> 2

NoneAndThree == a :> 0 @@ b :> 3

=============================================================================
