----------------------------- MODULE MCNetwork ------------------------------
(* Instances of Network for TLC: two connections; the peer of one of them    *)
(* sends frames, the other one is silent.                                    *)
EXTENDS Network, TLC

CONSTANTS c1, c2

Scripts == (c1 :> {<<"data", "data", "badHeader">>}) @@ (c2 :> {<<>>})

=============================================================================
