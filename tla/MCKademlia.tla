----------------------------- MODULE MCKademlia -----------------------------
(* Instances of Kademlia for TLC: identifiers of two bytes of two bits.      *)
EXTENDS Kademlia, TLC

Id(a, b, c, d) == [i \in 1..4 |-> <<a, b, c, d>>[i]]

MCSelf == Id(0, 1, 0, 0)

\* Two contacts compete for one bucket, a third has another one.
SmallPeers == {Id(1, 0, 0, 0), Id(1, 0, 1, 1), Id(0, 1, 0, 1)}

MCKeys == {Id(1, 1, 0, 0)}

=============================================================================
