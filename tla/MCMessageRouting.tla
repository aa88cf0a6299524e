-------------------------- MODULE MCMessageRouting --------------------------
(* Instances of MessageRouting for TLC: three nodes in a row, where the      *)
(* routes of two of them may form a loop.                                    *)
EXTENDS MessageRouting, TLC

CONSTANTS a, b, c

AllKeys == [n \in Nodes |-> Nodes]

AToC == {<<a, c>>}

Advert(node, to, via, metric) ==
    [node |-> node, to |-> to, via |-> via, metric |-> metric]

Loop == {Advert(a, c, b, 1), Advert(b, c, c, 2), Advert(b, c, a, 1)}

=============================================================================
