------------------------------- MODULE NodeID -------------------------------
(* Node identifiers of the DHT (network/dht/node-id.js): fixed-width bit     *)
(* strings grouped in bytes, ordered by their XOR distance to a reference    *)
(* point.  An identifier is a function from bit positions, most significant  *)
(* first, so that the definitions hold for every width.                      *)
EXTENDS Integers

CONSTANTS NodeIdBytes,  \* NODE_ID_LENGTH: 32 in the code
          ByteBits      \* bits of a byte: 8 in the code

ASSUME WidthAssumption == /\ NodeIdBytes \in Nat \ {0}
                          /\ ByteBits \in Nat \ {0}

Bits == NodeIdBytes * ByteBits

Positions == 1..Bits

NodeIds == [Positions -> {0, 1}]

ZeroId == [i \in Positions |-> 0]

\* distance(): the XOR of the two identifiers.
distance(a, b) == [i \in Positions |-> IF a[i] = b[i] THEN 0 ELSE 1]

\* The first bit at which two identifiers differ.
FirstDifference(a, b, i) ==
    /\ i \in Positions
    /\ a[i] # b[i]
    /\ \A j \in Positions : j < i => a[j] = b[j]

\* compareDistances() < 0: d is lexicographically smaller than e.
Smaller(d, e) == \E i \in Positions : FirstDifference(d, e, i) /\ d[i] < e[i]

Closer(a, b, target) == Smaller(distance(target, a), distance(target, b))

\* bucketIndex(): the byte of the first difference counts from the end of the
\* identifier, the bit inside that byte from its most significant end, and an
\* identifier compared with itself has index 0.
bucketIndex(a, b) ==
    IF a = b
    THEN 0
    ELSE LET i == (CHOOSE p \in Positions : FirstDifference(a, b, p)) - 1
         IN (NodeIdBytes - 1 - (i \div ByteBits)) * ByteBits + (i % ByteBits)

BucketIndices == 0..(Bits - 1)

=============================================================================
