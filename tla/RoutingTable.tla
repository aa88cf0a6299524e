---------------------------- MODULE RoutingTable ----------------------------
(* The routing table of the DHT (network/dht/kbuckets.js, routing-table.js)  *)
(* as operators on a value: one bucket per index, each an ordered list of at *)
(* most K contacts and one contact that waits for a place.  A contact is     *)
(* known by its identifier; its address and time stamps decide nothing here. *)
EXTENDS NodeID, FiniteSets, Sequences, SequencesExt

CONSTANTS K,             \* contacts per bucket: 20 in the code
          Self,          \* localNodeId
          NoContact      \* _pending = null

ASSUME TableAssumption == /\ K \in Nat \ {0}
                          /\ Self \in NodeIds
                          /\ NoContact \notin NodeIds

EmptyBucket == [contacts |-> <<>>, pending |-> NoContact]

EmptyTable == [b \in BucketIndices |-> EmptyBucket]

Members(bucket) == ToSet(bucket.contacts)

\* _findContactIndex() returns i + 1.
FoundAt(bucket, id, i) == i \in DOMAIN bucket.contacts /\ bucket.contacts[i] = id

isFull(bucket) == Len(bucket.contacts) >= K

-----------------------------------------------------------------------------
(* KBucket *)

\* Faulty variant: a newcomer pushes the oldest contact out of a full bucket.
BucketAddEvicts(bucket, id) ==
    IF id \in Members(bucket)
    THEN bucket
    ELSE [bucket EXCEPT !.contacts = Append(IF isFull(bucket) THEN Tail(@) ELSE @, id)]

\* KBucket.add(): a known contact becomes the most recent one; a full bucket
\* keeps its contacts and remembers only the last newcomer.
BucketAdd(bucket, id) ==
    IF id \in Members(bucket)
    THEN LET i == CHOOSE j \in DOMAIN bucket.contacts : FoundAt(bucket, id, j)
         IN [bucket EXCEPT !.contacts = Append(RemoveAt(@, i), id)]
    ELSE IF isFull(bucket)
         THEN [bucket EXCEPT !.pending = id]
         ELSE [bucket EXCEPT !.contacts = Append(@, id)]

\* Faulty variant: the promoted contact is also kept as the waiting one.
BucketRemoveKeepsPending(bucket, id) ==
    LET rest == SelectSeq(bucket.contacts, LAMBDA c : c # id)
    IN [bucket EXCEPT !.contacts =
            IF id \in Members(bucket) /\ bucket.pending # NoContact
            THEN Append(rest, bucket.pending)
            ELSE rest]

\* KBucket.remove(): the waiting contact takes the free place.
BucketRemove(bucket, id) ==
    IF id \notin Members(bucket)
    THEN bucket
    ELSE LET i == CHOOSE j \in DOMAIN bucket.contacts : FoundAt(bucket, id, j)
             rest == RemoveAt(bucket.contacts, i)
         IN IF bucket.pending = NoContact
            THEN [bucket EXCEPT !.contacts = rest]
            ELSE [contacts |-> Append(rest, bucket.pending),
                  pending |-> NoContact]

-----------------------------------------------------------------------------
(* RoutingTable *)

BucketOf(id) == bucketIndex(Self, id)

\* addNode(): a node never adds itself.
addNode(table, id) ==
    IF id = Self
    THEN table
    ELSE [table EXCEPT ![BucketOf(id)] = BucketAdd(@, id)]

removeNode(table, id) ==
    [table EXCEPT ![BucketOf(id)] = BucketRemove(@, id)]

Contacts(table) == UNION {Members(table[b]) : b \in BucketIndices}

\* getClosestNodes(target, count): the count contacts nearest to the target,
\* all of them when there are fewer.
getClosestNodes(table, target, count) ==
    {c \in Contacts(table) :
        Cardinality({d \in Contacts(table) : Closer(d, c, target)}) < count}

NonEmptyBuckets(table) == {b \in BucketIndices : table[b].contacts # <<>>}

\* _generateIdForBucket(index), with the random bits of the identifier chosen
\* by the caller.  The callers pass bucket.index, which KBucket does not define
\* (the field is bucketIndex): with an undefined index every byte stays zero.
Undefined == -1

generateIdForBucket(index, random) ==
    IF index \notin BucketIndices
    THEN ZeroId
    ELSE LET byte == index \div ByteBits
             bit  == byte * ByteBits + (index % ByteBits) + 1
         IN [i \in Positions |->
                CASE i < bit -> Self[i]
                  [] i = bit -> 1 - Self[i]
                  [] i > bit /\ i <= (byte + 1) * ByteBits -> 0
                  [] OTHER -> random[i]]

-----------------------------------------------------------------------------
(* A well-formed table *)

BucketType == [contacts : Seq(NodeIds), pending : NodeIds \cup {NoContact}]

TableType == [BucketIndices -> BucketType]

\* No contact is listed twice and none is the node itself.
BucketIsASet(bucket) ==
    \A i, j \in DOMAIN bucket.contacts :
        bucket.contacts[i] = bucket.contacts[j] => i = j

\* A contact waits only while the bucket is full, and is not in it already.
PendingWaits(bucket) ==
    bucket.pending # NoContact =>
        Len(bucket.contacts) = K /\ bucket.pending \notin Members(bucket)

\* Every contact, waiting ones included, is in the bucket of its distance.
WellPlaced(table, b) ==
    \A id \in Members(table[b]) \cup ({table[b].pending} \ {NoContact}) :
        id # Self /\ BucketOf(id) = b

TableOK(table) ==
    \A b \in BucketIndices : /\ Len(table[b].contacts) <= K
                             /\ BucketIsASet(table[b])
                             /\ PendingWaits(table[b])
                             /\ WellPlaced(table, b)

=============================================================================
