--------------------------- MODULE KademliaProofs ---------------------------
(* Proofs about the routing table and the pending calls of a DHT node.       *)
EXTENDS Kademlia, SequenceTheorems, WellFoundedInduction, TLAPS

-----------------------------------------------------------------------------
(* Identifiers *)

\* Every non-empty set of natural numbers has a least element.
LEMMA LeastNumber ==
    ASSUME NEW S \in SUBSET Nat, S # {}
    PROVE  \E m \in S : \A n \in S : m <= n
<1> DEFINE R == {ss \in Nat \X Nat : ss[1] < ss[2]}
<1>1. IsWellFoundedOn(R, Nat)
    BY NatLessThanWellFounded DEF OpToRel
<1>2. \A m, n \in Nat : m < n => <<m, n>> \in R
    OBVIOUS
<1> HIDE DEF R
<1>3. \E m \in S : \A n \in S : <<n, m>> \notin R
    BY <1>1, WFMin
<1>4. PICK m \in S : \A n \in S : <<n, m>> \notin R
    BY <1>3
<1>5. \A n \in S : ~ (n < m)
    BY <1>2, <1>4
<1>6. \A n \in S : n \in Nat /\ m \in Nat
    OBVIOUS
<1>7. \A n \in S : m <= n
    BY <1>5, <1>6
<1> QED
    BY <1>7

\* Two different identifiers have a first difference, and only one.
LEMMA FirstDifferenceExists ==
    ASSUME NEW a \in NodeIds, NEW b \in NodeIds, a # b
    PROVE  \E p \in Positions : FirstDifference(a, b, p)
<1>1. Positions \subseteq Nat
    BY WidthAssumption DEF Positions, Bits
<1>2. \E p \in Positions : a[p] # b[p]
    BY DEF NodeIds
<1> DEFINE D == {p \in Positions : a[p] # b[p]}
<1>3. PICK m \in D : \A p \in D : m <= p
  <2>1. D \in SUBSET Nat /\ D # {}
    BY <1>1, <1>2
  <2> QED
    BY <2>1, LeastNumber
<1>4. \A j \in Positions : j < m => a[j] = b[j]
  <2> SUFFICES ASSUME NEW j \in Positions, j < m, a[j] # b[j]
               PROVE  FALSE
    OBVIOUS
  <2>1. j \in D /\ j \in Nat /\ m \in Nat
    BY <1>1
  <2> QED
    BY <1>3, <2>1
<1> QED
    BY <1>3, <1>4 DEF FirstDifference

\* The position of a first difference, and with it the bucket, is determined.
LEMMA FirstDifferenceUnique ==
    ASSUME NEW a, NEW b, NEW p, NEW q,
           FirstDifference(a, b, p), FirstDifference(a, b, q)
    PROVE  p = q
<1>1. p \in Int /\ q \in Int
    BY WidthAssumption DEF FirstDifference, Positions, Bits
<1>2. ~ (p < q) /\ ~ (q < p)
    BY DEF FirstDifference
<1> QED
    BY <1>1, <1>2

\* Every identifier has a bucket (NodeID.bucketIndex stays below the number of
\* bits, so getBucketFor needs no clamping for full-width tables).
LEMMA BucketIndexType ==
    ASSUME NEW a \in NodeIds, NEW b \in NodeIds
    PROVE  bucketIndex(a, b) \in BucketIndices
<1> DEFINE B == NodeIdBytes
           W == ByteBits
<1>1. /\ B \in Nat /\ B >= 1 /\ W \in Nat /\ W >= 1
      /\ Bits \in Nat /\ Bits >= 1
    BY WidthAssumption DEF Bits
<1>2. CASE a = b
    BY <1>1, <1>2 DEF bucketIndex, BucketIndices
<1>3. CASE a # b
  <2> DEFINE i == (CHOOSE p \in Positions : FirstDifference(a, b, p)) - 1
             q == i \div W
             r == i % W
  <2>1. i \in 0..(Bits - 1)
    BY <1>1, <1>3, FirstDifferenceExists DEF Positions
  <2>2. q \in Nat /\ r \in 0..(W - 1)
    <3>1. i \in Nat
        BY <2>1, <1>1
    <3> HIDE DEF i
    <3>2. q \in Int /\ q >= 0
        BY <1>1, <3>1
    <3>3. r \in 0..(W - 1)
        BY <1>1, <3>1
    <3> QED
        BY <3>2, <3>3
  <2>3. q <= B - 1
    <3>1. i \in Nat /\ i < B * W
        BY <2>1, <1>1 DEF Bits
    <3> HIDE DEF i
    <3>2. i \div W < B
        BY <1>1, <3>1
    <3> QED
        BY <1>1, <2>2, <3>2
  <2>4. (B - 1 - q) * W + r \in 0..(B * W - 1)
    <3>1. (B - 1 - q) \in 0..(B - 1)
        BY <1>1, <2>2, <2>3
    <3>2. (B - 1 - q) * W \in Nat /\ (B - 1 - q) * W <= (B - 1) * W
        BY <1>1, <3>1
    <3>3. (B - 1) * W = B * W - W
        BY <1>1
    <3> QED
        BY <1>1, <2>2, <3>2, <3>3
  <2>5. bucketIndex(a, b) = (B - 1 - q) * W + r
    BY <1>3 DEF bucketIndex
  <2> HIDE DEF i, q, r
  <2> QED
    BY <2>4, <2>5 DEF BucketIndices, Bits
<1> QED
    BY <1>2, <1>3

-----------------------------------------------------------------------------
(* Buckets *)

\* RemoveAt(s, i) keeps the other elements of s in their order.
LEMMA RemoveAtProperties ==
    ASSUME NEW S, NEW s \in Seq(S), NEW i \in 1..Len(s)
    PROVE  /\ RemoveAt(s, i) \in Seq(S)
           /\ Len(RemoveAt(s, i)) = Len(s) - 1
           /\ \A j \in 1..(Len(s) - 1) :
                RemoveAt(s, i)[j] = IF j < i THEN s[j] ELSE s[j + 1]
<1> DEFINE left == SubSeq(s, 1, i - 1)
           right == SubSeq(s, i + 1, Len(s))
<1>1. Len(s) \in Nat /\ i \in Int /\ i >= 1 /\ i <= Len(s)
    OBVIOUS
<1>2. \A j \in 1..Len(s) : s[j] \in S
    BY ElementOfSeq
<1>3. /\ left \in Seq(S) /\ Len(left) = i - 1
      /\ \A j \in 1..(i - 1) : left[j] = s[j]
  <2>1. \A j \in 1..(i - 1) : s[j] \in S
    BY <1>1, <1>2
  <2>2. /\ left \in Seq(S)
        /\ Len(left) = IF 1 <= i - 1 THEN (i - 1) - 1 + 1 ELSE 0
        /\ \A j \in 1..((i - 1) - 1 + 1) : left[j] = s[1 + j - 1]
    BY <1>1, <2>1, SubSeqProperties
  <2> QED
    BY <1>1, <2>2
<1>4. /\ right \in Seq(S) /\ Len(right) = Len(s) - i
      /\ \A j \in 1..(Len(s) - i) : right[j] = s[i + j]
  <2>1. \A j \in (i + 1)..Len(s) : s[j] \in S
    BY <1>1, <1>2
  <2>2. /\ right \in Seq(S)
        /\ Len(right) = IF i + 1 <= Len(s) THEN Len(s) - (i + 1) + 1 ELSE 0
        /\ \A j \in 1..(Len(s) - (i + 1) + 1) : right[j] = s[(i + 1) + j - 1]
    BY <1>1, <2>1, SubSeqProperties
  <2> QED
    BY <1>1, <2>2
<1>5. RemoveAt(s, i) = left \o right
    BY DEF RemoveAt
<1> HIDE DEF left, right
<1>6. /\ left \o right \in Seq(S)
      /\ Len(left \o right) = Len(left) + Len(right)
      /\ \A j \in 1..(Len(left) + Len(right)) : (left \o right)[j] =
            IF j <= Len(left) THEN left[j] ELSE right[j - Len(left)]
    BY <1>3, <1>4, ConcatProperties
<1>7. \A j \in 1..(Len(s) - 1) :
        (left \o right)[j] = IF j < i THEN s[j] ELSE s[j + 1]
  <2> TAKE j \in 1..(Len(s) - 1)
  <2>1. (left \o right)[j] =
            IF j <= i - 1 THEN left[j] ELSE right[j - (i - 1)]
    BY <1>1, <1>3, <1>4, <1>6
  <2>2. CASE j < i
    BY <1>1, <1>3, <2>1, <2>2
  <2>3. CASE ~ (j < i)
    <3>1. j - (i - 1) \in 1..(Len(s) - i)
        BY <1>1, <2>3
    <3>2. right[j - (i - 1)] = s[i + (j - (i - 1))]
        BY <1>4, <3>1
    <3>3. i + (j - (i - 1)) = j + 1
        BY <1>1
    <3> QED
        BY <1>1, <2>1, <2>3, <3>2, <3>3
  <2> QED
    BY <2>2, <2>3
<1> QED
    BY <1>1, <1>3, <1>4, <1>5, <1>6, <1>7

GoodBucket(bucket) ==
    /\ bucket \in BucketType
    /\ Len(bucket.contacts) <= K
    /\ BucketIsASet(bucket)
    /\ PendingWaits(bucket)

\* Taking one contact out of a bucket leaves the others, each once.
LEMMA WithoutContact ==
    ASSUME NEW bucket, GoodBucket(bucket), NEW id \in Members(bucket),
           NEW i, FoundAt(bucket, id, i)
    PROVE  LET rest == RemoveAt(bucket.contacts, i)
           IN /\ rest \in Seq(NodeIds)
              /\ Len(rest) = Len(bucket.contacts) - 1
              /\ ToSet(rest) = Members(bucket) \ {id}
              /\ \A j, l \in DOMAIN rest : rest[j] = rest[l] => j = l
<1> DEFINE s == bucket.contacts
           rest == RemoveAt(s, i)
           shift(j) == IF j < i THEN j ELSE j + 1
<1>1. s \in Seq(NodeIds) /\ i \in 1..Len(s) /\ s[i] = id /\ Len(s) \in Nat
    BY DEF GoodBucket, BucketType, FoundAt
<1>2. /\ rest \in Seq(NodeIds)
      /\ Len(rest) = Len(s) - 1
      /\ \A j \in 1..(Len(s) - 1) : rest[j] = IF j < i THEN s[j] ELSE s[j + 1]
    BY <1>1, RemoveAtProperties
<1>3. DOMAIN s = 1..Len(s) /\ DOMAIN rest = 1..(Len(s) - 1)
    BY <1>1, <1>2
<1>4. \A j \in DOMAIN rest : /\ shift(j) \in DOMAIN s \ {i}
                             /\ rest[j] = s[shift(j)]
    BY <1>1, <1>2, <1>3
<1>5. \A j \in DOMAIN s \ {i} : \E l \in DOMAIN rest : shift(l) = j
  <2> TAKE j \in DOMAIN s \ {i}
  <2>1. CASE j < i
    <3>1. j \in DOMAIN rest /\ shift(j) = j
        BY <1>1, <1>3, <2>1
    <3> QED
        BY <3>1
  <2>2. CASE ~ (j < i)
    <3>1. j - 1 \in DOMAIN rest /\ shift(j - 1) = j
        BY <1>1, <1>3, <2>2
    <3> QED
        BY <3>1
  <2> QED
    BY <2>1, <2>2
<1>6. \A j, l \in DOMAIN rest : shift(j) = shift(l) => j = l
    BY <1>1, <1>3
<1>7. \A j, l \in DOMAIN s : s[j] = s[l] => j = l
    BY DEF GoodBucket, BucketIsASet
<1> HIDE DEF shift, rest
<1>8. \A j, l \in DOMAIN rest : rest[j] = rest[l] => j = l
    BY <1>4, <1>6, <1>7
<1>9. {rest[j] : j \in DOMAIN rest} = {s[j] : j \in DOMAIN s} \ {id}
  <2>1. \A j \in DOMAIN rest : rest[j] \in {s[l] : l \in DOMAIN s} \ {id}
    BY <1>1, <1>3, <1>4, <1>7
  <2>2. \A j \in DOMAIN s : s[j] # id => \E l \in DOMAIN rest : rest[l] = s[j]
    BY <1>1, <1>4, <1>5
  <2> QED
    BY <2>1, <2>2
<1>10. ToSet(rest) = Members(bucket) \ {id}
    BY <1>9 DEF ToSet, Members
<1> QED
    BY <1>2, <1>8, <1>10 DEF rest

\* Appending a contact that is not in a list of different contacts.
LEMMA WithContact ==
    ASSUME NEW s \in Seq(NodeIds), NEW id \in NodeIds, id \notin ToSet(s),
           \A j, l \in DOMAIN s : s[j] = s[l] => j = l
    PROVE  /\ Append(s, id) \in Seq(NodeIds)
           /\ Len(Append(s, id)) = Len(s) + 1
           /\ ToSet(Append(s, id)) = ToSet(s) \cup {id}
           /\ \A j, l \in DOMAIN Append(s, id) :
                Append(s, id)[j] = Append(s, id)[l] => j = l
<1> DEFINE t == Append(s, id)
<1>1. /\ t \in Seq(NodeIds) /\ Len(t) = Len(s) + 1 /\ Len(s) \in Nat
      /\ \A j \in 1..Len(s) : t[j] = s[j]
      /\ t[Len(s) + 1] = id
    BY AppendProperties
<1> HIDE DEF t
<1>2. DOMAIN s = 1..Len(s) /\ DOMAIN t = 1..(Len(s) + 1)
    BY <1>1
<1>3. \A j \in DOMAIN s : s[j] # id
    BY DEF ToSet
<1>4. \A j, l \in DOMAIN t : t[j] = t[l] => j = l
    BY <1>1, <1>2, <1>3
<1>5. {t[j] : j \in DOMAIN t} = {s[j] : j \in DOMAIN s} \cup {id}
    BY <1>1, <1>2
<1> QED
    BY <1>1, <1>4, <1>5 DEF t, ToSet

\* KBucket.add keeps a bucket good, loses no contact, and takes a newcomer only
\* while there is room.
LEMMA BucketAddKeeps ==
    ASSUME NEW bucket, GoodBucket(bucket), NEW id \in NodeIds
    PROVE  LET r == BucketAdd(bucket, id)
           IN /\ GoodBucket(r)
              /\ r.pending \in {bucket.pending, id}
              /\ \/ Members(r) = Members(bucket)
                 \/ Members(r) = Members(bucket) \cup {id} /\ ~isFull(bucket)
<1> DEFINE s == bucket.contacts
           r == BucketAdd(bucket, id)
<1>1. /\ s \in Seq(NodeIds) /\ Len(s) \in Nat /\ Len(s) <= K /\ K \in Nat
      /\ bucket = [contacts |-> s, pending |-> bucket.pending]
      /\ bucket.pending \in NodeIds \cup {NoContact}
      /\ \A j, l \in DOMAIN s : s[j] = s[l] => j = l
    BY TableAssumption DEF GoodBucket, BucketType, BucketIsASet
<1>2. CASE id \in Members(bucket)
  <2>1. PICK i : /\ i = CHOOSE j \in DOMAIN s : FoundAt(bucket, id, j)
                 /\ FoundAt(bucket, id, i)
    BY <1>2 DEF Members, ToSet, FoundAt
  <2> DEFINE rest == RemoveAt(s, i)
  <2>2. /\ rest \in Seq(NodeIds) /\ Len(rest) = Len(s) - 1
        /\ ToSet(rest) = Members(bucket) \ {id}
        /\ \A j, l \in DOMAIN rest : rest[j] = rest[l] => j = l
    <3>1. FoundAt(bucket, id, i)
        BY <2>1
    <3> QED
        BY ONLY <1>2, <3>1, GoodBucket(bucket), WithoutContact
  <2> HIDE DEF rest
  <2>3. r = [contacts |-> Append(rest, id), pending |-> bucket.pending]
    BY <1>1, <1>2, <2>1 DEF BucketAdd, rest
  <2>4. /\ Append(rest, id) \in Seq(NodeIds)
        /\ Len(Append(rest, id)) = Len(s)
        /\ ToSet(Append(rest, id)) = Members(bucket)
        /\ \A j, l \in DOMAIN Append(rest, id) :
             Append(rest, id)[j] = Append(rest, id)[l] => j = l
    <3>1. id \notin ToSet(rest)
        BY <2>2
    <3>2. /\ Append(rest, id) \in Seq(NodeIds)
          /\ Len(Append(rest, id)) = Len(rest) + 1
          /\ ToSet(Append(rest, id)) = ToSet(rest) \cup {id}
          /\ \A j, l \in DOMAIN Append(rest, id) :
               Append(rest, id)[j] = Append(rest, id)[l] => j = l
        BY <2>2, <3>1, WithContact
    <3> QED
        BY <1>1, <1>2, <2>2, <3>2
  <2> HIDE DEF r
  <2>5. Members(r) = Members(bucket)
    BY <2>3, <2>4 DEF Members
  <2>6. r \in BucketType /\ Len(r.contacts) <= K /\ BucketIsASet(r)
    BY <1>1, <2>3, <2>4 DEF BucketType, BucketIsASet
  <2>7. PendingWaits(r)
    BY <2>3, <2>4, <2>5 DEF GoodBucket, PendingWaits
  <2> QED
    BY <2>3, <2>5, <2>6, <2>7 DEF GoodBucket, r
<1>3. CASE id \notin Members(bucket) /\ isFull(bucket)
  <2>1. r = [contacts |-> s, pending |-> id]
    BY <1>1, <1>3 DEF BucketAdd
  <2> HIDE DEF r
  <2>2. Len(s) = K
    BY <1>1, <1>3 DEF isFull
  <2>3. Members(r) = Members(bucket)
    BY <2>1 DEF Members
  <2>4. r \in BucketType /\ Len(r.contacts) <= K /\ BucketIsASet(r)
    BY <1>1, <2>1 DEF BucketType, BucketIsASet
  <2>5. PendingWaits(r)
    BY <1>3, <2>1, <2>2, <2>3 DEF PendingWaits
  <2> QED
    BY <2>1, <2>3, <2>4, <2>5 DEF GoodBucket, r
<1>4. CASE id \notin Members(bucket) /\ ~isFull(bucket)
  <2>1. r = [contacts |-> Append(s, id), pending |-> bucket.pending]
    BY <1>1, <1>4 DEF BucketAdd
  <2>2. /\ Append(s, id) \in Seq(NodeIds)
        /\ Len(Append(s, id)) = Len(s) + 1
        /\ ToSet(Append(s, id)) = ToSet(s) \cup {id}
        /\ \A j, l \in DOMAIN Append(s, id) :
             Append(s, id)[j] = Append(s, id)[l] => j = l
    BY <1>1, <1>4, WithContact DEF Members
  <2> HIDE DEF r
  <2>3. Len(s) < K
    BY <1>1, <1>4 DEF isFull
  <2>4. bucket.pending = NoContact
    BY <1>1, <2>3 DEF GoodBucket, PendingWaits
  <2>5. Members(r) = Members(bucket) \cup {id}
    BY <2>1, <2>2 DEF Members
  <2>6. r \in BucketType /\ Len(r.contacts) <= K /\ BucketIsASet(r)
    BY <1>1, <2>1, <2>2, <2>3 DEF BucketType, BucketIsASet
  <2>7. PendingWaits(r)
    BY <2>1, <2>4 DEF PendingWaits
  <2>8. GoodBucket(r)
    BY <2>6, <2>7 DEF GoodBucket
  <2>9. r.pending = bucket.pending
    BY <2>1
  <2> QED
    BY <1>4, <2>5, <2>8, <2>9 DEF r
<1> QED
    BY <1>2, <1>3, <1>4

\* KBucket.remove keeps a bucket good, takes out the contact it is given and no
\* other, and lets in the contact that was waiting.
LEMMA BucketRemoveKeeps ==
    ASSUME NEW bucket, GoodBucket(bucket), NEW id \in NodeIds
    PROVE  LET r == BucketRemove(bucket, id)
           IN /\ GoodBucket(r)
              /\ r.pending \in {bucket.pending, NoContact}
              /\ \/ r = bucket
                 \/ /\ id \in Members(bucket)
                    /\ Members(r) = (Members(bucket) \ {id})
                                    \cup ({bucket.pending} \ {NoContact})
<1> DEFINE s == bucket.contacts
           r == BucketRemove(bucket, id)
<1>1. /\ s \in Seq(NodeIds) /\ Len(s) \in Nat /\ Len(s) <= K /\ K \in Nat
      /\ bucket = [contacts |-> s, pending |-> bucket.pending]
      /\ bucket.pending \in NodeIds \cup {NoContact}
    BY TableAssumption DEF GoodBucket, BucketType
<1>2. CASE id \notin Members(bucket)
    BY <1>2 DEF BucketRemove
<1>3. CASE id \in Members(bucket)
  <2>1. PICK i : /\ i = CHOOSE j \in DOMAIN s : FoundAt(bucket, id, j)
                 /\ FoundAt(bucket, id, i)
    BY <1>3 DEF Members, ToSet, FoundAt
  <2> DEFINE rest == RemoveAt(s, i)
  <2>2. /\ rest \in Seq(NodeIds) /\ Len(rest) = Len(s) - 1
        /\ ToSet(rest) = Members(bucket) \ {id}
        /\ \A j, l \in DOMAIN rest : rest[j] = rest[l] => j = l
    <3>1. FoundAt(bucket, id, i)
        BY <2>1
    <3> QED
        BY ONLY <1>3, <3>1, GoodBucket(bucket), WithoutContact
  <2> HIDE DEF rest
  <2>3. CASE bucket.pending = NoContact
    <3>1. r = [contacts |-> rest, pending |-> NoContact]
        BY <1>1, <1>3, <2>1, <2>3 DEF BucketRemove, rest
    <3> HIDE DEF r
    <3>2. Members(r) = Members(bucket) \ {id}
        BY <2>2, <3>1 DEF Members
    <3>3. GoodBucket(r)
        BY <1>1, <2>2, <3>1
        DEF GoodBucket, BucketType, BucketIsASet, PendingWaits
    <3> QED
        BY <1>3, <2>3, <3>1, <3>2, <3>3 DEF r
  <2>4. CASE bucket.pending # NoContact
    <3> DEFINE p == bucket.pending
               t == Append(rest, p)
    <3>1. r = [contacts |-> t, pending |-> NoContact]
        BY <1>1, <1>3, <2>1, <2>4 DEF BucketRemove, rest
    <3>2. p \in NodeIds /\ p \notin ToSet(rest)
        BY <1>1, <2>2, <2>4 DEF GoodBucket, PendingWaits
    <3>3. /\ t \in Seq(NodeIds) /\ Len(t) = Len(rest) + 1
          /\ ToSet(t) = ToSet(rest) \cup {p}
          /\ \A j, l \in DOMAIN t : t[j] = t[l] => j = l
        BY <2>2, <3>2, WithContact
    <3> HIDE DEF r, t
    <3>4. Members(r) = (Members(bucket) \ {id}) \cup {p}
        BY <2>2, <3>1, <3>3 DEF Members
    <3>5. GoodBucket(r)
        BY <1>1, <2>2, <3>1, <3>3
        DEF GoodBucket, BucketType, BucketIsASet, PendingWaits
    <3>6. {p} \ {NoContact} = {p}
        BY <2>4
    <3> QED
        BY <1>3, <3>1, <3>4, <3>5, <3>6 DEF r
  <2> QED
    BY <2>3, <2>4
<1> QED
    BY <1>2, <1>3

-----------------------------------------------------------------------------
(* The table *)

\* Only peers are known: nodes enter the table by their own requests or calls.
KnownPeers(t) ==
    \A b \in BucketIndices :
        Members(t[b]) \cup ({t[b].pending} \ {NoContact}) \subseteq Peers

GoodTable(t) == t \in TableType /\ TableOK(t) /\ KnownPeers(t)

LEMMA GoodTableBuckets ==
    ASSUME NEW t, GoodTable(t), NEW b \in BucketIndices
    PROVE  GoodBucket(t[b])
BY DEF GoodTable, TableType, TableOK, GoodBucket

\* A table stays good when one bucket is replaced by a good one whose contacts
\* come from the old bucket or belong in it.
LEMMA ReplaceBucket ==
    ASSUME NEW t, GoodTable(t), NEW b \in BucketIndices, NEW r, GoodBucket(r),
           \A id \in Members(r) \cup ({r.pending} \ {NoContact}) :
                \/ id \in Members(t[b]) \cup ({t[b].pending} \ {NoContact})
                \/ id \in Peers /\ id # Self /\ BucketOf(id) = b
    PROVE  GoodTable([t EXCEPT ![b] = r])
<1> DEFINE u == [t EXCEPT ![b] = r]
<1>1. /\ u \in TableType
      /\ u[b] = r
      /\ \A c \in BucketIndices : c # b => u[c] = t[c]
    BY DEF GoodTable, TableType, GoodBucket
<1> HIDE DEF u
<1>2. WellPlaced(u, b)
    BY <1>1 DEF GoodTable, TableOK, WellPlaced
<1>3. \A c \in BucketIndices : c # b => WellPlaced(u, c)
    BY <1>1 DEF GoodTable, TableOK, WellPlaced
<1>4. TableOK(u)
  <2> SUFFICES ASSUME NEW c \in BucketIndices
               PROVE  /\ Len(u[c].contacts) <= K
                      /\ BucketIsASet(u[c])
                      /\ PendingWaits(u[c])
                      /\ WellPlaced(u, c)
    BY DEF TableOK
  <2>1. CASE c = b
    BY <1>1, <1>2, <2>1 DEF GoodBucket
  <2>2. CASE c # b
    BY <1>1, <1>3, <2>2 DEF GoodTable, TableOK
  <2> QED
    BY <2>1, <2>2
<1>5. KnownPeers(u)
    BY <1>1 DEF GoodTable, KnownPeers
<1> QED
    BY <1>1, <1>4, <1>5 DEF GoodTable, u

\* addNode keeps a good table good and drops no contact.
LEMMA AddNodeKeeps ==
    ASSUME NEW t, GoodTable(t), NEW id \in Peers \cup {Self}
    PROVE  GoodTable(addNode(t, id)) /\ KeepsContacts(t, addNode(t, id))
<1>1. CASE id = Self
    BY <1>1 DEF addNode, KeepsContacts
<1>2. CASE id # Self
  <2> DEFINE b == BucketOf(id)
             r == BucketAdd(t[b], id)
             u == addNode(t, id)
  <2>1. id \in Peers /\ id \in NodeIds /\ b \in BucketIndices
    BY <1>2, KademliaAssumption, TableAssumption, BucketIndexType DEF BucketOf
  <2>2. GoodBucket(t[b])
    BY <2>1, GoodTableBuckets
  <2> HIDE DEF b
  <2>3. /\ GoodBucket(r)
        /\ r.pending \in {t[b].pending, id}
        /\ \/ Members(r) = Members(t[b])
           \/ Members(r) = Members(t[b]) \cup {id} /\ ~isFull(t[b])
    BY <2>1, <2>2, BucketAddKeeps
  <2>4. u = [t EXCEPT ![b] = r]
    BY <1>2 DEF addNode, b
  <2> HIDE DEF r, u
  <2>5. BucketOf(id) = b
    BY DEF b
  <2>6. GoodTable(u)
    BY <1>2, <2>1, <2>3, <2>4, <2>5, ReplaceBucket
  <2>7. \A c \in BucketIndices : u[c] = IF c = b THEN r ELSE t[c]
    BY <2>4 DEF GoodTable, TableType
  <2>8. KeepsContacts(t, u)
    BY <2>3, <2>7 DEF KeepsContacts
  <2> QED
    BY <2>6, <2>8 DEF u
<1> QED
    BY <1>1, <1>2

\* removeNode keeps a good table good; the waiting contact takes the place of
\* the one removed.
LEMMA RemoveNodeKeeps ==
    ASSUME NEW t, GoodTable(t), NEW id \in Peers
    PROVE  GoodTable(removeNode(t, id)) /\ KeepsContacts(t, removeNode(t, id))
<1> DEFINE b == BucketOf(id)
           r == BucketRemove(t[b], id)
           u == removeNode(t, id)
<1>1. id \in NodeIds /\ b \in BucketIndices
    BY KademliaAssumption, TableAssumption, BucketIndexType DEF BucketOf
<1>2. GoodBucket(t[b])
    BY <1>1, GoodTableBuckets
<1> HIDE DEF b
<1>3. /\ GoodBucket(r)
      /\ r.pending \in {t[b].pending, NoContact}
      /\ \/ r = t[b]
         \/ /\ id \in Members(t[b])
            /\ Members(r) = (Members(t[b]) \ {id})
                            \cup ({t[b].pending} \ {NoContact})
    BY <1>1, <1>2, BucketRemoveKeeps
<1>4. u = [t EXCEPT ![b] = r]
    BY DEF removeNode, b
<1> HIDE DEF r, u
<1>5. GoodTable(u)
  <2>1. \A x \in Members(r) \cup ({r.pending} \ {NoContact}) :
            x \in Members(t[b]) \cup ({t[b].pending} \ {NoContact})
    BY <1>3
  <2> QED
    BY <1>1, <1>3, <1>4, <2>1, ReplaceBucket
<1>6. \A c \in BucketIndices : u[c] = IF c = b THEN r ELSE t[c]
    BY <1>4 DEF GoodTable, TableType
<1>7. t[b].pending # NoContact => t[b].pending \notin Members(t[b])
    BY <1>2 DEF GoodBucket, PendingWaits
<1>8. KeepsContacts(t, u)
    BY <1>3, <1>6, <1>7 DEF KeepsContacts
<1> QED
    BY <1>5, <1>8 DEF u

LEMMA EmptyTableGood == GoodTable(EmptyTable)
<1>1. /\ EmptyBucket \in BucketType
      /\ Len(EmptyBucket.contacts) = 0
      /\ Members(EmptyBucket) = {}
      /\ EmptyBucket.pending = NoContact
      /\ BucketIsASet(EmptyBucket)
      /\ PendingWaits(EmptyBucket)
    BY DEF EmptyBucket, BucketType, Members, ToSet, BucketIsASet, PendingWaits
<1>2. /\ EmptyTable \in TableType
      /\ \A b \in BucketIndices : EmptyTable[b] = EmptyBucket
    BY <1>1 DEF EmptyTable, TableType
<1>3. TableOK(EmptyTable)
    BY <1>1, <1>2, TableAssumption DEF TableOK, WellPlaced
<1>4. KnownPeers(EmptyTable)
    BY <1>1, <1>2 DEF KnownPeers
<1> QED
    BY <1>2, <1>3, <1>4 DEF GoodTable

-----------------------------------------------------------------------------
(* The node *)

\* The inductive invariant: the type invariant, the well-formed table with the
\* fact that only peers are in it, and the match between lookups and calls.
DHTInv == /\ TypeOK
          /\ GoodTable(table)
          /\ LookupsOwnCalls

\* Contacts come from the peers, so every query of a lookup is a legal call.
LEMMA QueriesAreCalls ==
    ASSUME NEW t, GoodTable(t), NEW s \in Slots, NEW target
    PROVE  /\ Queries(s, target, t) \subseteq CallType
           /\ CallsOf(s, Queries(s, target, t)) = Queries(s, target, t)
           /\ \A o \in Slots : o # s => CallsOf(o, Queries(s, target, t)) = {}
           /\ Queries(s, target, t) = {} <=>
                getClosestNodes(t, target, Alpha) = {}
<1>1. getClosestNodes(t, target, Alpha) \subseteq Peers
    BY DEF getClosestNodes, Contacts, GoodTable, KnownPeers
<1> DEFINE Near == getClosestNodes(t, target, Alpha)
           Q == {FindCall(s, p) : p \in Near}
<1>2. Q = Queries(s, target, t)
    BY DEF Queries
<1> HIDE DEF Near
<1>3. \A c \in Q : c.kind = "find_node" /\ c.slot = s
    BY DEF FindCall
<1>4. Q \subseteq CallType
    BY <1>1 DEF CallType, Near
<1>5. Q = {} <=> Near = {}
    OBVIOUS
<1> HIDE DEF Q
<1>6. CallsOf(s, Q) = Q
    BY <1>3 DEF CallsOf
<1>7. \A o \in Slots : o # s => CallsOf(o, Q) = {}
    BY <1>3 DEF CallsOf
<1> QED
    BY <1>2, <1>4, <1>5, <1>6, <1>7 DEF Near

\* The shared beginning of find, put, get and bootstrap.
LEMMA BeginKeeps ==
    ASSUME DHTInv, NEW t, GoodTable(t), NEW s \in FreeSlots, NEW target,
           NEW kind \in {"bootstrap", "user"},
           BeginLookup(s, kind, target, t)
    PROVE  /\ calls' \subseteq CallType
           /\ lookups' \in [Slots -> Lookup \cup {Idle}]
           /\ ready' \in BOOLEAN
           /\ LookupsOwnCalls'
<1>1. s \in Slots /\ lookups[s] = Idle
    BY DEF FreeSlots
<1>2. CASE getClosestNodes(t, target, Alpha) = {}
    BY <1>2 DEF BeginLookup, Returns, DHTInv, TypeOK, LookupsOwnCalls
<1>3. CASE getClosestNodes(t, target, Alpha) # {}
  <2> DEFINE Q == Queries(s, target, t)
  <2>1. /\ Q \subseteq CallType
        /\ CallsOf(s, Q) = Q
        /\ Q # {}
        /\ \A o \in Slots : o # s => CallsOf(o, Q) = {}
    BY <1>1, <1>3, QueriesAreCalls
  <2>2. /\ lookups' = [lookups EXCEPT ![s] = [kind |-> kind]]
        /\ calls' = calls \cup Q
        /\ ready' = ready
    BY <1>3 DEF BeginLookup
  <2> HIDE DEF Q
  <2>3. \A o \in Slots : CallsOf(o, calls') = CallsOf(o, calls) \cup CallsOf(o, Q)
    BY <2>2 DEF CallsOf
  <2>4. [kind |-> kind] \in Lookup /\ [kind |-> kind] # Idle
    BY IdleAssumption DEF Lookup
  <2>5. \A o \in Slots : lookups'[o] = IF o = s THEN [kind |-> kind] ELSE lookups[o]
    BY <1>1, <2>2 DEF DHTInv, TypeOK
  <2>6. LookupsOwnCalls'
    BY <2>1, <2>3, <2>4, <2>5 DEF DHTInv, LookupsOwnCalls
  <2> QED
    BY <1>1, <2>1, <2>2, <2>4, <2>6 DEF DHTInv, TypeOK
<1> QED
    BY <1>2, <1>3

LEMMA DHTInit == Init => DHTInv
<1> SUFFICES ASSUME Init PROVE DHTInv
    OBVIOUS
<1>1. GoodTable(table)
    BY EmptyTableGood DEF Init
<1>2. TypeOK
  <2>1. 0 \in 0..(MaxPings - 1)
    BY KademliaAssumption
  <2>2. pings \in [Peers -> 0..(MaxPings - 1)]
    BY <2>1 DEF Init
  <2>3. lookups \in [Slots -> Lookup \cup {Idle}]
    BY DEF Init
  <2> QED
    BY <1>1, <2>2, <2>3 DEF Init, TypeOK, GoodTable
<1>3. LookupsOwnCalls
    BY DEF Init, LookupsOwnCalls, CallsOf
<1> QED
    BY <1>1, <1>2, <1>3 DEF DHTInv

LEMMA LookupStep ==
    ASSUME DHTInv, StartLookup
    PROVE  DHTInv' /\ KeepsContacts(table, table')
<1>1. ASSUME NEW s \in Slots, NEW p \in Peers, FindNode(s, p)
      PROVE  DHTInv' /\ KeepsContacts(table, table')
  <2>1. s \in FreeSlots /\ BeginLookup(s, "user", p, table)
    BY <1>1 DEF FindNode
  <2>2. GoodTable(table)
    BY DEF DHTInv
  <2> QED
    BY <1>1, <2>1, <2>2, BeginKeeps DEF FindNode, DHTInv, TypeOK, KeepsContacts
<1>2. ASSUME NEW s \in Slots, NEW k \in Keys, Put(s, k) \/ Get(s, k)
      PROVE  DHTInv' /\ KeepsContacts(table, table')
  <2>1. s \in FreeSlots /\ BeginLookup(s, "user", k, table)
    BY <1>2 DEF Put, Get
  <2>2. GoodTable(table)
    BY DEF DHTInv
  <2> QED
    BY <1>2, <2>1, <2>2, BeginKeeps
    DEF Put, Get, DHTInv, TypeOK, KeepsContacts
<1>3. ASSUME NEW s \in Slots, NEW p \in Peers \cup {NoContact}, Bootstrap(s, p)
      PROVE  DHTInv' /\ KeepsContacts(table, table')
  <2>1. GoodTable(table) /\ s \in FreeSlots
    BY <1>3 DEF DHTInv, Bootstrap
  <2>2. CASE p = NoContact
    BY <1>3, <2>1, <2>2
    DEF Bootstrap, DHTInv, TypeOK, LookupsOwnCalls, KeepsContacts
  <2>3. CASE p # NoContact
    <3>1. p \in Peers
        BY <2>3
    <3>2. GoodTable(addNode(table, p)) /\ KeepsContacts(table, addNode(table, p))
        BY <2>1, <3>1, AddNodeKeeps
    <3>3. /\ BeginLookup(s, "bootstrap", Self, addNode(table, p))
          /\ table' = addNode(table, p)
          /\ pings' = pings /\ storage' = storage /\ refreshing' = TRUE
        BY <1>3, <2>3 DEF Bootstrap
    <3>4. /\ calls' \subseteq CallType
          /\ lookups' \in [Slots -> Lookup \cup {Idle}]
          /\ ready' \in BOOLEAN
          /\ LookupsOwnCalls'
        BY <2>1, <3>2, <3>3, BeginKeeps
    <3>5. GoodTable(table')
        BY <3>2, <3>3
    <3>6. TypeOK'
        BY <3>3, <3>4, <3>5 DEF DHTInv, TypeOK, GoodTable
    <3> QED
        BY <3>2, <3>3, <3>4, <3>5, <3>6 DEF DHTInv
  <2> QED
    BY <2>2, <2>3
<1> QED
    BY <1>1, <1>2, <1>3 DEF StartLookup

\* Steps that change the table only, or the table and the counts of pings.
LEMMA TableStep ==
    ASSUME DHTInv, GoodTable(table'),
           pings' \in [Peers -> 0..(MaxPings - 1)],
           storage' \subseteq Keys,
           UNCHANGED <<calls, lookups, ready, refreshing>>
    PROVE  DHTInv'
BY DEF DHTInv, TypeOK, LookupsOwnCalls, GoodTable

\* A refresh starts its lookups in slots that were free.
LEMMA RefreshKeeps ==
    ASSUME DHTInv, RefreshStep
    PROVE  DHTInv' /\ KeepsContacts(table, table')
<1>1. PICK f \in RefreshPlans : Refresh(f, ZeroId)
    BY DEF RefreshStep
<1> DEFINE probe == generateIdForBucket(Undefined, ZeroId)
           target == CHOOSE c \in getClosestNodes(table, probe, 1) : TRUE
           started == {s \in {f[b] : b \in DOMAIN f} :
                            Queries(s, target, table) # {}}
           bucketOf(s) == CHOOSE b \in DOMAIN f : f[b] = s
           new(s) == [kind |-> "refresh", bucket |-> bucketOf(s), probe |-> probe]
<1>2. \A s \in started : s \in Slots /\ lookups[s] = Idle
    BY DEF RefreshPlans, FreeSlots
<1>3. \A s \in started : bucketOf(s) \in BucketIndices
    BY DEF RefreshPlans, NonEmptyBuckets
<1>4. probe \in NodeIds
  <2>1. Undefined \notin BucketIndices
    BY DEF Undefined, BucketIndices
  <2> QED
    BY <2>1 DEF generateIdForBucket, ZeroId, NodeIds
<1> HIDE DEF probe
<1>5. /\ lookups' = [s \in Slots |-> IF s \in started THEN new(s) ELSE lookups[s]]
      /\ calls' = calls \cup UNION {Queries(s, target, table) : s \in started}
      /\ UNCHANGED <<table, pings, storage, ready, refreshing>>
    BY <1>1 DEF Refresh, probe
<1>6. \A s \in started : new(s) \in Lookup /\ new(s) # Idle
    BY <1>3, <1>4, IdleAssumption DEF Lookup
<1>7. \A s \in started : /\ Queries(s, target, table) \subseteq CallType
                         /\ Queries(s, target, table) # {}
                         /\ CallsOf(s, Queries(s, target, table)) =
                                Queries(s, target, table)
                         /\ \A o \in Slots :
                                o # s => CallsOf(o, Queries(s, target, table)) = {}
    BY <1>2, QueriesAreCalls DEF DHTInv
<1> HIDE DEF target, bucketOf, started
<1>8. \A o \in Slots : CallsOf(o, calls') =
            CallsOf(o, calls) \cup
            UNION {CallsOf(o, Queries(s, target, table)) : s \in started}
    BY <1>5 DEF CallsOf
<1>9. \A o \in Slots : CallsOf(o, calls') =
            IF o \in started THEN CallsOf(o, calls) \cup Queries(o, target, table)
                             ELSE CallsOf(o, calls)
  <2> TAKE o \in Slots
  <2> DEFINE part(s) == CallsOf(o, Queries(s, target, table))
  <2>1. \A s \in started : part(s) = IF s = o THEN Queries(o, target, table) ELSE {}
    BY <1>7
  <2>2. CallsOf(o, calls') = CallsOf(o, calls) \cup UNION {part(s) : s \in started}
    BY <1>8
  <2> HIDE DEF part
  <2>3. UNION {part(s) : s \in started} =
            IF o \in started THEN Queries(o, target, table) ELSE {}
    BY <2>1
  <2> QED
    BY <2>2, <2>3
<1> HIDE DEF new
<1>10. LookupsOwnCalls'
  <2> SUFFICES ASSUME NEW o \in Slots
               PROVE  lookups'[o] = Idle <=> CallsOf(o, calls') = {}
    BY DEF LookupsOwnCalls
  <2>1. CASE o \in started
    BY <1>5, <1>6, <1>7, <1>9, <2>1
  <2>2. CASE o \notin started
    BY <1>5, <1>9, <2>2 DEF DHTInv, LookupsOwnCalls
  <2> QED
    BY <2>1, <2>2
<1>11. calls' \subseteq CallType /\ lookups' \in [Slots -> Lookup \cup {Idle}]
    BY <1>5, <1>6, <1>7 DEF DHTInv, TypeOK
<1> QED
    BY <1>5, <1>10, <1>11 DEF DHTInv, TypeOK, GoodTable, TableType, KeepsContacts

LEMMA PingCallType == \A p \in Peers : PingCall(p) \in CallType
BY DEF CallType

\* A PING call belongs to no lookup.
LEMMA PingsAreNoQueries ==
    ASSUME NEW p, NEW s, NEW S
    PROVE  /\ CallsOf(s, S \cup {PingCall(p)}) = CallsOf(s, S)
           /\ CallsOf(s, S \ {PingCall(p)}) = CallsOf(s, S)
BY DEF CallsOf, PingCall

LEMMA PingStep ==
    ASSUME DHTInv, NEW p \in Peers,
           Ping(p) \/ HandlePong(p) \/ PingTimeout(p)
    PROVE  DHTInv' /\ KeepsContacts(table, table')
<1>1. /\ calls' \subseteq CallType
      /\ \A s \in Slots : CallsOf(s, calls') = CallsOf(s, calls)
    BY PingCallType, PingsAreNoQueries
    DEF Ping, HandlePong, PingTimeout, DHTInv, TypeOK
<1>2. pings' \in [Peers -> 0..(MaxPings - 1)]
    BY KademliaAssumption DEF Ping, HandlePong, PingTimeout, DHTInv, TypeOK
<1>3. UNCHANGED <<table, lookups, storage, ready, refreshing>>
    BY DEF Ping, HandlePong, PingTimeout
<1> QED
    BY <1>1, <1>2, <1>3
    DEF DHTInv, TypeOK, GoodTable, LookupsOwnCalls, KeepsContacts

\* The last query of a lookup to time out ends it.
LEMMA QueryTimeoutStep ==
    ASSUME DHTInv, NEW s \in Slots, NEW p \in Peers, QueryTimeout(s, p)
    PROVE  DHTInv' /\ KeepsContacts(table, table')
<1>1. /\ FindCall(s, p) \in calls
      /\ calls' = calls \ {FindCall(s, p)}
      /\ UNCHANGED <<table, pings, storage, refreshing>>
    BY DEF QueryTimeout
<1>2. \A o \in Slots : o # s => CallsOf(o, calls') = CallsOf(o, calls)
    BY <1>1 DEF CallsOf, FindCall
<1>3. CallsOf(s, calls) # {}
    BY <1>1 DEF CallsOf, FindCall
<1>4. lookups[s] # Idle
    BY <1>3 DEF DHTInv, LookupsOwnCalls
<1>5. CASE CallsOf(s, calls') = {}
  <2>1. lookups' = [lookups EXCEPT ![s] = Idle] /\ ready' \in BOOLEAN
    BY <1>1, <1>5 DEF QueryTimeout, Settled, Returns, DHTInv, TypeOK
  <2> QED
    BY <1>1, <1>2, <1>5, <2>1
    DEF DHTInv, TypeOK, GoodTable, LookupsOwnCalls, KeepsContacts
<1>6. CASE CallsOf(s, calls') # {}
  <2>1. UNCHANGED <<lookups, ready>>
    BY <1>1, <1>6 DEF QueryTimeout, Settled
  <2> QED
    BY <1>1, <1>2, <1>4, <1>6, <2>1
    DEF DHTInv, TypeOK, GoodTable, LookupsOwnCalls, KeepsContacts
<1> QED
    BY <1>5, <1>6

\* Requests and the calls on the routing table.
LEMMA TableCallStep ==
    ASSUME DHTInv, NEW p \in Peers \cup {Self},
           \/ AddNode(p)
           \/ p \in Peers /\ (\/ HandleRequest(p)
                              \/ \E k \in Keys : HandleStore(p, k)
                              \/ RemoveNode(p)
                              \/ HandlePingTimeout(p))
    PROVE  DHTInv' /\ KeepsContacts(table, table')
<1>1. GoodTable(table) /\ pings \in [Peers -> 0..(MaxPings - 1)] /\ storage \subseteq Keys
    BY DEF DHTInv, TypeOK
<1>2. GoodTable(addNode(table, p)) /\ KeepsContacts(table, addNode(table, p))
    BY <1>1, AddNodeKeeps
<1>3. p \in Peers =>
        GoodTable(removeNode(table, p)) /\ KeepsContacts(table, removeNode(table, p))
    BY <1>1, RemoveNodeKeeps
<1>4. KeepsContacts(table, table)
    BY DEF KeepsContacts
<1>5. CASE AddNode(p)
    BY <1>1, <1>2, <1>5, TableStep DEF AddNode
<1>6. CASE p \in Peers /\ HandleRequest(p)
    BY <1>1, <1>2, <1>6, TableStep DEF HandleRequest
<1>7. ASSUME p \in Peers, NEW k \in Keys, HandleStore(p, k)
      PROVE  DHTInv' /\ KeepsContacts(table, table')
    BY <1>1, <1>2, <1>7, TableStep DEF HandleStore
<1>8. CASE p \in Peers /\ RemoveNode(p)
    BY <1>1, <1>3, <1>8, TableStep DEF RemoveNode
<1>9. CASE p \in Peers /\ HandlePingTimeout(p)
  <2>1. CASE pings[p] >= MaxPings - 1
    <3>1. pings' \in [Peers -> 0..(MaxPings - 1)]
        BY <1>1, <1>9, <2>1, KademliaAssumption DEF HandlePingTimeout
    <3>2. /\ table' = removeNode(table, p)
          /\ UNCHANGED <<calls, lookups, storage, ready, refreshing>>
        BY <1>9, <2>1 DEF HandlePingTimeout
    <3> QED
        BY <1>1, <1>3, <1>9, <3>1, <3>2, TableStep
  <2>2. CASE ~ (pings[p] >= MaxPings - 1)
    <3>1. pings[p] + 1 \in 0..(MaxPings - 1)
        BY <1>1, <1>9, <2>2, KademliaAssumption
    <3>2. /\ pings' = [pings EXCEPT ![p] = @ + 1]
          /\ table' = table
          /\ UNCHANGED <<calls, lookups, storage, ready, refreshing>>
        BY <1>9, <2>2 DEF HandlePingTimeout
    <3>3. pings' \in [Peers -> 0..(MaxPings - 1)]
        BY <1>1, <1>9, <3>1, <3>2
    <3> QED
        BY <1>1, <1>4, <3>2, <3>3, TableStep
  <2> QED
    BY <2>1, <2>2
<1> QED
    BY <1>5, <1>6, <1>7, <1>8, <1>9

\* Every step keeps the invariant and loses no contact but explicitly.
LEMMA DHTStep ==
    ASSUME DHTInv, [Next]_vars
    PROVE  /\ DHTInv'
           /\ table' = EmptyTable \/ KeepsContacts(table, table')
<1>1. CASE StartLookup
    BY <1>1, LookupStep
<1>2. CASE RefreshStep
    BY <1>2, RefreshKeeps
<1>3. ASSUME NEW p \in Peers, Ping(p)
      PROVE  DHTInv' /\ KeepsContacts(table, table')
    BY <1>3, PingStep
<1>4. CASE Timeouts
    BY <1>4, PingStep, QueryTimeoutStep DEF Timeouts
<1>5. CASE Messages
  <2>1. ASSUME NEW p \in Peers, HandlePong(p)
        PROVE  DHTInv' /\ KeepsContacts(table, table')
    BY <2>1, PingStep
  <2>2. ASSUME NEW p \in Peers,
               HandleRequest(p) \/ \E k \in Keys : HandleStore(p, k)
        PROVE  DHTInv' /\ KeepsContacts(table, table')
    BY <2>2, TableCallStep
  <2> QED
    BY <1>5, <2>1, <2>2 DEF Messages
<1>6. CASE TableCalls
  <2>1. CASE Clear
    <3>1. [p \in Peers |-> 0] \in [Peers -> 0..(MaxPings - 1)]
        BY KademliaAssumption
    <3> QED
        BY <2>1, <3>1, EmptyTableGood, TableStep DEF Clear, DHTInv, TypeOK
  <2>2. ASSUME NEW p \in Peers \cup {Self}, AddNode(p)
        PROVE  DHTInv' /\ KeepsContacts(table, table')
    BY <2>2, TableCallStep
  <2>3. ASSUME NEW p \in Peers, RemoveNode(p) \/ HandlePingTimeout(p)
        PROVE  DHTInv' /\ KeepsContacts(table, table')
    BY <2>3, TableCallStep
  <2> QED
    BY <1>6, <2>1, <2>2, <2>3 DEF TableCalls
<1>7. CASE UNCHANGED vars
    BY <1>7 DEF vars, DHTInv, TypeOK, GoodTable, LookupsOwnCalls, KeepsContacts
<1> QED
    BY <1>1, <1>2, <1>3, <1>4, <1>5, <1>6, <1>7 DEF Next

LEMMA DHTInvariant == Spec => []DHTInv
BY DHTInit, DHTStep, PTL DEF Spec

\* The state variables of a DHT node keep their types: the counts of missed
\* pings stay below options.maxPendingPings.
THEOREM DHTTypes == Spec => []TypeOK
<1>1. DHTInv => TypeOK
    BY DEF DHTInv
<1> QED
    BY <1>1, DHTInvariant, PTL

\* The routing table of KBucket and RoutingTable is well formed in every state,
\* for every bucket size, identifier width and set of peers.
THEOREM TableWellFormed == Spec => []TableInv
<1>1. DHTInv => TableInv
    BY DEF DHTInv, GoodTable, TableInv
<1> QED
    BY <1>1, DHTInvariant, PTL

\* A lookup of KademliaDHT and its pending calls begin and end together.
THEOREM LookupsAndCalls == Spec => []LookupsOwnCalls
<1>1. DHTInv => LookupsOwnCalls
    BY DEF DHTInv
<1> QED
    BY <1>1, DHTInvariant, PTL

\* A contact leaves the routing table by a removal that lets the waiting one
\* in, or when the table is emptied, never to make room for a newcomer.
THEOREM ContactsAreKept == Spec => EvictionsAreExplicit
<1>1. DHTInv /\ [Next]_vars =>
        [table' = EmptyTable \/ KeepsContacts(table, table')]_vars
    BY DHTStep
<1> QED
    BY <1>1, DHTInvariant, PTL DEF Spec, EvictionsAreExplicit

=============================================================================
