--------------------------- MODULE TrustSyncProofs ---------------------------
(* Proofs about the update store and the trust list of every node.           *)
EXTENDS TrustSync, FiniteSetTheorems, SequenceTheorems, WellFoundedInduction, TLAPS

-----------------------------------------------------------------------------
(* Trimming *)

\* A trimmed list is a list of some of its elements; an element is either
\* dropped or kept.
LEMMA TrimmingPartitions ==
    ASSUME NEW S, NEW ids \in Seq(S), NEW k \in Nat
    PROVE  /\ LastOf(ids, k) \in Seq(S)
           /\ ToSet(ids) \subseteq
                 ToSet(SubSeq(ids, 1, Len(ids) - k)) \cup ToSet(LastOf(ids, k))
<1>1. CASE Len(ids) <= k
    <2>0. Len(ids) \in Nat /\ ~(Len(ids) > k)
        BY <1>1
    <2>1. LastOf(ids, k) = SubSeq(ids, 1, Len(ids))
        BY <2>0 DEF LastOf
    <2>2. SubSeq(ids, 1, Len(ids)) = ids
        OBVIOUS
    <2>. QED  BY <2>1, <2>2
<1>2. CASE Len(ids) > k
    <2> DEFINE first == Len(ids) - k + 1
    <2>1. first \in Nat /\ 1 <= first /\ first <= Len(ids) + 1
        BY <1>2
    <2>2. LastOf(ids, k) = SubSeq(ids, first, Len(ids))
        BY <1>2 DEF LastOf
    <2>3. /\ SubSeq(ids, first, Len(ids)) \in Seq(S)
          /\ Len(SubSeq(ids, first, Len(ids))) = k
          /\ \A i \in 1..k : SubSeq(ids, first, Len(ids))[i] = ids[first + i - 1]
        BY <2>1
    <2>4. /\ Len(SubSeq(ids, 1, Len(ids) - k)) = Len(ids) - k
          /\ DOMAIN SubSeq(ids, 1, Len(ids) - k) = 1..(Len(ids) - k)
          /\ \A i \in 1..(Len(ids) - k) : SubSeq(ids, 1, Len(ids) - k)[i] = ids[i]
        BY <1>2
    <2>5. ASSUME NEW i \in DOMAIN ids, i < first
          PROVE  ids[i] \in ToSet(SubSeq(ids, 1, Len(ids) - k))
        <3>1. i \in 1..(Len(ids) - k)
            BY <2>1, <2>5
        <3>. QED  BY <3>1, <2>4 DEF ToSet
    <2>6. ASSUME NEW i \in DOMAIN ids, ~(i < first)
          PROVE  ids[i] \in ToSet(LastOf(ids, k))
        <3>1. i - first + 1 \in 1..k /\ first + (i - first + 1) - 1 = i
            BY <2>1, <2>6
        <3>2. i - first + 1 \in DOMAIN SubSeq(ids, first, Len(ids))
            BY <3>1, <2>3
        <3>. QED  BY <3>1, <3>2, <2>2, <2>3 DEF ToSet
    <2>. QED  BY <2>2, <2>3, <2>5, <2>6 DEF ToSet
<1>. QED  BY <1>1, <1>2

\* A trimmed list is a tail of the list, within the limit.
LEMMA TrimmingKeepsTail ==
    ASSUME NEW S, NEW ids \in Seq(S), NEW k \in Nat
    PROVE  /\ LastOf(ids, k) \in Seq(S) /\ Len(LastOf(ids, k)) <= k
           /\ \E shift \in 0..Len(ids) :
                 /\ Len(LastOf(ids, k)) = Len(ids) - shift
                 /\ \A i \in 1..(Len(ids) - shift) : LastOf(ids, k)[i] = ids[shift + i]
<1>1. CASE Len(ids) <= k
    <2>1. LastOf(ids, k) = SubSeq(ids, 1, Len(ids))
        <3>1. Len(ids) \in Nat /\ ~(Len(ids) > k)
            BY <1>1
        <3>. QED  BY <3>1 DEF LastOf
    <2>2. LastOf(ids, k) = ids
        BY <2>1
    <2>3. /\ 0 \in 0..Len(ids) /\ Len(ids) = Len(ids) - 0
          /\ \A i \in 1..(Len(ids) - 0) : ids[i] = ids[0 + i]
        OBVIOUS
    <2>. QED  BY <2>2, <2>3, <1>1
<1>2. CASE Len(ids) > k
    <2> DEFINE shift == Len(ids) - k
               kept == SubSeq(ids, shift + 1, Len(ids))
    <2>1. shift \in 0..Len(ids) /\ shift + 1 \in Nat /\ shift + 1 <= Len(ids) + 1
        BY <1>2
    <2>2. LastOf(ids, k) = kept
        BY <1>2 DEF LastOf
    <2>3. Len(kept) = k /\ kept \in Seq(S)
        BY <2>1
    <2>4. \A i \in 1..k : kept[i] = ids[shift + i]
        BY <2>1
    <2>5. Len(ids) - shift = k
        BY <1>2
    <2> HIDE DEF shift, kept
    <2>. QED  BY <2>1, <2>2, <2>3, <2>4, <2>5
<1>. QED  BY <1>1, <1>2

-----------------------------------------------------------------------------
(* The update store *)

\* Every log is a sequence, and what is stored is logged.
LogsAreSequences ==
    /\ DOMAIN log = Nodes /\ DOMAIN store = Nodes
    /\ \A n \in Nodes : \E S : log[n] \in Seq(S)

\* Updates that are being signed exist and have a creator.
SigningIsMade ==
    /\ \E S : made \in Seq(S)
    /\ \A id \in signing : id \in DOMAIN made /\ made[id].creator \in Nodes

StoreInv == LogsAreSequences /\ StoredIsLogged

StoringInv == StoreInv /\ SigningIsMade

\* Storing an update keeps store and log together.
LEMMA StoringKeepsStoreInv ==
    ASSUME TrustAssumption, StoreInv, NEW n \in Nodes, NEW id,
           StoreUpdate(n, id), imported' = imported
    PROVE  StoreInv'
<1> USE TrustAssumption DEF TrustAssumption
<1> DEFINE ids == Append(log[n], id)
           k == 2 * MaxPerSync
<1>1. PICK S : log[n] \in Seq(S)
    BY DEF StoreInv, LogsAreSequences
<1>2. ids \in Seq(S \cup {id}) /\ ToSet(log[n]) \cup {id} \subseteq ToSet(ids)
    <2>1. ids \in Seq(S \cup {id}) /\ Len(ids) = Len(log[n]) + 1
        BY <1>1
    <2>2. \A i \in DOMAIN log[n] : i \in DOMAIN ids /\ ids[i] = log[n][i]
        BY <1>1
    <2>3. Len(ids) \in DOMAIN ids /\ ids[Len(ids)] = id
        BY <1>1
    <2>. QED  BY <2>1, <2>2, <2>3 DEF ToSet
<1>3. log' = [log EXCEPT ![n] = LastOf(ids, k)]
    BY DEF StoreUpdate
<1>4. store' = [store EXCEPT ![n] = (@ \cup {id}) \ Dropped(ids)]
    BY DEF StoreUpdate
<1>5. k \in Nat /\ Dropped(ids) = ToSet(SubSeq(ids, 1, Len(ids) - k))
    BY DEF Dropped
<1>6. /\ LastOf(ids, k) \in Seq(S \cup {id})
      /\ ToSet(ids) \subseteq Dropped(ids) \cup ToSet(LastOf(ids, k))
    <2> HIDE DEF ids, k
    <2>. QED  BY <1>2, <1>5, TrimmingPartitions
<1> HIDE DEF ids, k
<1>7. LogsAreSequences'
    BY <1>3, <1>4, <1>6 DEF StoreInv, LogsAreSequences
<1>8. ASSUME NEW m \in Nodes \ imported
      PROVE  store'[m] \subseteq ToSet(log'[m])
    <2>1. store[m] \subseteq ToSet(log[m])
        BY <1>8 DEF StoreInv, StoredIsLogged
    <2>2. CASE m = n
        <3>1. /\ store'[n] = (store[n] \cup {id}) \ Dropped(ids)
              /\ log'[n] = LastOf(ids, k)
            BY <1>3, <1>4 DEF StoreInv, LogsAreSequences
        <3>. QED  BY <3>1, <2>1, <2>2, <1>2, <1>6
    <2>3. CASE m # n
        BY <2>1, <2>3, <1>3, <1>4 DEF StoreInv, LogsAreSequences
    <2>. QED  BY <2>2, <2>3
<1>. QED  BY <1>7, <1>8 DEF StoreInv, StoredIsLogged

LEMMA StoringInvInitially == Init => StoringInv
<1>1. <<>> \in Seq({})
    OBVIOUS
<1>. QED
    BY <1>1 DEF Init, StoringInv, SigningIsMade, StoreInv, LogsAreSequences, StoredIsLogged

\* A step that changes neither store nor log and forgets no import.
LEMMA StoreInvUntouched ==
    ASSUME StoreInv, UNCHANGED <<store, log>>, imported \subseteq imported'
    PROVE  StoreInv'
BY DEF StoreInv, LogsAreSequences, StoredIsLogged

LEMMA SigningIsMadeUntouched ==
    ASSUME SigningIsMade, UNCHANGED made, signing' \subseteq signing
    PROVE  SigningIsMade'
BY DEF SigningIsMade

LEMMA StoringInvKept ==
    ASSUME TrustAssumption, StoringInv, [Next]_vars
    PROVE  StoringInv'
<1> USE TrustAssumption DEF StoringInv
<1>1. ASSUME NEW n \in Nodes, NEW type \in Types, NEW s \in Subjects,
             NEW level \in LevelsOf(type), Create(n, type, s, level)
      PROVE  StoringInv'
    <2> DEFINE u == NewUpdate(n, type, s, level)
    <2>1. made' = Append(made, u) /\ u.creator = n
        BY <1>1 DEF Create, NewUpdate
    <2>2. signing' \subseteq signing \cup {Len(made) + 1}
        BY <1>1 DEF Create
    <2>3. SigningIsMade'
        <3>1. PICK S : made \in Seq(S)
            BY DEF SigningIsMade
        <3> HIDE DEF u
        <3>2. /\ made' \in Seq(S \cup {u})
              /\ DOMAIN made' = DOMAIN made \cup {Len(made) + 1}
              /\ \A i \in DOMAIN made : made'[i] = made[i]
              /\ made'[Len(made) + 1] = u
            BY <2>1, <3>1
        <3>. QED  BY <2>1, <2>2, <3>2 DEF SigningIsMade
    <2>4. StoreInv'
        <3>1. CASE n \in Identified
            BY <1>1, <3>1, StoreInvUntouched DEF Create
        <3>2. CASE n \notin Identified
            <4>1. StoreUpdate(n, Len(made) + 1) /\ imported' = imported
                BY <1>1, <3>2 DEF Create
            <4>. QED  BY <4>1, StoringKeepsStoreInv
        <3>. QED  BY <3>1, <3>2
    <2>. QED  BY <2>3, <2>4
<1>2. ASSUME NEW id \in signing, Signed(id)
      PROVE  StoringInv'
    <2>1. made[id].creator \in Nodes
        BY <1>2 DEF SigningIsMade
    <2>2. StoreUpdate(made[id].creator, id) /\ imported' = imported
        BY <1>2 DEF Signed
    <2>3. StoreInv'
        BY <2>1, <2>2, StoringKeepsStoreInv
    <2>. QED  BY <1>2, <2>3, SigningIsMadeUntouched DEF Signed
<1>3. ASSUME NEW id \in signing, SignFails(id)
      PROVE  StoringInv'
    BY <1>3, StoreInvUntouched, SigningIsMadeUntouched DEF SignFails
<1>4. ASSUME NEW n, NEW m, NEW since, SendRequest(n, m, since)
      PROVE  StoringInv'
    BY <1>4, StoreInvUntouched, SigningIsMadeUntouched DEF SendRequest
<1>5. ASSUME NEW m, NEW again, Answer(m, again)
      PROVE  StoringInv'
    BY <1>5, StoreInvUntouched, SigningIsMadeUntouched DEF Answer
<1>6. ASSUME NEW m, NEW again, Receive(m, again)
      PROVE  StoringInv'
    BY <1>6, StoreInvUntouched, SigningIsMadeUntouched DEF Receive
<1>7. ASSUME NEW m, Lose(m)
      PROVE  StoringInv'
    BY <1>7, StoreInvUntouched, SigningIsMadeUntouched DEF Lose
<1>8. ASSUME NEW n \in Nodes, NEW i \in DOMAIN tasks[n], Process(n, i)
      PROVE  StoringInv'
    <2> DEFINE id == Head(tasks[n][i].rest).id
    <2>1. UNCHANGED <<made, signing, imported>>
        BY <1>8 DEF Process
    <2>2. StoreUpdate(n, id) \/ UNCHANGED <<store, log>>
        BY <1>8 DEF Process
    <2>3. StoreInv'
        BY <2>1, <2>2, StoringKeepsStoreInv, StoreInvUntouched
    <2>. QED  BY <2>1, <2>3, SigningIsMadeUntouched
<1>9. ASSUME NEW n \in Nodes, NEW m \in Nodes, Import(n, m)
      PROVE  StoringInv'
    <2>1. PICK S : log[m] \in Seq(S)
        BY DEF StoreInv, LogsAreSequences
    <2>2. LastOf(log[m], Recent) \in Seq(S)
        BY <2>1, TrimmingPartitions DEF TrustAssumption
    <2>3. /\ log' = [log EXCEPT ![n] = LastOf(log[m], Recent)]
          /\ imported' = imported \cup {n}
          /\ UNCHANGED <<store, made, signing>>
        BY <1>9 DEF Import
    <2>4. StoreInv'
        BY <2>2, <2>3 DEF StoreInv, LogsAreSequences, StoredIsLogged
    <2>. QED  BY <2>3, <2>4, SigningIsMadeUntouched
<1>10. CASE UNCHANGED vars
    BY <1>10, StoreInvUntouched, SigningIsMadeUntouched DEF vars
<1>11. \A link \in Links : link[1] \in Nodes /\ link[2] \in Nodes
    BY DEF TrustAssumption
<1>. QED
    BY <1>1, <1>2, <1>3, <1>4, <1>5, <1>6, <1>7, <1>8, <1>9, <1>10, <1>11 DEF Next

\* updateStore does not leak, for every topology, number of nodes, limit of
\* updates, and order of messages, creations and responses (_storeUpdate).
THEOREM StoreDoesNotLeak == Spec => []StoredIsLogged
<1>1. Init => StoringInv
    BY StoringInvInitially
<1>2. StoringInv /\ [Next]_vars => StoringInv'
    BY StoringInvKept, TrustAssumption
<1>3. StoringInv => StoredIsLogged
    BY DEF StoringInv, StoreInv
<1>. QED  BY <1>1, <1>2, <1>3, PTL DEF Spec

-----------------------------------------------------------------------------
(* The trust list *)

\* Every node gives every subject a level.
TrustShape == trust = [n \in Nodes |-> [s \in Subjects |-> trust[n][s]]]

LEMMA TrustShapeInitially == Init => TrustShape
BY DEF Init, TrustShape

\* A step that does not touch the trust list.
LEMMA TrustUntouched ==
    ASSUME TrustShape, UNCHANGED trust
    PROVE  TrustShape' /\ LevelChangesAreNoAdds
BY DEF TrustShape, LevelChangesAreNoAdds

LEMMA TrustStep ==
    ASSUME TrustShape, [Next]_vars
    PROVE  TrustShape' /\ LevelChangesAreNoAdds
<1>1. ASSUME NEW n \in Nodes, NEW i \in DOMAIN tasks[n], Process(n, i)
      PROVE  TrustShape' /\ LevelChangesAreNoAdds
    <2> DEFINE t == tasks[n][i]
               id == Head(t.rest).id
               u == made[id]
               level == LevelAfter(u, trust[n][u.subject])
    <2>1. CASE t.verdict = "valid" /\ Applies(n, id)
        <3>1. trust' = [trust EXCEPT ![n][u.subject] = level]
            BY <1>1, <2>1 DEF Process
        <3>2. t \in Range(tasks[n])
            BY DEF Range
        <3>3. u.type = "peer:add" => trust[n][u.subject] = Absent
            BY <2>1 DEF Applies
        <3> HIDE DEF level
        <3>4. TrustShape'
            BY <3>1 DEF TrustShape
        <3>5. ASSUME NEW m \in Nodes, NEW s \in Subjects,
                     trust[m][s] # Absent, trust'[m][s] # trust[m][s]
              PROVE  m = n /\ u.subject = s /\ u.type # "peer:add"
            <4>1. m = n /\ u.subject = s
                BY <3>1, <3>5 DEF TrustShape
            <4>. QED  BY <4>1, <3>3, <3>5
        <3>. QED  BY <2>1, <3>2, <3>4, <3>5 DEF LevelChangesAreNoAdds
    <2>2. CASE ~(t.verdict = "valid" /\ Applies(n, id))
        <3>1. UNCHANGED trust
            BY <1>1, <2>2 DEF Process
        <3>. QED  BY <3>1, TrustUntouched
    <2>. QED  BY <2>1, <2>2
<1>2. ASSUME NEW n \in Nodes, NEW m \in Nodes, Import(n, m)
      PROVE  TrustShape' /\ LevelChangesAreNoAdds
    <2>1. trust' = [trust EXCEPT ![n] = trust[m]] /\ imported' = imported \cup {n}
        BY <1>2 DEF Import
    <2>2. TrustShape'
        BY <2>1 DEF TrustShape
    <2>3. LevelChangesAreNoAdds
        BY <2>1 DEF TrustShape, LevelChangesAreNoAdds
    <2>. QED  BY <2>2, <2>3
<1>3. ASSUME NEW n, NEW type, NEW s, NEW level, Create(n, type, s, level)
      PROVE  UNCHANGED trust
    BY <1>3 DEF Create
<1>4. ASSUME NEW id, Signed(id) \/ SignFails(id)
      PROVE  UNCHANGED trust
    BY <1>4 DEF Signed, SignFails
<1>5. ASSUME NEW n, NEW m, NEW since, SendRequest(n, m, since)
      PROVE  UNCHANGED trust
    BY <1>5 DEF SendRequest
<1>6. ASSUME NEW m, NEW again, Answer(m, again) \/ Receive(m, again) \/ Lose(m)
      PROVE  UNCHANGED trust
    BY <1>6 DEF Answer, Receive, Lose
<1>7. CASE UNCHANGED vars
    BY <1>7, TrustUntouched DEF vars
<1>8. \A link \in Links : link[1] \in Nodes /\ link[2] \in Nodes
    BY TrustAssumption DEF TrustAssumption
<1>. QED
    BY <1>1, <1>2, <1>3, <1>4, <1>5, <1>6, <1>7, <1>8, TrustUntouched DEF Next

\* The level of a listed peer is changed by no peer:add, whatever responses are
\* processed at once (_applyPeerAdd).
THEOREM AddsKeepLevels == Spec => AddNeverOverwrites
<1>1. Init => TrustShape
    BY TrustShapeInitially
<1>2. TrustShape /\ [Next]_vars => TrustShape' /\ LevelChangesAreNoAdds
    BY TrustStep
<1>. QED  BY <1>1, <1>2, PTL DEF Spec, AddNeverOverwrites

-----------------------------------------------------------------------------
(* Numbers *)

\* A non-empty set of natural numbers has a least element.
LEMMA LeastNumber ==
    ASSUME NEW S \in SUBSET Nat, S # {}
    PROVE  \E m \in S : \A n \in S : m <= n
<1> DEFINE R == {ss \in Nat \X Nat : ss[1] < ss[2]}
<1>1. IsWellFoundedOn(R, Nat)
    BY NatLessThanWellFounded DEF OpToRel
<1>2. \A m, n \in Nat : m < n => <<m, n>> \in R
    OBVIOUS
<1> HIDE DEF R
<1>3. PICK m \in S : \A n \in S : <<n, m>> \notin R
    BY <1>1, WFMin
<1>4. \A n \in S : ~(n < m)
    BY <1>2, <1>3
<1>5. \A n \in S : m <= n
    BY <1>4
<1>. QED  BY <1>5

\* A non-empty set of positions of a sequence has a greatest element.
LEMMA GreatestPosition ==
    ASSUME NEW len \in Nat, NEW S, S \subseteq 1..len, S # {}
    PROVE  \E m \in S : \A n \in S : n <= m
<1>0. \A i \in S : i \in Nat /\ i <= len
    OBVIOUS
<1> DEFINE T == {t \in Nat : \E i \in S : t = len - i}
<1>1. T # {}
    <2>1. PICK i \in S : TRUE
        OBVIOUS
    <2>2. len - i \in T
        BY <1>0
    <2>. QED  BY <2>2
<1>2. PICK t \in T : \A u \in T : t <= u
    <2>1. T \in SUBSET Nat
        OBVIOUS
    <2> HIDE DEF T
    <2>. QED  BY <1>1, <2>1, LeastNumber
<1>3. PICK m \in S : t = len - m
    OBVIOUS
<1>4. ASSUME NEW n \in S
      PROVE  n <= m
    <2>1. len - n \in T
        BY <1>0
    <2>2. len - m <= len - n
        BY <1>2, <1>3, <2>1
    <2>. QED  BY <1>0, <2>2
<1>. QED  BY <1>4

\* The numbers of a set up to i, one by one: some number makes k of them.
LEMMA KthPosition ==
    ASSUME NEW len \in Nat, NEW S, S \subseteq 1..len, NEW k \in 1..Cardinality(S)
    PROVE  \E i \in S : Cardinality({j \in S : j <= i}) = k
<1> DEFINE upto == [i \in 0..len |-> {j \in S : j <= i}]
           T == {i \in 0..len : Cardinality(upto[i]) >= k}
<1>0. \A i \in S : i \in Nat /\ 1 <= i /\ i <= len
    OBVIOUS
<1>1. IsFiniteSet(S) /\ Cardinality(S) \in Nat /\ k \in Nat /\ 1 <= k /\ k <= Cardinality(S)
    <2>1. IsFiniteSet(1..len)
        BY FS_Interval
    <2>2. IsFiniteSet(S)
        BY <2>1, FS_Subset
    <2>. QED  BY <2>2, FS_CardinalityType
<1>2. ASSUME NEW i \in 0..len
      PROVE  IsFiniteSet(upto[i]) /\ Cardinality(upto[i]) \in Nat
    <2>1. upto[i] \in SUBSET S
        OBVIOUS
    <2> HIDE DEF upto
    <2>. QED  BY <1>1, <2>1, FS_Subset, FS_CardinalityType
<1>3. upto[len] = S /\ upto[0] = {}
    <2>1. 0 \in 0..len /\ len \in 0..len
        OBVIOUS
    <2>2. \A j \in S : j <= len /\ ~(j <= 0)
        BY <1>0
    <2>. QED  BY <2>1, <2>2
<1>4. ASSUME NEW i \in 1..len
      PROVE  /\ i \in S => upto[i] = upto[i - 1] \cup {i} /\ i \notin upto[i - 1]
             /\ i \notin S => upto[i] = upto[i - 1]
    <2>1. i \in 0..len /\ i - 1 \in 0..len
        OBVIOUS
    <2>2. upto[i] = {j \in S : j <= i} /\ upto[i - 1] = {j \in S : j <= i - 1}
        BY <2>1
    <2>3. \A j \in S : j <= i <=> j <= i - 1 \/ j = i
        BY <1>0
    <2> HIDE DEF upto
    <2>4. \A j \in S : j \in upto[i] <=> j \in upto[i - 1] \/ j = i
        BY <2>2, <2>3
    <2>5. i \notin upto[i - 1] /\ upto[i] \subseteq S /\ upto[i - 1] \subseteq S
        BY <2>2
    <2>. QED  BY <2>4, <2>5
<1>5. \A i \in 0..len : upto[i] = {j \in S : j <= i}
    OBVIOUS
<1> HIDE DEF upto
<1>6. T # {}
    <2>1. len \in T
        BY <1>1, <1>3
    <2>. QED  BY <2>1
<1>7. PICK i \in T : \A j \in T : i <= j
    <2>1. T \in SUBSET Nat
        OBVIOUS
    <2> HIDE DEF T
    <2>. QED  BY <1>6, <2>1, LeastNumber
<1>8. i \in 0..len /\ Cardinality(upto[i]) >= k
    OBVIOUS
<1>9. i \in 1..len
    <2>1. Cardinality(upto[0]) = 0
        BY <1>3, FS_EmptySet
    <2>. QED  BY <1>1, <1>8, <2>1
<1>10. i - 1 \in 0..len /\ i - 1 \notin T
    BY <1>7, <1>9
<1>11. Cardinality(upto[i - 1]) < k
    BY <1>1, <1>2, <1>10
<1>12. Cardinality(upto[i]) =
           IF i \in S THEN Cardinality(upto[i - 1]) + 1 ELSE Cardinality(upto[i - 1])
    BY <1>2, <1>4, <1>9, <1>10, FS_AddElement
<1>13. i \in S /\ Cardinality(upto[i]) = k
    BY <1>1, <1>2, <1>8, <1>10, <1>11, <1>12
<1>. QED  BY <1>5, <1>8, <1>13

-----------------------------------------------------------------------------
(* Types *)

\* What a node holds and remembers refers to updates that were made.
HeldOK ==
    /\ store \in [Nodes -> SUBSET Ids]
    /\ log \in [Nodes -> Seq(Ids)]
    /\ \A n \in Nodes : Len(log[n]) <= 2 * MaxPerSync
    /\ lastHash \in [Nodes -> Ids \cup {None}]
    /\ signing \subseteq Ids

OwnOK ==
    /\ trust \in [Nodes -> [Subjects -> 0..4]]
    /\ sequence \in [Nodes -> Nat]
    /\ remote \in [Nodes -> [Identified -> Nat]]
    /\ imported \subseteq Nodes

IsTask(t) == t \in Task /\ t.rest # <<>> /\ \A i \in DOMAIN t.rest : t.rest[i].id \in Ids

TasksOK ==
    /\ tasks \in [Nodes -> Seq(Task)]
    /\ \A n \in Nodes : \A i \in DOMAIN tasks[n] : IsTask(tasks[n][i])

IsMessage(m) ==
    /\ m \in Request \cup Response
    /\ m.type = "response" => \A i \in DOMAIN m.updates : m.updates[i].id \in Ids

NetOK == \A m \in net : IsMessage(m)

Typed == made \in Seq(Update) /\ HeldOK /\ OwnOK /\ TasksOK /\ NetOK

LEMMA TypedIsTypeOK == TypeOK <=> Typed
<1>1. TasksOK <=> /\ tasks \in [Nodes -> Seq(Task)]
                  /\ \A n \in Nodes : \A t \in Range(tasks[n]) :
                         t.rest # <<>> /\ \A i \in DOMAIN t.rest : t.rest[i].id \in Ids
    <2>1. ASSUME NEW n \in Nodes, tasks \in [Nodes -> Seq(Task)]
          PROVE  /\ \A i \in DOMAIN tasks[n] : tasks[n][i] \in Task
                 /\ Range(tasks[n]) = {tasks[n][i] : i \in DOMAIN tasks[n]}
        <3>1. tasks[n] \in Seq(Task)
            BY <2>1
        <3>2. \A i \in DOMAIN tasks[n] : tasks[n][i] \in Task
            BY <3>1
        <3>. QED  BY <3>2 DEF Range
    <2>2. CASE tasks \in [Nodes -> Seq(Task)]
        <3>1. ASSUME NEW n \in Nodes
              PROVE  (\A i \in DOMAIN tasks[n] : IsTask(tasks[n][i])) <=>
                     \A t \in Range(tasks[n]) :
                         t.rest # <<>> /\ \A i \in DOMAIN t.rest : t.rest[i].id \in Ids
            BY <2>1, <2>2 DEF IsTask
        <3>. QED  BY <2>2, <3>1 DEF TasksOK
    <2>. QED  BY <2>2 DEF TasksOK
<1>2. NetOK <=> /\ net \subseteq Request \cup Response
                /\ \A m \in net : m.type = "response" =>
                       \A i \in DOMAIN m.updates : m.updates[i].id \in Ids
    BY DEF NetOK, IsMessage
<1>. QED  BY <1>1, <1>2 DEF TypeOK, Typed, HeldOK, OwnOK

LEMMA TypedInitially == TrustAssumption => (Init => Typed)
<1> SUFFICES ASSUME TrustAssumption, Init
             PROVE  Typed
    OBVIOUS
<1>1. \A S : <<>> \in Seq(S) /\ Len(<<>>) = 0 /\ DOMAIN <<>> = {}
    OBVIOUS
<1>2. trust \in [Nodes -> [Subjects -> 0..4]]
    BY DEF Init, Absent, HIGH
<1>. QED
    BY <1>1, <1>2 DEF Init, Typed, HeldOK, OwnOK, TasksOK, NetOK, TrustAssumption

LEMMA IdsAreNumbers ==
    ASSUME Typed
    PROVE  Ids \subseteq Nat
<1>1. made \in Seq(Update)
    BY DEF Typed
<1>. QED  BY <1>1 DEF Ids

\* Nothing that was well formed ceases to be so when an update is made.
LEMMA MakingKeeps ==
    ASSUME Typed, Ids \subseteq Ids'
    PROVE  /\ UNCHANGED <<store, log, lastHash, signing>> => HeldOK'
           /\ UNCHANGED tasks => TasksOK'
           /\ UNCHANGED net => NetOK'
           /\ \A t : IsTask(t) => IsTask(t)'
<1>1. UNCHANGED <<store, log, lastHash, signing>> => HeldOK'
    <2>1. ASSUME NEW n \in Nodes
          PROVE  log[n] \in Seq(Ids')
        <3>1. log[n] \in Seq(Ids)
            BY DEF Typed, HeldOK
        <3>. QED  BY <3>1
    <2>. QED  BY <2>1 DEF Typed, HeldOK
<1>2. UNCHANGED tasks => TasksOK'
    BY DEF Typed, TasksOK, IsTask
<1>3. UNCHANGED net => NetOK'
    BY DEF Typed, NetOK, IsMessage
<1>. QED  BY <1>1, <1>2, <1>3 DEF IsTask

\* Storing an update keeps the log within its limit.
LEMMA StoringKeepsTypes ==
    ASSUME TrustAssumption, Typed, Ids \subseteq Ids', NEW n \in Nodes, NEW id \in Ids',
           StoreUpdate(n, id)
    PROVE  /\ store' \in [Nodes -> SUBSET Ids']
           /\ log' \in [Nodes -> Seq(Ids')]
           /\ \A m \in Nodes : Len(log'[m]) <= 2 * MaxPerSync
<1> DEFINE ids == Append(log[n], id)
           k == 2 * MaxPerSync
           kept == LastOf(ids, k)
<1>1. log[n] \in Seq(Ids) /\ k \in Nat /\ log \in [Nodes -> Seq(Ids)]
    BY DEF Typed, HeldOK, TrustAssumption
<1>2. ids \in Seq(Ids')
    BY <1>1
<1>3. log' = [log EXCEPT ![n] = kept]
    BY DEF StoreUpdate
<1>4. store' = [store EXCEPT ![n] = (@ \cup {id}) \ Dropped(ids)]
    BY DEF StoreUpdate
<1> HIDE DEF ids
<1>5. kept \in Seq(Ids') /\ Len(kept) <= k
    BY <1>1, <1>2, TrimmingKeepsTail
<1> HIDE DEF k, kept
<1>6. \A m \in Nodes : log[m] \in Seq(Ids')
    <2>1. \A m \in Nodes : log[m] \in Seq(Ids)
        BY <1>1
    <2>. QED  BY <2>1
<1>7. log' \in [Nodes -> Seq(Ids')]
    BY <1>1, <1>3, <1>5, <1>6
<1>8. \A m \in Nodes : Len(log'[m]) <= k
    BY <1>1, <1>3, <1>5 DEF Typed, HeldOK, k
<1>. QED  BY <1>4, <1>7, <1>8 DEF Typed, HeldOK, k

LEMMA CreateKeepsTypes ==
    ASSUME TrustAssumption, Typed, NEW n \in Nodes, NEW type \in Types, NEW s \in Subjects,
           NEW level \in LevelsOf(type), Create(n, type, s, level)
    PROVE  /\ Typed'
           /\ Ids \subseteq Ids' /\ \A id \in Ids : made'[id] = made[id]
           /\ Ids' \subseteq Ids \cup {Len(made) + 1}
           /\ made'[Len(made) + 1].creator = n
<1> DEFINE u == NewUpdate(n, type, s, level)
           id == Len(made) + 1
<1>1. made \in Seq(Update) /\ HeldOK /\ OwnOK /\ TasksOK /\ NetOK
    BY DEF Typed
<1>2. u \in Update /\ u.creator = n
    <2>1. level \in 1..4
        BY DEF LevelsOf, TrustAssumption, MEDIUM
    <2>2. sequence[n] + 1 \in Nat /\ lastHash[n] \in Nat \cup {None}
        BY <1>1, IdsAreNumbers DEF OwnOK, HeldOK
    <2>3. (IF n \in Identified THEN n ELSE None) \in Identified \cup {None}
        OBVIOUS
    <2>. QED  BY <2>1, <2>2, <2>3 DEF NewUpdate, Update
<1>3. made' = Append(made, u)
    BY DEF Create
<1> HIDE DEF u
<1>4. /\ made' \in Seq(Update) /\ Ids' = Ids \cup {id}
      /\ \A i \in Ids : made'[i] = made[i]
      /\ made'[id] = u
    BY <1>1, <1>2, <1>3 DEF Ids
<1>5. /\ sequence' = [sequence EXCEPT ![n] = @ + 1]
      /\ UNCHANGED <<trust, remote, tasks, net, imported>>
    BY DEF Create
<1>6. OwnOK'
    BY <1>1, <1>5 DEF OwnOK
<1>7. TasksOK' /\ NetOK'
    BY <1>4, <1>5, MakingKeeps
<1>8. HeldOK'
    <2>1. CASE n \in Identified
        <3>1. signing' = signing \cup {id} /\ UNCHANGED <<store, log, lastHash>>
            BY <2>1 DEF Create
        <3>2. \A m \in Nodes : log[m] \in Seq(Ids')
            <4>1. \A m \in Nodes : log[m] \in Seq(Ids)
                BY <1>1 DEF HeldOK
            <4>. QED  BY <4>1, <1>4
        <3> HIDE DEF id
        <3>. QED  BY <1>1, <1>4, <3>1, <3>2 DEF HeldOK
    <2>2. CASE n \notin Identified
        <3>1. /\ StoreUpdate(n, id) /\ UNCHANGED signing
              /\ lastHash' = [lastHash EXCEPT ![n] = id]
            BY <2>2 DEF Create
        <3> HIDE DEF id
        <3>. QED  BY <1>1, <1>4, <3>1, StoringKeepsTypes DEF HeldOK
    <2>. QED  BY <2>1, <2>2
<1>. QED  BY <1>2, <1>4, <1>6, <1>7, <1>8 DEF Typed

\* What is asked for is a sequence of logged updates.
LEMMA UpdatesSinceType ==
    ASSUME Typed, NEW n \in Nodes, NEW since, NEW seq
    PROVE  UpdatesSince(n, since, seq) \in Seq(Ids)
<1> DEFINE asked == {i \in DOMAIN log[n] : /\ log[n][i] \in store[n] /\ log[n][i] > since
                                           /\ made[log[n][i]].sequence > seq}
           position(k) == CHOOSE i \in asked : Cardinality({j \in asked : j <= i}) = k
<1>1. log[n] \in Seq(Ids)
    BY DEF Typed, HeldOK
<1>2. asked \subseteq 1..Len(log[n]) /\ Len(log[n]) \in Nat
    BY <1>1
<1>3. UpdatesSince(n, since, seq) = [k \in 1..Cardinality(asked) |-> log[n][position(k)]]
    BY DEF UpdatesSince
<1> HIDE DEF asked
<1>4. ASSUME NEW k \in 1..Cardinality(asked)
      PROVE  log[n][position(k)] \in Ids
    <2>1. position(k) \in asked
        BY <1>2, KthPosition
    <2> HIDE DEF position
    <2>. QED  BY <2>1, <1>1, <1>2
<1>5. Cardinality(asked) \in Nat
    <2>1. IsFiniteSet(1..Len(log[n]))
        BY <1>2, FS_Interval
    <2>. QED  BY <2>1, <1>2, FS_Subset, FS_CardinalityType
<1> HIDE DEF position
<1>. QED  BY <1>3, <1>4, <1>5

LEMMA AnswerKeepsTypes ==
    ASSUME TrustAssumption, Typed, NEW m, NEW again \in BOOLEAN, Answer(m, again)
    PROVE  Typed'
<1> DEFINE n == m.to
           ids == UpdatesSince(n, m.since, m.sequence)
           count == IF Len(ids) > MaxPerSync THEN MaxPerSync ELSE Len(ids)
           updates == [i \in 1..count |-> toJSON(ids[i])]
           answer == [type |-> "response", from |-> n, to |-> m.from,
                      updates |-> updates, last |-> sequence[n]]
<1>1. /\ m \in net /\ m.type = "request"
      /\ net' = (IF again THEN net ELSE net \ {m}) \cup {answer}
      /\ UNCHANGED <<made, trust, store, log, sequence, lastHash, remote, signing, tasks, imported>>
    BY DEF Answer
<1>2. m \in Request
    BY <1>1 DEF Typed, NetOK, IsMessage, Request, Response
<1>3. n \in Nodes /\ m.from \in Nodes
    BY <1>2 DEF Request
<1>4. ids \in Seq(Ids) /\ sequence[n] \in Nat /\ MaxPerSync \in Nat
    BY <1>3, UpdatesSinceType DEF Typed, OwnOK, TrustAssumption
<1> HIDE DEF n, ids
<1>5. count \in Nat /\ \A i \in 1..count : ids[i] \in Ids
    BY <1>4
<1>6. \A i \in 1..count : updates[i] = [id |-> ids[i], nonce |-> FALSE]
    BY DEF toJSON
<1>7. Ids \subseteq Nat
    BY IdsAreNumbers
<1>8. updates \in Seq(Copy) /\ \A i \in DOMAIN updates : updates[i].id \in Ids
    <2>1. \A i \in 1..count : updates[i] \in Copy /\ updates[i].id \in Ids
        <3> SUFFICES ASSUME NEW i \in 1..count
                     PROVE  updates[i] \in Copy /\ updates[i].id \in Ids
            OBVIOUS
        <3> DEFINE id == ids[i]
                   no == FALSE
        <3>1. id \in Ids /\ id \in Nat /\ no \in BOOLEAN
            BY <1>5, <1>7
        <3>2. updates[i] = [id |-> id, nonce |-> no]
            BY <1>6
        <3> HIDE DEF updates, id, no
        <3>3. updates[i].id = id
            BY <3>2
        <3>4. updates[i] \in Copy
            BY <3>1, <3>2 DEF Copy
        <3>. QED  BY <3>1, <3>3, <3>4
    <2>2. updates = [i \in 1..count |-> updates[i]]
        OBVIOUS
    <2> HIDE DEF updates, count
    <2>3. updates \in Seq(Copy) /\ DOMAIN updates = 1..count
        BY <1>5, <2>1, <2>2
    <2>. QED  BY <2>1, <2>3
<1> HIDE DEF updates
<1>9. IsMessage(answer)
    BY <1>3, <1>4, <1>8 DEF IsMessage, Response
<1> HIDE DEF answer
<1>10. NetOK'
    <2>1. \A x \in net' : IsMessage(x)
        BY <1>1, <1>9 DEF Typed, NetOK
    <2>2. \A x : IsMessage(x)' = IsMessage(x)
        BY <1>1 DEF IsMessage, Ids
    <2>. QED  BY <2>1, <2>2 DEF NetOK
<1>. QED  BY <1>1, <1>10 DEF Typed, HeldOK, OwnOK, TasksOK, IsTask, Ids

\* A call that starts with a message that was received.
LEMMA ReceiveKeepsTypes ==
    ASSUME TrustAssumption, Typed, NEW m, NEW again \in BOOLEAN, Receive(m, again)
    PROVE  Typed'
<1> DEFINE n == m.to
           verdict == Validate(n, Head(m.updates))
           task == [from |-> m.from, last |-> m.last, rest |-> m.updates,
                    verdict |-> verdict]
<1>1. /\ m \in net /\ m.type = "response"
      /\ net' = IF again THEN net ELSE net \ {m}
      /\ UNCHANGED <<made, trust, store, log, sequence, lastHash, signing, imported>>
    BY DEF Receive
<1>2. \/ /\ m.updates = <<>> /\ UNCHANGED tasks
         /\ remote' = IF m.last # 0 /\ m.from \in Identified
                      THEN [remote EXCEPT ![n][m.from] = m.last] ELSE remote
      \/ /\ m.updates # <<>> /\ UNCHANGED remote
         /\ tasks' = [tasks EXCEPT ![n] = Append(@, task)]
    BY DEF Receive
<1>3. IsMessage(m)
    BY <1>1 DEF Typed, NetOK
<1>4. m \in Response /\ \A i \in DOMAIN m.updates : m.updates[i].id \in Ids
    BY <1>1, <1>3 DEF IsMessage, Request, Response
<1>5. n \in Nodes /\ m.from \in Nodes /\ m.updates \in Seq(Copy) /\ m.last \in Nat
    BY <1>4 DEF Response
<1>6. verdict \in Verdicts
    BY DEF Validate, Verdicts
<1> HIDE DEF verdict
<1>7. m.updates # <<>> => IsTask(task)
    BY <1>4, <1>5, <1>6 DEF IsTask, Task
<1>8. HeldOK' /\ Ids' = Ids /\ made' \in Seq(Update)
    BY <1>1 DEF Typed, HeldOK, Ids
<1>9. OwnOK'
    <2>1. remote \in [Nodes -> [Identified -> Nat]]
        BY DEF Typed, OwnOK
    <2>2. \/ remote' = remote
          \/ m.from \in Identified /\ remote' = [remote EXCEPT ![n][m.from] = m.last]
        BY <1>2
    <2>3. n \in Nodes /\ m.last \in Nat
        BY <1>5
    <2> HIDE DEF n
    <2>4. remote' \in [Nodes -> [Identified -> Nat]]
        BY <2>1, <2>2, <2>3
    <2>. QED  BY <1>1, <2>4 DEF Typed, OwnOK
<1>10. TasksOK'
    <2>1. tasks \in [Nodes -> Seq(Task)] /\ \A k \in Nodes : \A i \in DOMAIN tasks[k] : IsTask(tasks[k][i])
        BY DEF Typed, TasksOK
    <2>2. \A t : IsTask(t)' <=> IsTask(t)
        BY <1>8 DEF IsTask
    <2>3. CASE m.updates = <<>>
        BY <1>2, <2>1, <2>2, <2>3 DEF TasksOK
    <2>4. CASE m.updates # <<>>
        <3>1. IsTask(task) /\ tasks' = [tasks EXCEPT ![n] = Append(@, task)]
            BY <1>2, <1>7, <2>4
        <3>2. task \in Task
            BY <3>1 DEF IsTask
        <3> HIDE DEF task
        <3>3. tasks' \in [Nodes -> Seq(Task)]
            BY <1>5, <2>1, <3>1, <3>2
        <3>4. \A k \in Nodes : \A i \in DOMAIN tasks'[k] : IsTask(tasks'[k][i])
            BY <1>5, <2>1, <3>1, <3>2
        <3>. QED  BY <2>2, <3>3, <3>4 DEF TasksOK
    <2>. QED  BY <2>3, <2>4
<1>11. NetOK'
    BY <1>1, <1>8 DEF Typed, NetOK, IsMessage
<1>. QED  BY <1>8, <1>9, <1>10, <1>11 DEF Typed

\* What the call does with the verdict on its first update.
ProcessStep(n, i) ==
    LET t == tasks[n][i]
        id == Head(t.rest).id
        u == made[id]
    IN /\ UNCHANGED <<made, sequence, lastHash, signing, net, imported>>
       /\ \/ /\ t.verdict = "valid" /\ Applies(n, id)
             /\ trust' = [trust EXCEPT ![n][u.subject] = LevelAfter(u, @)]
             /\ StoreUpdate(n, id)
          \/ UNCHANGED <<trust, store, log>>

\* The task of a call has an update to go on with.
LEMMA HeadOfTask ==
    ASSUME Typed, NEW n \in Nodes, NEW i \in DOMAIN tasks[n]
    PROVE  LET t == tasks[n][i]
           IN /\ t \in Task /\ Head(t.rest).id \in Ids
              /\ made[Head(t.rest).id] \in Update
              /\ Tail(t.rest) \in Seq(Copy)
              /\ \A j \in DOMAIN Tail(t.rest) : Tail(t.rest)[j].id \in Ids
<1> DEFINE t == tasks[n][i]
<1>1. IsTask(t)
    BY DEF Typed, TasksOK
<1>2. t \in Task /\ t.rest \in Seq(Copy) /\ t.rest # <<>>
    BY <1>1 DEF IsTask, Task
<1>3. \A j \in DOMAIN t.rest : t.rest[j].id \in Ids
    BY <1>1 DEF IsTask
<1> HIDE DEF t
<1>4. 1 \in DOMAIN t.rest /\ Head(t.rest) = t.rest[1]
    BY <1>2
<1>5. Tail(t.rest) \in Seq(Copy)
    BY <1>2
<1>6. \A j \in DOMAIN Tail(t.rest) : j + 1 \in DOMAIN t.rest /\ Tail(t.rest)[j] = t.rest[j + 1]
    BY <1>2
<1>7. made[Head(t.rest).id] \in Update
    BY <1>3, <1>4 DEF Typed, Ids
<1>. QED  BY <1>2, <1>3, <1>4, <1>5, <1>6, <1>7 DEF t

LEMMA SeenSequenceType ==
    ASSUME Typed, NEW n \in Nodes, NEW u \in Update
    PROVE  SeenSequence(n, u) \in [Nodes -> [Identified -> Nat]]
<1>1. remote \in [Nodes -> [Identified -> Nat]]
    BY DEF Typed, OwnOK
<1>2. u.sequence \in Nat /\ u.signer \in Identified \cup {None}
    BY DEF Update
<1>3. remote[n] \in [Identified -> Nat]
    BY <1>1
<1>. QED  BY <1>1, <1>2, <1>3 DEF SeenSequence

\* A list without one of its elements has no others.
LEMMA RemovingElement ==
    ASSUME NEW S, NEW list \in Seq(S), NEW i \in DOMAIN list
    PROVE  /\ RemoveAt(list, i) \in Seq(S)
           /\ \A j \in DOMAIN RemoveAt(list, i) :
                 \E k \in DOMAIN list : RemoveAt(list, i)[j] = list[k]
<1> DEFINE before == SubSeq(list, 1, i - 1)
           behind == SubSeq(list, i + 1, Len(list))
<1>1. i \in 1..Len(list) /\ Len(list) \in Nat
    OBVIOUS
<1>2. /\ before \in Seq(S) /\ Len(before) = i - 1
      /\ \A j \in 1..(i - 1) : before[j] = list[j]
    BY <1>1
<1>3. /\ behind \in Seq(S) /\ Len(behind) = Len(list) - i
      /\ \A j \in 1..(Len(list) - i) : behind[j] = list[i + j]
    <2>1. i + 1 \in Nat /\ i + 1 <= Len(list) + 1
        BY <1>1
    <2>. QED  BY <1>1, <2>1
<1>4. RemoveAt(list, i) = before \o behind
    BY DEF RemoveAt
<1> HIDE DEF before, behind
<1>5. before \o behind \in Seq(S) /\ Len(before \o behind) = Len(list) - 1
    BY <1>1, <1>2, <1>3
<1>6. ASSUME NEW j \in 1..(Len(list) - 1)
      PROVE  \E k \in DOMAIN list : (before \o behind)[j] = list[k]
    <2>1. CASE j < i
        <3>1. (before \o behind)[j] = list[j] /\ j \in DOMAIN list
            BY <1>1, <1>2, <1>3, <2>1
        <3>. QED  BY <3>1
    <2>2. CASE ~(j < i)
        <3>1. (before \o behind)[j] = behind[j - (i - 1)]
            <4>1. /\ j \in 1..(Len(before) + Len(behind)) /\ ~(j <= Len(before))
                  /\ j - Len(before) = j - (i - 1)
                BY <1>1, <1>2, <1>3, <2>2
            <4>2. (before \o behind)[j] = behind[j - Len(before)]
                BY <4>1, <1>2, <1>3, ConcatProperties
            <4>. QED  BY <4>1, <4>2
        <3>2. j - (i - 1) \in 1..(Len(list) - i)
            BY <1>1, <2>2
        <3>3. behind[j - (i - 1)] = list[i + (j - (i - 1))] /\ i + (j - (i - 1)) \in DOMAIN list
            BY <1>1, <1>3, <3>2
        <3>. QED  BY <3>1, <3>3
    <2>. QED  BY <2>1, <2>2
<1>7. DOMAIN (before \o behind) = 1..(Len(list) - 1)
    BY <1>5
<1>. QED  BY <1>4, <1>5, <1>6, <1>7

\* Going on to the next update keeps the tasks and what is known well formed.
LEMMA ContinueKeepsTypes ==
    ASSUME Typed, UNCHANGED made, NEW n \in Nodes, NEW i \in DOMAIN tasks[n],
           NEW seen \in [Nodes -> [Identified -> Nat]], Continue(n, i, seen)
    PROVE  TasksOK' /\ remote' \in [Nodes -> [Identified -> Nat]]
<1> DEFINE t == tasks[n][i]
           rest == Tail(t.rest)
<1>1. /\ t \in Task /\ rest \in Seq(Copy)
      /\ \A j \in DOMAIN rest : rest[j].id \in Ids
    BY HeadOfTask
<1>2. /\ tasks \in [Nodes -> Seq(Task)] /\ tasks[n] \in Seq(Task)
      /\ \A k \in Nodes : \A j \in DOMAIN tasks[k] : IsTask(tasks[k][j])
    BY DEF Typed, TasksOK
<1>3. \A x : IsTask(x)' <=> IsTask(x)
    BY DEF IsTask, Ids
<1>4. CASE rest = <<>>
    <2>1. /\ tasks' = [tasks EXCEPT ![n] = RemoveAt(@, i)]
          /\ remote' = IF t.last # 0 /\ t.from \in Identified
                       THEN [seen EXCEPT ![n][t.from] = t.last] ELSE seen
        BY <1>4 DEF Continue
    <2>2. t.last \in Nat
        BY <1>1 DEF Task
    <2> DEFINE left == RemoveAt(tasks[n], i)
    <2>3. left \in Seq(Task) /\ \A j \in DOMAIN left : \E k \in DOMAIN tasks[n] : left[j] = tasks[n][k]
        BY <1>2, RemovingElement
    <2> HIDE DEF left
    <2>4. tasks' = [tasks EXCEPT ![n] = left]
        BY <2>1 DEF left
    <2>5. TasksOK'
        <3>1. tasks' \in [Nodes -> Seq(Task)]
            BY <1>2, <2>3, <2>4
        <3>2. \A k \in Nodes : \A j \in DOMAIN tasks'[k] : IsTask(tasks'[k][j])
            BY <1>2, <2>3, <2>4
        <3>. QED  BY <1>3, <3>1, <3>2 DEF TasksOK
    <2>6. remote' \in [Nodes -> [Identified -> Nat]]
        BY <2>1, <2>2
    <2>. QED  BY <2>5, <2>6
<1>5. CASE rest # <<>>
    <2>1. PICK next : /\ remote' = seen
                      /\ tasks' = [tasks EXCEPT ![n][i] =
                             [@ EXCEPT !.rest = rest, !.verdict = Validate(n, next)']]
        BY <1>5 DEF Continue
    <2> DEFINE verdict == Validate(n, next)'
               after == [t EXCEPT !.rest = rest, !.verdict = verdict]
    <2>2. verdict \in Verdicts
        BY DEF Validate, Verdicts
    <2>3. tasks' = [tasks EXCEPT ![n][i] = after]
        BY <2>1
    <2> HIDE DEF verdict
    <2>4. IsTask(after)
        BY <1>1, <1>5, <2>2 DEF IsTask, Task
    <2>5. after \in Task
        BY <2>4 DEF IsTask
    <2> HIDE DEF after
    <2>6. /\ tasks' \in [Nodes -> Seq(Task)]
          /\ \A k \in Nodes : \A j \in DOMAIN tasks'[k] : IsTask(tasks'[k][j])
        BY <1>2, <2>3, <2>4, <2>5
    <2>. QED  BY <1>3, <2>1, <2>6 DEF TasksOK
<1>. QED  BY <1>4, <1>5

LEMMA ProcessKeepsTypes ==
    ASSUME TrustAssumption, Typed, NEW n \in Nodes, NEW i \in DOMAIN tasks[n], Process(n, i)
    PROVE  Typed' /\ ProcessStep(n, i)
<1> DEFINE t == tasks[n][i]
           id == Head(t.rest).id
           u == made[id]
<1>1. id \in Ids /\ u \in Update
    BY HeadOfTask
<1>2. UNCHANGED <<made, sequence, lastHash, signing, net, imported>>
    BY DEF Process
<1>3. \/ /\ t.verdict = "valid" /\ Applies(n, id)
         /\ trust' = [trust EXCEPT ![n][u.subject] = LevelAfter(u, @)]
         /\ StoreUpdate(n, id)
         /\ Continue(n, i, SeenSequence(n, u))
      \/ /\ UNCHANGED <<trust, store, log>>
         /\ Continue(n, i, remote)
    BY DEF Process
<1>4. ProcessStep(n, i)
    BY <1>2, <1>3 DEF ProcessStep
<1>5. remote \in [Nodes -> [Identified -> Nat]] /\ trust \in [Nodes -> [Subjects -> 0..4]]
    BY DEF Typed, OwnOK
<1>6. TasksOK' /\ remote' \in [Nodes -> [Identified -> Nat]]
    <2>1. SeenSequence(n, u) \in [Nodes -> [Identified -> Nat]]
        BY <1>1, SeenSequenceType
    <2> HIDE DEF u
    <2>. QED  BY <1>2, <1>3, <1>5, <2>1, ContinueKeepsTypes
<1>7. trust' \in [Nodes -> [Subjects -> 0..4]]
    <2>1. CASE UNCHANGED trust
        BY <2>1, <1>5
    <2>2. CASE trust' = [trust EXCEPT ![n][u.subject] = LevelAfter(u, @)]
        <3> DEFINE level == LevelAfter(u, trust[n][u.subject])
        <3>1. u.subject \in Subjects /\ u.level \in 0..4 /\ u.type \in Types
            BY <1>1 DEF Update
        <3>2. level \in 0..4
            <4> HIDE DEF u
            <4>1. u.level \in Int /\ 0 <= u.level /\ u.level <= 4
                BY <3>1
            <4>. QED  BY <3>1, <4>1 DEF LevelAfter, Types, Absent
        <3>3. trust' = [trust EXCEPT ![n][u.subject] = level]
            BY <2>2
        <3> HIDE DEF level, u
        <3>. QED  BY <1>5, <3>1, <3>2, <3>3
    <2>. QED  BY <1>3, <2>1, <2>2
<1>8. HeldOK'
    <2>1. Ids' = Ids
        BY <1>2 DEF Ids
    <2>2. CASE UNCHANGED <<store, log>>
        BY <1>2, <2>1, <2>2 DEF Typed, HeldOK
    <2>3. CASE StoreUpdate(n, id)
        <3>. HIDE DEF id
        <3>. QED  BY <1>1, <1>2, <2>1, <2>3, StoringKeepsTypes DEF Typed, HeldOK
    <2>. QED  BY <1>3, <2>2, <2>3
<1>9. OwnOK' /\ NetOK'
    BY <1>2, <1>6, <1>7 DEF Typed, OwnOK, NetOK, IsMessage, Ids
<1>. QED  BY <1>2, <1>4, <1>6, <1>8, <1>9 DEF Typed

LEMMA TypedKept ==
    ASSUME TrustAssumption, Typed, [Next]_vars
    PROVE  Typed'
<1>0. \A link \in Links : link[1] \in Nodes /\ link[2] \in Nodes
    BY DEF TrustAssumption
<1>1. ASSUME NEW n \in Nodes, NEW type \in Types, NEW s \in Subjects,
             NEW level \in LevelsOf(type), Create(n, type, s, level)
      PROVE  Typed'
    BY <1>1, CreateKeepsTypes
<1>2. ASSUME NEW id \in signing, Signed(id) \/ SignFails(id)
      PROVE  Typed'
    <2>1. id \in Ids /\ made[id].creator \in Nodes
        <3>1. id \in Ids
            BY DEF Typed, HeldOK
        <3>2. made[id] \in Update
            BY <3>1 DEF Typed, Ids
        <3>. QED  BY <3>1, <3>2 DEF Update
    <2>2. /\ UNCHANGED <<made, trust, sequence, remote, tasks, net, imported>>
          /\ signing' = signing \ {id}
          /\ \/ UNCHANGED <<store, log, lastHash>>
             \/ /\ lastHash' = [lastHash EXCEPT ![made[id].creator] = id]
                /\ StoreUpdate(made[id].creator, id)
        BY <1>2 DEF Signed, SignFails
    <2>3. Ids' = Ids
        BY <2>2 DEF Ids
    <2>4. CASE UNCHANGED <<store, log, lastHash>>
        BY <2>2, <2>3, <2>4 DEF Typed, HeldOK, OwnOK, TasksOK, IsTask, NetOK, IsMessage
    <2>5. CASE /\ lastHash' = [lastHash EXCEPT ![made[id].creator] = id]
               /\ StoreUpdate(made[id].creator, id)
        <3>1. HeldOK'
            BY <2>1, <2>2, <2>3, <2>5, StoringKeepsTypes DEF Typed, HeldOK
        <3>. QED  BY <2>2, <2>3, <3>1 DEF Typed, OwnOK, TasksOK, IsTask, NetOK, IsMessage
    <2>. QED  BY <2>2, <2>4, <2>5
<1>3. ASSUME NEW link \in Links, NEW since \in Times \cup {0},
             SendRequest(link[1], link[2], since)
      PROVE  Typed'
    <2> DEFINE n == link[1]
               time == IF since = 0 THEN LastSyncTime(n) ELSE since
               m == [type |-> "request", from |-> n, to |-> link[2],
                     since |-> time, sequence |-> sequence[n]]
    <2>1. /\ net' = net \cup {m}
          /\ UNCHANGED <<made, trust, store, log, sequence, lastHash, remote, signing, tasks, imported>>
        BY <1>3 DEF SendRequest
    <2>2. n \in Nodes /\ link[2] \in Nodes
        BY <1>0
    <2>3. time \in Nat /\ sequence[n] \in Nat
        <3>1. store[n] \subseteq Nat /\ sequence[n] \in Nat
            BY <2>2, IdsAreNumbers DEF Typed, HeldOK, OwnOK
        <3>2. LastSyncTime(n) \in Nat
            BY <3>1 DEF LastSyncTime
        <3>. QED  BY <3>1, <3>2 DEF TrustAssumption
    <2> HIDE DEF n, time
    <2>4. m \in Request /\ m.type = "request"
        BY <2>2, <2>3 DEF Request
    <2> HIDE DEF m
    <2>5. IsMessage(m)
        BY <2>4 DEF IsMessage
    <2>6. NetOK'
        BY <2>1, <2>5 DEF Typed, NetOK, IsMessage, Ids
    <2>. QED  BY <2>1, <2>6 DEF Typed, HeldOK, OwnOK, TasksOK, IsTask, Ids
<1>4. ASSUME NEW m \in net, NEW again \in BOOLEAN, Answer(m, again) \/ Receive(m, again)
      PROVE  Typed'
    BY <1>4, AnswerKeepsTypes, ReceiveKeepsTypes
<1>5. ASSUME NEW m \in net, Lose(m)
      PROVE  Typed'
    BY <1>5 DEF Lose, Typed, HeldOK, OwnOK, TasksOK, IsTask, NetOK, IsMessage, Ids
<1>6. ASSUME NEW n \in Nodes, NEW i \in DOMAIN tasks[n], Process(n, i)
      PROVE  Typed'
    BY <1>6, ProcessKeepsTypes
<1>7. ASSUME NEW n \in Nodes, NEW m \in Nodes, Import(n, m)
      PROVE  Typed'
    <2> DEFINE kept == LastOf(log[m], Recent)
    <2>1. /\ trust' = [trust EXCEPT ![n] = trust[m]]
          /\ log' = [log EXCEPT ![n] = kept]
          /\ imported' = imported \cup {n}
          /\ UNCHANGED <<made, store, sequence, lastHash, remote, signing, tasks, net>>
        BY <1>7 DEF Import
    <2>2. log[m] \in Seq(Ids) /\ Len(log[m]) <= 2 * MaxPerSync /\ Len(log[m]) \in Nat
        BY DEF Typed, HeldOK
    <2>3. kept \in Seq(Ids) /\ Len(kept) <= 2 * MaxPerSync
        <3>1. Recent \in Nat /\ MaxPerSync \in Nat
            BY DEF TrustAssumption
        <3>2. /\ kept \in Seq(Ids)
              /\ \E shift \in 0..Len(log[m]) : Len(kept) = Len(log[m]) - shift
            BY <2>2, <3>1, TrimmingKeepsTail
        <3> HIDE DEF kept
        <3>. QED  BY <2>2, <3>1, <3>2
    <2> HIDE DEF kept
    <2>4. Ids' = Ids
        BY <2>1 DEF Ids
    <2>5. HeldOK'
        BY <2>1, <2>3, <2>4 DEF Typed, HeldOK
    <2>6. OwnOK'
        BY <2>1 DEF Typed, OwnOK
    <2>. QED  BY <2>1, <2>4, <2>5, <2>6 DEF Typed, TasksOK, IsTask, NetOK, IsMessage
<1>8. CASE UNCHANGED vars
    BY <1>8 DEF vars, Typed, HeldOK, OwnOK, TasksOK, IsTask, NetOK, IsMessage, Ids
<1>. QED
    BY <1>0, <1>1, <1>2, <1>3, <1>4, <1>5, <1>6, <1>7, <1>8 DEF Next

\* The types of the model hold, and with them the limit of every log, for every
\* topology, number of nodes, limit and order of messages.
THEOREM TypesAreKept == Spec => []TypeOK
<1>1. Init => Typed
    BY TypedInitially, TrustAssumption
<1>2. Typed /\ [Next]_vars => Typed'
    BY TypedKept, TrustAssumption
<1>. QED  BY <1>1, <1>2, TypedIsTypeOK, PTL DEF Spec

-----------------------------------------------------------------------------
(* The log and the trust list *)

\* Position i of a list holds its last update about s.
LastAbout(ids, s, i) ==
    /\ made[ids[i]].subject = s
    /\ \A j \in DOMAIN ids : j > i => made[ids[j]].subject # s

\* The last update that a list has about a subject agrees with its level.
Explains(ids, levels) ==
    \A s \in Subjects : \A i \in DOMAIN ids :
        LastAbout(ids, s, i) => Agrees(made[ids[i]], levels[s])

\* The log of a node that created nothing explains its trust list.
LogExplains ==
    \A n \in Nodes \ imported : sequence[n] = 0 => Explains(log[n], trust[n])

\* Who has made an update has counted it, also while it is being signed.
CreatorsCount == \A id \in Ids : sequence[made[id].creator] >= 1

ExplainInv == Typed /\ CreatorsCount /\ LogExplains

\* The tail of a list that explains the levels explains them.
LEMMA TailsExplain ==
    ASSUME NEW S, NEW ids \in Seq(S), NEW k \in Nat, NEW levels, Explains(ids, levels)
    PROVE  Explains(LastOf(ids, k), levels)
<1> DEFINE kept == LastOf(ids, k)
<1>1. PICK shift \in 0..Len(ids) :
          /\ Len(kept) = Len(ids) - shift
          /\ \A i \in 1..(Len(ids) - shift) : kept[i] = ids[shift + i]
    BY TrimmingKeepsTail
<1>2. kept \in Seq(S)
    BY TrimmingKeepsTail
<1> HIDE DEF kept
<1>3. DOMAIN kept = 1..(Len(ids) - shift) /\ Len(ids) \in Nat
    BY <1>1, <1>2
<1>4. ASSUME NEW s \in Subjects, NEW i \in DOMAIN kept, LastAbout(kept, s, i)
      PROVE  Agrees(made[kept[i]], levels[s])
    <2>1. shift + i \in DOMAIN ids /\ kept[i] = ids[shift + i] /\ i \in Nat
        BY <1>1, <1>3
    <2>2. ASSUME NEW j \in DOMAIN ids, j > shift + i
          PROVE  made[ids[j]].subject # s
        <3>1. j - shift \in DOMAIN kept /\ j - shift > i /\ shift + (j - shift) = j
            BY <1>3, <2>1, <2>2
        <3>2. kept[j - shift] = ids[j]
            BY <1>1, <1>3, <3>1
        <3>. QED  BY <1>4, <3>1, <3>2 DEF LastAbout
    <2>3. LastAbout(ids, s, shift + i)
        BY <1>4, <2>1, <2>2 DEF LastAbout
    <2>. QED  BY <2>1, <2>3 DEF Explains
<1>. QED  BY <1>4 DEF Explains, kept

\* An update that was applied explains the level it left, and the levels of the
\* others stay explained.
LEMMA AppliedIsExplained ==
    ASSUME NEW ids \in Seq(Ids), NEW levels \in [Subjects -> 0..4], NEW id \in Ids,
           made[id] \in Update, Explains(ids, levels),
           made[id].type = "peer:add" => levels[made[id].subject] = Absent
    PROVE  Explains(Append(ids, id),
                    [levels EXCEPT ![made[id].subject] = LevelAfter(made[id], @)])
<1> DEFINE u == made[id]
           new == Append(ids, id)
           level == LevelAfter(u, levels[u.subject])
           after == [levels EXCEPT ![u.subject] = level]
<1>1. u.subject \in Subjects /\ u.type \in Types
    BY DEF Update
<1>2. Agrees(u, level)
    <2> HIDE DEF u
    <2>. QED  BY <1>1 DEF LevelAfter, Agrees, Types, Absent
<1>3. /\ new \in Seq(Ids) /\ Len(new) = Len(ids) + 1 /\ Len(ids) \in Nat
      /\ DOMAIN new = 1..(Len(ids) + 1) /\ DOMAIN ids = 1..Len(ids)
      /\ new[Len(ids) + 1] = id /\ \A i \in 1..Len(ids) : new[i] = ids[i]
    OBVIOUS
<1>4. made[new[Len(ids) + 1]] = u
    BY <1>3
<1>5. after[u.subject] = level /\ \A s \in Subjects \ {u.subject} : after[s] = levels[s]
    BY <1>1
<1> HIDE DEF new, level, after, u
<1>6. ASSUME NEW s \in Subjects, NEW i \in DOMAIN new, LastAbout(new, s, i)
      PROVE  Agrees(made[new[i]], after[s])
    <2>1. CASE i = Len(ids) + 1
        <3>1. made[new[i]] = u
            BY <2>1, <1>4
        <3>2. u.subject = s
            BY <1>6, <3>1 DEF LastAbout
        <3>. QED  BY <3>1, <3>2, <1>2, <1>5
    <2>2. CASE i # Len(ids) + 1
        <3>1. i \in 1..Len(ids) /\ new[i] = ids[i]
            BY <2>2, <1>3
        <3>2. s # u.subject
            BY <3>1, <1>3, <1>4, <1>6 DEF LastAbout
        <3>3. \A j \in DOMAIN ids : j \in DOMAIN new /\ new[j] = ids[j]
            BY <1>3
        <3>4. LastAbout(ids, s, i)
            BY <1>6, <3>1, <3>3 DEF LastAbout
        <3>5. Agrees(made[ids[i]], levels[s])
            BY <3>1, <3>4, <1>3 DEF Explains
        <3>. QED  BY <3>1, <3>2, <3>5, <1>5
    <2>. QED  BY <2>1, <2>2
<1>7. Explains(new, after)
    BY <1>6 DEF Explains
<1>. QED  BY <1>7 DEF new, after, level, u

\* A step that leaves the updates that a list refers to as they are.
LEMMA ExplainsUntouched ==
    ASSUME NEW ids, NEW levels, Explains(ids, levels),
           \A i \in DOMAIN ids : made'[ids[i]] = made[ids[i]]
    PROVE  Explains(ids, levels)'
<1>1. ASSUME NEW s \in Subjects, NEW i \in DOMAIN ids, LastAbout(ids, s, i)'
      PROVE  LastAbout(ids, s, i)
    BY <1>1 DEF LastAbout
<1>. QED  BY <1>1 DEF Explains

\* A step after which every node that still has to explain its log does so.
LEMMA ExplainedAfter ==
    ASSUME LogExplains, imported \subseteq imported',
           \A n \in Nodes : sequence'[n] = 0 => sequence[n] = 0,
           \A id \in Ids : made'[id] = made[id],
           ASSUME NEW n \in Nodes \ imported', sequence'[n] = 0, Explains(log[n], trust[n])
           PROVE  \E ids \in Seq(Ids) : \E levels :
                      log'[n] = ids /\ trust'[n] = levels /\ Explains(ids, levels)
    PROVE  LogExplains'
<1>1. ASSUME NEW n \in Nodes \ imported', sequence'[n] = 0
      PROVE  Explains(log[n], trust[n])'
    <2>1. Explains(log[n], trust[n])
        BY <1>1 DEF LogExplains
    <2>2. PICK ids \in Seq(Ids) : \E levels :
              log'[n] = ids /\ trust'[n] = levels /\ Explains(ids, levels)
        BY <1>1, <2>1
    <2>3. \A i \in DOMAIN ids : ids[i] \in Ids
        BY <2>2
    <2>4. PICK levels : log'[n] = ids /\ trust'[n] = levels /\ Explains(ids, levels)
        BY <2>2
    <2>5. Explains(ids, levels)'
        BY <2>3, <2>4, ExplainsUntouched
    <2>. QED  BY <2>4, <2>5 DEF Explains, LastAbout
<1>. QED  BY <1>1 DEF LogExplains

\* A step that touches neither log nor trust list of a node that has yet made
\* nothing.
LEMMA ExplainUntouched ==
    ASSUME Typed, LogExplains, imported \subseteq imported',
           \A id \in Ids : made'[id] = made[id],
           \A n \in Nodes : sequence'[n] = 0 =>
               sequence[n] = 0 /\ log'[n] = log[n] /\ trust'[n] = trust[n]
    PROVE  LogExplains'
<1>1. \A n \in Nodes : log[n] \in Seq(Ids)
    BY DEF Typed, HeldOK
<1>. QED  BY <1>1, ExplainedAfter

LEMMA ExplainInvKept ==
    ASSUME TrustAssumption, ExplainInv, [Next]_vars
    PROVE  CreatorsCount' /\ LogExplains'
<1> USE DEF ExplainInv
<1>0. \A id \in Ids : id \in Nat /\ made[id] \in Update /\ made[id].creator \in Nodes
    <2>1. \A id \in Ids : made[id] \in Update
        BY DEF Typed, Ids
    <2>. QED  BY <2>1, IdsAreNumbers DEF Update
<1>1. ASSUME NEW n \in Nodes, NEW type \in Types, NEW s \in Subjects,
             NEW level \in LevelsOf(type), Create(n, type, s, level)
      PROVE  CreatorsCount' /\ LogExplains'
    <2>1. /\ \A id \in Ids : made'[id] = made[id]
          /\ Ids' \subseteq Ids \cup {Len(made) + 1}
          /\ made'[Len(made) + 1].creator = n
        BY <1>1, CreateKeepsTypes
    <2>2. /\ sequence' = [sequence EXCEPT ![n] = @ + 1]
          /\ UNCHANGED <<trust, imported>>
          /\ log' = log \/ StoreUpdate(n, Len(made) + 1)
        BY <1>1 DEF Create
    <2>3. sequence \in [Nodes -> Nat] /\ log = [m \in Nodes |-> log[m]]
        BY DEF Typed, OwnOK, HeldOK
    <2>4. \A m \in Nodes : sequence'[m] >= sequence[m] /\ sequence'[m] \in Nat
        BY <2>2, <2>3
    <2>5. sequence'[n] >= 1
        BY <2>2, <2>3
    <2>6. CreatorsCount'
        <3>1. ASSUME NEW id \in Ids'
              PROVE  sequence'[made'[id].creator] >= 1
            <4>1. CASE id \in Ids
                BY <4>1, <1>0, <2>1, <2>3, <2>4 DEF CreatorsCount
            <4>2. CASE id \notin Ids
                BY <4>2, <2>1, <2>5
            <4>. QED  BY <4>1, <4>2
        <3>. QED  BY <3>1 DEF CreatorsCount
    <2>7. \A m \in Nodes \ {n} : log'[m] = log[m]
        <3>1. log' = log \/ \E x : log' = [log EXCEPT ![n] = x]
            BY <2>2 DEF StoreUpdate
        <3>. QED  BY <2>3, <3>1
    <2>8. \A m \in Nodes : sequence'[m] = 0 =>
              sequence[m] = 0 /\ log'[m] = log[m] /\ trust'[m] = trust[m]
        BY <2>2, <2>3, <2>4, <2>5, <2>7
    <2>9. LogExplains'
        BY <2>1, <2>2, <2>8, ExplainUntouched
    <2>. QED  BY <2>6, <2>9
<1>2. ASSUME NEW id \in signing, Signed(id) \/ SignFails(id)
      PROVE  CreatorsCount' /\ LogExplains'
    <2> DEFINE n == made[id].creator
    <2>1. UNCHANGED <<made, sequence, trust, imported>> /\ (log' = log \/ StoreUpdate(n, id))
        BY <1>2 DEF Signed, SignFails
    <2>2. CreatorsCount'
        BY <2>1 DEF CreatorsCount, Ids
    <2>3. sequence[n] >= 1 /\ n \in Nodes
        BY <1>0 DEF CreatorsCount, Typed, HeldOK
    <2>4. log = [m \in Nodes |-> log[m]]
        BY DEF Typed, HeldOK
    <2>5. \A m \in Nodes : sequence[m] = 0 => log'[m] = log[m]
        <3>1. log' = log \/ \E x : log' = [log EXCEPT ![n] = x]
            BY <2>1 DEF StoreUpdate
        <3> HIDE DEF n
        <3>. QED  BY <2>3, <2>4, <3>1
    <2>6. LogExplains'
        BY <2>1, <2>5, ExplainUntouched
    <2>. QED  BY <2>2, <2>6
<1>3. ASSUME NEW n \in Nodes, NEW i \in DOMAIN tasks[n], Process(n, i)
      PROVE  CreatorsCount' /\ LogExplains'
    <2> DEFINE t == tasks[n][i]
               id == Head(t.rest).id
               u == made[id]
               level == LevelAfter(u, trust[n][u.subject])
    <2>1. ProcessStep(n, i)
        BY <1>3, ProcessKeepsTypes
    <2>2. UNCHANGED <<made, sequence, imported>>
        BY <2>1 DEF ProcessStep
    <2>3. CreatorsCount'
        BY <2>2 DEF CreatorsCount, Ids
    <2>4. CASE UNCHANGED <<trust, log>>
        BY <2>2, <2>4, ExplainUntouched, <2>3
    <2>5. CASE /\ Applies(n, id)
               /\ trust' = [trust EXCEPT ![n][u.subject] = level]
               /\ StoreUpdate(n, id)
        <3> DEFINE ids == Append(log[n], id)
                   k == 2 * MaxPerSync
                   kept == LastOf(ids, k)
                   after == [trust[n] EXCEPT ![u.subject] = level]
        <3>1. id \in Ids /\ u \in Update /\ (u.type = "peer:add" => trust[n][u.subject] = Absent)
            BY <2>5, HeadOfTask DEF Applies
        <3>2. /\ log[n] \in Seq(Ids) /\ trust[n] \in [Subjects -> 0..4] /\ k \in Nat
              /\ log = [m \in Nodes |-> log[m]] /\ trust = [m \in Nodes |-> trust[m]]
              /\ \A m \in Nodes : log[m] \in Seq(Ids)
            BY DEF Typed, HeldOK, OwnOK, TrustAssumption
        <3>3. log' = [log EXCEPT ![n] = kept]
            BY <2>5 DEF StoreUpdate
        <3>4. trust' = [trust EXCEPT ![n] = after]
            BY <2>5, <3>2
        <3>5. ids \in Seq(Ids)
            BY <3>1, <3>2
        <3>6. kept \in Seq(Ids)
            <4> HIDE DEF ids, k
            <4>. QED  BY <3>2, <3>5, TrimmingKeepsTail
        <3>7. Explains(log[n], trust[n]) => Explains(ids, after)
            <4> HIDE DEF id
            <4>. QED  BY <3>1, <3>2, AppliedIsExplained
        <3>8. Explains(ids, after) => Explains(kept, after)
            <4> HIDE DEF ids, k, after
            <4>. QED  BY <3>2, <3>5, TailsExplain
        <3> HIDE DEF id, u, level, ids, k, kept, after
        <3>9. ASSUME NEW m \in Nodes, Explains(log[m], trust[m])
              PROVE  \E list \in Seq(Ids) : \E levels :
                         log'[m] = list /\ trust'[m] = levels /\ Explains(list, levels)
            <4>1. CASE m = n
                <5>1. log'[m] = kept /\ trust'[m] = after
                    BY <4>1, <3>2, <3>3, <3>4
                <5>. QED  BY <5>1, <4>1, <3>6, <3>7, <3>8, <3>9
            <4>2. CASE m # n
                BY <4>2, <3>2, <3>3, <3>4, <3>9
            <4>. QED  BY <4>1, <4>2
        <3>10. LogExplains'
            BY <2>2, <3>9, ExplainedAfter
        <3>. QED  BY <2>3, <3>10
    <2>. QED  BY <2>1, <2>4, <2>5 DEF ProcessStep
<1>4. ASSUME NEW n \in Nodes, NEW m \in Nodes, Import(n, m)
      PROVE  CreatorsCount' /\ LogExplains'
    <2>1. /\ \E x : trust' = [trust EXCEPT ![n] = x]
          /\ \E x : log' = [log EXCEPT ![n] = x]
          /\ imported' = imported \cup {n} /\ UNCHANGED <<made, sequence>>
        BY <1>4 DEF Import
    <2>2. CreatorsCount'
        BY <2>1 DEF CreatorsCount, Ids
    <2>3. log = [k \in Nodes |-> log[k]] /\ trust = [k \in Nodes |-> trust[k]]
        BY DEF Typed, HeldOK, OwnOK
    <2>4. \A k \in Nodes : log[k] \in Seq(Ids)
        BY DEF Typed, HeldOK
    <2>5. \A k \in Nodes \ imported' : log'[k] = log[k] /\ trust'[k] = trust[k]
        BY <2>1, <2>3
    <2>6. LogExplains'
        BY <2>1, <2>4, <2>5, ExplainedAfter
    <2>. QED  BY <2>2, <2>6
<1>5. ASSUME UNCHANGED <<made, sequence, trust, log, imported>>
      PROVE  CreatorsCount' /\ LogExplains'
    <2>1. CreatorsCount'
        BY <1>5 DEF CreatorsCount, Ids
    <2>. QED  BY <2>1, <1>5, ExplainUntouched
<1>6. ASSUME NEW n, NEW m, NEW since, SendRequest(n, m, since)
      PROVE  UNCHANGED <<made, sequence, trust, log, imported>>
    BY <1>6 DEF SendRequest
<1>7. ASSUME NEW m, NEW again, Answer(m, again) \/ Receive(m, again) \/ Lose(m)
      PROVE  UNCHANGED <<made, sequence, trust, log, imported>>
    BY <1>7 DEF Answer, Receive, Lose
<1>8. CASE UNCHANGED vars
    BY <1>8, <1>5 DEF vars
<1>9. \A link \in Links : link[1] \in Nodes /\ link[2] \in Nodes
    BY DEF TrustAssumption
<1>. QED
    BY <1>1, <1>2, <1>3, <1>4, <1>5, <1>6, <1>7, <1>8, <1>9 DEF Next

\* What explains the levels says the level of every subject that the log is
\* about: there is a last update about it.
LEMMA ExplainInvFollows ==
    ASSUME ExplainInv
    PROVE  TrustFollowsLog
<1> SUFFICES ASSUME NEW n \in Nodes \ imported, NEW s \in Subjects, sequence[n] = 0,
                    {i \in DOMAIN log[n] : made[log[n][i]].subject = s} # {}
             PROVE  LET about == {i \in DOMAIN log[n] : made[log[n][i]].subject = s}
                        last == CHOOSE i \in about : \A j \in about : j <= i
                    IN Agrees(made[log[n][last]], trust[n][s])
    BY DEF TrustFollowsLog
<1> DEFINE about == {i \in DOMAIN log[n] : made[log[n][i]].subject = s}
           last == CHOOSE i \in about : \A j \in about : j <= i
<1>1. log[n] \in Seq(Ids)
    BY DEF ExplainInv, Typed, HeldOK
<1>2. about \subseteq 1..Len(log[n]) /\ Len(log[n]) \in Nat /\ about # {}
    BY <1>1
<1>3. last \in about /\ \A j \in about : j <= last
    <2> HIDE DEF about
    <2>1. \E i \in about : \A j \in about : j <= i
        BY <1>2, GreatestPosition
    <2>. QED  BY <2>1
<1> HIDE DEF last
<1>4. LastAbout(log[n], s, last)
    <2>1. ASSUME NEW j \in DOMAIN log[n], j > last
          PROVE  j \notin about
        BY <1>1, <1>2, <1>3, <2>1
    <2>. QED  BY <1>3, <2>1 DEF LastAbout
<1>5. Explains(log[n], trust[n])
    BY DEF ExplainInv, LogExplains
<1>. QED  BY <1>3, <1>4, <1>5 DEF Explains, last

\* The log explains the trust list of every node that made and imported nothing,
\* whatever responses overtake each other, are rejected or repeated, and however
\* often logs are trimmed (applyUpdate, _storeUpdate).
THEOREM LogExplainsTrust == Spec => []TrustFollowsLog
<1>1. Init => ExplainInv
    <2>1. \A n \in Nodes : Init => log[n] = <<>> /\ made = <<>>
        BY DEF Init
    <2>2. DOMAIN <<>> = {}
        OBVIOUS
    <2>. QED
        BY <2>1, <2>2, TypedInitially, TrustAssumption
        DEF Init, ExplainInv, CreatorsCount, LogExplains, Explains, Ids
<1>2. ExplainInv /\ [Next]_vars => ExplainInv'
    BY ExplainInvKept, TypedKept, TrustAssumption DEF ExplainInv
<1>. QED  BY <1>1, <1>2, ExplainInvFollows, PTL DEF Spec

=============================================================================
