-------------------------- MODULE NodeServicesProofs --------------------------
(* Proofs about the parts of NodeServices.  A behaviour explores one part,   *)
(* so that an invariant is kept when the steps of the part it is about keep  *)
(* it.                                                                       *)
EXTENDS NodeServices, FiniteSetTheorems, FunctionTheorems, SequenceTheorems,
        WellFoundedInduction, TLAPS

-----------------------------------------------------------------------------
(* A step of a behaviour is one of the part that the behaviour explores.     *)

LEMMA StepOfPart ==
  ASSUME [Next]_vars
  PROVE  /\ part' = part
         /\ part = "manager" => Manager!Next \/ UNCHANGED managerVars
         /\ part = "healing" => Healing!Next \/ UNCHANGED healingVars
         /\ part = "scaling" => Tuning!ScaleNext \/ UNCHANGED scaleVars
         /\ part = "tuning" => Tuning!TuneNext \/ UNCHANGED tuneVars
         /\ part = "advice" => Tuning!AdviceNext \/ UNCHANGED adviceVars
         /\ part = "channels" => Channel!ManagerNext \/ UNCHANGED channelVars
         /\ part = "pair" => Channel!PairNext \/ UNCHANGED channelVars
         /\ part = "handshake" => Session!HandshakeNext \/ UNCHANGED hs
         /\ part = "cipher" => Session!CipherNext \/ UNCHANGED <<cipher, sealed>>
         /\ part = "wire" => Session!WireNext \/ UNCHANGED wire
         /\ part = "logins" => Auth!LoginNext \/ UNCHANGED authVars
         /\ part = "keys" => Auth!KeyNext \/ UNCHANGED authVars
         /\ part = "roles" => Roles!Next \/ UNCHANGED roleVars
         /\ part = "store" => Store!Next \/ UNCHANGED storeVars
         /\ part = "backups" => Back!Next \/ UNCHANGED backupVars
         /\ part = "http" => Access!LoginNext \/ UNCHANGED accessVars
         /\ part = "ipc" => Access!IpcNext \/ UNCHANGED accessVars
         /\ part = "startup" => Start!Next \/ UNCHANGED startupVars
<1>1. CASE UNCHANGED vars
  BY <1>1, Zenon DEF vars
<1>2. ASSUME NEW p, Only(p) PROVE part' = part /\ part = p
  BY <1>2 DEF Only
<1> QED
  BY <1>1, <1>2 DEF Next

-----------------------------------------------------------------------------
(* Keys and nonces                                                           *)

SideTyped == side \in [Sides -> [epoch : Nat, send : Nat, recv : Nat]]

BoxesTyped ==
    /\ IsFiniteSet(boxes)
    /\ boxes \in SUBSET [from : Sides, made : Nat, key : Sides \X Nat, nonce : Nat,
                         opened : BOOLEAN]

\* What an end has sent under its present key has a smaller nonce than the next
\* message, and no box is of a key to come; an end has sent no more messages
\* under its key than there are boxes.
Counted ==
    /\ \A b \in boxes :
         /\ b.key[1] = b.from
         /\ b.key[2] <= side[b.from].epoch
         /\ b.key[2] = side[b.from].epoch => b.nonce < side[b.from].send
    /\ \A r \in Sides : side[r].send <= Cardinality(boxes) + 1

PairInv == SideTyped /\ BoxesTyped /\ Counted /\ Channel!NonceFresh

\* An instance has a cardinality of its own, which is the one of FiniteSets.
LEMMA ChannelCardinality == \A S : Channel!Cardinality(S) = Cardinality(S)
  BY Zenon DEF Channel!Cardinality, Cardinality

LEMMA EncryptKeepsPair ==
  ASSUME PairInv, NEW r \in Sides, Channel!encryptToPeer(r)
  PROVE  PairInv'
<1> DEFINE box == Channel!Box(r)
<1>1. /\ boxes' = boxes \cup {box}
      /\ side' = [side EXCEPT ![r] = Channel!Sent(@)]
      /\ Cardinality(boxes) < MaxSends
  BY ChannelCardinality DEF Channel!encryptToPeer
<1>2. Cardinality(boxes) \in Nat
  BY FS_CardinalityType DEF PairInv, BoxesTyped
<1>3. Channel!Made(r) \in Nat
  <2>1. {b \in boxes : b.from = r} \subseteq boxes
    OBVIOUS
  <2>2. IsFiniteSet({b \in boxes : b.from = r})
    BY <2>1, FS_Subset DEF PairInv, BoxesTyped
  <2> QED
    BY <2>2, FS_CardinalityType, ChannelCardinality DEF Channel!Made
<1>4. side[r].epoch \in Nat /\ side[r].send \in Nat
  BY DEF PairInv, SideTyped
<1>5. side[r].send % CounterLimit = side[r].send
  BY <1>1, <1>2, <1>4, MessagesFit DEF PairInv, Counted
<1>6. box.from = r /\ box.key = <<r, side[r].epoch>> /\ box.nonce = side[r].send
  BY <1>5 DEF Channel!Box
<1>7. box \in [from : Sides, made : Nat, key : Sides \X Nat, nonce : Nat, opened : BOOLEAN]
  BY <1>3, <1>4, <1>5 DEF Channel!Box
<1> HIDE DEF box
<1>8. box \notin boxes
  BY <1>4, <1>6 DEF PairInv, Counted
<1>9. IsFiniteSet(boxes') /\ Cardinality(boxes') = Cardinality(boxes) + 1
  BY <1>1, <1>8, FS_AddElement DEF PairInv, BoxesTyped
<1>9a. /\ Channel!Sent(side[r]) \in [epoch : Nat, send : Nat, recv : Nat]
      /\ Channel!Sent(side[r]).epoch = side[r].epoch
      /\ Channel!Sent(side[r]).send = side[r].send + 1
  BY DEF PairInv, SideTyped, Channel!Sent
<1>10. SideTyped'
  BY <1>1, <1>9a DEF PairInv, SideTyped
<1>11. BoxesTyped'
  BY <1>1, <1>7, <1>9 DEF PairInv, BoxesTyped
<1>12. \A q \in Sides : /\ side[q].epoch \in Nat /\ side[q].send \in Nat
                        /\ side'[q].epoch = side[q].epoch
                        /\ side'[q].send = IF q = r THEN side[q].send + 1 ELSE side[q].send
  BY <1>1, <1>9a DEF PairInv, SideTyped
<1>13. Counted'
  <2>1. \A b \in boxes : b.from \in Sides /\ b.key[2] \in Nat /\ b.nonce \in Nat
    BY DEF PairInv, BoxesTyped
  <2>2. \A b \in boxes' :
          /\ b.key[1] = b.from
          /\ b.key[2] <= side'[b.from].epoch
          /\ b.key[2] = side'[b.from].epoch => b.nonce < side'[b.from].send
    BY <1>1, <1>4, <1>6, <1>12, <2>1 DEF PairInv, Counted
  <2> QED
    BY <1>2, <1>9, <1>12, <2>2 DEF PairInv, Counted
<1>14. (Channel!NonceFresh)'
  BY <1>1, <1>6, <1>4 DEF PairInv, Counted, Channel!NonceFresh
<1> QED
  BY <1>10, <1>11, <1>13, <1>14 DEF PairInv

\* A box that is opened takes the place of the one that arrived: there was only
\* one of its key and nonce, and that is what the number of boxes rests on.
LEMMA DecryptKeepsPair ==
  ASSUME PairInv, NEW r \in Sides, NEW b \in boxes, Channel!decryptFromPeer(r, b)
  PROVE  PairInv'
<1> DEFINE box == [b EXCEPT !.opened = TRUE]
           rest == boxes \ {b}
<1>1. boxes' = rest \cup {box}
  BY DEF Channel!decryptFromPeer
<1>2. side' = [side EXCEPT ![r] = Channel!Received(@)]
  BY DEF Channel!decryptFromPeer
<1>3. b \in [from : Sides, made : Nat, key : Sides \X Nat, nonce : Nat, opened : BOOLEAN]
  BY DEF PairInv, BoxesTyped
<1>4. /\ box \in [from : Sides, made : Nat, key : Sides \X Nat, nonce : Nat, opened : BOOLEAN]
      /\ box.from = b.from /\ box.key = b.key /\ box.nonce = b.nonce
  BY <1>3
<1> HIDE DEF box
<1>5. box \notin rest
  BY <1>4 DEF PairInv, Channel!NonceFresh
<1>6. /\ IsFiniteSet(rest) /\ Cardinality(rest) \in Nat
      /\ Cardinality(rest) = Cardinality(boxes) - 1
  BY FS_RemoveElement, FS_CardinalityType DEF PairInv, BoxesTyped
<1>7. Cardinality(boxes) \in Nat
  BY FS_CardinalityType DEF PairInv, BoxesTyped
<1>8. \A c \in rest : c \in boxes /\ c # b
  OBVIOUS
<1> HIDE DEF rest
<1>9. IsFiniteSet(boxes') /\ Cardinality(boxes') = Cardinality(boxes)
  BY <1>1, <1>5, <1>6, <1>7, FS_AddElement
<1>9a. /\ Channel!Received(side[r]) \in [epoch : Nat, send : Nat, recv : Nat]
      /\ Channel!Received(side[r]).epoch = side[r].epoch
      /\ Channel!Received(side[r]).send = side[r].send
  BY DEF PairInv, SideTyped, Channel!Received
<1>10. SideTyped'
  BY <1>2, <1>9a DEF PairInv, SideTyped
<1>11. BoxesTyped'
  BY <1>1, <1>4, <1>8, <1>9 DEF PairInv, BoxesTyped
<1>12. \A q \in Sides : /\ side'[q].epoch = side[q].epoch
                        /\ side'[q].send = side[q].send
  BY <1>2, <1>9a DEF PairInv, SideTyped
<1>13. Counted'
  <2>1. \A c \in boxes : c.from \in Sides
    BY DEF PairInv, BoxesTyped
  <2> QED
    BY <1>1, <1>4, <1>8, <1>9, <1>12, <2>1 DEF PairInv, Counted
<1>14. (Channel!NonceFresh)'
  BY <1>1, <1>4, <1>8 DEF PairInv, Channel!NonceFresh
<1> QED
  BY <1>10, <1>11, <1>13, <1>14 DEF PairInv

LEMMA RekeyKeepsPair ==
  ASSUME PairInv, NEW r \in Sides, Channel!rekey(r)
  PROVE  PairInv'
<1>1. /\ boxes' = boxes
      /\ side' = [side EXCEPT ![r] = [epoch |-> @.epoch + 1, send |-> 1, recv |-> 1]]
  BY DEF Channel!rekey
<1>2. Cardinality(boxes) \in Nat
  BY FS_CardinalityType DEF PairInv, BoxesTyped
<1>3. \A q \in Sides :
        /\ side[q].epoch \in Nat /\ side[q].send \in Nat
        /\ side'[q].epoch = IF q = r THEN side[q].epoch + 1 ELSE side[q].epoch
        /\ side'[q].send = IF q = r THEN 1 ELSE side[q].send
  BY <1>1 DEF PairInv, SideTyped
<1>4. SideTyped'
  BY <1>1 DEF PairInv, SideTyped
<1>5. BoxesTyped' /\ (Channel!NonceFresh)'
  BY <1>1 DEF PairInv, BoxesTyped, Channel!NonceFresh
<1>6. Counted'
  <2>1. \A b \in boxes : b.from \in Sides /\ b.key[2] \in Nat /\ b.nonce \in Nat
    BY DEF PairInv, BoxesTyped
  <2> QED
    BY <1>1, <1>2, <1>3, <2>1 DEF PairInv, Counted
<1> QED
  BY <1>4, <1>5, <1>6 DEF PairInv

CipherType == [key : Nat, nonce : Nat, keys : Nat, intervals : SUBSET Nat, held : Nat,
               owned : BOOLEAN]

CipherTyped ==
    /\ cipher \in CipherType
    /\ sealed \in Seq(Nat \X Nat)

\* Nothing was encrypted with a key to come, and while a nonce does not begin
\* again, what was encrypted with the present key has a smaller nonce.
Numbered ==
    /\ cipher.key <= cipher.keys
    /\ cipher.nonce <= Len(sealed)
    /\ \A i \in 1..Len(sealed) :
         /\ sealed[i][1] # 0 /\ sealed[i][1] <= cipher.keys
         /\ Len(sealed) < MaxNonce /\ sealed[i][1] = cipher.key => sealed[i][2] < cipher.nonce

CipherInv == CipherTyped /\ Numbered /\ Session!NonceFresh

LEMMA CipherKept ==
  ASSUME CipherInv, Session!CipherNext
  PROVE  CipherInv'
<1>1. ASSUME cipher' = Session!Keyed(cipher) \/ cipher' = [Session!Keyed(cipher) EXCEPT !.owned = TRUE],
             sealed' = sealed
      PROVE  CipherInv'
  <2>1. cipher.keys + 1 \in Nat /\ cipher.owned \in BOOLEAN
        /\ cipher.intervals \cup {cipher.keys + 1} \in SUBSET Nat
    BY DEF CipherInv, CipherTyped, CipherType
  <2>2. Session!Keyed(cipher) \in CipherType
    BY <2>1 DEF CipherInv, CipherTyped, CipherType, Session!Keyed
  <2>3. /\ Session!Keyed(cipher).key = cipher.keys + 1
        /\ Session!Keyed(cipher).keys = cipher.keys + 1
        /\ Session!Keyed(cipher).nonce = 0
    BY DEF CipherInv, CipherTyped, CipherType, Session!Keyed
  <2>4. cipher' \in CipherType /\ cipher'.key = cipher.keys + 1
        /\ cipher'.keys = cipher.keys + 1 /\ cipher'.nonce = 0
    BY <1>1, <2>2, <2>3 DEF CipherType
  <2>5. cipher.keys \in Nat /\ Len(sealed) \in Nat
        /\ \A i \in 1..Len(sealed) : sealed[i][1] \in Nat /\ sealed[i][2] \in Nat
    BY DEF CipherInv, CipherTyped, CipherType
  <2>6. Numbered'
    BY <1>1, <2>4, <2>5 DEF CipherInv, Numbered
  <2> QED
    BY <1>1, <2>4, <2>6 DEF CipherInv, CipherTyped, Session!NonceFresh
<1>2. CASE Session!encrypt
  <2>1. /\ cipher.key # 0 /\ Len(sealed) < MaxNonce
        /\ cipher' = [cipher EXCEPT !.nonce = (@ + 1) % MaxNonce]
        /\ sealed' = Append(sealed, <<cipher.key, cipher.nonce>>)
    BY <1>2 DEF Session!encrypt, Session!Cipher, Session!NoKey
  <2> DEFINE n == Len(sealed)
  <2>2. /\ cipher.key \in Nat /\ cipher.nonce \in Nat /\ cipher.keys \in Nat /\ n \in Nat
        /\ \A i \in 1..n : sealed[i][1] \in Nat /\ sealed[i][2] \in Nat
    BY DEF CipherInv, CipherTyped, CipherType
  <2>3. (cipher.nonce + 1) % MaxNonce \in Nat /\ cipher.nonce + 1 <= MaxNonce
    BY <2>1, <2>2, MessagesFit DEF CipherInv, Numbered
  <2>4. /\ Len(sealed') = n + 1
        /\ \A i \in 1..n : sealed'[i] = sealed[i]
        /\ sealed'[n + 1] = <<cipher.key, cipher.nonce>>
    BY <2>1 DEF CipherInv, CipherTyped, CipherType
  <2>5. CipherTyped'
    <3>1. sealed' \in Seq(Nat \X Nat)
      BY <2>1, <2>2 DEF CipherInv, CipherTyped, CipherType
    <3>2. cipher' \in CipherType
      BY <2>1, <2>3 DEF CipherInv, CipherTyped, CipherType
    <3> QED
      BY <3>1, <3>2 DEF CipherTyped
  <2>6. /\ cipher'.key = cipher.key /\ cipher'.keys = cipher.keys
        /\ cipher'.nonce = (cipher.nonce + 1) % MaxNonce
    BY <2>1 DEF CipherInv, CipherTyped, CipherType
  <2> DEFINE next == cipher.nonce + 1
  <2>a. next \in Nat /\ next <= n + 1 /\ MaxNonce \in Nat /\ MaxNonce # 0
    BY <2>1, <2>2, MessagesFit DEF CipherInv, Numbered
  <2>b. cipher'.nonce = next % MaxNonce
    BY <2>6
  <2> HIDE DEF next
  <2>c. next % MaxNonce <= next /\ (next < MaxNonce => next % MaxNonce = next)
    BY <2>a
  <2>7. n + 1 < MaxNonce => cipher'.nonce = cipher.nonce + 1
    BY <2>2, <2>a, <2>b, <2>c DEF next
  <2>8. cipher'.nonce <= n + 1
    BY <2>2, <2>3, <2>6, <2>a, <2>b, <2>c DEF next
  <2>9. Numbered'
    BY <2>1, <2>2, <2>4, <2>6, <2>7, <2>8, MessagesFit DEF CipherInv, Numbered
  <2>10. (Session!NonceFresh)'
    <3>1. \A i \in 1..n : sealed'[i] # sealed'[n + 1]
      BY <2>1, <2>2, <2>4 DEF CipherInv, Numbered
    <3>2. DOMAIN sealed = 1..n /\ DOMAIN sealed' = 1..(n + 1)
      BY <2>4, <2>5 DEF CipherInv, CipherTyped
    <3> QED
      BY <2>2, <2>4, <3>1, <3>2 DEF CipherInv, Session!NonceFresh
  <2> QED
    BY <2>5, <2>9, <2>10 DEF CipherInv
<1>3. ASSUME \/ cipher' = Session!stopKeyRotation(cipher)
             \/ cipher' = [Session!stopKeyRotation(cipher) EXCEPT !.key = 0, !.owned = FALSE],
             sealed' = sealed
      PROVE  CipherInv'
  <2>1. cipher.intervals \ {cipher.held} \in SUBSET Nat /\ cipher.owned \in BOOLEAN
    BY DEF CipherInv, CipherTyped, CipherType
  <2>2. Session!stopKeyRotation(cipher) \in CipherType
    BY <2>1 DEF CipherInv, CipherTyped, CipherType, Session!stopKeyRotation, Session!NoKey
  <2>3. /\ Session!stopKeyRotation(cipher).key = cipher.key
        /\ Session!stopKeyRotation(cipher).keys = cipher.keys
        /\ Session!stopKeyRotation(cipher).nonce = cipher.nonce
    BY DEF CipherInv, CipherTyped, CipherType, Session!stopKeyRotation
  <2>4. /\ cipher' \in CipherType
        /\ cipher'.key = cipher.key \/ cipher'.key = 0
        /\ cipher'.keys = cipher.keys /\ cipher'.nonce = cipher.nonce
    <3>1. \A K \in CipherType :
            LET D == [K EXCEPT !.key = 0, !.owned = FALSE]
            IN D \in CipherType /\ D.key = 0 /\ D.keys = K.keys /\ D.nonce = K.nonce
      BY DEF CipherType
    <3> QED
      BY <1>3, <2>2, <2>3, <3>1
  <2>5. cipher.keys \in Nat
    BY DEF CipherInv, CipherTyped, CipherType
  <2>6. Numbered'
    BY <1>3, <2>4, <2>5 DEF CipherInv, Numbered
  <2> QED
    BY <1>3, <2>4, <2>6 DEF CipherInv, CipherTyped, Session!NonceFresh
<1> QED
  BY <1>1, <1>2, <1>3 DEF Session!CipherNext, Session!InitCipher, Session!Rotate,
     Session!destroy, Session!Cipher, Session!NoKey

NonceInv ==
    /\ part \in {"channels", "pair"} => PairInv
    /\ part = "cipher" => CipherInv

LEMMA NonceInitially == Init => NonceInv
<1> SUFFICES ASSUME Init PROVE NonceInv
  OBVIOUS
<1>1. PairInv
  <2>1. boxes = {} /\ side = [r \in Sides |-> [epoch |-> 0, send |-> 1, recv |-> 1]]
    BY DEF Init, Channel!Init
  <2>2. IsFiniteSet(boxes) /\ Cardinality(boxes) = 0
    BY <2>1, FS_EmptySet
  <2>3. SideTyped /\ BoxesTyped
    BY <2>1, <2>2 DEF SideTyped, BoxesTyped
  <2>4. Counted
    BY <2>1, <2>2 DEF Counted
  <2> QED
    BY <2>1, <2>3, <2>4 DEF PairInv, Channel!NonceFresh
<1>2. CipherInv
  <2>1. /\ sealed = <<>>
        /\ cipher = [key |-> 0, nonce |-> 0, keys |-> 0, intervals |-> {}, held |-> 0,
                     owned |-> FALSE]
    BY DEF Init, Session!Init, Session!NoKey
  <2>2. CipherTyped
    BY <2>1 DEF CipherTyped, CipherType
  <2>3. Len(sealed) = 0 /\ cipher.key = 0 /\ cipher.keys = 0 /\ cipher.nonce = 0
    BY <2>1
  <2>4. Numbered
    BY <2>3 DEF Numbered
  <2> QED
    BY <2>1, <2>2, <2>4 DEF CipherInv, Session!NonceFresh
<1> QED
  BY <1>1, <1>2 DEF NonceInv

LEMMA NonceKept == NonceInv /\ [Next]_vars => NonceInv'
<1> SUFFICES ASSUME NonceInv, [Next]_vars PROVE NonceInv'
  OBVIOUS
<1>1. part' = part
  BY StepOfPart
<1>2. CASE part \in {"channels", "pair"}
  <2>1. PairInv
    BY <1>2 DEF NonceInv
  <2>2. \/ Channel!PairNext
        \/ side' = side /\ boxes' = boxes
    <3>1. Channel!ManagerNext => side' = side /\ boxes' = boxes
      BY Zenon DEF Channel!ManagerNext, Channel!Close, Channel!Open, Channel!CloseChannel,
         Channel!BeginRekey, Channel!RekeyTimer, Channel!BecomesIdle, Channel!RekeyEnds,
         Channel!Send, Channel!SendFails, Channel!Opened, Channel!CloseAll, Channel!CloseNext
    <3>2. \/ Channel!ManagerNext \/ Channel!PairNext \/ UNCHANGED channelVars
      BY <1>2, StepOfPart, Zenon
    <3> QED
      BY <3>1, <3>2 DEF channelVars
  <2>3. PairInv'
    <3>1. CASE Channel!PairNext
      BY <2>1, <3>1, EncryptKeepsPair, DecryptKeepsPair, RekeyKeepsPair DEF Channel!PairNext
    <3>2. CASE side' = side /\ boxes' = boxes
      BY <2>1, <3>2 DEF PairInv, SideTyped, BoxesTyped, Counted, Channel!NonceFresh
    <3> QED
      BY <2>2, <3>1, <3>2
  <2> QED
    BY <1>1, <1>2, <2>3 DEF NonceInv
<1>3. CASE part = "cipher"
  <2>1. CipherInv
    BY <1>3 DEF NonceInv
  <2>2. Session!CipherNext \/ (cipher' = cipher /\ sealed' = sealed)
    BY <1>3, StepOfPart
  <2>3. CipherInv'
    BY <2>1, <2>2, CipherKept
       DEF CipherInv, CipherTyped, Numbered, Session!NonceFresh
  <2> QED
    BY <1>1, <1>3, <2>3 DEF NonceInv
<1> QED
  BY <1>1, <1>2, <1>3 DEF NonceInv

\* No key and nonce are used for two messages: by the ends of a shared channel,
\* for any number of messages below the range of their counters, whenever they
\* rekey and whatever arrives, and by the encryptor of a session, however its
\* intervals rotate, before a nonce begins again.
THEOREM NoncesAreFresh == Spec => []NonceFresh
<1>1. NonceInv => NonceFresh
  BY DEF NonceInv, NonceFresh, PairInv, CipherInv
<1> QED
  BY <1>1, NonceInitially, NonceKept, PTL DEF Spec

-----------------------------------------------------------------------------
(* Channels that close, handshakes that wait, messages of a stream           *)

Awaits == {"open", "rekey", "send", "sendRekey"}

ChannelType ==
    [peer : Peers \cup {0}, state : {"none", "INITIALIZING", "OPEN", "REKEYING", "CLOSED", "ERROR"},
     key : Int, epoch : Nat, nonce : Nat, timer : BOOLEAN, epochs : SUBSET Nat,
     busy : SUBSET Awaits, idle : BOOLEAN]

\* A channel that still opens has no key, and no epoch has passed: so what is
\* left when close() comes first is clean, and the key it then gets is right.
Clean(k) ==
    /\ k.state = "CLOSED" => k.key = -1 /\ k.epochs = {} /\ k.timer = FALSE
    /\ k.key # -1 => k.key = k.epoch
    /\ "open" \in k.busy => k.key = -1 /\ k.epoch = 0
    /\ \A e \in k.epochs : e < k.epoch

CleanInv == /\ channel \in [Channels -> ChannelType]
            /\ \A c \in Channels : Clean(channel[c])

LEMMA CloseKeepsClean ==
  ASSUME NEW k \in ChannelType, Clean(k)
  PROVE  Channel!Closed(k) \in ChannelType /\ Clean(Channel!Closed(k))
<1>1. Channel!Closed(k) \in ChannelType
  <2>1. CASE k.state = "CLOSED"
    BY <2>1 DEF Channel!Closed
  <2>2. CASE k.state # "CLOSED"
    <3>1. Channel!Closed(k) = [k EXCEPT !.state = "CLOSED", !.timer = FALSE, !.key = -1,
                                        !.epochs = {}]
      BY <2>2, Zenon DEF Channel!Closed, Channel!NoKey
    <3> DEFINE none == {}
    <3>2. none \in SUBSET Nat /\ -1 \in Int
      OBVIOUS
    <3> HIDE DEF none
    <3>3. [k EXCEPT !.state = "CLOSED", !.timer = FALSE, !.key = -1, !.epochs = none]
            \in ChannelType
      BY <3>2 DEF ChannelType
    <3> QED
      BY <3>1, <3>3 DEF none
  <2> QED
    BY <2>1, <2>2
<1>2. Clean(Channel!Closed(k))
  BY DEF ChannelType, Clean, Channel!Closed, Channel!NoKey
<1> QED
  BY <1>1, <1>2

LEMMA RekeyingKeepsClean ==
  ASSUME NEW k \in ChannelType, Clean(k)
  PROVE  Channel!Rekeying(k) \in ChannelType /\ Clean(Channel!Rekeying(k))
<1>1. k.busy \cup {"rekey"} \in SUBSET Awaits
  BY DEF ChannelType, Awaits
<1>2. Channel!Rekeying(k) \in ChannelType
  BY <1>1 DEF ChannelType, Channel!Rekeying
<1>3. Clean(Channel!Rekeying(k))
  BY DEF ChannelType, Clean, Channel!Rekeying
<1> QED
  BY <1>2, <1>3

\* What a step of the manager does to the channels.
Replaced(d, k) ==
    /\ d \in Channels => k \in ChannelType /\ Clean(k)
    /\ channel' = [channel EXCEPT ![d] = k]

LEMMA ReplacedKeepsClean ==
  ASSUME CleanInv, NEW d, NEW k, Replaced(d, k)
  PROVE  CleanInv'
  BY DEF CleanInv, Replaced

LEMMA NewIsClean ==
  /\ Channel!NewChannel \in ChannelType /\ Clean(Channel!NewChannel)
  /\ Channel!NewChannel.key = -1 /\ Channel!NewChannel.epoch = 0
  /\ Channel!NewChannel.epochs = {}
  BY DEF Channel!NewChannel, Channel!NoKey, Channel!None, ChannelType, Clean

LEMMA OpenKeepsClean ==
  ASSUME CleanInv, NEW p \in Peers, NEW c \in Channels, Channel!Open(p, c)
  PROVE  CleanInv'
<1> DEFINE new == Channel!NewChannel
           busy == {"open"}
           k == [new EXCEPT !.peer = p, !.state = "INITIALIZING", !.busy = busy]
<1>1. /\ new \in ChannelType /\ new.key = -1 /\ new.epoch = 0 /\ new.epochs = {}
  BY NewIsClean
<1>2. channel' = [channel EXCEPT ![c] = k]
  BY Zenon DEF Channel!Open, Channel!Set
<1>3. busy \in SUBSET Awaits
  BY DEF Awaits
<1> HIDE DEF new, busy
<1>4. k \in ChannelType
  BY <1>1, <1>3 DEF ChannelType
<1>5. Clean(k)
  BY <1>1, <1>3 DEF Clean, ChannelType
<1> HIDE DEF k
<1> QED
  BY <1>2, <1>4, <1>5, ReplacedKeepsClean DEF Replaced

LEMMA OpenedKeepsClean ==
  ASSUME CleanInv, NEW c \in Channels, NEW ok \in BOOLEAN, Channel!Opened(c, ok)
  PROVE  CleanInv'
<1> DEFINE k == channel[c]
           rest == k.busy \ {"open"}
           key == IF HasIdentity THEN 0 ELSE k.key
           opened == [k EXCEPT !.busy = rest, !.state = "OPEN", !.timer = TRUE, !.key = key]
           broken == [k EXCEPT !.busy = rest, !.state = "ERROR"]
<1>1. "open" \in k.busy
  BY Zenon DEF Channel!Opened
<1>2. channel' = [channel EXCEPT ![c] = opened] \/ channel' = [channel EXCEPT ![c] = broken]
  BY Zenon DEF Channel!Opened, Channel!Set
<1>3. k \in ChannelType /\ Clean(k)
  BY DEF CleanInv
<1>4. rest \in SUBSET Awaits /\ "open" \notin rest /\ k.key = -1 /\ k.epoch = 0
  BY <1>1, <1>3 DEF ChannelType, Clean
<1>5. key \in Int /\ (key = 0 \/ key = -1)
  BY <1>4
<1> HIDE DEF rest, key, k
<1>6. opened \in ChannelType /\ broken \in ChannelType
  BY <1>3, <1>4, <1>5 DEF ChannelType
<1>7. Clean(opened)
  BY <1>3, <1>4, <1>5 DEF ChannelType, Clean
<1>8. Clean(broken)
  BY <1>3, <1>4, <1>5 DEF ChannelType, Clean
<1> HIDE DEF opened, broken
<1> QED
  BY <1>2, <1>6, <1>7, <1>8, ReplacedKeepsClean DEF Replaced

LEMMA RekeyEndsKeepsClean ==
  ASSUME CleanInv, NEW c \in Channels, Channel!RekeyEnds(c)
  PROVE  CleanInv'
<1> DEFINE k == channel[c]
           rest == k.busy \ {"rekey", "sendRekey"}
           busy == rest \cup IF "sendRekey" \in k.busy THEN {"send"} ELSE {}
           epochs == k.epochs \cup {k.epoch}
           broken == [k EXCEPT !.state = "ERROR", !.busy = rest]
           rekeyed == [k EXCEPT !.state = "OPEN", !.busy = busy, !.epochs = epochs,
                                !.key = k.epoch + 1, !.epoch = k.epoch + 1, !.nonce = 0]
<1>1. channel' = [channel EXCEPT ![c] = IF k.key = -1 THEN broken ELSE rekeyed]
  BY Zenon DEF Channel!RekeyEnds, Channel!Set, Channel!NoKey
<1>2. k \in ChannelType /\ Clean(k)
  BY DEF CleanInv
<1>3. /\ rest \in SUBSET Awaits /\ busy \in SUBSET Awaits
      /\ "open" \in rest => "open" \in k.busy
      /\ "open" \in busy => "open" \in k.busy
  BY <1>2 DEF ChannelType, Awaits
<1>4. k.epoch \in Nat /\ k.epochs \in SUBSET Nat
  BY <1>2 DEF ChannelType
<1>5. epochs \in SUBSET Nat /\ \A e \in epochs : e < k.epoch + 1
  BY <1>2, <1>4 DEF Clean
<1> HIDE DEF rest, busy, epochs, k
<1>6. broken \in ChannelType /\ rekeyed \in ChannelType
  <2>1. broken \in ChannelType
    BY <1>2, <1>3 DEF ChannelType
  <2>2. k.epoch + 1 \in Nat /\ k.epoch + 1 \in Int
    BY <1>4
  <2>3. rekeyed \in ChannelType
    BY <1>2, <1>3, <1>5, <2>2 DEF ChannelType
  <2> QED
    BY <2>1, <2>3
<1>7. Clean(broken)
  BY <1>2, <1>3 DEF ChannelType, Clean
<1>8. k.key # -1 => Clean(rekeyed)
  BY <1>2, <1>3, <1>4, <1>5 DEF ChannelType, Clean
<1> HIDE DEF broken, rekeyed
<1> QED
  BY <1>1, <1>6, <1>7, <1>8, ReplacedKeepsClean DEF Replaced

LEMMA SendKeepsClean ==
  ASSUME CleanInv, NEW c \in Channels, Channel!Send(c)
  PROVE  CleanInv'
<1> DEFINE k == channel[c]
           r == Channel!Rekeying(k)
           due == [r EXCEPT !.busy = r.busy \cup {"sendRekey"}]
           sends == [k EXCEPT !.busy = k.busy \cup {"send"}]
<1>1. channel' = [channel EXCEPT ![c] = due] \/ channel' = [channel EXCEPT ![c] = sends]
  BY Zenon DEF Channel!Send, Channel!Set
<1>2. k \in ChannelType /\ Clean(k)
  BY DEF CleanInv
<1> HIDE DEF k
<1>3. r \in ChannelType /\ Clean(r)
  BY <1>2, RekeyingKeepsClean
<1> HIDE DEF r
<1>4. r.busy \cup {"sendRekey"} \in SUBSET Awaits /\ k.busy \cup {"send"} \in SUBSET Awaits
  BY <1>2, <1>3 DEF ChannelType, Awaits
<1>5. due \in ChannelType /\ Clean(due)
  BY <1>3, <1>4 DEF ChannelType, Clean
<1>6. sends \in ChannelType /\ Clean(sends)
  BY <1>2, <1>4 DEF ChannelType, Clean
<1> HIDE DEF due, sends
<1> QED
  BY <1>1, <1>5, <1>6, ReplacedKeepsClean DEF Replaced

LEMMA ManagerKeepsClean ==
  ASSUME CleanInv, Channel!ManagerNext
  PROVE  CleanInv'
<1>1. ASSUME NEW d, \/ channel' = [channel EXCEPT ![d] = Channel!Closed(channel[d])]
                    \/ channel' = [channel EXCEPT ![d] = Channel!Rekeying(channel[d])]
      PROVE  CleanInv'
  <2>1. d \in Channels => channel[d] \in ChannelType /\ Clean(channel[d])
    BY DEF CleanInv
  <2>2. \/ Replaced(d, Channel!Closed(channel[d]))
        \/ Replaced(d, Channel!Rekeying(channel[d]))
    BY <1>1, <2>1, CloseKeepsClean, RekeyingKeepsClean DEF Replaced
  <2> QED
    BY <2>2, ReplacedKeepsClean
<1>2. ASSUME NEW c \in Channels, Channel!BecomesIdle(c) \/ Channel!SendFails(c)
      PROVE  CleanInv'
  <2> DEFINE k == channel[c]
             i == [k EXCEPT !.idle = TRUE]
             rest == k.busy \ {"send"}
             f == [k EXCEPT !.busy = rest, !.nonce = k.nonce + 1]
  <2>1. channel' = [channel EXCEPT ![c] = i] \/ channel' = [channel EXCEPT ![c] = f]
    BY <1>2, Zenon DEF Channel!BecomesIdle, Channel!SendFails, Channel!Set
  <2>2. k \in ChannelType /\ Clean(k)
    BY DEF CleanInv
  <2> HIDE DEF k
  <2>3. /\ rest \in SUBSET Awaits /\ k.nonce + 1 \in Nat
        /\ "open" \in rest => "open" \in k.busy
    BY <2>2 DEF ChannelType
  <2> HIDE DEF rest
  <2>4. i \in ChannelType /\ Clean(i)
    BY <2>2 DEF ChannelType, Clean
  <2>5. f \in ChannelType /\ Clean(f)
    <3>1. f \in ChannelType
      BY <2>2, <2>3 DEF ChannelType
    <3>2. Clean(f)
      BY <2>2, <2>3 DEF ChannelType, Clean
    <3> QED
      BY <3>1, <3>2
  <2> HIDE DEF i, f
  <2> QED
    BY <2>1, <2>4, <2>5, ReplacedKeepsClean DEF Replaced
<1>3. CASE \E p \in Peers : Channel!Close(p)
  BY <1>1, <1>3, Zenon DEF Channel!Close, Channel!Set
<1>4. CASE \E c \in Channels : Channel!CloseChannel(c) \/ Channel!BeginRekey(c)
                               \/ Channel!RekeyTimer(c)
  BY <1>1, <1>4, Zenon DEF Channel!CloseChannel, Channel!BeginRekey, Channel!RekeyTimer, Channel!Set
<1>5. CASE Channel!CloseAll \/ Channel!CloseNext
  <2>1. channel' = channel => CleanInv'
    BY DEF CleanInv
  <2> QED
    BY <1>1, <1>5, <2>1, Zenon DEF Channel!CloseAll, Channel!CloseNext, Channel!Set
<1> QED
  BY <1>2, <1>3, <1>4, <1>5, OpenKeepsClean, OpenedKeepsClean, RekeyEndsKeepsClean, SendKeepsClean
     DEF Channel!ManagerNext

HandshakeInv ==
    /\ hs \in [state : {"idle", "hello_sent", "hello_received", "auth_sent", "failed"},
               asked : BOOLEAN, timer : BOOLEAN, leaked : Nat]
    /\ Session!WaitHasTimer

LEMMA HandshakeKept ==
  ASSUME HandshakeInv, Session!HandshakeNext
  PROVE  HandshakeInv'
<1> DEFINE T == [state : {"idle", "hello_sent", "hello_received", "auth_sent", "failed"},
                 asked : BOOLEAN, timer : BOOLEAN, leaked : Nat]
           Waits(h) == h.state \in {"hello_sent", "auth_sent"} => h.timer
<1>1. hs \in T /\ Waits(hs)
  BY DEF HandshakeInv, Session!WaitHasTimer
<1>2. ASSUME NEW h \in T
      PROVE  /\ Session!clearTimeout(h) \in T /\ Session!fail(h) \in T
             /\ Session!fail(h).state = "failed"
             /\ Session!clearTimeout(h).state = h.state
  BY DEF Session!clearTimeout, Session!fail
<1>3. ASSUME NEW h \in T
      PROVE  /\ Session!startTimeout(h) \in T /\ Session!startTimeout(h).timer = TRUE
             /\ Session!startTimeout(h).state = h.state
  <2> DEFINE left == IF h.timer THEN h.leaked + 1 ELSE h.leaked
  <2>1. left \in Nat
    OBVIOUS
  <2>2. Session!startTimeout(h) = [h EXCEPT !.leaked = left, !.timer = TRUE]
    BY Zenon DEF Session!startTimeout
  <2> HIDE DEF left
  <2> QED
    BY <2>1, <2>2
<1>4. SUFFICES hs' \in T /\ Waits(hs')
  BY DEF HandshakeInv, Session!WaitHasTimer
<1>5. CASE Session!Start
  <2>1. [hs EXCEPT !.state = "hello_sent"] \in T
    BY <1>1
  <2> QED
    BY <1>3, <1>5, <2>1, Zenon DEF Session!Start, Session!Handshake
<1>6. CASE Session!Reset
  <2> DEFINE h == [hs EXCEPT !.state = "idle", !.asked = FALSE]
  <2>1. h \in T /\ h.state = "idle"
    BY <1>1
  <2>2. hs' = Session!clearTimeout(h)
    BY <1>6 DEF Session!Reset, Session!Handshake
  <2> HIDE DEF h
  <2> QED
    BY <1>2, <2>1, <2>2
<1>7. ASSUME NEW hello \in {"good", "version", "throws"}, Session!HandleHello(hello)
      PROVE  hs' \in T /\ Waits(hs')
  <2> DEFINE h == [hs EXCEPT !.state = "hello_received"]
             asked == [h EXCEPT !.asked = TRUE]
  <2>1. h \in T /\ h.state = "hello_received"
    BY <1>1
  <2>2. hs' = asked \/ hs' = Session!fail(h) \/ hs' = h
    BY <1>7, Zenon DEF Session!HandleHello, Session!Handshake
  <2> HIDE DEF h
  <2>3. asked \in T /\ asked.state = "hello_received"
    BY <2>1
  <2> HIDE DEF asked
  <2> QED
    BY <1>2, <2>1, <2>2, <2>3
<1>8. ASSUME NEW hello \in {"good", "version", "throws"}, Session!HandleHelloAck(hello)
      PROVE  hs' \in T /\ Waits(hs')
  <2> DEFINE h == [hs EXCEPT !.asked = TRUE, !.state = "auth_sent"]
  <2>1. h \in T /\ h.state = "auth_sent" /\ h.timer = hs.timer
    BY <1>1
  <2>2. /\ hs.state = "hello_sent"
        /\ hs' = h \/ hs' = Session!fail(hs) \/ hs' = hs
    BY <1>8, Zenon DEF Session!HandleHelloAck, Session!Handshake
  <2> HIDE DEF h
  <2> QED
    BY <1>1, <1>2, <2>1, <2>2
<1>9. CASE Session!HandleAuth \/ Session!HandleAuthAck
  <2>1. hs' = Session!fail(hs)
    BY <1>9, Zenon DEF Session!HandleAuth, Session!HandleAuthAck, Session!Handshake
  <2> QED
    BY <1>1, <1>2, <2>1
<1>10. CASE Session!Timeout
  <2> DEFINE h == [hs EXCEPT !.leaked = @ - 1]
  <2>1. hs.leaked > 0 => h \in T
    BY <1>1
  <2>2. hs' = Session!fail(hs) \/ (hs.leaked > 0 /\ hs' = Session!fail(h))
    BY <1>10 DEF Session!Timeout, Session!Handshake
  <2> HIDE DEF h
  <2> QED
    BY <1>1, <1>2, <2>1, <2>2
<1> HIDE DEF T, Waits
<1> QED
  BY <1>5, <1>6, <1>7, <1>8, <1>9, <1>10, Zenon DEF Session!HandshakeNext

-----------------------------------------------------------------------------
(* The messages of a stream                                                  *)

WireType == [stream : Seq(STRING), arrived : Nat, done : Nat, given : Seq(Nat),
             failed : BOOLEAN]

\* The parser has returned the first `done' messages, and as long as none was
\* too large, all that have arrived.
WireInv ==
    /\ wire \in WireType
    /\ wire.given = [i \in 1..wire.done |-> i]
    /\ wire.done <= wire.arrived \div 2
    /\ wire.failed = FALSE => wire.done = wire.arrived \div 2 /\ Session!TooLarge(wire) = {}

LEMMA LeastNumber ==
    ASSUME NEW S \in SUBSET Nat, S # {}
    PROVE  \E m \in S : \A n \in S : m <= n
<1> DEFINE R == {ss \in Nat \X Nat : ss[1] < ss[2]}
<1>1. IsWellFoundedOn(R, Nat)
    BY NatLessThanWellFounded DEF OpToRel
<1>2. \A m, n \in Nat : m < n => <<m, n>> \in R
    OBVIOUS
<1> HIDE DEF R
<1>3. PICK m \in S : \A n \in S : <<n, m>> \notin R
    BY <1>1, WFMin
<1>4. \A n \in S : ~(n < m)
    BY <1>2, <1>3
<1>5. \A n \in S : m <= n
    BY <1>4
<1>. QED  BY <1>5

LEMMA SessionCardinality == \A S : Session!Cardinality(S) = Cardinality(S)
  BY Zenon DEF Session!Cardinality, Cardinality

LEMMA SessionInterval ==
  ASSUME NEW x \in Int, NEW y \in Int
  PROVE  Session!Cardinality(x..y) = IF x > y THEN 0 ELSE y - x + 1
<1>1. Session!Cardinality(x..y) = Cardinality(x..y)
  BY SessionCardinality, Zenon
<1>2. Cardinality(x..y) = IF x > y THEN 0 ELSE y - x + 1
  BY FS_Interval
<1> QED
  BY <1>1, <1>2

\* The messages from a + 1 to b, in order.
LEMMA AscendingRun ==
  ASSUME NEW a \in Nat, NEW b \in Nat, a <= b
  PROVE  Session!Ascending((a+1)..b) = [k \in 1..(b - a) |-> a + k]
<1> DEFINE S == (a+1)..b
<1>1. Session!Cardinality(S) = b - a
  <2>1. a + 1 \in Int /\ b \in Int
    OBVIOUS
  <2>2. Session!Cardinality((a+1)..b) = IF a + 1 > b THEN 0 ELSE b - (a + 1) + 1
    BY <2>1, SessionInterval, Zenon
  <2> QED
    BY <2>2
<1>2. ASSUME NEW k \in 1..(b - a)
      PROVE  (CHOOSE i \in S : Session!Cardinality({j \in S : j < i}) = k - 1) = a + k
  <2>1. ASSUME NEW i \in S
        PROVE  Session!Cardinality({j \in S : j < i}) = i - 1 - a
    <3>1. {j \in S : j < i} = (a+1)..(i - 1)
      OBVIOUS
    <3>2. Session!Cardinality((a+1)..(i - 1)) = i - 1 - a
      BY SessionInterval
    <3> QED
      BY <3>1, <3>2, Zenon
  <2>2. a + k \in S
    OBVIOUS
  <2>3. \A i \in S : Session!Cardinality({j \in S : j < i}) = k - 1 <=> i = a + k
    BY <2>1
  <2> HIDE DEF S
  <2> QED
    BY <2>2, <2>3
<1> HIDE DEF S
<1> QED
  BY <1>1, <1>2 DEF S, Session!Ascending

\* What feed() parses are the messages from the first one not yet returned to
\* some last one that has arrived, the last of all if none is too large.
LEMMA ParsedIsRun ==
  ASSUME NEW w, w.arrived \in Nat, w.done \in Nat, w.stream \in Seq(STRING),
         w.arrived <= 2 * Len(w.stream), w.done <= w.arrived \div 2
  PROVE  \E b \in Nat : /\ Session!Parsed(w) = (w.done + 1)..b
                        /\ w.done <= b /\ b <= w.arrived \div 2
                        /\ Session!TooLarge(w) = {} => b = w.arrived \div 2
<1> DEFINE m == w.arrived \div 2
           large == Session!TooLarge(w)
<1>1. m \in Nat /\ m <= Len(w.stream) /\ \A i \in Int : i <= m <=> w.arrived >= 2 * i
  OBVIOUS
<1>1a. w.done <= m
  OBVIOUS
<1>0. SUFFICES \E b \in Nat : /\ Session!Parsed(w) = (w.done + 1)..b
                              /\ w.done <= b /\ b <= m /\ (large = {} => b = m)
  OBVIOUS
<1> HIDE DEF m
<1>2. Session!Complete(w) = 1..m
  <2>1. DOMAIN w.stream = 1..Len(w.stream) /\ Len(w.stream) \in Nat
    OBVIOUS
  <2> QED
    BY <1>1, <2>1 DEF Session!Complete
<1>3. large \subseteq 1..Len(w.stream)
  BY DEF Session!TooLarge
<1> HIDE DEF large
<1>4. CASE large = {}
  <2>1. Session!Parsed(w) = (w.done + 1)..m
    BY <1>1, <1>2, <1>4 DEF Session!Parsed, large
  <2> QED
    BY <1>1, <1>1a, <2>1
<1>5. CASE large # {}
  <2>1. PICK j \in large : \A i \in large : j <= i
    <3>1. large \in SUBSET Nat
      BY <1>3
    <3> QED
      BY <1>5, <3>1, LeastNumber
  <2>2. j \in 1..Len(w.stream) /\ w.arrived >= 2 * j - 1
    BY DEF large, Session!TooLarge
  <2>3. j - 1 <= m
    BY <2>2, <1>1
  <2>4. \A i \in Nat : (\A l \in large : i < l) <=> i < j
    BY <1>3, <2>1
  <2> DEFINE b == IF j - 1 < w.done THEN w.done ELSE j - 1
  <2>5. b \in Nat /\ w.done <= b /\ b <= m
    BY <1>1, <1>1a, <2>2, <2>3
  <2>6. Session!Parsed(w) = {i \in 1..m : i > w.done /\ i < j}
    BY <1>1, <1>2, <2>4 DEF Session!Parsed, large
  <2>7. {i \in 1..m : i > w.done /\ i < j} = (w.done + 1)..b
    BY <1>1, <2>2, <2>3, <2>5
  <2> HIDE DEF b
  <2> QED
    BY <1>5, <2>5, <2>6, <2>7
<1> QED
  BY <1>4, <1>5 DEF large

LEMMA WireKept ==
  ASSUME WireInv, NEW n \in 1..3, Session!Feed(n)
  PROVE  WireInv'
<1> DEFINE a == wire.arrived + n
           w == [wire EXCEPT !.arrived = a]
           parsed == Session!Parsed(w)
           more == Session!Ascending(parsed)
           count == wire.done + Session!Cardinality(parsed)
           failed == Session!TooLarge(w) # {}
<1>1. /\ wire.failed = FALSE /\ w.arrived <= 2 * Len(w.stream)
      /\ wire' = [w EXCEPT !.given = w.given \o more, !.done = w.done + Session!Cardinality(parsed),
                           !.failed = failed]
  BY DEF Session!Feed, WireInv
<1>2. a \in Nat /\ wire.arrived \div 2 <= a \div 2 /\ wire.done \in Nat
  BY DEF WireInv, WireType
<1> HIDE DEF a
<1>3. /\ w \in WireType /\ w.arrived = a /\ w.done = wire.done
      /\ w.stream = wire.stream /\ w.given = wire.given /\ w.failed = wire.failed
  BY <1>2 DEF WireInv, WireType
<1> HIDE DEF w
<1>4. PICK b \in Nat : /\ parsed = (wire.done + 1)..b
                       /\ wire.done <= b /\ b <= a \div 2
                       /\ Session!TooLarge(w) = {} => b = a \div 2
  BY <1>1, <1>2, <1>3, ParsedIsRun DEF WireInv, WireType
<1>5. Session!Cardinality(parsed) = b - wire.done
  <2>1. wire.done + 1 \in Int /\ b \in Int
    BY <1>2
  <2>2. Session!Cardinality((wire.done + 1)..b)
          = IF wire.done + 1 > b THEN 0 ELSE b - (wire.done + 1) + 1
    BY <2>1, SessionInterval, Zenon
  <2> QED
    BY <1>2, <1>4, <2>2
<1>6. more = [k \in 1..(b - wire.done) |-> wire.done + k]
  BY <1>2, <1>4, AscendingRun, Zenon
<1> HIDE DEF parsed, more, failed
<1>7. w.given \o more = [i \in 1..b |-> i]
  <2>1. /\ w.given = [i \in 1..wire.done |-> i] /\ wire.done \in Nat
    BY <1>3 DEF WireInv, WireType
  <2>2. w.given \in Seq(Nat) /\ Len(w.given) = wire.done
    BY <2>1
  <2> DEFINE d == b - wire.done
  <2>3. d \in Nat /\ b = wire.done + d
    BY <1>2, <1>4
  <2> HIDE DEF d
  <2>4. more = [k \in 1..d |-> wire.done + k]
    BY <1>6 DEF d
  <2>5. more \in Seq(Nat) /\ Len(more) = d
    BY <1>2, <2>3, <2>4
  <2> DEFINE both == w.given \o more
  <2>6. /\ both \in Seq(Nat) /\ Len(both) = b
        /\ \A i \in 1..b : both[i] = IF i <= wire.done THEN w.given[i] ELSE more[i - wire.done]
    <3>1. /\ both \in Seq(Nat) /\ Len(both) = Len(w.given) + Len(more)
          /\ \A i \in 1..(Len(w.given) + Len(more)) :
               both[i] = IF i <= Len(w.given) THEN w.given[i] ELSE more[i - Len(w.given)]
      BY <2>2, <2>5, ConcatProperties
    <3> HIDE DEF both
    <3> QED
      BY <2>2, <2>3, <2>5, <3>1
  <2> HIDE DEF both
  <2>7. ASSUME NEW i \in 1..b
        PROVE  both[i] = i
    <3>1. i \in Int /\ 1 <= i /\ i <= b
      OBVIOUS
    <3>2. CASE i <= wire.done
      BY <1>2, <2>1, <2>6, <3>1, <3>2
    <3>3. CASE i > wire.done
      <4>1. i - wire.done \in 1..d
        BY <1>2, <2>3, <3>1, <3>3
      <4>2. more[i - wire.done] = i
        BY <1>2, <2>4, <3>1, <4>1
      <4> QED
        BY <1>2, <2>6, <3>1, <3>3, <4>2
    <3> QED
      BY <1>2, <3>1, <3>2, <3>3
  <2>8. both = [i \in 1..b |-> both[i]]
    BY <2>6
  <2> QED
    BY <2>7, <2>8, Zenon DEF both
<1>8. w.done + Session!Cardinality(parsed) = b
  BY <1>3, <1>5 DEF WireType
<1>9. [i \in 1..b |-> i] \in Seq(Nat) /\ failed \in BOOLEAN
  BY DEF failed
<1>10. wire' = [w EXCEPT !.given = [i \in 1..b |-> i], !.done = b, !.failed = failed]
  BY <1>1, <1>7, <1>8
<1> DEFINE run == [i \in 1..b |-> i]
<1> HIDE DEF run
<1>11. /\ wire' \in WireType /\ wire'.given = run /\ wire'.done = b
       /\ wire'.failed = failed /\ wire'.arrived = a /\ wire'.stream = w.stream
  BY <1>3, <1>9, <1>10 DEF WireType, run
<1>12. failed = FALSE => Session!TooLarge(wire') = {}
  BY <1>3, <1>11 DEF Session!TooLarge, failed
<1> QED
  BY <1>4, <1>11, <1>12 DEF WireInv, run, failed

SoundInv ==
    /\ part \in {"channels", "pair"} => CleanInv
    /\ part = "handshake" => HandshakeInv
    /\ part = "wire" => WireInv

LEMMA SoundInitially == Init => SoundInv
<1> SUFFICES ASSUME Init PROVE SoundInv
  OBVIOUS
<1>1. CleanInv
  <2>1. channel = [c \in Channels |-> Channel!NewChannel]
    BY Zenon DEF Init, Channel!Init
  <2> QED
    BY <2>1, NewIsClean DEF CleanInv
<1>2. HandshakeInv
  <2>1. hs = [state |-> "idle", asked |-> FALSE, timer |-> FALSE, leaked |-> 0]
    BY DEF Init, Session!Init
  <2> QED
    BY <2>1 DEF HandshakeInv, Session!WaitHasTimer
<1>3. WireInv
  <2>1. PICK stream \in MessageStreams :
          wire = [stream |-> stream, arrived |-> 0, done |-> 0, given |-> <<>>, failed |-> FALSE]
    BY DEF Init, Session!Init
  <2>2. stream \in Seq(STRING)
    BY StreamsTyped
  <2>3. /\ wire \in WireType /\ wire.done = 0 /\ wire.arrived = 0 /\ wire.given = <<>>
        /\ wire.failed = FALSE /\ wire.stream = stream
    BY <2>1, <2>2 DEF WireType
  <2>4. Session!TooLarge(wire) = {}
    BY <2>2, <2>3 DEF Session!TooLarge
  <2>5. wire.given = [i \in 1..wire.done |-> i]
    BY <2>3
  <2> QED
    BY <2>3, <2>4, <2>5 DEF WireInv
<1> QED
  BY <1>1, <1>2, <1>3 DEF SoundInv

LEMMA SoundKept == SoundInv /\ [Next]_vars => SoundInv'
<1> SUFFICES ASSUME SoundInv, [Next]_vars PROVE SoundInv'
  OBVIOUS
<1>1. part' = part
  BY StepOfPart
<1>2. CASE part \in {"channels", "pair"}
  <2>1. Channel!PairNext => channel' = channel
    BY Zenon DEF Channel!PairNext, Channel!encryptToPeer, Channel!rekey, Channel!decryptFromPeer
  <2>2. Channel!ManagerNext \/ channel' = channel
    BY <1>2, <2>1, StepOfPart, Zenon DEF channelVars
  <2>3. CleanInv
    BY <1>2 DEF SoundInv
  <2>4. CleanInv'
    BY <2>2, <2>3, ManagerKeepsClean DEF CleanInv
  <2> QED
    BY <1>1, <1>2, <2>4 DEF SoundInv
<1>3. CASE part = "handshake"
  <2>1. Session!HandshakeNext \/ hs' = hs
    BY <1>3, StepOfPart
  <2>2. HandshakeInv'
    BY <1>3, <2>1, HandshakeKept DEF SoundInv, HandshakeInv, Session!WaitHasTimer
  <2> QED
    BY <1>1, <1>3, <2>2 DEF SoundInv
<1>4. CASE part = "wire"
  <2>1. (\E n \in 1..3 : Session!Feed(n)) \/ wire' = wire
    BY <1>4, StepOfPart DEF Session!WireNext
  <2>2. wire' = wire => WireInv'
    BY <1>4 DEF SoundInv, WireInv, Session!TooLarge
  <2>3. WireInv'
    BY <1>4, <2>1, <2>2, WireKept DEF SoundInv
  <2> QED
    BY <1>1, <1>4, <2>3 DEF SoundInv
<1> QED
  BY <1>1, <1>2, <1>3, <1>4 DEF SoundInv

\* However open(), rekey() and send() overlap with close(), a closed channel
\* holds no key and no timer; a handshake that waits for an answer has a timer,
\* whatever timers of earlier ones fire; and the messages of a stream are
\* returned in order and once, in whatever pieces it arrives.
THEOREM SessionsStaySound == Spec => []SessionsAreSound
<1>1. SoundInv => SessionsAreSound
  <2> SUFFICES ASSUME SoundInv PROVE SessionsAreSound
    OBVIOUS
  <2>1. CleanInv => Channel!ClosedIsClean
    BY DEF CleanInv, Clean, ChannelType, Channel!ClosedIsClean, Channel!NoKey
  <2>2. WireInv => Session!MessagesInOrder
    <3> SUFFICES ASSUME WireInv PROVE Session!MessagesInOrder
      OBVIOUS
    <3>1. Len(wire.given) = wire.done
      BY DEF WireInv, WireType
    <3> QED
      BY <3>1 DEF WireInv, WireType, Session!MessagesInOrder
  <2> QED
    BY <2>1, <2>2 DEF SoundInv, HandshakeInv, SessionsAreSound
<1> QED
  BY <1>1, SoundInitially, SoundKept, PTL DEF Spec

-----------------------------------------------------------------------------
(* Scale, parameter and advice                                               *)

ScaleInv == currentScale \in minScale..maxScale

LEMMA ScaleKept ==
  ASSUME ScaleInv, Tuning!ScaleNext
  PROVE  ScaleInv'
<1>1. ASSUME NEW change \in Int, Tuning!Scaled(change)
      PROVE  ScaleInv'
  BY <1>1, LimitsFit DEF ScaleInv, Tuning!Scaled
<1>2. ASSUME NEW s \in Scalers, NEW v \in Readings, Tuning!ScaleReading(s, v)
      PROVE  ScaleInv'
  <2>1. \/ currentScale' = currentScale
        \/ \E i \in DOMAIN ScaleRules : Tuning!Scaled(ScaleRules[i].scaleChange)
    BY <1>2, Zenon DEF Tuning!ScaleReading
  <2> QED
    BY <1>1, <2>1, LimitsFit DEF ScaleInv
<1>3. ASSUME UNCHANGED currentScale PROVE ScaleInv'
  BY <1>3 DEF ScaleInv
<1> QED
  BY <1>2, <1>3 DEF Tuning!ScaleNext, Tuning!CheckAndScale, Tuning!CooledDown

\* What a cycle read, and what it is about to set, is within the limits too.
TunersTyped ==
    tuners \in [Tuners -> [at : {"none", "read", "score", "set"}, value : Int,
                           score : {"none", "low", "optimal", "high"}]]
TuneInv ==
    /\ TunersTyped
    /\ current \in Lowest..Highest /\ actual \in Lowest..Highest
    /\ \A t \in Tuners : tuners[t].at = "set" => tuners[t].value \in Lowest..Highest

LEMMA TuneKept ==
  ASSUME TuneInv, Tuning!TuneNext
  PROVE  TuneInv'
<1> DEFINE Tuner == [at : {"none", "read", "score", "set"}, value : Int,
                     score : {"none", "low", "optimal", "high"}]
           Good(r) == r \in Tuner /\ (r.at = "set" => r.value \in Lowest..Highest)
<1>1. ASSUME NEW t \in Tuners, NEW r, Good(r), tuners' = [tuners EXCEPT ![t] = r],
             current' \in Lowest..Highest, actual' \in Lowest..Highest
      PROVE  TuneInv'
  <2>1. tuners' \in [Tuners -> Tuner]
    BY <1>1 DEF TuneInv, TunersTyped
  <2>2. \A u \in Tuners : tuners'[u] = IF u = t THEN r ELSE tuners[u]
    BY <1>1 DEF TuneInv, TunersTyped
  <2> QED
    BY <1>1, <2>1, <2>2 DEF TuneInv, TunersTyped
<1>2. \A t \in Tuners : tuners[t] \in Tuner
  BY DEF TuneInv, TunersTyped
<1>3. ASSUME NEW t \in Tuners, Tuning!Optimize(t)
      PROVE  TuneInv'
  <2> DEFINE r == [tuners[t] EXCEPT !.at = "read"]
  <2>1. tuners' = [tuners EXCEPT ![t] = r] /\ UNCHANGED <<current, actual>>
    BY <1>3, Zenon DEF Tuning!Optimize
  <2>2. Good(r)
    BY <1>2
  <2> HIDE DEF r
  <2> QED
    BY <1>1, <2>1, <2>2 DEF TuneInv
<1>4. ASSUME NEW t \in Tuners, Tuning!GetterEnds(t)
      PROVE  TuneInv'
  <2> DEFINE r == [tuners[t] EXCEPT !.at = "score", !.value = actual]
  <2>1. tuners' = [tuners EXCEPT ![t] = r] /\ UNCHANGED <<current, actual>>
    BY <1>4 DEF Tuning!GetterEnds, TuneInv, TunersTyped
  <2>2. actual \in Int
    BY LimitsFit DEF TuneInv
  <2>3. Good(r)
    BY <1>2, <2>2
  <2> HIDE DEF r
  <2> QED
    BY <1>1, <2>1, <2>3 DEF TuneInv
<1>5. ASSUME NEW t \in Tuners, NEW score \in {"low", "optimal", "high"},
             Tuning!ObjectivesEnd(t, score)
      PROVE  TuneInv'
  <2> DEFINE v == Tuning!Clamped(tuners[t].value + Tuning!_determineAdjustment(score))
             r == [at |-> "set", score |-> score, value |-> v]
             none == Tuning!NoTuner
  <2>1. \/ tuners' = [tuners EXCEPT ![t] = none]
        \/ tuners' = [tuners EXCEPT ![t] = r]
    BY <1>5, Zenon DEF Tuning!ObjectivesEnd
  <2>2. UNCHANGED <<current, actual>>
    BY <1>5 DEF Tuning!ObjectivesEnd
  <2>3. Tuning!_determineAdjustment(score) \in Int
    BY LimitsFit DEF Tuning!_determineAdjustment
  <2>4. tuners[t].value \in Int
    BY <1>2
  <2>5. v \in Lowest..Highest
    BY <2>3, <2>4, LimitsFit DEF Tuning!Clamped
  <2> HIDE DEF v
  <2>5a. v \in Int
    BY <2>5, LimitsFit
  <2>5b. r \in Tuner /\ r.value = v
    BY <2>5a
  <2>6. Good(r)
    BY <2>5, <2>5b
  <2>6a. none \in Tuner /\ none.at = "none"
    BY DEF Tuning!NoTuner
  <2>7. Good(none)
    BY <2>6a
  <2> HIDE DEF r, none
  <2> QED
    BY <1>1, <2>1, <2>2, <2>6, <2>7 DEF TuneInv
<1>6. ASSUME NEW t \in Tuners, NEW ok \in BOOLEAN, Tuning!SetterEnds(t, ok)
      PROVE  TuneInv'
  <2> DEFINE none == Tuning!NoTuner
  <2>0. none \in Tuner /\ none.at = "none"
    BY DEF Tuning!NoTuner
  <2>1. Good(none)
    BY <2>0
  <2> HIDE DEF none
  <2>2. tuners[t].at = "set" /\ tuners' = [tuners EXCEPT ![t] = none]
    BY <1>6 DEF Tuning!SetterEnds, none
  <2>3. tuners[t].value \in Lowest..Highest
    BY <2>2 DEF TuneInv
  <2>4. current' \in Lowest..Highest /\ actual' \in Lowest..Highest
    BY <1>6, <2>3 DEF Tuning!SetterEnds, TuneInv
  <2> QED
    BY <1>1, <2>1, <2>2, <2>4
<1>7. ASSUME NEW on \in BOOLEAN, Tuning!Enable(on)
      PROVE  TuneInv'
  BY <1>7 DEF Tuning!Enable, TuneInv, TunersTyped
<1> QED
  BY <1>3, <1>4, <1>5, <1>6, <1>7 DEF Tuning!TuneNext

\* Advice that is fresh is made once for a type and a metric.
Advice == [type : {"degradation", "pressure"}, metric : Metrics, fresh : BOOLEAN,
           priority : {"high", "medium"}]
Once(list) ==
    /\ list \in Seq(Advice)
    /\ \A i, j \in 1..Len(list) :
         /\ list[i].fresh = TRUE /\ list[j].fresh = TRUE
         /\ list[i].type = list[j].type /\ list[i].metric = list[j].metric
         => i = j
AdviceInv == Once(advice)

LEMMA NotedOnce ==
  ASSUME NEW list, Once(list), NEW signs, NEW type \in {"degradation", "pressure"},
         NEW m \in Metrics
  PROVE  Once(Tuning!Noted(signs, list, type, m))
<1> DEFINE new == [type |-> type, metric |-> m, fresh |-> TRUE,
                   priority |-> IF type = "pressure" THEN "high" ELSE "medium"]
           l == Append(list, new)
           k == Len(list)
           said == \E i \in DOMAIN list : /\ list[i].type = type /\ list[i].metric = m
                                          /\ list[i].fresh
<1>1. \/ Tuning!Noted(signs, list, type, m) = list
      \/ ~said /\ Tuning!Noted(signs, list, type, m) = l
  BY Zenon DEF Tuning!Noted, Tuning!Recommended
<1>2. ASSUME ~said PROVE Once(l)
  <2>1. new \in Advice /\ new.type = type /\ new.metric = m /\ new.fresh = TRUE
    BY DEF Advice
  <2> HIDE DEF new
  <2>2. k \in Nat /\ l \in Seq(Advice) /\ Len(l) = k + 1 /\ l[k + 1] = new
        /\ \A i \in 1..k : l[i] = list[i]
    BY <2>1 DEF Once
  <2>3. \A i \in 1..k : ~(list[i].type = type /\ list[i].metric = m /\ list[i].fresh = TRUE)
    BY <1>2 DEF Once
  <2> HIDE DEF l, k
  <2>4. ASSUME NEW i \in 1..(k + 1), NEW j \in 1..(k + 1),
               l[i].fresh = TRUE, l[j].fresh = TRUE,
               l[i].type = l[j].type, l[i].metric = l[j].metric
        PROVE  i = j
    <3>1. i \in 1..k \/ i = k + 1
      BY <2>2
    <3>2. j \in 1..k \/ j = k + 1
      BY <2>2
    <3>3. CASE i \in 1..k /\ j \in 1..k
      BY <2>2, <2>4, <3>3 DEF Once, k
    <3> QED
      BY <2>1, <2>2, <2>3, <2>4, <3>1, <3>2, <3>3
  <2> QED
    BY <2>2, <2>4 DEF Once
<1> QED
  BY <1>1, <1>2

LEMMA AdviceKept ==
  ASSUME AdviceInv, Tuning!AdviceNext
  PROVE  AdviceInv'
<1>1. ASSUME NEW m \in Metrics, NEW signs, Tuning!TrackMetric(m, signs)
      PROVE  AdviceInv'
  <2>1. PICK said : advice' = Tuning!Noted(said, Tuning!Noted(said, advice, "degradation", m),
                                           "pressure", m)
    BY <1>1, Zenon DEF Tuning!TrackMetric
  <2>2. Once(Tuning!Noted(said, advice, "degradation", m))
    BY NotedOnce DEF AdviceInv
  <2>3. Once(advice')
    BY <2>1, <2>2, NotedOnce
  <2> QED
    BY <2>3 DEF AdviceInv, Once
<1>2. ASSUME NEW i \in 1..MaxAdvice, Tuning!HourPasses(i)
      PROVE  AdviceInv'
  <2> DEFINE old == [advice[i] EXCEPT !.fresh = FALSE]
  <2>1. advice' = [advice EXCEPT ![i] = old]
    BY <1>2, Zenon DEF Tuning!HourPasses
  <2>2. advice \in Seq(Advice) /\ Len(advice) \in Nat /\ DOMAIN advice = 1..Len(advice)
    BY DEF AdviceInv, Once
  <2>2a. i \in DOMAIN advice
    <3>1. i \in 1..i
      OBVIOUS
    <3> QED
      BY <1>2, <3>1, Zenon DEF Tuning!HourPasses
  <2>2b. advice[i] \in Advice
    BY <2>2, <2>2a
  <2>3. old \in Advice /\ old.fresh = FALSE
    BY <2>2b DEF Advice
  <2> HIDE DEF old
  <2>4. Len(advice') = Len(advice)
        /\ \A j \in 1..Len(advice) : advice'[j] = IF j = i THEN old ELSE advice[j]
    BY <2>1, <2>2
  <2>5. advice' \in Seq(Advice)
    BY <2>1, <2>2, <2>2a, <2>3
  <2>6. \A j \in 1..Len(advice) : advice'[j].fresh = TRUE => advice'[j] = advice[j]
    BY <2>2, <2>3, <2>4
  <2> QED
    BY <2>2, <2>4, <2>5, <2>6 DEF AdviceInv, Once
<1>3. CASE Tuning!clearOldRecommendations
  <2>1. PICK keep \in 0..Len(advice) :
          advice' = SubSeq(advice, Len(advice) - keep + 1, Len(advice))
    BY <1>3 DEF Tuning!clearOldRecommendations
  <2> DEFINE d == Len(advice) - keep
  <2>2. d \in Nat /\ advice' \in Seq(Advice) /\ Len(advice') = keep /\ keep \in Nat
        /\ d + keep = Len(advice) /\ \A i \in 1..keep : advice'[i] = advice[d + i]
    BY <2>1 DEF AdviceInv, Once
  <2> HIDE DEF d
  <2>3. \A i \in 1..keep : d + i \in 1..Len(advice)
    BY <2>2
  <2>4. ASSUME NEW i \in 1..keep, NEW j \in 1..keep,
               advice'[i].fresh = TRUE, advice'[j].fresh = TRUE,
               advice'[i].type = advice'[j].type, advice'[i].metric = advice'[j].metric
        PROVE  i = j
    <3>1. d + i = d + j
      BY <2>2, <2>3, <2>4 DEF AdviceInv, Once
    <3> QED
      BY <2>2, <3>1
  <2> QED
    BY <2>2, <2>4 DEF AdviceInv, Once
<1>4. ASSUME UNCHANGED advice PROVE AdviceInv'
  BY <1>4 DEF AdviceInv, Once
<1> QED
  BY <1>1, <1>2, <1>3, <1>4 DEF Tuning!AdviceNext, Tuning!UpdateUsage, Tuning!StrategyEnds

-----------------------------------------------------------------------------
(* Healing rules and remedies                                                *)

HealNamed == {r \in {HealRules[i] : i \in DOMAIN HealRules} : r.id # "none"}
RemedyNamed == {r \in {Remedies[i] : i \in DOMAIN Remedies} : r.id # "none"}
Kinds == {"heal", "remedy"}

WorkerFits(r) ==
    /\ r \in [kind : Kinds \cup {"none"}, input : {r.input}, rule : {r.rule}, left : {r.left},
              todo : Seq(HealNamed) \cup Seq(RemedyNamed)]
    /\ r.kind = "none" => r.rule = "none" /\ r.todo = <<>>

Runs(w, kind) == workers[w].kind = kind /\ workers[w].rule # "none"

HealTyped ==
    /\ workers = [w \in Workers |-> workers[w]]
    /\ \A w \in Workers : WorkerFits(workers[w])
    /\ active = [heal |-> active.heal, remedy |-> active.remedy]

HealInv ==
    /\ HealTyped
    /\ \A kind \in Kinds :
         /\ \A w \in Workers : Runs(w, kind) => workers[w].rule \in active[kind]
         /\ \A x \in active[kind] : \E w \in Workers : Runs(w, kind) /\ workers[w].rule = x
         /\ \A v, w \in Workers :
              Runs(v, kind) /\ Runs(w, kind) /\ workers[v].rule = workers[w].rule => v = w

\* What a call does next, with the rule that it runs, or none as before.
LEMMA RuleStays ==
  ASSUME HealInv, NEW w \in Workers, NEW r, WorkerFits(r),
         workers' = [workers EXCEPT ![w] = r], active' = active,
         \/ r.kind = workers[w].kind /\ r.rule = workers[w].rule
         \/ r.rule = "none" /\ workers[w].rule = "none"
  PROVE  HealInv'
<1>1. \A v \in Workers : workers'[v] = IF v = w THEN r ELSE workers[v]
  BY DEF HealInv, HealTyped
<1>2. HealTyped'
  BY <1>1 DEF HealInv, HealTyped
<1>3. ASSUME NEW v \in Workers, NEW kind \in Kinds
      PROVE  /\ Runs(v, kind)' <=> Runs(v, kind)
             /\ Runs(v, kind) => workers'[v].rule = workers[v].rule
  BY <1>1 DEF Runs
<1> QED
  BY <1>2, <1>3 DEF HealInv

LEMMA RuleBegins ==
  ASSUME HealInv, NEW w \in Workers, NEW r, WorkerFits(r), NEW k \in Kinds, r.kind = k,
         workers[w].rule = "none", r.rule # "none", r.rule \notin active[k],
         workers' = [workers EXCEPT ![w] = r],
         active' = [active EXCEPT ![k] = @ \cup {r.rule}]
  PROVE  HealInv'
<1>1. \A v \in Workers : workers'[v] = IF v = w THEN r ELSE workers[v]
  BY DEF HealInv, HealTyped
<1>2. /\ active' = [heal |-> active'.heal, remedy |-> active'.remedy]
      /\ \A kind \in Kinds :
           active'[kind] = IF kind = k THEN active[kind] \cup {r.rule} ELSE active[kind]
  BY DEF HealInv, HealTyped, Kinds
<1>3. HealTyped'
  BY <1>1, <1>2 DEF HealInv, HealTyped
<1>4. ASSUME NEW v \in Workers, NEW kind \in Kinds
      PROVE  /\ v # w => (Runs(v, kind)' <=> Runs(v, kind)) /\ workers'[v] = workers[v]
             /\ ~Runs(w, kind) /\ (Runs(w, kind)' <=> kind = k)
             /\ workers'[w].rule = r.rule
  BY <1>1 DEF Runs
<1>5. ASSUME NEW kind \in Kinds
      PROVE  /\ \A v \in Workers : Runs(v, kind)' => workers'[v].rule \in active'[kind]
             /\ \A x \in active'[kind] : \E v \in Workers : Runs(v, kind)' /\ workers'[v].rule = x
             /\ \A u, v \in Workers :
                  Runs(u, kind)' /\ Runs(v, kind)' /\ workers'[u].rule = workers'[v].rule => u = v
  <2>1. \A v \in Workers : Runs(v, kind)' => workers'[v].rule \in active'[kind]
    BY <1>2, <1>4 DEF HealInv
  <2>2. \A x \in active'[kind] : \E v \in Workers : Runs(v, kind)' /\ workers'[v].rule = x
    <3>1. ASSUME NEW x \in active[kind]
          PROVE  \E v \in Workers : Runs(v, kind)' /\ workers'[v].rule = x
      <4>1. PICK v \in Workers : Runs(v, kind) /\ workers[v].rule = x
        BY DEF HealInv
      <4> QED
        BY <1>4, <4>1
    <3> QED
      BY <1>2, <1>4, <3>1
  <2>3. ASSUME NEW u \in Workers, NEW v \in Workers,
               Runs(u, kind)', Runs(v, kind)', workers'[u].rule = workers'[v].rule
        PROVE  u = v
    BY <1>4, <2>3 DEF HealInv
  <2> QED
    BY <2>1, <2>2, <2>3
<1> QED
  BY <1>3, <1>5 DEF HealInv

\* The rule of the call was run by it alone, so that no other is run unmarked.
LEMMA RuleEnds ==
  ASSUME HealInv, NEW w \in Workers, NEW r, WorkerFits(r), NEW k \in Kinds,
         workers[w].kind = k, r.kind = k, workers[w].rule # "none", r.rule = "none",
         workers' = [workers EXCEPT ![w] = r],
         active' = [active EXCEPT ![k] = @ \ {workers[w].rule}]
  PROVE  HealInv'
<1>1. \A v \in Workers : workers'[v] = IF v = w THEN r ELSE workers[v]
  BY DEF HealInv, HealTyped
<1>2. /\ active' = [heal |-> active'.heal, remedy |-> active'.remedy]
      /\ \A kind \in Kinds :
           active'[kind] = IF kind = k THEN active[kind] \ {workers[w].rule} ELSE active[kind]
  BY DEF HealInv, HealTyped, Kinds
<1>3. HealTyped'
  BY <1>1, <1>2 DEF HealInv, HealTyped
<1>4. ASSUME NEW v \in Workers, NEW kind \in Kinds
      PROVE  /\ v # w => (Runs(v, kind)' <=> Runs(v, kind)) /\ workers'[v] = workers[v]
             /\ ~Runs(w, kind)' /\ (Runs(w, kind) <=> kind = k)
  BY <1>1 DEF Runs
<1>5. ASSUME NEW kind \in Kinds
      PROVE  /\ \A v \in Workers : Runs(v, kind)' => workers'[v].rule \in active'[kind]
             /\ \A x \in active'[kind] : \E v \in Workers : Runs(v, kind)' /\ workers'[v].rule = x
             /\ \A u, v \in Workers :
                  Runs(u, kind)' /\ Runs(v, kind)' /\ workers'[u].rule = workers'[v].rule => u = v
  <2>1. ASSUME NEW v \in Workers, Runs(v, kind)'
        PROVE  workers'[v].rule \in active'[kind]
    <3>1. v # w /\ Runs(v, kind) /\ workers'[v].rule = workers[v].rule
      BY <1>4, <2>1
    <3>2. workers[v].rule \in active[kind]
      BY <3>1 DEF HealInv
    <3>3. kind = k => workers[v].rule # workers[w].rule
      BY <1>4, <3>1 DEF HealInv
    <3> QED
      BY <1>2, <3>1, <3>2, <3>3
  <2>2. ASSUME NEW x \in active'[kind]
        PROVE  \E v \in Workers : Runs(v, kind)' /\ workers'[v].rule = x
    <3>1. x \in active[kind] /\ (kind = k => x # workers[w].rule)
      BY <1>2, <2>2
    <3>2. PICK v \in Workers : Runs(v, kind) /\ workers[v].rule = x
      BY <3>1 DEF HealInv
    <3>3. v # w
      BY <1>4, <3>1, <3>2
    <3> QED
      BY <1>4, <3>2, <3>3
  <2>3. ASSUME NEW u \in Workers, NEW v \in Workers,
               Runs(u, kind)', Runs(v, kind)', workers'[u].rule = workers'[v].rule
        PROVE  u = v
    BY <1>4, <2>3 DEF HealInv
  <2> QED
    BY <2>1, <2>2, <2>3
<1> QED
  BY <1>3, <1>5 DEF HealInv

LEMMA HealKept ==
  ASSUME HealInv, Healing!Next
  PROVE  HealInv'
<1>1. \A w \in Workers : WorkerFits(workers[w])
  BY DEF HealInv, HealTyped
<1>2. ASSUME NEW w \in Workers, NEW kind \in Kinds, NEW input, Healing!Call(w, kind, input)
      PROVE  HealInv'
  <2> DEFINE todo == Healing!Rules(kind)
             r == [Healing!NoWorker EXCEPT !.kind = kind, !.input = input, !.todo = todo]
  <2>1. workers[w] = Healing!NoWorker /\ active' = active
    BY <1>2, Zenon DEF Healing!Call
  <2>3. workers' = [workers EXCEPT ![w] = r]
    BY <1>2, Zenon DEF Healing!Call
  <2>4. todo \in Seq(HealNamed) \cup Seq(RemedyNamed)
    BY RulesFit DEF Healing!Rules, Kinds, HealNamed, RemedyNamed
  <2> HIDE DEF todo
  <2>5. /\ r \in [kind : {kind}, input : {input}, todo : {todo}, rule : {"none"}, left : {0}]
        /\ r.kind = kind /\ r.input = input /\ r.todo = todo /\ r.rule = "none" /\ r.left = 0
    BY DEF Healing!NoWorker
  <2> HIDE DEF r
  <2>5a. WorkerFits(r) /\ r.rule = "none"
    BY <2>4, <2>5 DEF WorkerFits, Kinds
  <2>6. workers[w].rule = "none"
    BY <2>1 DEF Healing!NoWorker
  <2> HIDE DEF r
  <2> QED
    BY <2>1, <2>3, <2>5a, <2>6, RuleStays
<1>3. ASSUME NEW w \in Workers, Healing!NextRule(w)
      PROVE  HealInv'
  <2> DEFINE k == workers[w]
             rule == Head(k.todo)
             on == [k EXCEPT !.todo = Tail(@), !.rule = rule.id, !.left = rule.actions]
             off == [k EXCEPT !.todo = Tail(@)]
  <2>1. /\ k.rule = "none" /\ k.todo # <<>>
        /\ \/ /\ Healing!_shouldTrigger(k.kind, k.input, rule)
              /\ active' = [active EXCEPT ![k.kind] = @ \cup {rule.id}]
              /\ workers' = [workers EXCEPT ![w] = on]
           \/ /\ active' = active
              /\ workers' = [workers EXCEPT ![w] = off]
    <3>1. workers = [v \in Workers |-> workers[v]]
      BY DEF HealInv, HealTyped
    <3>2. [workers EXCEPT ![w].todo = Tail(@), ![w].rule = rule.id, ![w].left = rule.actions]
            = [workers EXCEPT ![w] =
                 [k EXCEPT !.todo = Tail(@), !.rule = rule.id, !.left = rule.actions]]
      BY <3>1
    <3> QED
      BY <1>3, <3>2, Zenon DEF Healing!NextRule
  <2>2. WorkerFits(k)
    BY <1>1
  <2>3. k \in [kind : Kinds \cup {"none"}, input : {k.input}, rule : {k.rule}, left : {k.left},
              todo : Seq(HealNamed) \cup Seq(RemedyNamed)]
    BY <2>2 DEF WorkerFits
  <2>4. k.kind \in Kinds
    BY <2>1, <2>2 DEF WorkerFits
  <2>5. /\ Tail(k.todo) \in Seq(HealNamed) \/ Tail(k.todo) \in Seq(RemedyNamed)
        /\ rule \in HealNamed \cup RemedyNamed
    BY <2>1, <2>2 DEF WorkerFits
  <2>6. rule.id # "none"
    BY <2>5 DEF HealNamed, RemedyNamed
  <2> DEFINE rest == Tail(k.todo)
  <2> HIDE DEF k, rule
  <2>7. /\ on.kind = k.kind /\ on.input = k.input /\ on.todo = rest
        /\ on.rule = rule.id /\ on.left = rule.actions
        /\ off.kind = k.kind /\ off.input = k.input /\ off.todo = rest
        /\ off.rule = k.rule /\ off.left = k.left
    BY <2>3
  <2> HIDE DEF rest
  <2>8. WorkerFits(on) /\ WorkerFits(off)
    BY <2>3, <2>4, <2>5, <2>7 DEF WorkerFits, Kinds, rest
  <2>9. CASE Healing!_shouldTrigger(k.kind, k.input, rule)
              /\ active' = [active EXCEPT ![k.kind] = @ \cup {rule.id}]
              /\ workers' = [workers EXCEPT ![w] = on]
    <3>1. rule.id \notin active[k.kind]
      BY <2>9 DEF Healing!_shouldTrigger
    <3>2. on.kind = k.kind /\ on.rule = rule.id
      BY <2>7
    <3> HIDE DEF on
    <3>3. active' = [active EXCEPT ![k.kind] = @ \cup {on.rule}]
      BY <2>9, <3>2
    <3> QED
      BY <2>1, <2>4, <2>6, <2>8, <2>9, <3>1, <3>2, <3>3, RuleBegins DEF k
  <2>10. CASE active' = active /\ workers' = [workers EXCEPT ![w] = off]
    <3>1. off.kind = k.kind /\ off.rule = k.rule
      BY <2>7
    <3> HIDE DEF off
    <3> QED
      BY <2>8, <2>10, <3>1, RuleStays DEF k
  <2> HIDE DEF on, off
  <2> QED
    BY <2>1, <2>9, <2>10
<1>4. ASSUME NEW w \in Workers, NEW ok \in BOOLEAN, Healing!ActionEnds(w, ok)
      PROVE  HealInv'
  <2> DEFINE k == workers[w]
             over == [k EXCEPT !.rule = "none", !.left = 0]
             on == [k EXCEPT !.left = @ - 1]
  <2>1. /\ k.rule # "none"
        /\ \/ /\ active' = [active EXCEPT ![k.kind] = @ \ {k.rule}]
              /\ workers' = [workers EXCEPT ![w] = over]
           \/ /\ active' = active
              /\ workers' = [workers EXCEPT ![w] = on]
    <3>1. workers = [v \in Workers |-> workers[v]]
      BY DEF HealInv, HealTyped
    <3>2. [workers EXCEPT ![w].rule = "none", ![w].left = 0]
            = [workers EXCEPT ![w] = [k EXCEPT !.rule = "none", !.left = 0]]
      BY <3>1
    <3> QED
      BY <1>4, <3>2, Zenon DEF Healing!ActionEnds, Healing!Finish
  <2>2. WorkerFits(k)
    BY <1>1
  <2>3. k \in [kind : Kinds \cup {"none"}, input : {k.input}, rule : {k.rule}, left : {k.left},
              todo : Seq(HealNamed) \cup Seq(RemedyNamed)]
    BY <2>2 DEF WorkerFits
  <2>4. k.kind \in Kinds
    BY <2>1, <2>2 DEF WorkerFits
  <2> HIDE DEF k
  <2>6. WorkerFits(over) /\ over.kind = k.kind /\ over.rule = "none"
    BY <2>3, <2>4 DEF WorkerFits, Kinds
  <2>7. WorkerFits(on) /\ on.kind = k.kind /\ on.rule = k.rule
    BY <2>3, <2>4 DEF WorkerFits, Kinds
  <2> HIDE DEF over, on
  <2>8. CASE /\ active' = [active EXCEPT ![k.kind] = @ \ {k.rule}]
             /\ workers' = [workers EXCEPT ![w] = over]
    BY <2>1, <2>4, <2>6, <2>8, RuleEnds DEF k
  <2>9. CASE active' = active /\ workers' = [workers EXCEPT ![w] = on]
    BY <2>7, <2>9, RuleStays DEF k
  <2> QED
    BY <2>1, <2>8, <2>9
<1>5. ASSUME NEW w \in Workers, Healing!CallEnds(w)
      PROVE  HealInv'
  <2> DEFINE none == Healing!NoWorker
  <2>1. workers' = [workers EXCEPT ![w] = none] /\ active' = active /\ workers[w].rule = "none"
    BY <1>5 DEF Healing!CallEnds
  <2>2. <<>> \in Seq(HealNamed)
    OBVIOUS
  <2>3. WorkerFits(none) /\ none.rule = "none"
    BY <2>2 DEF Healing!NoWorker, WorkerFits, Kinds
  <2> HIDE DEF none
  <2> QED
    BY <2>1, <2>3, RuleStays
<1>6. ASSUME UNCHANGED <<workers, active>>
      PROVE  HealInv'
  BY <1>6 DEF HealInv, HealTyped, WorkerFits, Runs
<1>7. ASSUME NEW w \in Workers, Healing!CheckAndHeal(w) \/ Healing!CheckRemediation(w)
      PROVE  HealInv'
  BY <1>2, <1>7, Zenon DEF Healing!CheckAndHeal, Healing!CheckRemediation, Kinds
<1>8. ASSUME NEW r, NEW ok,
             Healing!RunChecks(r) \/ Healing!RoundEnds(r) \/ Healing!CheckEnds(r, ok)
      PROVE  UNCHANGED <<workers, active>>
  BY <1>8, Zenon DEF Healing!RunChecks, Healing!RoundEnds, Healing!CheckEnds
<1>9. ASSUME NEW x, NEW event,
             Healing!processEvent(x, event) \/ Healing!clearThreat(x) \/ Healing!AutoResponse(x)
      PROVE  UNCHANGED <<workers, active>>
  BY <1>9, Zenon DEF Healing!processEvent, Healing!clearThreat, Healing!AutoResponse
<1> QED
  BY <1>3, <1>4, <1>5, <1>6, <1>7, <1>8, <1>9, Zenon DEF Healing!Next

-----------------------------------------------------------------------------
(* Restarts of a service by itself                                           *)

\* crash() counts a restart before it schedules one, so that those that were
\* made and those to come are at most as many as were counted.
ServiceFits(s) ==
    /\ s \in [state : {s.state}, failures : {s.failures}, unhealthy : {s.unhealthy},
              restarts : Nat, timer : {s.timer}, pending : Nat, checks : {s.checks},
              attempts : Nat, dependents : {s.dependents}]
    /\ s.attempts + s.pending <= s.restarts
    /\ s.attempts + s.pending <= MaxRestarts

RestartInv == svc = [n \in Services |-> svc[n]] /\ \A n \in Services : ServiceFits(svc[n])

\* What else changes of a service.
LEMMA OtherFields ==
  ASSUME NEW s, ServiceFits(s)
  PROVE  \A x : /\ ServiceFits([s EXCEPT !.state = x])
                /\ ServiceFits([s EXCEPT !.failures = x])
                /\ ServiceFits([s EXCEPT !.unhealthy = x])
                /\ ServiceFits([s EXCEPT !.timer = x])
                /\ ServiceFits([s EXCEPT !.checks = x])
                /\ ServiceFits([s EXCEPT !.dependents = x])
<1> SUFFICES ASSUME NEW x
             PROVE  /\ ServiceFits([s EXCEPT !.state = x])
                    /\ ServiceFits([s EXCEPT !.failures = x])
                    /\ ServiceFits([s EXCEPT !.unhealthy = x])
                    /\ ServiceFits([s EXCEPT !.timer = x])
                    /\ ServiceFits([s EXCEPT !.checks = x])
                    /\ ServiceFits([s EXCEPT !.dependents = x])
  OBVIOUS
<1>1. ServiceFits([s EXCEPT !.state = x])
  BY DEF ServiceFits
<1>2. ServiceFits([s EXCEPT !.failures = x])
  BY DEF ServiceFits
<1>3. ServiceFits([s EXCEPT !.unhealthy = x])
  BY DEF ServiceFits
<1>4. ServiceFits([s EXCEPT !.timer = x])
  BY DEF ServiceFits
<1>5. ServiceFits([s EXCEPT !.checks = x])
  BY DEF ServiceFits
<1>6. ServiceFits([s EXCEPT !.dependents = x])
  BY DEF ServiceFits
<1> QED
  BY <1>1, <1>2, <1>3, <1>4, <1>5, <1>6

LEMMA RunningFits ==
  ASSUME NEW n, ServiceFits(svc[n])
  PROVE  ServiceFits(Manager!Running(n))
<1> DEFINE a == [svc[n] EXCEPT !.state = "RUNNING"]
           b == [a EXCEPT !.failures = 0]
<1>1. ServiceFits(a)
  BY OtherFields
<1> HIDE DEF a
<1>2. ServiceFits(b)
  BY <1>1, OtherFields
<1> HIDE DEF b
<1>3. \A x : ServiceFits([b EXCEPT !.timer = x])
  BY <1>2, OtherFields
<1>4. \E x : Manager!Running(n) = [b EXCEPT !.timer = x]
  BY Zenon DEF Manager!Running, a, b
<1> QED
  BY <1>3, <1>4

LEMMA CrashFits ==
  ASSUME NEW s, NEW n, ServiceFits(s)
  PROVE  ServiceFits(Manager!crash(s, n))
<1> DEFINE f == [s EXCEPT !.failures = @ + 1]
           c == [f EXCEPT !.restarts = @ + 1]
           d == [c EXCEPT !.timer = "none"]
           e == [d EXCEPT !.pending = @ + 1]
<1>1. ServiceFits(f)
  BY OtherFields
<1> HIDE DEF f
<1>2. ServiceFits(c) /\ c.attempts + c.pending < c.restarts
  BY <1>1 DEF ServiceFits
<1> HIDE DEF c
<1>3. ServiceFits(d) /\ d.attempts + d.pending < d.restarts
  <2>1. ServiceFits(d)
    BY <1>2, OtherFields
  <2>2. d.attempts = c.attempts /\ d.pending = c.pending /\ d.restarts = c.restarts
    BY <1>2 DEF ServiceFits
  <2> HIDE DEF d
  <2> QED
    BY <1>2, <2>1, <2>2
<1> HIDE DEF d
<1>4. ASSUME d.restarts < MaxRestarts
      PROVE  ServiceFits(e)
  BY <1>3, <1>4, RestartsFit DEF ServiceFits
<1> HIDE DEF e
<1>5. \/ Manager!crash(s, n) = d
      \/ d.restarts < MaxRestarts /\ Manager!crash(s, n) = e
  BY Zenon DEF Manager!crash, Manager!_shouldRestart, f, c, d, e
<1> QED
  BY <1>3, <1>4, <1>5

\* One service changes.
LEMMA OneChanges ==
  ASSUME RestartInv, NEW n, NEW t, n \in Services => ServiceFits(t),
         svc' = [svc EXCEPT ![n] = t]
  PROVE  RestartInv'
<1>1. \A m \in Services : svc'[m] = IF m = n THEN t ELSE svc[m]
  BY DEF RestartInv
<1>2. svc' = [m \in Services |-> svc'[m]]
  BY DEF RestartInv
<1> QED
  BY <1>1, <1>2 DEF RestartInv

LEMMA BeginKeepsRestarts ==
  ASSUME RestartInv, NEW c, NEW n, NEW h, NEW state, NEW k,
         Manager!Begin(c, n, h, state, k)
  PROVE  RestartInv'
<1> DEFINE a == [svc[n] EXCEPT !.state = state]
           t == [a EXCEPT !.timer = IF h = "stop" THEN "none" ELSE @]
<1>1. svc' = [svc EXCEPT ![n].state = state, ![n].timer = IF h = "stop" THEN "none" ELSE @]
  BY Zenon DEF Manager!Begin
<1>2. [svc EXCEPT ![n].state = state, ![n].timer = IF h = "stop" THEN "none" ELSE @]
        = [svc EXCEPT ![n] = t]
  BY DEF RestartInv
<1>3. svc' = [svc EXCEPT ![n] = t]
  BY <1>1, <1>2
<1>4. n \in Services => ServiceFits(a)
  BY OtherFields DEF RestartInv
<1> HIDE DEF a
<1>5. n \in Services => ServiceFits(t)
  BY <1>4, OtherFields
<1> HIDE DEF t
<1> QED
  BY <1>3, <1>5, OneChanges

\* Some services change in what is not counted.
LEMMA SomeChange ==
  ASSUME RestartInv, svc' = [m \in Services |-> svc'[m]],
         \A m \in Services : \/ svc'[m] = svc[m]
                             \/ \E x : svc'[m] = [svc[m] EXCEPT !.state = x]
                             \/ \E x : svc'[m] = [svc[m] EXCEPT !.dependents = x]
  PROVE  RestartInv'
<1>1. ASSUME NEW m \in Services PROVE ServiceFits(svc'[m])
  <2>1. /\ ServiceFits(svc[m])
        /\ \A x : /\ ServiceFits([svc[m] EXCEPT !.state = x])
                  /\ ServiceFits([svc[m] EXCEPT !.dependents = x])
    BY OtherFields DEF RestartInv
  <2>2. \/ svc'[m] = svc[m]
        \/ \E x : svc'[m] = [svc[m] EXCEPT !.state = x]
        \/ \E x : svc'[m] = [svc[m] EXCEPT !.dependents = x]
    OBVIOUS
  <2> QED
    BY <2>1, <2>2, Zenon
<1> QED
  BY <1>1 DEF RestartInv

LEMMA CallsKeepRestarts ==
  ASSUME RestartInv, NEW c,
         \/ Manager!StartAll(c) \/ Manager!StopAll(c) \/ Manager!StopNext(c)
         \/ Manager!RestartSelf(c) \/ Manager!RestartStart(c) \/ Manager!StartNext(c)
         \/ \E n \in Services :
              \/ Manager!RestartService(c, n) \/ Manager!Start(c, n)
              \/ \E op \in {"stop", "unregister"} : Manager!Stop(c, n, op)
  PROVE  RestartInv'
<1>1. ASSUME UNCHANGED svc PROVE RestartInv'
  BY <1>1 DEF RestartInv
<1>2. ASSUME NEW n, svc' = [svc EXCEPT ![n] = Manager!Running(n)]
      PROVE  RestartInv'
  BY <1>2, RunningFits, OneChanges DEF RestartInv
<1>3. CASE Manager!StartAll(c) \/ Manager!StopAll(c)
  BY <1>1, <1>3, Zenon DEF Manager!StartAll, Manager!StopAll
<1>4. CASE Manager!StopNext(c) \/ Manager!RestartSelf(c)
  BY <1>1, <1>4, BeginKeepsRestarts, Zenon DEF Manager!StopNext, Manager!RestartSelf
<1>5. CASE Manager!RestartStart(c) \/ Manager!StartNext(c)
  BY <1>1, <1>2, <1>5, BeginKeepsRestarts, Zenon DEF Manager!RestartStart, Manager!StartNext
<1>6. ASSUME NEW n \in Services, Manager!RestartService(c, n) \/ Manager!Start(c, n)
      PROVE  RestartInv'
  BY <1>1, <1>6, Zenon DEF Manager!RestartService, Manager!Start
<1>7. ASSUME NEW n \in Services, NEW op \in {"stop", "unregister"}, Manager!Stop(c, n, op)
      PROVE  RestartInv'
  <2> DEFINE t == [svc[n] EXCEPT !.timer = IF op = "stop" THEN "none" ELSE @]
  <2>1. \/ \E k : Manager!Begin(c, n, "stop", "STOPPING", k)
        \/ svc' = [svc EXCEPT ![n] = t]
    BY <1>7, Zenon DEF Manager!Stop
  <2>2. ServiceFits(t)
    BY OtherFields DEF RestartInv
  <2> HIDE DEF t
  <2> QED
    BY <2>1, <2>2, BeginKeepsRestarts, OneChanges
<1> QED
  BY <1>3, <1>4, <1>5, <1>6, <1>7

LEMMA HookKeepsRestarts ==
  ASSUME RestartInv, NEW h, NEW ok, Manager!EndHook(h, ok)
  PROVE  RestartInv'
<1> DEFINE n == h.name
<1>1. \/ \E x : svc' = [svc EXCEPT ![n] = [svc[n] EXCEPT !.state = x]]
      \/ svc' = [svc EXCEPT ![n] = Manager!Running(n)]
  <2> DEFINE goesOn == h.hook = "init" /\ ok
             after == CASE ~ok -> [svc[n] EXCEPT !.state = "ERROR"]
                        [] goesOn -> [svc[n] EXCEPT !.state = "STARTING"]
                        [] h.hook = "start" /\ ok -> Manager!Running(n)
                        [] OTHER -> [svc[n] EXCEPT !.state = "STOPPED"]
  <2>1. svc' = [svc EXCEPT ![n] = after]
    BY Zenon DEF Manager!EndHook
  <2>2. \/ after = [svc[n] EXCEPT !.state = "ERROR"]
        \/ after = [svc[n] EXCEPT !.state = "STARTING"]
        \/ after = Manager!Running(n)
        \/ after = [svc[n] EXCEPT !.state = "STOPPED"]
    BY Zenon
  <2> HIDE DEF after
  <2> QED
    BY <2>1, <2>2, Zenon
<1> HIDE DEF n
<1>2. n \in Services => /\ ServiceFits(Manager!Running(n))
                        /\ \A x : ServiceFits([svc[n] EXCEPT !.state = x])
  BY RunningFits, OtherFields DEF RestartInv
<1> QED
  BY <1>1, <1>2, OneChanges, Zenon

LEMMA RestartsKept ==
  ASSUME RestartInv, Manager!Next
  PROVE  RestartInv'
<1>1. ASSUME NEW n \in Services, Manager!Register(n)
      PROVE  RestartInv'
  <2>1. /\ svc' = [m \in Services |-> svc'[m]]
        /\ \A m \in Services : \/ svc'[m] = svc[m]
                               \/ \E x : svc'[m] = [svc[m] EXCEPT !.dependents = x]
    <3>1. svc' = [m \in Services |->
                    IF Manager!Known(m) /\ Manager!Contains(Dependencies[n], m)
                    THEN [svc[m] EXCEPT !.dependents = Append(@, n)] ELSE svc[m]]
      BY <1>1, Zenon DEF Manager!Register
    <3>2. ASSUME NEW m \in Services
          PROVE  \/ svc'[m] = svc[m]
                 \/ \E x : svc'[m] = [svc[m] EXCEPT !.dependents = x]
      BY <3>1, Zenon
    <3>3. svc' = [m \in Services |-> svc'[m]]
      BY <3>1, Zenon
    <3> QED
      BY <3>2, <3>3
  <2> QED
    BY <2>1, SomeChange
<1>2. ASSUME NEW n \in Services, Manager!Crash(n)
      PROVE  RestartInv'
  <2>1. svc' = [svc EXCEPT ![n] = Manager!crash(svc[n], n)]
    BY <1>2, Zenon DEF Manager!Crash
  <2> QED
    BY <2>1, CrashFits, OneChanges DEF RestartInv
<1>3. ASSUME NEW n \in Services, Manager!AttemptRestart(n)
      PROVE  RestartInv'
  <2> DEFINE s == [svc[n] EXCEPT !.pending = @ - 1]
             t == [s EXCEPT !.state = "STARTING", !.attempts = @ + 1]
  <2>1. /\ svc[n].pending > 0
        /\ svc' = [svc EXCEPT ![n] = s] \/ svc' = [svc EXCEPT ![n] = t]
    BY <1>3, Zenon DEF Manager!AttemptRestart
  <2>2. ServiceFits(svc[n])
    BY DEF RestartInv
  <2>3. /\ ServiceFits(s)
        /\ s.attempts + s.pending < s.restarts /\ s.attempts + s.pending < MaxRestarts
    BY <2>1, <2>2, RestartsFit DEF ServiceFits
  <2> HIDE DEF s
  <2>4. ServiceFits(t)
    <3>1. s \in [state : {s.state}, failures : {s.failures}, unhealthy : {s.unhealthy},
                 restarts : Nat, timer : {s.timer}, pending : Nat, checks : {s.checks},
                 attempts : Nat, dependents : {s.dependents}]
      BY <2>3 DEF ServiceFits
    <3>2. /\ s.attempts \in Nat /\ s.attempts + 1 \in Nat /\ s.pending \in Nat
          /\ s.restarts \in Nat
      BY <3>1
    <3>3. t \in [state : {"STARTING"}, failures : {s.failures}, unhealthy : {s.unhealthy},
                 restarts : {s.restarts}, timer : {s.timer}, pending : {s.pending},
                 checks : {s.checks}, attempts : {s.attempts + 1}, dependents : {s.dependents}]
      BY <3>1, <3>2
    <3> HIDE DEF s, t
    <3>4. /\ t.attempts = s.attempts + 1 /\ t.pending = s.pending /\ t.restarts = s.restarts
          /\ t \in [state : {t.state}, failures : {t.failures}, unhealthy : {t.unhealthy},
                    restarts : Nat, timer : {t.timer}, pending : Nat, checks : {t.checks},
                    attempts : Nat, dependents : {t.dependents}]
      BY <3>2, <3>3
    <3> QED
      BY <2>3, <3>2, <3>4, RestartsFit DEF ServiceFits
  <2> HIDE DEF t
  <2> QED
    BY <2>1, <2>3, <2>4, OneChanges
<1>4. ASSUME NEW n \in Services, Manager!BeginCheck(n)
      PROVE  RestartInv'
  <2> DEFINE t == [svc[n] EXCEPT !.checks = 1]
  <2>1. svc' = [svc EXCEPT ![n] = t]
    BY <1>4, Zenon DEF Manager!BeginCheck
  <2>2. ServiceFits(t)
    BY OtherFields DEF RestartInv
  <2> HIDE DEF t
  <2> QED
    BY <2>1, <2>2, OneChanges
<1>5. ASSUME NEW n \in Services, NEW healthy \in BOOLEAN, Manager!EndCheck(n, healthy)
      PROVE  RestartInv'
  <2> DEFINE a == [svc[n] EXCEPT !.checks = 0]
             s == [a EXCEPT !.unhealthy = IF healthy THEN 0 ELSE @ + 1]
  <2>1. svc' = [svc EXCEPT ![n] = s] \/ svc' = [svc EXCEPT ![n] = Manager!crash(s, n)]
    BY <1>5, Zenon DEF Manager!EndCheck
  <2>2. ServiceFits(a)
    BY OtherFields DEF RestartInv
  <2> HIDE DEF a
  <2>3. ServiceFits(s)
    BY <2>2, OtherFields
  <2> HIDE DEF s
  <2> QED
    BY <2>1, <2>3, CrashFits, OneChanges
<1>6. ASSUME NEW c \in ManagerCalls, Manager!StartGroup(c)
      PROVE  RestartInv'
  <2>1. \E go : svc' = [n \in Services |-> IF n \in go
                           THEN [svc[n] EXCEPT !.state = "INITIALIZING"] ELSE svc[n]]
    BY <1>6, Zenon DEF Manager!StartGroup
  <2>2. /\ svc' = [n \in Services |-> svc'[n]]
        /\ \A n \in Services : svc'[n] = svc[n] \/ \E x : svc'[n] = [svc[n] EXCEPT !.state = x]
    BY <2>1, Zenon
  <2> QED
    BY <2>2, SomeChange
<1>7. ASSUME NEW c \in ManagerCalls, Manager!Return(c)
      PROVE  RestartInv'
  <2> DEFINE Without(n) == Manager!Remove(svc[n].dependents, calls[c].name)
  <2>1. \/ UNCHANGED svc
        \/ svc' = [n \in Services |-> IF Manager!Known(n)
                                     THEN [svc[n] EXCEPT !.dependents = Without(n)]
                                     ELSE svc[n]]
    BY <1>7, Zenon DEF Manager!Return
  <2> HIDE DEF Without
  <2>2. /\ svc' = [n \in Services |-> svc'[n]]
        /\ \A n \in Services :
             svc'[n] = svc[n] \/ \E x : svc'[n] = [svc[n] EXCEPT !.dependents = x]
    BY <2>1, Zenon DEF RestartInv
  <2> QED
    BY <2>2, SomeChange
<1> QED
  BY <1>1, <1>2, <1>3, <1>4, <1>5, <1>6, <1>7, CallsKeepRestarts, HookKeepsRestarts, Zenon
     DEF Manager!Next

LEMMA ManagerInitially == Init => RestartInv
<1> SUFFICES ASSUME Init PROVE RestartInv
  OBVIOUS
<1> DEFINE s == Manager!AutonomousService
<1>1. svc = [n \in Services |-> s]
  BY Zenon DEF Init, Manager!Init
<1>2. ServiceFits(s)
  BY RestartsFit DEF Manager!AutonomousService, ServiceFits
<1> HIDE DEF s
<1> QED
  BY <1>1, <1>2 DEF RestartInv

-----------------------------------------------------------------------------
(* The order of a startup.  A recursive function is the limit of its         *)
(* beginnings.                                                               *)

\* f is the beginning, up to n, of what a and G define.
Begins(f, n, A, a, G) ==
  /\ f \in [0..n -> A]
  /\ f[0] = a
  /\ \A i \in 0..(n - 1) : f[i + 1] = G[i, f[i]]

LEMMA BeginningsExist ==
  ASSUME NEW A, NEW a \in A, NEW G \in [Nat \X A -> A]
  PROVE  \A n \in Nat : \E f : Begins(f, n, A, a, G)
<1> DEFINE S == {n \in Nat : \A f : ~Begins(f, n, A, a, G)}
<1> SUFFICES ASSUME S # {} PROVE FALSE
  OBVIOUS
<1>1. PICK m \in S : \A n \in S : m <= n
  <2>1. S \in SUBSET Nat
    OBVIOUS
  <2> HIDE DEF S
  <2> QED
    BY <2>1, LeastNumber
<1>2. m \in Nat /\ \A f : ~Begins(f, m, A, a, G)
  OBVIOUS
<1>3. CASE m = 0
  <2> DEFINE z == [i \in 0..0 |-> a]
  <2>1. 0 \in 0..0 /\ 0..(0 - 1) = {}
    OBVIOUS
  <2>2. z \in [0..0 -> A] /\ z[0] = a
    BY <2>1
  <2> HIDE DEF z
  <2>3. Begins(z, 0, A, a, G)
    BY <2>1, <2>2 DEF Begins
  <2> QED
    BY <1>2, <1>3, <2>3
<1>4. CASE m # 0
  <2>1. m - 1 \in Nat /\ m - 1 \notin S
    BY <1>1, <1>2, <1>4
  <2>2. PICK f : Begins(f, m - 1, A, a, G)
    BY <2>1
  <2>3. /\ f \in [0..(m - 1) -> A] /\ f[0] = a
        /\ \A i \in 0..(m - 2) : f[i + 1] = G[i, f[i]]
    <3>1. (m - 1) - 1 = m - 2
      BY <1>2
    <3> QED
      BY <2>2, <3>1 DEF Begins
  <2> DEFINE last == G[m - 1, f[m - 1]]
             g == [i \in 0..m |-> IF i = m THEN last ELSE f[i]]
  <2>4. f[m - 1] \in A /\ last \in A
    <3>1. m - 1 \in 0..(m - 1)
      BY <2>1
    <3>2. f[m - 1] \in A
      BY <2>3, <3>1
    <3> QED
      BY <2>1, <3>2
  <2> HIDE DEF last
  <2>5. g \in [0..m -> A]
    <3> SUFFICES ASSUME NEW i \in 0..m PROVE (IF i = m THEN last ELSE f[i]) \in A
      OBVIOUS
    <3>1. i # m => i \in 0..(m - 1)
      BY <1>2
    <3> QED
      BY <2>3, <2>4, <3>1
  <2>6. \A i \in 0..(m - 1) : g[i] = f[i]
    BY <1>2, <2>1
  <2>7. g[0] = a /\ g[m] = last
    <3>1. 0 \in 0..m /\ m \in 0..m
      BY <1>2
    <3> QED
      BY <1>4, <2>3, <3>1
  <2>8. \A i \in 0..(m - 1) : g[i + 1] = G[i, g[i]]
    <3> SUFFICES ASSUME NEW i \in 0..(m - 1) PROVE g[i + 1] = G[i, g[i]]
      OBVIOUS
    <3>1. CASE i = m - 1
      <4>1. i + 1 = m
        BY <1>2, <3>1
      <4>2. G[i, f[i]] = last
        BY <3>1 DEF last
      <4> HIDE DEF g
      <4> QED
        BY <2>6, <2>7, <4>1, <4>2
    <3>2. CASE i # m - 1
      <4>1. i \in 0..(m - 2) /\ i + 1 \in 0..(m - 1)
        BY <2>1, <3>2
      <4> HIDE DEF g
      <4> QED
        BY <2>3, <2>6, <4>1
    <3> QED
      BY <3>1, <3>2
  <2> HIDE DEF g
  <2>9. Begins(g, m, A, a, G)
    BY <2>5, <2>7, <2>8 DEF Begins
  <2> QED
    BY <1>2, <2>9
<1> QED
  BY <1>3, <1>4

LEMMA BeginningsAgree ==
  ASSUME NEW A, NEW a, NEW G, NEW m \in Nat, NEW n \in Nat, m <= n,
         NEW f, NEW g, Begins(f, m, A, a, G), Begins(g, n, A, a, G)
  PROVE  \A i \in 0..m : f[i] = g[i]
<1> DEFINE S == {i \in 0..m : f[i] # g[i]}
<1> SUFFICES ASSUME S # {} PROVE FALSE
  OBVIOUS
<1>1. PICK k \in S : \A i \in S : k <= i
  <2>1. S \in SUBSET Nat
    OBVIOUS
  <2> HIDE DEF S
  <2> QED
    BY <2>1, LeastNumber
<1>2. k \in 0..m /\ f[k] # g[k] /\ k # 0
  BY DEF Begins
<1>3. k - 1 \in 0..m /\ k - 1 \notin S
  BY <1>1, <1>2
<1>4. f[k - 1] = g[k - 1] /\ k - 1 \in 0..(m - 1) /\ k - 1 \in 0..(n - 1) /\ (k - 1) + 1 = k
  BY <1>2, <1>3
<1> HIDE DEF S
<1>5. f[k] = G[k - 1, f[k - 1]] /\ g[k] = G[k - 1, g[k - 1]]
  BY <1>4 DEF Begins
<1> QED
  BY <1>2, <1>4, <1>5

\* What starts with a and goes on by G is a function on all of Nat.
Continues(G, A) == G \in [Nat \X A -> A]

Iterates(f, A, a, G) ==
  f \in [Nat -> A] /\ f[0] = a /\ \A n \in Nat : f[n + 1] = G[n, f[n]]

LEMMA Recursion ==
  ASSUME NEW A, NEW a \in A, NEW G, Continues(G, A)
  PROVE  \E f : Iterates(f, A, a, G)
<1> DEFINE upTo(n) == CHOOSE f : Begins(f, n, A, a, G)
           h == [n \in Nat |-> upTo(n)[n]]
<1>1. \A n \in Nat : Begins(upTo(n), n, A, a, G)
  BY BeginningsExist DEF Continues
<1> HIDE DEF upTo
<1>2. h \in [Nat -> A]
  <2> SUFFICES ASSUME NEW n \in Nat PROVE upTo(n)[n] \in A
    OBVIOUS
  <2>1. upTo(n) \in [0..n -> A]
    BY <1>1 DEF Begins
  <2> QED
    BY <2>1
<1>3. h[0] = a
  BY <1>1 DEF Begins
<1>4. ASSUME NEW n \in Nat PROVE h[n + 1] = G[n, h[n]]
  <2>1. Begins(upTo(n), n, A, a, G) /\ Begins(upTo(n + 1), n + 1, A, a, G)
    BY <1>1
  <2>2. \A i \in 0..n : upTo(n)[i] = upTo(n + 1)[i]
    BY <2>1, BeginningsAgree
  <2>3. upTo(n + 1)[n + 1] = G[n, upTo(n + 1)[n]]
    <3>1. n \in 0..((n + 1) - 1)
      OBVIOUS
    <3> QED
      BY <2>1, <3>1 DEF Begins
  <2>4. h[n + 1] = upTo(n + 1)[n + 1] /\ h[n] = upTo(n)[n]
    OBVIOUS
  <2>5. n \in 0..n
    OBVIOUS
  <2> HIDE DEF h
  <2> QED
    BY <2>2, <2>3, <2>4, <2>5
<1> HIDE DEF h
<1> QED
  BY <1>2, <1>3, <1>4 DEF Iterates

\* The names in the map are of services.
MapTyped == registered \in Seq(Services)

LEMMA KnownServices ==
  ASSUME MapTyped
  PROVE  \A n : Manager!Known(n) => n \in Services
BY DEF MapTyped, Manager!Known, Manager!Contains

\* The loop of the walk: where it is after the i-th name.
VisitType(visit) == visit \in [Services \X Manager!Walks -> Manager!Walks]

LoopOf(after, visit, names, w) ==
  /\ after \in [Nat -> Manager!Walks]
  /\ after[0] = w
  /\ \A i \in Nat : after[i + 1] = IF Manager!Known(names[i + 1])
                                   THEN visit[names[i + 1], after[i]] ELSE after[i]
  /\ Manager!VisitEach(visit, names, w) = after[Len(names)]

LEMMA EachLoops ==
  ASSUME MapTyped, NEW visit, VisitType(visit), NEW names, NEW w \in Manager!Walks
  PROVE  \E after : LoopOf(after, visit, names, w)
<1>1. \A n : Manager!Known(n) => n \in Services
  BY KnownServices
<1> DEFINE G == [p \in Nat \X Manager!Walks |-> IF Manager!Known(names[p[1] + 1])
                                        THEN visit[names[p[1] + 1], p[2]] ELSE p[2]]
<1>2. Continues(G, Manager!Walks)
  BY <1>1 DEF VisitType, Continues
<1>3. \A i \in Nat, v \in Manager!Walks : G[i, v] = IF Manager!Known(names[i + 1])
                                            THEN visit[names[i + 1], v] ELSE v
  OBVIOUS
<1> HIDE DEF G
<1>4. PICK f : Iterates(f, Manager!Walks, w, G)
  BY <1>2, Recursion
<1> USE DEF Iterates
<1>5. \A i \in Nat : f[i + 1] = IF Manager!Known(names[i + 1])
                                THEN visit[names[i + 1], f[i]] ELSE f[i]
  BY <1>3, <1>4
<1> DEFINE after[i \in Nat] == IF i = 0 THEN w
                               ELSE IF Manager!Known(names[i]) THEN visit[names[i], after[i - 1]]
                               ELSE after[i - 1]
<1>6. f = [i \in Nat |-> IF i = 0 THEN w
                         ELSE IF Manager!Known(names[i]) THEN visit[names[i], f[i - 1]]
                         ELSE f[i - 1]]
  <2>1. \A i \in Nat : f[i] = IF i = 0 THEN w
                         ELSE IF Manager!Known(names[i]) THEN visit[names[i], f[i - 1]]
                         ELSE f[i - 1]
    <3> SUFFICES ASSUME NEW i \in Nat, i # 0
                 PROVE  f[i] = IF Manager!Known(names[i]) THEN visit[names[i], f[i - 1]]
                               ELSE f[i - 1]
      BY <1>4
    <3>1. i - 1 \in Nat /\ (i - 1) + 1 = i
      OBVIOUS
    <3> QED
      BY <1>5, <3>1
  <2> QED
    BY <1>4, <2>1
<1>7. after = [i \in Nat |-> IF i = 0 THEN w
                         ELSE IF Manager!Known(names[i]) THEN visit[names[i], after[i - 1]]
                         ELSE after[i - 1]]
  BY <1>6
<1>8. Manager!VisitEach(visit, names, w) = after[Len(names)]
  BY DEF Manager!VisitEach
<1> HIDE DEF after
<1>9. \A i \in Nat : after[i] = f[i]
  <2> DEFINE S == {i \in Nat : after[i] # f[i]}
  <2> SUFFICES ASSUME S # {} PROVE FALSE
    OBVIOUS
  <2>1. PICK m \in S : \A i \in S : m <= i
    <3>1. S \in SUBSET Nat
      OBVIOUS
    <3> HIDE DEF S
    <3> QED
      BY <3>1, LeastNumber
  <2>2. m \in Nat /\ after[m] # f[m]
    OBVIOUS
  <2>3. m # 0
    BY <1>4, <1>7, <2>2
  <2>4. m - 1 \in Nat /\ m - 1 \notin S
    BY <2>1, <2>2, <2>3
  <2>5. after[m - 1] = f[m - 1]
    BY <2>4
  <2>6. after[m] = f[m]
    BY <1>6, <1>7, <2>2, <2>3, <2>5
  <2> QED
    BY <2>2, <2>6
<1>10. LoopOf(after, visit, names, w)
  <2>1. after \in [Nat -> Manager!Walks]
    BY <1>4, <1>7, <1>9
  <2>2. after[0] = w
    BY <1>7
  <2>3. ASSUME NEW i \in Nat
        PROVE  after[i + 1] = IF Manager!Known(names[i + 1])
                              THEN visit[names[i + 1], after[i]] ELSE after[i]
    <3>1. i + 1 \in Nat
      OBVIOUS
    <3>2. after[i + 1] = f[i + 1] /\ after[i] = f[i]
      BY <1>9, <3>1
    <3> QED
      BY <1>5, <3>2
  <2> QED
    BY <1>8, <2>1, <2>2, <2>3 DEF LoopOf
<1> QED
  BY <1>10

LEMMA EachType ==
  ASSUME MapTyped, NEW visit, VisitType(visit), NEW names, NEW w \in Manager!Walks,
         Len(names) \in Nat
  PROVE  Manager!VisitEach(visit, names, w) \in Manager!Walks
<1>1. PICK after : LoopOf(after, visit, names, w)
  BY EachLoops
<1> QED
  BY <1>1 DEF LoopOf

LEMMA OrderGrows ==
  ASSUME NEW w \in Manager!Walks, NEW n \in Services
  PROVE  /\ [w EXCEPT !.order = Append(@, n)] \in Manager!Walks
         /\ [w EXCEPT !.order = Append(@, n)].visited = w.visited
         /\ [w EXCEPT !.order = Append(@, n)].order = Append(w.order, n)
<1>1. /\ w \in [visited : SUBSET Services, order : Seq(Services)]
      /\ Append(w.order, n) \in Seq(Services)
  BY DEF Manager!Walks
<1>2. \A x : /\ [w EXCEPT !.order = x].visited = w.visited
             /\ [w EXCEPT !.order = x].order = x
             /\ x \in Seq(Services) =>
                  [w EXCEPT !.order = x] \in [visited : SUBSET Services, order : Seq(Services)]
  BY <1>1
<1> DEFINE y == Append(w.order, n)
<1> HIDE DEF y
<1>3. /\ [w EXCEPT !.order = y] \in Manager!Walks
      /\ [w EXCEPT !.order = y].visited = w.visited
      /\ [w EXCEPT !.order = y].order = y
  BY <1>1, <1>2 DEF Manager!Walks, y
<1> QED
  BY <1>3 DEF y

LEMMA VisitWithType ==
  ASSUME MapTyped, NEW visit, VisitType(visit),
         NEW n \in Services, NEW w \in Manager!Walks
  PROVE  Manager!VisitWith(visit, n, w) \in Manager!Walks
<1> DEFINE start == [w EXCEPT !.visited = @ \cup {n}]
           below == Manager!VisitEach(visit, Dependencies[n], start)
<1>1. start \in Manager!Walks
  BY DEF Manager!Walks
<1>2. Len(Dependencies[n]) \in Nat
  BY ServicesFit
<1> HIDE DEF start
<1>3. below \in Manager!Walks
  BY <1>1, <1>2, EachType
<1> HIDE DEF below
<1>4. [below EXCEPT !.order = Append(@, n)] \in Manager!Walks
  BY <1>3, OrderGrows
<1> QED
  BY <1>4 DEF Manager!VisitWith, below, start

\* A visit with k + 1 calls left makes visits with k.
NextVisit(visit) == [v \in Services \X Manager!Walks |-> Manager!VisitWith(visit, v[1], v[2])]
NoVisit == [v \in Services \X Manager!Walks |-> v[2]]

LEMMA VisitEquation ==
  ASSUME MapTyped
  PROVE  /\ \A k \in Nat : VisitType(Manager!Visit[k])
         /\ Manager!Visit[0] = NoVisit
         /\ \A k \in Nat : Manager!Visit[k + 1] = NextVisit(Manager!Visit[k])
<1> DEFINE A == [Services \X Manager!Walks -> Manager!Walks]
           G == [p \in Nat \X A |-> NextVisit(p[2])]
           body(g, fuel) == [v \in Services \X Manager!Walks |->
             IF fuel = 0 THEN v[2] ELSE Manager!VisitWith(g[fuel - 1], v[1], v[2])]
<1>1. NoVisit \in A /\ \A v \in A : NextVisit(v) \in A
  <2>1. NoVisit \in A
    BY DEF NoVisit
  <2>2. ASSUME NEW v \in A PROVE NextVisit(v) \in A
    <3>1. \A n \in Services, w \in Manager!Walks : Manager!VisitWith(v, n, w) \in Manager!Walks
      BY VisitWithType DEF VisitType
    <3> QED
      BY <3>1 DEF NextVisit
  <2> QED
    BY <2>1, <2>2
<1>2. Continues(G, A)
  BY <1>1, Zenon DEF Continues
<1>3. \A i \in Nat, v \in A : G[i, v] = NextVisit(v)
  OBVIOUS
<1> HIDE DEF G
<1>4. PICK f : Iterates(f, A, NoVisit, G)
  <2> HIDE DEF A
  <2> QED
    BY <1>1, <1>2, Recursion
<1>5. f \in [Nat -> A] /\ f[0] = NoVisit /\ \A i \in Nat : f[i + 1] = NextVisit(f[i])
  <2> HIDE DEF A
  <2> QED
    BY <1>3, <1>4 DEF Iterates
<1> HIDE DEF A
<1>6. \A g : body(g, 0) = NoVisit
  BY DEF NoVisit
<1>7. \A g, i : i # 0 => body(g, i) = NextVisit(g[i - 1])
  BY DEF NextVisit
<1>8. f = [i \in Nat |-> body(f, i)]
  <2> HIDE DEF body
  <2>1. ASSUME NEW i \in Nat PROVE f[i] = body(f, i)
    <3>1. CASE i = 0
      BY <1>5, <1>6, <3>1
    <3>2. CASE i # 0
      <4>1. i - 1 \in Nat /\ (i - 1) + 1 = i
        BY <3>2
      <4> QED
        BY <1>5, <1>7, <3>2, <4>1
    <3> QED
      BY <3>1, <3>2
  <2> QED
    BY <1>5, <2>1
<1>9. Manager!Visit = [i \in Nat |-> body(Manager!Visit, i)]
  BY <1>8, Zenon DEF Manager!Visit
<1> HIDE DEF body
<1>10. \A i \in Nat : Manager!Visit[i] = f[i]
  <2> DEFINE S == {i \in Nat : Manager!Visit[i] # f[i]}
  <2> SUFFICES ASSUME S # {} PROVE FALSE
    OBVIOUS
  <2>1. PICK m \in S : \A i \in S : m <= i
    <3>1. S \in SUBSET Nat
      OBVIOUS
    <3> HIDE DEF S
    <3> QED
      BY <3>1, LeastNumber
  <2>2. m \in Nat /\ Manager!Visit[m] # f[m]
    OBVIOUS
  <2>3. Manager!Visit[m] = body(Manager!Visit, m) /\ f[m] = body(f, m)
    BY <1>8, <1>9, <2>2
  <2>4. m # 0
    BY <1>6, <2>2, <2>3
  <2>5. m - 1 \in Nat /\ m - 1 \notin S
    BY <2>1, <2>2, <2>4
  <2>6. Manager!Visit[m - 1] = f[m - 1]
    BY <2>5
  <2> QED
    BY <1>7, <2>2, <2>3, <2>4, <2>6
<1>11. \A k \in Nat : VisitType(Manager!Visit[k])
  BY <1>5, <1>10 DEF A, VisitType
<1>12. \A k \in Nat : k + 1 \in Nat /\ 0 \in Nat
  OBVIOUS
<1> QED
  BY <1>5, <1>10, <1>11, <1>12

\* What is in the map and the service needs, itself too if it is said to.
Mapped == {n \in Services : Manager!Known(n)}
Needs(n) == {d \in Mapped : \E i \in 1..Len(Dependencies[n]) : Dependencies[n][i] = d}

\* Some services with all that they need.
Closed(S) == S \in SUBSET Services /\ \A n \in S : Needs(n) \subseteq S

\* The services that visit() has begun with and not yet put in the order.
Grey(w) == w.visited \ Range(w.order)

\* Each comes once, and after all of S that it needs unless it is of S itself.
Follows(S, names) ==
  \A j \in 1..Len(names) : \A d \in Needs(names[j]) :
    d \in S /\ names[j] \notin S => \E i \in 1..(j - 1) : names[i] = d

GoodOrder(names) ==
  /\ names \in Seq(Services) /\ Range(names) \subseteq Mapped
  /\ \A i, j \in 1..Len(names) : names[i] = names[j] => i = j

GoodWalk(S, w) ==
  /\ w \in Manager!Walks
  /\ Range(w.order) \subseteq w.visited /\ w.visited \subseteq Mapped
  /\ GoodOrder(w.order) /\ Follows(S, w.order)

GoesOn(S, v, w) ==
  /\ GoodWalk(S, v)
  /\ w.visited \subseteq v.visited
  /\ Grey(v) = Grey(w)

\* Whatever is grey and of S needs n, in the end.
Below(S, n, w) == \A g \in Grey(w) : g \in S => n \in S

VisitsWell(S, visit, k) ==
  /\ VisitType(visit)
  /\ \A n \in Mapped, w \in Manager!Walks :
       GoodWalk(S, w) /\ Below(S, n, w) /\ Cardinality(Mapped \ w.visited) <= k =>
         GoesOn(S, visit[n, w], w) /\ n \in visit[n, w].visited

LEMMA EachGoesOn ==
  ASSUME MapTyped, IsFiniteSet(Mapped), NEW S, NEW visit, NEW k \in Nat, VisitsWell(S, visit, k),
         NEW names, Len(names) \in Nat, NEW w \in Manager!Walks, GoodWalk(S, w),
         Cardinality(Mapped \ w.visited) <= k,
         \A i \in 1..Len(names) : Manager!Known(names[i]) => Below(S, names[i], w)
  PROVE  /\ GoesOn(S, Manager!VisitEach(visit, names, w), w)
         /\ \A i \in 1..Len(names) :
              Manager!Known(names[i]) => names[i] \in Manager!VisitEach(visit, names, w).visited
<1>1. PICK after : LoopOf(after, visit, names, w)
  BY EachLoops DEF VisitsWell
<1>2. /\ after \in [Nat -> Manager!Walks]
      /\ after[0] = w
      /\ \A i \in Nat : after[i + 1] = IF Manager!Known(names[i + 1])
                                       THEN visit[names[i + 1], after[i]] ELSE after[i]
      /\ Manager!VisitEach(visit, names, w) = after[Len(names)]
  BY <1>1 DEF LoopOf
<1> DEFINE Fine(i) ==
      /\ GoesOn(S, after[i], w)
      /\ \A j \in 1..i : Manager!Known(names[j]) => names[j] \in after[i].visited
<1>3. Fine(0)
  <2>1. GoesOn(S, w, w)
    BY DEF GoesOn
  <2>2. 1..0 = {}
    OBVIOUS
  <2> QED
    BY <1>2, <2>1, <2>2
<1>4. ASSUME NEW i \in Nat, i + 1 <= Len(names), Fine(i)
      PROVE  Fine(i + 1)
  <2> DEFINE v == after[i]
             n == names[i + 1]
  <2>1. v \in Manager!Walks /\ GoesOn(S, v, w)
    BY <1>2, <1>4
  <2>2. i + 1 \in 1..Len(names) /\ \A j \in 1..(i + 1) : j = i + 1 \/ j \in 1..i
    BY <1>4
  <2>3. CASE ~Manager!Known(n)
    <3>1. after[i + 1] = v
      BY <1>2, <2>3
    <3> QED
      BY <1>4, <2>2, <2>3, <3>1
  <2>4. CASE Manager!Known(n)
    <3>1. n \in Mapped
      BY <2>4, KnownServices DEF Mapped
    <3>2. Below(S, n, v) /\ GoodWalk(S, v)
      BY <2>1, <2>2, <2>4 DEF Below, GoesOn
    <3>3. Cardinality(Mapped \ v.visited) <= k
      <4>1. (Mapped \ v.visited) \subseteq (Mapped \ w.visited)
        BY <2>1 DEF GoesOn
      <4>2. IsFiniteSet(Mapped \ w.visited)
        BY FS_Subset
      <4>3. /\ Cardinality(Mapped \ v.visited) <= Cardinality(Mapped \ w.visited)
            /\ IsFiniteSet(Mapped \ v.visited)
        BY <4>1, <4>2, FS_Subset
      <4>4. Cardinality(Mapped \ v.visited) \in Nat /\ Cardinality(Mapped \ w.visited) \in Nat
        BY <4>2, <4>3, FS_CardinalityType
      <4> QED
        BY <4>3, <4>4
    <3> DEFINE u == visit[n, v]
    <3>4. GoesOn(S, u, v) /\ n \in u.visited
      BY <2>1, <3>1, <3>2, <3>3 DEF VisitsWell
    <3>5. after[i + 1] = u
      BY <1>2, <2>4
    <3> HIDE DEF u
    <3>6. GoesOn(S, u, w)
      BY <2>1, <3>4 DEF GoesOn
    <3>7. \A j \in 1..i : Manager!Known(names[j]) => names[j] \in u.visited
      BY <1>4, <3>4 DEF GoesOn
    <3> QED
      BY <2>2, <3>4, <3>5, <3>6, <3>7
  <2> QED
    BY <2>3, <2>4
<1>5. ASSUME NEW i \in Nat, i <= Len(names)
      PROVE  Fine(i)
  <2> DEFINE T == {j \in Nat : j <= Len(names) /\ ~Fine(j)}
  <2> SUFFICES ASSUME T # {} PROVE FALSE
    BY <1>5
  <2>1. PICK m \in T : \A j \in T : m <= j
    <3>1. T \in SUBSET Nat
      OBVIOUS
    <3> HIDE DEF T
    <3> QED
      BY <3>1, LeastNumber
  <2>2. m \in Nat /\ m <= Len(names) /\ ~Fine(m)
    OBVIOUS
  <2> HIDE DEF Fine
  <2>3. m # 0
    BY <1>3, <2>2
  <2>4. m - 1 \in Nat /\ m - 1 \notin T /\ (m - 1) + 1 = m
    BY <2>1, <2>2, <2>3
  <2>5. Fine(m - 1)
    BY <2>2, <2>4
  <2> HIDE DEF T
  <2> QED
    BY <1>4, <2>2, <2>4, <2>5
<1>6. Fine(Len(names))
  <2> HIDE DEF Fine
  <2> QED
    BY <1>5
<1> QED
  BY <1>2, <1>6

LEMMA VisitsWellStart ==
  ASSUME MapTyped, IsFiniteSet(Mapped), NEW S
  PROVE  VisitsWell(S, Manager!Visit[0], 0)
<1>1. VisitType(Manager!Visit[0]) /\ \A n \in Services, w \in Manager!Walks : Manager!Visit[0][n, w] = w
  <2>1. 0 \in Nat
    OBVIOUS
  <2>2. VisitType(Manager!Visit[0]) /\ Manager!Visit[0] = NoVisit
    BY <2>1, VisitEquation
  <2> QED
    BY <2>2 DEF NoVisit
<1>2. ASSUME NEW n \in Mapped, NEW w \in Manager!Walks, GoodWalk(S, w),
             Cardinality(Mapped \ w.visited) <= 0
      PROVE  GoesOn(S, w, w) /\ n \in w.visited
  <2>1. IsFiniteSet(Mapped \ w.visited)
    BY FS_Subset
  <2>2. Cardinality(Mapped \ w.visited) = 0
    BY <1>2, <2>1, FS_CardinalityType
  <2>3. Mapped \ w.visited = {}
    BY <2>1, <2>2, FS_EmptySet
  <2> QED
    BY <1>2, <2>3 DEF GoesOn
<1> QED
  BY <1>1, <1>2 DEF VisitsWell, Mapped

LEMMA VisitsWellStep ==
  ASSUME MapTyped, IsFiniteSet(Mapped), NEW S, Closed(S), NEW k \in Nat,
         VisitsWell(S, Manager!Visit[k], k)
  PROVE  VisitsWell(S, Manager!Visit[k + 1], k + 1)
<1> DEFINE visit == Manager!Visit[k + 1]
<1>1. /\ VisitType(visit)
      /\ \A n \in Services, w \in Manager!Walks : visit[n, w] = Manager!VisitWith(Manager!Visit[k], n, w)
  <2>1. k + 1 \in Nat
    OBVIOUS
  <2>2. VisitType(visit) /\ visit = NextVisit(Manager!Visit[k])
    BY <2>1, VisitEquation
  <2> HIDE DEF visit
  <2> QED
    BY <2>2 DEF NextVisit
<1>2. ASSUME NEW n \in Mapped, NEW w \in Manager!Walks, GoodWalk(S, w), n \in w.visited
      PROVE  GoesOn(S, visit[n, w], w) /\ n \in visit[n, w].visited
  <2>1. visit[n, w] = w
    BY <1>1, <1>2 DEF Manager!VisitWith, Mapped
  <2> QED
    BY <1>2, <2>1 DEF GoesOn
<1>3. ASSUME NEW n \in Mapped, NEW w \in Manager!Walks, GoodWalk(S, w), Below(S, n, w),
             n \notin w.visited, Cardinality(Mapped \ w.visited) <= k + 1
      PROVE  GoesOn(S, visit[n, w], w) /\ n \in visit[n, w].visited
  <2> DEFINE start == [w EXCEPT !.visited = @ \cup {n}]
             below == Manager!VisitEach(Manager!Visit[k], Dependencies[n], start)
             v == [below EXCEPT !.order = Append(@, n)]
  <2>1. visit[n, w] = v
    BY <1>1, <1>3 DEF Manager!VisitWith, Mapped
  <2>2. n \in Services /\ Dependencies[n] \in Seq(Services) /\ Len(Dependencies[n]) \in Nat
    BY ServicesFit DEF Mapped
  <2>3. start \in Manager!Walks /\ start.visited = w.visited \cup {n} /\ start.order = w.order
    BY <2>2 DEF Manager!Walks
  <2> HIDE DEF start
  <2>4. GoodWalk(S, start) /\ Grey(start) = Grey(w) \cup {n}
    <3>1. n \notin Range(w.order)
      BY <1>3 DEF GoodWalk
    <3>2. Grey(start) = Grey(w) \cup {n}
      BY <2>3, <3>1 DEF Grey
    <3>3. GoodWalk(S, start)
      BY <1>3, <2>3 DEF GoodWalk
    <3> QED
      BY <3>2, <3>3
  <2>5. Cardinality(Mapped \ start.visited) <= k
    <3> DEFINE T == Mapped \ w.visited
    <3>1. IsFiniteSet(T) /\ n \in T /\ Mapped \ start.visited = T \ {n}
      BY <1>3, <2>3, FS_Subset
    <3> HIDE DEF T
    <3>2. Cardinality(T \ {n}) = Cardinality(T) - 1 /\ Cardinality(T) \in Nat
      BY <3>1, FS_RemoveElement, FS_CardinalityType
    <3> QED
      BY <1>3, <3>1, <3>2 DEF T
  <2>6. \A i \in 1..Len(Dependencies[n]) :
          Manager!Known(Dependencies[n][i]) => /\ Dependencies[n][i] \in Needs(n)
                                               /\ Below(S, Dependencies[n][i], start)
    <3> SUFFICES ASSUME NEW i \in 1..Len(Dependencies[n]), Manager!Known(Dependencies[n][i])
                 PROVE  /\ Dependencies[n][i] \in Needs(n)
                        /\ Below(S, Dependencies[n][i], start)
      OBVIOUS
    <3>1. Dependencies[n][i] \in Needs(n)
      BY KnownServices DEF Needs, Mapped
    <3>2. n \in S => Dependencies[n][i] \in S
      BY <3>1 DEF Closed
    <3> QED
      BY <1>3, <2>4, <3>1, <3>2 DEF Below
  <2> HIDE DEF below
  <2>7. /\ GoesOn(S, below, start)
        /\ \A i \in 1..Len(Dependencies[n]) :
             Manager!Known(Dependencies[n][i]) => Dependencies[n][i] \in below.visited
    BY <2>2, <2>3, <2>4, <2>5, <2>6, EachGoesOn DEF below
  <2>8. /\ below \in Manager!Walks /\ below.order \in Seq(Services) /\ Len(below.order) \in Nat
        /\ GoodWalk(S, below) /\ Grey(below) = Grey(w) \cup {n}
        /\ w.visited \subseteq below.visited /\ n \in below.visited
    BY <2>3, <2>4, <2>7 DEF GoesOn, GoodWalk, Manager!Walks
  <2>9. n \notin Range(below.order)
    BY <2>8 DEF Grey
  <2>10. \A d \in Needs(n) : d \in below.visited
    BY <2>7 DEF Needs, Mapped
  <2> DEFINE out == below.order
             L == Len(below.order)
  <2>11. /\ v \in Manager!Walks /\ v.visited = below.visited /\ v.order = Append(out, n)
         /\ Len(v.order) = L + 1 /\ v.order[L + 1] = n /\ \A j \in 1..L : v.order[j] = out[j]
    <3>1. v \in Manager!Walks /\ v.visited = below.visited /\ v.order = Append(out, n)
      BY <2>2, <2>8, OrderGrows
    <3> HIDE DEF v
    <3> QED
      BY <2>2, <2>8, <3>1
  <2>12. Range(v.order) = Range(out) \cup {n}
    <3>1. 1..(L + 1) = (1..L) \cup {L + 1}
      BY <2>8
    <3>2. DOMAIN v.order = 1..(L + 1) /\ DOMAIN out = 1..L
      <4>1. v.order \in Seq(Services)
        BY <2>11 DEF Manager!Walks
      <4> QED
        BY <2>8, <2>11, <4>1
    <3> HIDE DEF v
    <3> QED
      BY <2>11, <3>1, <3>2 DEF Range
  <2> HIDE DEF v
  <2>13. Grey(v) = Grey(w)
    <3>1. n \notin Grey(w)
      BY <1>3 DEF Grey
    <3> QED
      BY <2>8, <2>11, <2>12, <3>1 DEF Grey
  <2>14. \A m \in 1..(L + 1) : m = L + 1 \/ m \in 1..L
    BY <2>8
  <2>15. GoodOrder(v.order)
    <3>1. \A m \in 1..L : out[m] # n
      BY <2>8, <2>9 DEF Range
    <3>2. \A l, m \in 1..L : out[l] = out[m] => l = m
      BY <2>8 DEF GoodWalk, GoodOrder
    <3>3. v.order \in Seq(Services) /\ Range(v.order) \subseteq Mapped
      BY <2>8, <2>11, <2>12 DEF GoodWalk, GoodOrder, Manager!Walks
    <3> QED
      BY <2>11, <2>14, <3>1, <3>2, <3>3 DEF GoodOrder
  <2>16. ASSUME NEW j \in 1..(L + 1), NEW d \in Needs(v.order[j]), d \in S, v.order[j] \notin S
         PROVE  \E i \in 1..(j - 1) : v.order[i] = d
    <3>1. CASE j = L + 1
      <4>1. n \notin S /\ d \in Needs(n)
        BY <2>11, <2>16, <3>1
      <4>2. d \notin Grey(below)
        BY <1>3, <2>8, <2>16, <4>1 DEF Below
      <4>3. d \in Range(out)
        BY <2>10, <4>1, <4>2 DEF Grey
      <4>4. PICK i \in 1..L : out[i] = d
        BY <2>8, <4>3 DEF Range
      <4>5. i \in 1..(j - 1)
        BY <2>8, <3>1
      <4> QED
        BY <2>11, <4>4, <4>5
    <3>2. CASE j # L + 1
      <4>1. j \in 1..L
        BY <2>14, <3>2
      <4>2. d \in Needs(out[j]) /\ out[j] \notin S
        BY <2>11, <2>16, <4>1
      <4>3. PICK i \in 1..(j - 1) : out[i] = d
        BY <2>8, <2>16, <4>1, <4>2 DEF GoodWalk, Follows
      <4>4. i \in 1..L
        BY <2>8, <4>1
      <4> QED
        BY <2>11, <4>3, <4>4
    <3> QED
      BY <3>1, <3>2
  <2>17. GoodWalk(S, v)
    <3>1. Follows(S, v.order)
      BY <2>11, <2>16 DEF Follows
    <3> QED
      BY <2>8, <2>11, <2>12, <2>15, <3>1 DEF GoodWalk
  <2> QED
    BY <2>1, <2>8, <2>11, <2>13, <2>17 DEF GoesOn
<1> HIDE DEF visit
<1> QED
  BY <1>1, <1>2, <1>3 DEF VisitsWell, visit

LEMMA VisitsAreGood ==
  ASSUME MapTyped, IsFiniteSet(Mapped), NEW S, Closed(S), NEW k \in Nat
  PROVE  VisitsWell(S, Manager!Visit[k], k)
<1> DEFINE T == {j \in Nat : ~VisitsWell(S, Manager!Visit[j], j)}
<1> SUFFICES ASSUME T # {} PROVE FALSE
  OBVIOUS
<1>1. PICK m \in T : \A j \in T : m <= j
  <2>1. T \in SUBSET Nat
    OBVIOUS
  <2> HIDE DEF T
  <2> QED
    BY <2>1, LeastNumber
<1>2. m \in Nat /\ ~VisitsWell(S, Manager!Visit[m], m)
  OBVIOUS
<1>3. m # 0
  BY <1>2, VisitsWellStart
<1>4. m - 1 \in Nat /\ m - 1 \notin T /\ (m - 1) + 1 = m
  BY <1>1, <1>2, <1>3
<1>5. VisitsWell(S, Manager!Visit[m - 1], m - 1)
  BY <1>4
<1> HIDE DEF T
<1>6. VisitsWell(S, Manager!Visit[(m - 1) + 1], (m - 1) + 1)
  BY <1>4, <1>5, VisitsWellStep
<1> QED
  BY <1>2, <1>4, <1>6

\* There are no more names in the map than it is long.
LEMMA MappedIsFinite ==
  ASSUME MapTyped
  PROVE  IsFiniteSet(Mapped) /\ Len(registered) \in Nat /\ Cardinality(Mapped) <= Len(registered)
<1> DEFINE D == 1..Len(registered)
           f == [i \in D |-> registered[i]]
<1>1. Len(registered) \in Nat /\ \A i \in D : registered[i] \in Services
  BY DEF MapTyped
<1>2. \A n : Manager!Known(n) <=> \E i \in D : registered[i] = n
  BY DEF Manager!Known, Manager!Contains
<1>3. f \in Surjection(D, Mapped)
  BY <1>1, <1>2 DEF Surjection, Mapped
<1>4. IsFiniteSet(D) /\ Cardinality(D) = Len(registered)
  BY <1>1, FS_Interval
<1> HIDE DEF f, D
<1> QED
  BY <1>1, <1>3, <1>4, FS_Surjection

\* The order in which startAll() takes the services.
LEMMA OrderIsGood ==
  ASSUME MapTyped
  PROVE  /\ GoodOrder(Manager!_calculateStartupOrder)
         /\ \A S : Closed(S) => Follows(S, Manager!_calculateStartupOrder)
<1> DEFINE w == [visited |-> {}, order |-> <<>>]
           k == Len(registered)
           names == Manager!sorted
           v == Manager!VisitEach(Manager!Visit[k], names, w)
<1>1. /\ w \in Manager!Walks /\ w.visited = {} /\ w.order = <<>> /\ Range(w.order) = {}
      /\ Len(w.order) = 0
  BY DEF Manager!Walks, Range
<1>2. /\ IsFiniteSet(Mapped) /\ k \in Nat /\ Cardinality(Mapped) <= k
  BY MappedIsFinite
<1>3. Len(names) \in Nat
  <2>1. DOMAIN names = 1..k /\ names = [i \in DOMAIN names |-> names[i]]
    BY DEF Manager!sorted
  <2> HIDE DEF names
  <2> QED
    BY <1>2, <2>1
<1>4. v = Manager!VisitEach(Manager!Visit[k], names, w) /\ Manager!_calculateStartupOrder = v.order
  BY DEF Manager!_calculateStartupOrder
<1> HIDE DEF w, k, names, v
<1>5. ASSUME NEW S, Closed(S)
      PROVE  GoodWalk(S, v)
  <2>1. VisitsWell(S, Manager!Visit[k], k)
    BY <1>2, <1>5, VisitsAreGood
  <2>2. GoodWalk(S, w) /\ Grey(w) = {} /\ Mapped \ w.visited = Mapped
    BY <1>1 DEF GoodWalk, GoodOrder, Follows, Grey
  <2>3. \A i \in 1..Len(names) : Manager!Known(names[i]) => Below(S, names[i], w)
    BY <2>2 DEF Below
  <2>4. GoesOn(S, v, w)
    BY <1>1, <1>2, <1>3, <1>4, <2>1, <2>2, <2>3, EachGoesOn
  <2> QED
    BY <2>4 DEF GoesOn
<1>6. Closed({})
  BY DEF Closed
<1> QED
  BY <1>4, <1>5, <1>6 DEF GoodWalk

-----------------------------------------------------------------------------
(* A startup that nothing disturbs                                           *)

\* The services that startAll() has begun with, the groups that are to come
\* after the first p services of the order, and these.
Begun == {n \in Services : svc[n].state # "CREATED"}
ToCome(p) == [i \in 1..(Len(startupOrder) - p) |-> <<startupOrder[p + i]>>]
Before(p) == {startupOrder[i] : i \in 1..p}

Idle == calls = [b \in ManagerCalls |-> Manager!NoCall]
NoHooks == DOMAIN hooks = {}

Fresh == used = 0 /\ started = FALSE /\ Idle /\ NoHooks /\ Begun = {}

\* A service whose turn has come and that has not begun has its reason: it needs one
\* whose turn has come and that has not begun either, or whose turn is not before
\* its own.
Answered(p) ==
  \A i \in 1..p : \/ startupOrder[i] \in Begun \cup Manual
                  \/ \E d \in Needs(startupOrder[i]) :
                       d \in Before(p) \ Begun \/ d \notin Before(i - 1)

StartCall(t, W) == [op |-> "startAll", name |-> "none", todo |-> t, then |-> <<>>, waiting |-> W]

\* No hook is at work, or init() or start() of the one service the call waits for.
AtWork(c, W) ==
  \/ W = {} /\ NoHooks
  \/ \E m \in Begun, x \in {"init", "start"} :
       W = {m} /\ hooks = [h \in {Manager!Hook(c, m, x)} |-> 1]

Starting(c, p, W) ==
  /\ used # 0 /\ started = TRUE
  /\ p \in Nat /\ p \in 0..Len(startupOrder)
  /\ calls = [b \in ManagerCalls |-> IF b = c THEN StartCall(ToCome(p), W) ELSE Manager!NoCall]
  /\ GoodOrder(startupOrder)
  /\ \A S : Closed(S) => Follows(S, startupOrder)
  /\ Begun \subseteq Before(p) /\ Closed(Begun)
  /\ Answered(p)
  /\ \A n \in Begun \ W : svc[n].state = "RUNNING"
  /\ AtWork(c, W)

Complete ==
  /\ used # 0 /\ started = TRUE /\ Idle /\ NoHooks
  /\ startupOrder \in Seq(Services)
  /\ \A i \in 1..Len(startupOrder) :
       \/ svc[startupOrder[i]].state = "RUNNING" \/ startupOrder[i] \in Manual
       \/ \E d \in Needs(startupOrder[i]) : svc[d].state # "RUNNING"

Undisturbed ==
  /\ MapTyped /\ \A n \in Services : svc[n].pending = 0
  /\ \/ Fresh \/ Complete
     \/ \E c \in ManagerCalls : \E p, W : Starting(c, p, W)

StartupInv == RestartInv /\ (clean /\ ~Parallel => Undisturbed)

LEMMA StartCallIs ==
  ASSUME NEW t, NEW W
  PROVE  /\ StartCall(t, W).op = "startAll" /\ StartCall(t, W).todo = t
         /\ StartCall(t, W).waiting = W /\ StartCall(t, W) # Manager!NoCall
         /\ Manager!Call("startAll", "none", t) = StartCall(t, {})
<1>1. StartCall(t, W).op = "startAll" /\ StartCall(t, W).todo = t /\ StartCall(t, W).waiting = W
  BY DEF StartCall
<1>2. StartCall(t, W) # Manager!NoCall
  <2>1. Manager!NoCall.op = "none"
    BY DEF Manager!NoCall
  <2> QED
    BY <1>1, <2>1
<1>3. Manager!Call("startAll", "none", t) = StartCall(t, {})
  BY DEF StartCall, Manager!Call
<1> QED
  BY <1>1, <1>2, <1>3

LEMMA StartCallWaits ==
  ASSUME NEW t, NEW W, NEW V
  PROVE  [StartCall(t, W) EXCEPT !.waiting = V] = StartCall(t, V)
BY DEF StartCall

LEMMA TailIs ==
  ASSUME NEW S, NEW t \in Seq(S), Len(t) >= 1
  PROVE  Head(t) = t[1] /\ Tail(t) = [i \in 1..(Len(t) - 1) |-> t[i + 1]]
<1>1. Head(t) = t[1]
  OBVIOUS
<1>2. /\ Tail(t) \in Seq(S) /\ Len(Tail(t)) = Len(t) - 1 /\ Len(t) - 1 \in Nat
      /\ \A i \in 1..(Len(t) - 1) : Tail(t)[i] = t[i + 1]
  OBVIOUS
<1>3. Tail(t) = [i \in 1..(Len(t) - 1) |-> Tail(t)[i]]
  <2> DEFINE u == Tail(t)
  <2>1. u \in Seq(S) /\ Len(u) = Len(t) - 1
    BY <1>2
  <2> HIDE DEF u
  <2>2. u = [i \in 1..Len(u) |-> u[i]]
    BY <2>1
  <2> QED
    BY <2>1, <2>2 DEF u
<1> QED
  BY <1>1, <1>2, <1>3

LEMMA StartingCalls ==
  ASSUME NEW c \in ManagerCalls, NEW p, NEW W, Starting(c, p, W)
  PROVE  /\ calls[c] = StartCall(ToCome(p), W) /\ calls[c].op = "startAll"
         /\ calls[c] # Manager!NoCall
         /\ calls[c].todo = ToCome(p) /\ calls[c].waiting = W
         /\ \A b \in ManagerCalls : b # c => calls[b] = Manager!NoCall
<1>1. calls[c] = StartCall(ToCome(p), W) /\ \A b \in ManagerCalls : b # c => calls[b] = Manager!NoCall
  BY DEF Starting, AtWork
<1> QED
  BY <1>1, StartCallIs

LEMMA CallsAreNone ==
  ASSUME Undisturbed, NEW c \in ManagerCalls
  PROVE  \/ calls[c] = Manager!NoCall /\ calls[c].op = "none"
         \/ calls[c].op = "startAll" /\ \E p, W : Starting(c, p, W)
<1>1. Manager!NoCall.op = "none"
  BY DEF Manager!NoCall
<1>2. CASE Idle
  BY <1>1, <1>2 DEF Idle
<1>3. ASSUME NEW b \in ManagerCalls, NEW p, NEW W, Starting(b, p, W)
      PROVE  \/ calls[c] = Manager!NoCall /\ calls[c].op = "none"
             \/ calls[c].op = "startAll" /\ Starting(c, p, W)
  BY <1>1, <1>3, StartingCalls
<1> QED
  BY <1>2, <1>3 DEF Undisturbed, Fresh, Complete

\* Nothing moves that the startup looks at.
LEMMA NothingMoves ==
  ASSUME Undisturbed, UNCHANGED <<registered, hooks, calls, started, startupOrder, used>>,
         \A n \in Services : svc'[n].state = svc[n].state /\ svc'[n].pending = svc[n].pending
  PROVE  Undisturbed'
<1>1. /\ MapTyped' = MapTyped /\ Begun' = Begun /\ Mapped' = Mapped /\ NoHooks' = NoHooks
      /\ Idle' = Idle /\ \A p : Before(p)' = Before(p) /\ ToCome(p)' = ToCome(p)
      /\ \A n : Needs(n)' = Needs(n)
  <2>1. Mapped' = Mapped
    BY DEF Mapped, Manager!Known, Manager!Contains
  <2> QED
    BY <2>1 DEF MapTyped, Begun, NoHooks, Idle, Before, ToCome, Needs
<1>2. \A S : Closed(S)' = Closed(S) /\ Follows(S, startupOrder)' = Follows(S, startupOrder)
  BY <1>1 DEF Closed, Follows
<1>3. GoodOrder(startupOrder)' = GoodOrder(startupOrder)
  BY <1>1 DEF GoodOrder
<1>4. \A p : Answered(p)' = Answered(p)
  BY <1>1 DEF Answered
<1>6. ASSUME NEW c \in ManagerCalls, NEW p, NEW W, Starting(c, p, W)
      PROVE  Starting(c, p, W)'
  <2>1. \A n \in Begun \ W : svc'[n].state = "RUNNING"
    BY <1>6 DEF Starting, AtWork, Begun
  <2> QED
    BY <1>1, <1>2, <1>3, <1>4, <1>6, <2>1 DEF Starting, AtWork
<1>7. ASSUME Complete PROVE Complete'
  <2>1. \A n : \A d \in Needs(n) : d \in Services
    BY DEF Needs, Mapped
  <2> QED
    BY <1>1, <1>7, <2>1 DEF Complete
<1>8. Fresh => Fresh'
  BY <1>1 DEF Fresh
<1>9. MapTyped' /\ \A n \in Services : svc'[n].pending = 0
  BY <1>1 DEF Undisturbed
<1> QED
  BY <1>6, <1>7, <1>8, <1>9 DEF Undisturbed

LEMMA RegisterUndisturbed ==
  ASSUME RestartInv, Undisturbed, NEW n \in Services, Manager!Register(n), clean'
  PROVE  Undisturbed'
<1>1. /\ registered' = Append(registered, n)
      /\ UNCHANGED <<hooks, calls, started, startupOrder, used>>
      /\ \A c \in ManagerCalls : calls[c] = Manager!NoCall
  BY Zenon DEF Manager!Register
<1>2. ASSUME NEW m \in Services
      PROVE  svc'[m].state = svc[m].state /\ svc'[m].pending = svc[m].pending
  <2>1. \/ svc'[m] = svc[m]
        \/ \E x : svc'[m] = [svc[m] EXCEPT !.dependents = x]
    BY Zenon DEF Manager!Register
  <2>2. ServiceFits(svc[m])
    BY DEF RestartInv
  <2> QED
    BY <2>1, <2>2 DEF ServiceFits
<1>3. MapTyped'
  BY <1>1 DEF Undisturbed, MapTyped
<1>4. \A m : Manager!Known(m) => Manager!Known(m)'
  BY <1>1 DEF Undisturbed, MapTyped, Manager!Known, Manager!Contains
<1>5. \A m : Needs(m) \subseteq Needs(m)'
  BY <1>4 DEF Needs, Mapped
<1>6. ASSUME NEW c \in ManagerCalls, NEW p, NEW W, Starting(c, p, W)
      PROVE  FALSE
  BY <1>1, <1>6, StartingCalls
<1>7. ASSUME Complete PROVE Complete'
  <2>1. /\ startupOrder \in Seq(Services) /\ \A m : \A d \in Needs(m) : d \in Services
        /\ \A i \in 1..Len(startupOrder) : startupOrder[i] \in Services
    BY <1>7 DEF Complete, Needs, Mapped
  <2> QED
    BY <1>1, <1>2, <1>5, <1>7, <2>1 DEF Complete, Idle, NoHooks
<1>8. ASSUME Fresh PROVE Fresh'
  BY <1>1, <1>2, <1>8 DEF Fresh, Begun, Idle, NoHooks
<1>9. \A m \in Services : svc'[m].pending = 0
  BY <1>2 DEF Undisturbed
<1> QED
  BY <1>3, <1>6, <1>7, <1>8, <1>9 DEF Undisturbed

LEMMA StartAllUndisturbed ==
  ASSUME Undisturbed, ~Parallel, NEW c \in ManagerCalls, Manager!StartAll(c), clean'
  PROVE  Undisturbed'
<1> DEFINE names == Manager!_calculateStartupOrder
<1>1. /\ used = 0 /\ used' = used + 1 /\ started' = TRUE /\ startupOrder' = names
      /\ calls' = [calls EXCEPT ![c] = Manager!Call("startAll", "none", [i \in DOMAIN names |-> <<names[i]>>])]
      /\ UNCHANGED <<registered, svc, hooks>>
  BY Zenon DEF Manager!StartAll, Manager!Issue, Manager!groupsOf
<1>2. MapTyped /\ Fresh
  BY <1>1 DEF Undisturbed, Complete, Starting, AtWork
<1>3. /\ GoodOrder(names) /\ Len(names) \in Nat /\ DOMAIN names = 1..Len(names)
      /\ \A S : Closed(S) => Follows(S, names)
  <2>1. GoodOrder(names) /\ \A S : Closed(S) => Follows(S, names)
    BY <1>2, OrderIsGood
  <2> HIDE DEF names
  <2> QED
    BY <2>1 DEF GoodOrder
<1> HIDE DEF names
<1>4. /\ MapTyped' = MapTyped /\ Begun' = Begun /\ Mapped' = Mapped /\ NoHooks' = NoHooks
      /\ \A n : Needs(n)' = Needs(n)
  <2>1. Mapped' = Mapped
    BY <1>1 DEF Mapped, Manager!Known, Manager!Contains
  <2> QED
    BY <1>1, <2>1 DEF MapTyped, Begun, NoHooks, Needs
<1>5. GoodOrder(startupOrder)' /\ \A S : Closed(S)' => Follows(S, startupOrder)'
  <2>1. startupOrder' = names
    BY <1>1
  <2>2. GoodOrder(startupOrder)'
    BY <1>3, <1>4, <2>1 DEF GoodOrder
  <2>3. \A S : Closed(S)' => Closed(S)
    BY <1>4 DEF Closed
  <2>4. \A S : Follows(S, names) => Follows(S, startupOrder)'
    BY <1>4, <2>1 DEF Follows
  <2> QED
    BY <1>3, <2>2, <2>3, <2>4
<1>6. /\ ToCome(0)' = [i \in 1..Len(names) |-> <<names[i]>>]
      /\ calls' = [b \in ManagerCalls |-> IF b = c THEN StartCall(ToCome(0)', {}) ELSE Manager!NoCall]
  <2> DEFINE t == [i \in 1..Len(names) |-> <<names[i]>>]
  <2>1. ToCome(0)' = t
    <3>1. startupOrder' = names /\ Len(names) - 0 = Len(names) /\ \A i \in 1..Len(names) : 0 + i = i
      BY <1>1, <1>3
    <3>2. ToCome(0)' = [i \in 1..(Len(names) - 0) |-> <<names[0 + i]>>]
      BY <3>1, Zenon DEF ToCome
    <3> QED
      BY <3>1, <3>2
  <2>2. calls' = [calls EXCEPT ![c] = Manager!Call("startAll", "none", t)]
    BY <1>1, <1>3
  <2>3. Manager!Call("startAll", "none", t) = StartCall(t, {})
    BY StartCallIs
  <2>4. calls = [b \in ManagerCalls |-> Manager!NoCall]
    BY <1>2 DEF Fresh, Idle
  <2> HIDE DEF t
  <2>5. calls' = [b \in ManagerCalls |-> IF b = c THEN StartCall(t, {}) ELSE Manager!NoCall]
    BY <2>2, <2>3, <2>4
  <2> QED
    BY <2>1, <2>5 DEF t
<1>7. Starting(c, 0, {})'
  <2>1. Closed(Begun)' /\ Begun' = {}
    BY <1>2, <1>4 DEF Closed, Fresh
  <2>2. Answered(0)'
    BY DEF Answered
  <2>3. used' # 0 /\ started' = TRUE /\ 0 \in 0..Len(startupOrder')
    <3>1. used = 0 /\ used' = used + 1
      BY <1>1
    <3> QED
      BY <1>1, <1>3, <3>1
  <2>4. NoHooks'
    BY <1>2, <1>4 DEF Fresh
  <2> QED
    BY <1>5, <1>6, <2>1, <2>2, <2>3, <2>4 DEF Starting, AtWork
<1>8. MapTyped' /\ \A n \in Services : svc'[n].pending = 0
  BY <1>1, <1>2, <1>4 DEF Undisturbed
<1> QED
  BY <1>7, <1>8 DEF Undisturbed

\* The turn of the next service.
LEMMA StartGroupUndisturbed ==
  ASSUME RestartInv, Undisturbed, NEW c \in ManagerCalls, Manager!StartGroup(c)
  PROVE  Undisturbed'
<1>0. PICK p \in Nat : \E W : Starting(c, p, W)
  <2>1. calls[c].op = "startAll"
    BY Zenon DEF Manager!StartGroup
  <2> QED
    BY <2>1, CallsAreNone DEF Starting, AtWork
<1>1. PICK W : Starting(c, p, W)
  BY <1>0
<1>2. /\ calls[c] = StartCall(ToCome(p), {}) /\ W = {} /\ ToCome(p) # <<>>
      /\ calls[c].todo = ToCome(p)
  <2>1. calls[c].waiting = {} /\ calls[c].todo # <<>>
    BY Zenon DEF Manager!StartGroup
  <2> QED
    BY <1>1, <2>1, StartingCalls
<1> DEFINE q == p + 1
<1>n. PICK n : n = startupOrder[q]
  OBVIOUS
<1> USE <1>n
<1>3. /\ startupOrder \in Seq(Services) /\ Len(startupOrder) \in Nat
      /\ q \in 1..Len(startupOrder) /\ n \in Mapped /\ n \in Services
      /\ \A i, j \in 1..Len(startupOrder) : startupOrder[i] = startupOrder[j] => i = j
  <2>1. /\ startupOrder \in Seq(Services) /\ Range(startupOrder) \subseteq Mapped
        /\ p \in 0..Len(startupOrder)
        /\ \A i, j \in 1..Len(startupOrder) : startupOrder[i] = startupOrder[j] => i = j
    BY <1>1 DEF Starting, AtWork, GoodOrder
  <2>2. p # Len(startupOrder)
    <3> SUFFICES ASSUME p = Len(startupOrder) PROVE FALSE
      OBVIOUS
    <3>1. 1..(Len(startupOrder) - p) = {}
      BY <2>1
    <3> QED
      BY <1>2, <3>1 DEF ToCome
  <2>3. q \in 1..Len(startupOrder)
    BY <2>1, <2>2
  <2> QED
    BY <2>1, <2>3 DEF Range, Mapped
<1>4. Head(ToCome(p)) = <<n>> /\ Tail(ToCome(p)) = ToCome(q)
  <2> DEFINE L == Len(startupOrder)
             t == ToCome(p)
  <2>1. /\ t \in Seq({<<startupOrder[i]>> : i \in 1..L}) /\ Len(t) = L - p /\ L - p >= 1
        /\ (L - p) - 1 = L - q
    BY <1>3 DEF ToCome
  <2>2. t[1] = <<n>>
    BY <1>3 DEF ToCome
  <2>3. \A i \in 1..(L - q) : t[i + 1] = <<startupOrder[q + i]>>
    <3>1. \A i \in 1..(L - q) : i + 1 \in 1..(L - p) /\ p + (i + 1) = q + i
      BY <1>3
    <3> QED
      BY <3>1 DEF ToCome
  <2> HIDE DEF t
  <2>4. Head(t) = t[1] /\ Tail(t) = [i \in 1..(Len(t) - 1) |-> t[i + 1]]
    BY <2>1, TailIs
  <2>5. Tail(t) = [i \in 1..(L - q) |-> t[i + 1]]
    BY <2>1, <2>4
  <2>6. [i \in 1..(L - q) |-> t[i + 1]] = [i \in 1..(L - q) |-> <<startupOrder[q + i]>>]
    BY <2>3
  <2> QED
    BY <2>2, <2>4, <2>5, <2>6 DEF t, ToCome
<1>5. /\ n \notin Begun /\ svc[n].state = "CREATED" /\ Before(q) = Before(p) \cup {n}
      /\ n \notin Before(p)
  <2>1. \A i \in 1..p : i \in 1..Len(startupOrder) /\ i # q
    BY <1>3
  <2>2. n \notin Before(p)
    BY <1>3, <2>1 DEF Before
  <2>3. Before(q) = Before(p) \cup {n}
    <3>1. 1..q = (1..p) \cup {q}
      OBVIOUS
    <3> HIDE DEF q
    <3> QED
      BY <3>1 DEF Before
  <2> QED
    BY <1>1, <1>3, <2>2, <2>3 DEF Starting, AtWork, Begun
<1> DEFINE ready == /\ n \notin Manual
                    /\ \A d \in Needs(n) : svc[d].state = "RUNNING"
<1>g. PICK go : go = IF ready THEN {n} ELSE {}
  OBVIOUS
<1>6. /\ svc' = [m \in Services |-> IF m \in go THEN [svc[m] EXCEPT !.state = "INITIALIZING"]
                                  ELSE svc[m]]
      /\ hooks' = [h \in DOMAIN hooks \cup {Manager!Hook(c, m, "init") : m \in go} |->
                     IF h \in {Manager!Hook(c, m, "init") : m \in go} THEN 1 ELSE hooks[h]]
      /\ calls' = [calls EXCEPT ![c].waiting = go, ![c].todo = Tail(@)]
      /\ UNCHANGED <<registered, started, startupOrder, used, clean>>
  <2> DEFINE Ready(m) == /\ Manager!Known(m) /\ m \notin Manual
                         /\ \A d \in Manager!ToSet(Dependencies[m]) :
                              Manager!Known(d) => Manager!isRunning(d)
                         /\ svc[m].state = "CREATED"
             Go == {m \in Manager!ToSet(Head(calls[c].todo)) : Ready(m)}
  <2>1. /\ svc' = [m \in Services |-> IF m \in Go THEN [svc[m] EXCEPT !.state = "INITIALIZING"]
                                    ELSE svc[m]]
        /\ hooks' = [h \in DOMAIN hooks \cup {Manager!Hook(c, m, "init") : m \in Go} |->
                       IF h \in {Manager!Hook(c, m, "init") : m \in Go} THEN 1 ELSE hooks[h]]
        /\ calls' = [calls EXCEPT ![c].waiting = Go, ![c].todo = Tail(@)]
        /\ UNCHANGED <<registered, started, startupOrder, used, clean>>
    BY Zenon DEF Manager!StartGroup
  <2>2. Manager!ToSet(Head(calls[c].todo)) = {n}
    BY <1>2, <1>4 DEF Manager!ToSet
  <2>3. \A d : d \in Needs(n) <=> d \in Manager!ToSet(Dependencies[n]) /\ Manager!Known(d)
    <3>1. Dependencies[n] \in Seq(Services)
      BY <1>3, ServicesFit
    <3> QED
      BY <3>1 DEF Needs, Mapped, Manager!ToSet
  <2>4. Ready(n) <=> ready
    BY <1>3, <1>5, <2>3 DEF Mapped, Manager!isRunning
  <2>5. Go = go
    <3> HIDE DEF Ready, ready
    <3>1. Go = {m \in {n} : Ready(m)}
      BY <2>2, Zenon
    <3>2. CASE ready
      BY <1>g, <2>4, <3>1, <3>2
    <3>3. CASE ~ready
      BY <1>g, <2>4, <3>1, <3>3
    <3> QED
      BY <3>2, <3>3
  <2> HIDE DEF Go
  <2> QED
    BY <2>1, <2>5
<1> HIDE DEF ready
<1>7. (go = {n} /\ ready) \/ (go = {} /\ ~ready)
  BY <1>g
<1>8. /\ Begun' = Begun \cup go /\ \A m \in Services \ go : svc'[m] = svc[m]
      /\ \A m \in Services : svc'[m].pending = 0
  <2>1. ServiceFits(svc[n]) /\ \A m \in Services : svc[m].pending = 0
    BY <1>3 DEF RestartInv, Undisturbed
  <2>2. \A m \in Services : svc'[m] = IF m \in go THEN [svc[m] EXCEPT !.state = "INITIALIZING"]
                                      ELSE svc[m]
    BY <1>6
  <2>3. /\ [svc[n] EXCEPT !.state = "INITIALIZING"].state = "INITIALIZING"
        /\ [svc[n] EXCEPT !.state = "INITIALIZING"].pending = svc[n].pending
    BY <2>1 DEF ServiceFits
  <2>4. \A m \in Services \ go : svc'[m] = svc[m]
    BY <2>2
  <2>5. n \in go => svc'[n].state = "INITIALIZING" /\ svc'[n].pending = 0
    BY <1>3, <2>1, <2>2, <2>3
  <2>6. \A m \in Services : svc'[m].pending = 0
    BY <1>7, <2>1, <2>4, <2>5
  <2>7. Begun' = Begun \cup go
    BY <1>3, <1>5, <1>7, <2>4, <2>5 DEF Begun
  <2> QED
    BY <2>4, <2>6, <2>7
<1>9. /\ MapTyped' = MapTyped /\ Mapped' = Mapped /\ \A i : Before(i)' = Before(i)
      /\ \A m : Needs(m)' = Needs(m) /\ \A i : ToCome(i)' = ToCome(i)
  <2>1. Mapped' = Mapped
    BY <1>6 DEF Mapped, Manager!Known, Manager!Contains
  <2> QED
    BY <1>6, <2>1 DEF MapTyped, Before, Needs, ToCome
<1>10. calls' = [b \in ManagerCalls |-> IF b = c THEN StartCall(ToCome(q)', go) ELSE Manager!NoCall]
  <2>1. [StartCall(ToCome(p), {}) EXCEPT !.waiting = go, !.todo = ToCome(q)] = StartCall(ToCome(q), go)
    <3> HIDE DEF q
    <3>1. [StartCall(ToCome(p), {}) EXCEPT !.waiting = go] = StartCall(ToCome(p), go)
      BY DEF StartCall
    <3>2. [StartCall(ToCome(p), go) EXCEPT !.todo = ToCome(q)] = StartCall(ToCome(q), go)
      BY DEF StartCall
    <3>3. [StartCall(ToCome(p), {}) EXCEPT !.waiting = go, !.todo = ToCome(q)]
            = [[StartCall(ToCome(p), {}) EXCEPT !.waiting = go] EXCEPT !.todo = ToCome(q)]
      BY Zenon
    <3> QED
      BY <3>1, <3>2, <3>3, Zenon
  <2>2. calls = [b \in ManagerCalls |-> IF b = c THEN StartCall(ToCome(p), {}) ELSE Manager!NoCall]
    BY <1>1, <1>2 DEF Starting, AtWork
  <2>3. calls' = [calls EXCEPT ![c] = [calls[c] EXCEPT !.waiting = go, !.todo = Tail(calls[c].todo)]]
    <3>1. calls[c].todo = [calls[c] EXCEPT !.waiting = go].todo
      <4>1. [calls[c] EXCEPT !.waiting = go] = StartCall(ToCome(p), go)
        <5>1. [StartCall(ToCome(p), {}) EXCEPT !.waiting = go] = StartCall(ToCome(p), go)
          BY DEF StartCall
        <5> QED
          BY <1>2, <5>1
      <4> QED
        BY <1>2, <4>1, StartCallIs
    <3> QED
      BY <1>6, <3>1
  <2>4. calls' = [calls EXCEPT ![c] = StartCall(ToCome(q), go)]
    BY <1>2, <1>4, <2>1, <2>3
  <2>5. ToCome(q)' = ToCome(q)
    BY <1>9
  <2> HIDE DEF q
  <2> QED
    BY <2>2, <2>4, <2>5
<1>11. Closed(Begun)' /\ Begun' \subseteq Before(q)
  <2>1. ready => Needs(n) \subseteq Begun
    BY DEF ready, Begun, Needs, Mapped
  <2> QED
    BY <1>1, <1>3, <1>5, <1>7, <1>8, <1>9, <2>1 DEF Closed, Starting, AtWork, Begun
<1>12. Answered(q)'
  <2> SUFFICES ASSUME NEW i \in 1..q
               PROVE  \/ startupOrder[i] \in Begun' \cup Manual
                      \/ \E d \in Needs(startupOrder[i]) :
                           d \in Before(q) \ Begun' \/ d \notin Before(i - 1)
    BY <1>6, <1>9 DEF Answered
  <2>1. CASE i = q
    <3>1. q - 1 = p /\ startupOrder[i] = n
      BY <2>1
    <3>2. ~ready /\ n \notin Manual => \E d \in Needs(n) : svc[d].state # "RUNNING"
      BY DEF ready
    <3>3. \A d \in Needs(n) : svc[d].state # "RUNNING" => d \notin Begun
      BY <1>1, <1>2 DEF Starting, AtWork
    <3> QED
      BY <1>5, <1>7, <1>8, <2>1, <3>1, <3>2, <3>3
  <2>2. CASE i # q
    <3>1. i \in 1..p
      BY <2>2
    <3>2. \/ startupOrder[i] \in Begun \cup Manual
          \/ \E d \in Needs(startupOrder[i]) : d \in Before(p) \ Begun \/ d \notin Before(i - 1)
      BY <1>1, <3>1 DEF Starting, AtWork, Answered
    <3> QED
      BY <1>5, <1>7, <1>8, <3>2
  <2> QED
    BY <2>1, <2>2
<1>13. \A m \in Begun' \ go : svc'[m].state = "RUNNING"
  BY <1>1, <1>2, <1>8 DEF Starting, AtWork, Begun
<1>14. \/ go = {} /\ NoHooks'
       \/ go = {n} /\ n \in Begun' /\ hooks' = [h \in {Manager!Hook(c, n, "init")} |-> 1]
  <2>1. DOMAIN hooks = {}
    BY <1>1, <1>2 DEF Starting, AtWork, NoHooks
  <2> QED
    BY <1>6, <1>7, <1>8, <2>1 DEF NoHooks
<1>15. GoodOrder(startupOrder)' /\ \A S : Closed(S)' => Follows(S, startupOrder)'
  <2>1. GoodOrder(startupOrder) /\ \A S : Closed(S) => Follows(S, startupOrder)
    BY <1>1 DEF Starting
  <2>2. GoodOrder(startupOrder)'
    BY <1>6, <1>9, <2>1 DEF GoodOrder
  <2>3. \A S : Closed(S)' => Closed(S)
    BY <1>9 DEF Closed
  <2>4. \A S : Follows(S, startupOrder) => Follows(S, startupOrder)'
    BY <1>6, <1>9 DEF Follows
  <2> QED
    BY <2>1, <2>2, <2>3, <2>4
<1>16. Starting(c, q, go)'
  <2>1. used' # 0 /\ started' = TRUE /\ q \in Nat /\ q \in 0..Len(startupOrder')
    BY <1>1, <1>3, <1>6 DEF Starting, AtWork
  <2>2. AtWork(c, go)'
    <3>1. CASE go = {} /\ NoHooks'
      BY <3>1, Zenon DEF AtWork
    <3>2. CASE go = {n} /\ n \in Begun' /\ hooks' = [h \in {Manager!Hook(c, n, "init")} |-> 1]
      BY <3>2, Zenon DEF AtWork
    <3> QED
      BY <1>14, <3>1, <3>2
  <2>3. calls' = [b \in ManagerCalls |-> IF b = c THEN StartCall(ToCome(q)', go) ELSE Manager!NoCall]
    BY <1>10
  <2>4. Begun' \subseteq Before(q)' /\ Closed(Begun)' /\ Answered(q)'
    BY <1>9, <1>11, <1>12
  <2>5. \A m \in Begun' \ go : svc'[m].state = "RUNNING"
    BY <1>13
  <2>6. GoodOrder(startupOrder)' /\ \A S : Closed(S)' => Follows(S, startupOrder)'
    BY <1>15
  <2> HIDE DEF q
  <2> QED
    BY <2>1, <2>2, <2>3, <2>4, <2>5, <2>6, Zenon DEF Starting
<1>17. MapTyped'
  BY <1>9 DEF Undisturbed
<1> HIDE DEF q
<1> QED
  BY <1>8, <1>16, <1>17 DEF Undisturbed

\* The turn of every service has come.
LEMMA ReturnUndisturbed ==
  ASSUME Undisturbed, NEW c \in ManagerCalls, Manager!Return(c)
  PROVE  Undisturbed'
<1>0. PICK p \in Nat : \E W : Starting(c, p, W)
  <2>1. calls[c].op # "none"
    BY Zenon DEF Manager!Return
  <2> QED
    BY <2>1, CallsAreNone DEF Starting, AtWork
<1>1. PICK W : Starting(c, p, W)
  BY <1>0
<1>2. calls[c].op = "startAll" /\ W = {} /\ ToCome(p) = <<>>
  <2>1. calls[c].waiting = {} /\ calls[c].todo = <<>>
    BY Zenon DEF Manager!Return
  <2> QED
    BY <1>1, <2>1, StartingCalls
<1>3. /\ UNCHANGED <<registered, svc, hooks, startupOrder, used>>
      /\ calls' = [calls EXCEPT ![c] = Manager!NoCall] /\ started' = started
  <2>1. calls[c].op # "unregister" /\ calls[c].op # "stopAll" /\ started = TRUE
    BY <1>1, <1>2 DEF Starting, AtWork
  <2> QED
    BY <2>1 DEF Manager!Return
<1>4. Idle'
  BY <1>1, <1>3 DEF Starting, AtWork, Idle
<1>5. /\ startupOrder \in Seq(Services) /\ p = Len(startupOrder)
      /\ \A S : Closed(S) => Follows(S, startupOrder)
  <2>1. p \in 0..Len(startupOrder) /\ startupOrder \in Seq(Services)
    BY <1>1 DEF Starting, AtWork, GoodOrder
  <2>2. Len(ToCome(p)) = Len(startupOrder) - p
    BY <2>1 DEF ToCome
  <2> QED
    BY <1>1, <1>2, <2>1, <2>2 DEF Starting, AtWork
<1>6. ASSUME NEW i \in 1..Len(startupOrder)
      PROVE  \/ svc[startupOrder[i]].state = "RUNNING" \/ startupOrder[i] \in Manual
             \/ \E d \in Needs(startupOrder[i]) : svc[d].state # "RUNNING"
  <2> DEFINE n == startupOrder[i]
  <2>1. CASE n \in Begun \cup Manual
    BY <1>1, <1>2, <2>1 DEF Starting, AtWork
  <2>2. CASE n \notin Begun \cup Manual
    <3>1. PICK d \in Needs(n) : d \in Before(p) \ Begun \/ d \notin Before(i - 1)
      BY <1>1, <1>5, <2>2 DEF Starting, AtWork, Answered
    <3>2. d \notin Begun
      <4> SUFFICES ASSUME d \in Begun PROVE FALSE
        OBVIOUS
      <4>1. Follows(Begun, startupOrder)
        BY <1>1, <1>5 DEF Starting, AtWork
      <4>2. \E j \in 1..(i - 1) : startupOrder[j] = d
        BY <2>2, <3>1, <4>1 DEF Follows
      <4> QED
        BY <3>1, <4>2 DEF Before
    <3>3. svc[d].state = "CREATED"
      BY <3>1, <3>2 DEF Begun, Needs, Mapped
    <3> QED
      BY <3>1, <3>3
  <2> QED
    BY <2>1, <2>2
<1>7. Complete'
  <2>1. \A n : Needs(n)' = Needs(n)
    BY <1>3 DEF Needs, Mapped, Manager!Known, Manager!Contains
  <2>2. used' # 0 /\ started' = TRUE /\ NoHooks'
    BY <1>1, <1>2, <1>3 DEF Starting, AtWork, NoHooks
  <2> QED
    BY <1>3, <1>4, <1>5, <1>6, <2>1, <2>2 DEF Complete
<1>8. MapTyped' /\ \A n \in Services : svc'[n].pending = 0
  BY <1>3 DEF Undisturbed, MapTyped
<1> QED
  BY <1>7, <1>8 DEF Undisturbed

\* init() has ended and start() begins, or start() has ended.
LEMMA HookUndisturbed ==
  ASSUME RestartInv, Undisturbed, NEW h \in DOMAIN hooks, NEW ok, Manager!EndHook(h, ok), clean'
  PROVE  Undisturbed'
<1>0. PICK c \in ManagerCalls, p \in Nat : \E W : Starting(c, p, W)
  BY DEF Undisturbed, Fresh, Complete, NoHooks, Starting, AtWork
<1>1. PICK W : Starting(c, p, W)
  BY <1>0
<1>2. PICK m \in Begun, x \in {"init", "start"} :
         W = {m} /\ hooks = [g \in {Manager!Hook(c, m, x)} |-> 1]
  BY <1>1 DEF Starting, AtWork, NoHooks
<1>3. /\ h = Manager!Hook(c, m, x) /\ h.call = c /\ h.name = m /\ h.hook = x
      /\ c # 0 /\ hooks[h] = 1 /\ DOMAIN hooks = {h} /\ m \in Services
  <2>1. h = Manager!Hook(c, m, x)
    BY <1>2
  <2> QED
    BY <1>2, <2>1, ServicesFit DEF Manager!Hook, Begun
<1>4. ok
  BY Zenon DEF Manager!EndHook
<1>5. UNCHANGED <<registered, started, startupOrder, used>>
  BY Zenon DEF Manager!EndHook
<1>6. DOMAIN Manager!BagRemove(hooks, h) = {}
  BY <1>3 DEF Manager!BagRemove
<1> DEFINE t == IF x = "init" THEN [svc[m] EXCEPT !.state = "STARTING"] ELSE Manager!Running(m)
<1>7. svc' = [svc EXCEPT ![m] = t]
  <2>1. CASE x = "init"
    BY <1>3, <1>4, <2>1, Zenon DEF Manager!EndHook
  <2>2. CASE x # "init"
    BY <1>2, <1>3, <1>4, <2>2 DEF Manager!EndHook
  <2> QED
    BY <2>1, <2>2
<1>8. /\ t.pending = svc[m].pending
      /\ t.state = IF x = "init" THEN "STARTING" ELSE "RUNNING"
  BY <1>3 DEF RestartInv, ServiceFits, Manager!Running
<1> HIDE DEF t
<1>9. /\ svc'[m] = t /\ \A n \in Services \ {m} : svc'[n] = svc[n]
  BY <1>3, <1>7 DEF RestartInv
<1>10. /\ Begun' = Begun /\ MapTyped' = MapTyped /\ Mapped' = Mapped
       /\ \A i : Before(i)' = Before(i) /\ \A n : Needs(n)' = Needs(n)
       /\ \A i : ToCome(i)' = ToCome(i)
  <2>1. Mapped' = Mapped
    BY <1>5 DEF Mapped, Manager!Known, Manager!Contains
  <2>2. Begun' = Begun
    BY <1>2, <1>8, <1>9 DEF Begun
  <2> QED
    BY <1>5, <2>1, <2>2 DEF MapTyped, Before, Needs, ToCome
<1>11. GoodOrder(startupOrder)' /\ \A S : Closed(S)' => Follows(S, startupOrder)'
  BY <1>1, <1>5, <1>10 DEF Starting, AtWork, GoodOrder, Closed, Follows
<1>12. Closed(Begun)' /\ Answered(p)'
  BY <1>1, <1>5, <1>10 DEF Starting, AtWork, Closed, Answered
<1>13. \A n \in Services : svc'[n].pending = 0
  BY <1>8, <1>9 DEF Undisturbed
<1>14. CASE x = "init"
  <2>1. /\ hooks' = Manager!BagAdd(Manager!BagRemove(hooks, h), Manager!Hook(c, m, "start"))
        /\ calls' = calls
    BY <1>3, <1>4, <1>14, Zenon DEF Manager!EndHook
  <2>2. hooks' = [g \in {Manager!Hook(c, m, "start")} |-> 1]
    BY <1>6, <2>1 DEF Manager!BagAdd
  <2>3. \A n \in Begun' \ W : svc'[n].state = "RUNNING"
    BY <1>1, <1>2, <1>9, <1>10 DEF Starting, AtWork, Begun
  <2>5. Starting(c, p, W)'
    BY <1>1, <1>2, <1>5, <1>10, <1>11, <1>12, <2>1, <2>2, <2>3 DEF Starting, AtWork
  <2> QED
    BY <1>10, <1>13, <2>5 DEF Undisturbed
<1>15. CASE x = "start"
  <2>1. /\ hooks' = Manager!BagRemove(hooks, h)
        /\ calls' = [calls EXCEPT ![c] = [calls[c] EXCEPT !.waiting = @ \ {m}]]
    BY <1>3, <1>4, <1>15 DEF Manager!EndHook
  <2>2. NoHooks'
    BY <1>6, <2>1 DEF NoHooks
  <2>3. \A n \in Begun' \ {} : svc'[n].state = "RUNNING"
    BY <1>1, <1>2, <1>8, <1>9, <1>10, <1>15 DEF Starting, AtWork, Begun
  <2>4. calls' = [b \in ManagerCalls |-> IF b = c THEN StartCall(ToCome(p)', {}) ELSE Manager!NoCall]
    <3>1. calls[c] = StartCall(ToCome(p), W) /\ calls[c].waiting \ {m} = {}
      BY <1>1, <1>2, StartingCalls
    <3>2. [calls[c] EXCEPT !.waiting = {}] = StartCall(ToCome(p)', {})
      <4>1. [StartCall(ToCome(p), W) EXCEPT !.waiting = {}] = StartCall(ToCome(p), {})
        BY StartCallWaits
      <4>2. ToCome(p)' = ToCome(p)
        BY <1>10
      <4> QED
        BY <3>1, <4>1, <4>2
    <3>3. calls' = [calls EXCEPT ![c] = StartCall(ToCome(p)', {})]
      BY <2>1, <3>1, <3>2
    <3> QED
      BY <1>1, <3>3 DEF Starting, AtWork
  <2>5. Starting(c, p, {})'
    BY <1>1, <1>5, <1>10, <1>11, <1>12, <2>2, <2>3, <2>4 DEF Starting, AtWork
  <2> QED
    BY <1>10, <1>13, <2>5 DEF Undisturbed
<1> QED
  BY <1>14, <1>15

LEMMA StartupKept ==
  ASSUME StartupInv, Manager!Next
  PROVE  StartupInv'
<1>1. RestartInv /\ RestartInv'
  BY RestartsKept DEF StartupInv
<1> SUFFICES ASSUME clean', ~Parallel PROVE Undisturbed'
  BY <1>1 DEF StartupInv
<1>2. ASSUME NEW n \in Services, \/ Manager!Crash(n)
                                \/ \E healthy \in BOOLEAN : Manager!EndCheck(n, healthy)
      PROVE  FALSE
  BY <1>2, Zenon DEF Manager!Crash, Manager!EndCheck
<1>3. ASSUME NEW c \in ManagerCalls,
             \/ Manager!StopAll(c)
             \/ \E n \in Services :
                  \/ Manager!RestartService(c, n) \/ Manager!Start(c, n)
                  \/ \E op \in {"stop", "unregister"} : Manager!Stop(c, n, op)
      PROVE  FALSE
  BY <1>3, Zenon DEF Manager!StopAll, Manager!RestartService, Manager!Start, Manager!Stop, Manager!Issue
<1>4. clean
  <2>1. ASSUME NEW n \in Services, \/ Manager!Register(n) \/ Manager!AttemptRestart(n)
                                  \/ Manager!BeginCheck(n)
        PROVE  clean
    BY <2>1, Zenon DEF Manager!Register, Manager!AttemptRestart, Manager!BeginCheck
  <2>2. ASSUME NEW c \in ManagerCalls,
               \/ Manager!StartAll(c) \/ Manager!StartGroup(c) \/ Manager!StopNext(c)
               \/ Manager!RestartSelf(c) \/ Manager!RestartStart(c) \/ Manager!StartNext(c)
               \/ Manager!Return(c)
        PROVE  clean
    BY <2>2, Zenon DEF Manager!StartAll, Manager!Issue, Manager!StartGroup, Manager!StopNext,
       Manager!RestartSelf, Manager!RestartStart, Manager!StartNext, Manager!Return
  <2>3. ASSUME NEW h \in DOMAIN hooks, NEW ok \in BOOLEAN, Manager!EndHook(h, ok)
        PROVE  clean
    BY <2>3, Zenon DEF Manager!EndHook
  <2> QED
    BY <1>2, <1>3, <2>1, <2>2, <2>3, Zenon DEF Manager!Next
<1>5. Undisturbed
  BY <1>4 DEF StartupInv
<1>6. ASSUME NEW n \in Services, Manager!Register(n) \/ Manager!AttemptRestart(n) \/ Manager!BeginCheck(n)
      PROVE  Undisturbed'
  <2>1. CASE Manager!AttemptRestart(n)
    <3>1. svc[n].pending > 0
      BY <2>1, Zenon DEF Manager!AttemptRestart
    <3>2. svc[n].pending = 0
      BY <1>5 DEF Undisturbed
    <3> QED
      BY <3>1, <3>2
  <2>2. CASE Manager!BeginCheck(n)
    <3>1. /\ svc' = [svc EXCEPT ![n].checks = 1]
          /\ UNCHANGED <<registered, hooks, calls, started, startupOrder, used>>
      BY <2>2, Zenon DEF Manager!BeginCheck
    <3>2. \A m \in Services : svc'[m].state = svc[m].state /\ svc'[m].pending = svc[m].pending
      BY <1>1, <3>1 DEF RestartInv, ServiceFits
    <3> QED
      BY <1>5, <3>1, <3>2, NothingMoves
  <2> QED
    BY <1>1, <1>5, <1>6, <2>1, <2>2, RegisterUndisturbed
<1>7. ASSUME NEW c \in ManagerCalls,
             \/ Manager!StartAll(c) \/ Manager!StartGroup(c) \/ Manager!StopNext(c)
             \/ Manager!RestartSelf(c) \/ Manager!RestartStart(c) \/ Manager!StartNext(c)
             \/ Manager!Return(c)
      PROVE  Undisturbed'
  <2>1. calls[c].op \in {"none", "startAll"}
    BY <1>5, CallsAreNone
  <2>2. ~(Manager!StopNext(c) \/ Manager!RestartSelf(c) \/ Manager!RestartStart(c)
          \/ Manager!StartNext(c))
    <3>1. Manager!StopNext(c) => calls[c].op \in {"stopAll", "restartStops"}
      BY Zenon DEF Manager!StopNext
    <3>2. Manager!RestartSelf(c) => calls[c].op = "restartStops"
      BY Zenon DEF Manager!RestartSelf
    <3>3. Manager!RestartStart(c) => calls[c].op = "restartStart"
      BY Zenon DEF Manager!RestartStart
    <3>4. Manager!StartNext(c) => calls[c].op \in {"restartStarts", "start"}
      BY Zenon DEF Manager!StartNext
    <3> QED
      BY <2>1, <3>1, <3>2, <3>3, <3>4
  <2> QED
    BY <1>1, <1>5, <1>7, <2>2, StartAllUndisturbed, StartGroupUndisturbed, ReturnUndisturbed
<1>8. ASSUME NEW h \in DOMAIN hooks, NEW ok \in BOOLEAN, Manager!EndHook(h, ok)
      PROVE  Undisturbed'
  BY <1>1, <1>5, <1>8, HookUndisturbed
<1> QED
  BY <1>2, <1>3, <1>6, <1>7, <1>8, Zenon DEF Manager!Next

\* When startAll() starts the services one by one and nothing disturbs it, it
\* leaves none out that could run: for any services and dependencies, whether these
\* form cycles or not, and any priorities.
THEOREM StartLeavesNoneOut == Spec => []StartAllComplete
<1> DEFINE Inv == part = "manager" => StartupInv
<1>1. Init => Inv
  <2> SUFFICES ASSUME Init PROVE StartupInv
    OBVIOUS
  <2>1. RestartInv
    BY ManagerInitially
  <2>2. /\ registered = <<>> /\ svc = [n \in Services |-> Manager!AutonomousService]
        /\ hooks = [h \in {} |-> 1] /\ calls = [c \in ManagerCalls |-> Manager!NoCall]
        /\ started = FALSE /\ used = 0
    BY Zenon DEF Init, Manager!Init
  <2>3. Manager!AutonomousService.state = "CREATED" /\ Manager!AutonomousService.pending = 0
    BY DEF Manager!AutonomousService
  <2>4. Undisturbed
    BY <2>2, <2>3 DEF Undisturbed, Fresh, Idle, NoHooks, Begun, MapTyped
  <2> QED
    BY <2>1, <2>4 DEF StartupInv
<1>2. Inv /\ [Next]_vars => Inv'
  <2> SUFFICES ASSUME Inv, [Next]_vars, part' = "manager" PROVE StartupInv'
    OBVIOUS
  <2>1. part = "manager" /\ StartupInv /\ (Manager!Next \/ UNCHANGED managerVars)
    BY StepOfPart
  <2>2. ASSUME UNCHANGED managerVars PROVE StartupInv'
    <3>1. /\ UNCHANGED <<registered, hooks, calls, started, startupOrder, used, clean>>
          /\ svc' = svc
      BY <2>2 DEF managerVars
    <3>2. Undisturbed => Undisturbed'
      BY <3>1, NothingMoves
    <3> QED
      BY <2>1, <3>1, <3>2 DEF StartupInv, RestartInv
  <2> QED
    BY <2>1, <2>2, StartupKept
<1>3. Inv => StartAllComplete
  <2> SUFFICES ASSUME StartupInv, clean, ~Parallel, started, \A c \in ManagerCalls : calls[c] = Manager!NoCall,
                      NEW n \in Manager!ToSet(startupOrder)
               PROVE  \/ svc[n].state = "RUNNING" \/ n \in Manual
                      \/ \E d \in Manager!ToSet(Dependencies[n]) :
                           Manager!Known(d) /\ ~Manager!isRunning(d)
    BY Zenon DEF StartAllComplete, Manager!StartAllComplete
  <2>1. Undisturbed
    BY DEF StartupInv
  <2>2. \A c \in ManagerCalls : \A p, W : ~Starting(c, p, W)
    BY StartingCalls
  <2>3. Complete
    BY <2>1, <2>2 DEF Undisturbed, Fresh
  <2>4. /\ n \in Services /\ \/ svc[n].state = "RUNNING" \/ n \in Manual
                             \/ \E d \in Needs(n) : svc[d].state # "RUNNING"
    BY <2>3 DEF Complete, Manager!ToSet
  <2>5. Dependencies[n] \in Seq(Services)
    BY <2>4, ServicesFit
  <2>6. \A d \in Needs(n) : d \in Manager!ToSet(Dependencies[n]) /\ Manager!Known(d)
    BY <2>5 DEF Needs, Mapped, Manager!ToSet
  <2> QED
    BY <2>4, <2>6 DEF Manager!isRunning
<1> QED
  BY <1>1, <1>2, <1>3, PTL DEF Spec

-----------------------------------------------------------------------------
(* Limits                                                                    *)

\* A behaviour of one of the three last parts leaves the other two as they began.
LimitsInv ==
    /\ part = "manager" => RestartInv
    /\ part = "healing" => HealInv
    /\ part \in {"scaling", "tuning", "advice"} => ScaleInv /\ TuneInv /\ AdviceInv

LEMMA LimitsInitially == Init => LimitsInv
<1> SUFFICES ASSUME Init PROVE LimitsInv
  OBVIOUS
<1>1. RestartInv
  BY ManagerInitially
<1>2. HealInv
  <2> DEFINE none == Healing!NoWorker
  <2>1. workers = [w \in Workers |-> none] /\ active = [heal |-> {}, remedy |-> {}]
    BY Zenon DEF Init, Healing!Init
  <2>2. <<>> \in Seq(HealNamed)
    OBVIOUS
  <2>3. WorkerFits(none) /\ none.rule = "none"
    BY <2>2 DEF Healing!NoWorker, WorkerFits, Kinds
  <2> HIDE DEF none
  <2>4. HealTyped
    BY <2>1, <2>3 DEF HealTyped
  <2>5. \A kind \in Kinds : active[kind] = {} /\ \A w \in Workers : ~Runs(w, kind)
    BY <2>1, <2>3 DEF Kinds, Runs
  <2> QED
    BY <2>4, <2>5 DEF HealInv
<1>3. ScaleInv
  <2>1. currentScale = minScale
    BY Zenon DEF Init, Tuning!Init
  <2> QED
    BY <2>1, LimitsFit DEF ScaleInv
<1>4. TuneInv
  <2> DEFINE none == Tuning!NoTuner
  <2>1. tuners = [t \in Tuners |-> none] /\ current = Lowest /\ actual = Lowest
    BY Zenon DEF Init, Tuning!Init
  <2>2. none \in [at : {"none", "read", "score", "set"}, value : Int,
                  score : {"none", "low", "optimal", "high"}] /\ none.at = "none"
    BY DEF Tuning!NoTuner
  <2> HIDE DEF none
  <2> QED
    BY <2>1, <2>2, LimitsFit DEF TuneInv, TunersTyped
<1>5. AdviceInv
  BY DEF Init, Tuning!Init, AdviceInv, Once
<1> QED
  BY <1>1, <1>2, <1>3, <1>4, <1>5 DEF LimitsInv

LEMMA LimitsKept == LimitsInv /\ [Next]_vars => LimitsInv'
<1> SUFFICES ASSUME LimitsInv, [Next]_vars PROVE LimitsInv'
  OBVIOUS
<1>1. part' = part
  BY StepOfPart
<1>2. CASE part = "manager"
  <2>1. RestartInv /\ (Manager!Next \/ UNCHANGED managerVars)
    BY <1>2, StepOfPart DEF LimitsInv
  <2>2. ASSUME UNCHANGED managerVars PROVE RestartInv'
    BY <2>1, <2>2 DEF managerVars, RestartInv
  <2> QED
    BY <1>1, <1>2, <2>1, <2>2, RestartsKept DEF LimitsInv
<1>3. CASE part = "healing"
  <2>1. HealInv /\ (Healing!Next \/ UNCHANGED healingVars)
    BY <1>3, StepOfPart DEF LimitsInv
  <2>2. ASSUME UNCHANGED healingVars PROVE HealInv'
    BY <2>1, <2>2 DEF healingVars, HealInv, HealTyped, WorkerFits, Runs
  <2> QED
    BY <1>1, <1>3, <2>1, <2>2, HealKept DEF LimitsInv
<1>4. CASE part \in {"scaling", "tuning", "advice"}
  <2>1. ScaleInv /\ TuneInv /\ AdviceInv
    BY <1>4 DEF LimitsInv
  <2>2. /\ UNCHANGED scaleVars => ScaleInv'
        /\ UNCHANGED tuneVars => TuneInv'
        /\ UNCHANGED adviceVars => AdviceInv'
    BY <2>1 DEF scaleVars, tuneVars, adviceVars, ScaleInv, TuneInv, TunersTyped, AdviceInv, Once
  <2>3. /\ part = "scaling" => UNCHANGED tuneVars /\ UNCHANGED adviceVars
        /\ part = "tuning" => UNCHANGED scaleVars /\ UNCHANGED adviceVars
        /\ part = "advice" => UNCHANGED scaleVars /\ UNCHANGED tuneVars
    <3>1. CASE UNCHANGED vars
      BY <3>1, Zenon DEF vars, scaleVars, tuneVars, adviceVars
    <3>2. ASSUME NEW p, Only(p)
          PROVE  /\ part = p
                 /\ p # "scaling" => UNCHANGED scaleVars
                 /\ p # "tuning" => UNCHANGED tuneVars
                 /\ p # "advice" => UNCHANGED adviceVars
      BY <3>2, Zenon DEF Only
    <3>3. CASE Next
      <4>1. \E p : Only(p)
        BY <3>3, Zenon DEF Next
      <4> QED
        BY <3>2, <4>1
    <3> QED
      BY <3>1, <3>3
  <2>4. /\ part = "scaling" => Tuning!ScaleNext \/ UNCHANGED scaleVars
        /\ part = "tuning" => Tuning!TuneNext \/ UNCHANGED tuneVars
        /\ part = "advice" => Tuning!AdviceNext \/ UNCHANGED adviceVars
    BY StepOfPart
  <2>5. /\ Tuning!ScaleNext => ScaleInv'
        /\ Tuning!TuneNext => TuneInv'
        /\ Tuning!AdviceNext => AdviceInv'
    BY <2>1, ScaleKept, TuneKept, AdviceKept
  <2>6. ScaleInv' /\ TuneInv' /\ AdviceInv'
    BY <1>4, <2>2, <2>3, <2>4, <2>5, Zenon
  <2> QED
    BY <1>1, <1>4, <2>6 DEF LimitsInv
<1> QED
  BY <1>1, <1>2, <1>3, <1>4 DEF LimitsInv

\* However crashes, checks, rounds, getters and setters fall between each
\* other: a service is restarted by itself at most maxRestarts times, a rule is
\* run by one call at a time and marked exactly as long, the scale and the
\* parameter keep their limits, and advice is given once in an hour; for any
\* services, rules, limits and numbers of calls.
THEOREM LimitsHold == Spec => []WithinLimits
<1>1. LimitsInv => WithinLimits
  <2> SUFFICES ASSUME LimitsInv PROVE WithinLimits
    OBVIOUS
  <2>1. ASSUME RestartInv PROVE Manager!RestartsBounded
    BY <2>1 DEF RestartInv, ServiceFits, Manager!RestartsBounded
  <2>2. ASSUME HealInv PROVE Healing!OneAtATime
    <3> SUFFICES ASSUME NEW kind \in Kinds
                 PROVE  LET running == {w \in Workers : Runs(w, kind)}
                        IN /\ active[kind] = {workers[w].rule : w \in running}
                           /\ \A v, w \in running :
                                workers[v].rule = workers[w].rule => v = w
      BY Zenon DEF Healing!OneAtATime, Runs, Kinds
    <3> QED
      BY <2>2 DEF HealInv
  <2>3. ASSUME ScaleInv, TuneInv, AdviceInv PROVE Tuning!WithinLimits
    <3>1. \A i, j \in DOMAIN advice :
             (/\ advice[i].fresh /\ advice[j].fresh
              /\ advice[i].type = advice[j].type /\ advice[i].metric = advice[j].metric) => i = j
      <4>1. /\ DOMAIN advice = 1..Len(advice)
            /\ \A i \in DOMAIN advice : advice[i].fresh => advice[i].fresh = TRUE
        BY <2>3 DEF AdviceInv, Once, Advice
      <4> QED
        BY <2>3, <4>1 DEF AdviceInv, Once
    <3> QED
      BY <2>3, <3>1 DEF ScaleInv, TuneInv, Tuning!WithinLimits
  <2> QED
    BY <2>1, <2>2, <2>3 DEF LimitsInv, WithinLimits
<1> QED
  BY <1>1, LimitsInitially, LimitsKept, PTL DEF Spec

===============================================================================
