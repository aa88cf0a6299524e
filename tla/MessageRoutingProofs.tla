------------------------ MODULE MessageRoutingProofs ------------------------
(* Deduplication and the way of a message, for any nodes, routes, messages   *)
(* and limits.  Neither property is inductive: that a message is handled once*)
(* rests on what the node remembers while it verifies (OnceInv), and that no *)
(* node relays it twice on what the relays of its path remember (RelayInv).  *)
(* The actions are reduced to the four kinds of steps that matter for them   *)
(* (StepCases).                                                              *)
EXTENDS MessageRouting, TLAPS

-----------------------------------------------------------------------------
(* What happens to a message on its way *)

\* fromJSON() and addHop() give messages, and change neither the identifier nor
\* the hops there were.
LEMMA FromJSONType ==
    ASSUME NEW data \in Packet
    PROVE  /\ fromJSON(data) \in Packet
           /\ fromJSON(data).id = data.id /\ fromJSON(data).to = data.to
           /\ fromJSON(data).hops = data.hops
<1>1. data = [id |-> data.id, from |-> data.from, to |-> data.to, ttl |-> data.ttl,
              hops |-> data.hops, signatures |-> data.signatures]
      /\ data.id \in Messages /\ data.from \in Nodes /\ data.to \in Nodes \cup {All}
      /\ data.ttl \in Int /\ data.hops \in Seq(Nodes) /\ data.signatures \in Seq(Signature)
  BY DEF Packet
<1>2. (IF data.ttl = 0 THEN DEFAULT_TTL ELSE data.ttl) \in Int
  BY <1>1, RoutingAssumption
<1>3. QED
  BY <1>1, <1>2 DEF fromJSON, Packet

LEMMA HopType ==
    ASSUME NEW n \in Nodes, NEW message \in Packet
    PROVE  /\ Hop(n, message) \in Packet
           /\ Hop(n, message).id = message.id
           /\ Hop(n, message).hops = Append(message.hops, n)
<1> DEFINE hops == Append(message.hops, n)
           ttl == message.ttl - 1
           signatures == IF n \in Signers
                         THEN Append(message.signatures, [index |-> Len(hops), ttl |-> ttl])
                         ELSE message.signatures
<1>1. message = [id |-> message.id, from |-> message.from, to |-> message.to,
                 ttl |-> message.ttl, hops |-> message.hops,
                 signatures |-> message.signatures]
      /\ message.id \in Messages /\ message.from \in Nodes
      /\ message.to \in Nodes \cup {All} /\ message.ttl \in Int
      /\ message.hops \in Seq(Nodes) /\ message.signatures \in Seq(Signature)
  BY DEF Packet
<1>2. hops \in Seq(Nodes) /\ ttl \in Int
  BY <1>1
<1>3. signatures \in Seq(Signature)
  <2>1. Len(hops) \in Nat
    BY <1>2
  <2>2. [index |-> Len(hops), ttl |-> ttl] \in Signature
    BY <1>2, <2>1 DEF Signature
  <2>3. QED
    BY <1>1, <2>2
<1>4. Hop(n, message) = [id |-> message.id, from |-> message.from, to |-> message.to,
                         ttl |-> ttl, hops |-> hops, signatures |-> signatures]
  <2>1. Hop(n, message) = [message EXCEPT !.hops = hops, !.ttl = ttl,
                                          !.signatures = signatures]
    BY DEF Hop
  <2> HIDE DEF hops, ttl, signatures
  <2>2. QED
    BY <1>1, <2>1
<1>5. hops = Append(message.hops, n)
  OBVIOUS
<1> HIDE DEF hops, ttl, signatures
<1>6. QED
  BY <1>1, <1>2, <1>3, <1>4, <1>5 DEF Packet

\* A message as it leaves its sender.
LEMMA SentType ==
    ASSUME NEW id \in Messages, NEW n \in Nodes, NEW to \in Nodes \cup {All}, NEW ttl \in Int
    PROVE  /\ Hop(n, Message(id, n, to, ttl)) \in Packet
           /\ Hop(n, Message(id, n, to, ttl)).id = id
           /\ Hop(n, Message(id, n, to, ttl)).hops = <<n>>
<1>1. (IF ttl = 0 THEN DEFAULT_TTL ELSE ttl) \in Int
  BY RoutingAssumption
<1>2. /\ Message(id, n, to, ttl) \in Packet
      /\ Message(id, n, to, ttl).id = id /\ Message(id, n, to, ttl).hops = <<>>
  BY <1>1 DEF Message, Packet
<1>3. Append(<<>>, n) = <<n>>
  OBVIOUS
<1>4. QED
  BY <1>2, <1>3, HopType

\* What is forwarded: the message with one more hop.
LEMMA OnwardType ==
    ASSUME NEW n \in Nodes, NEW data \in Packet, NEW ttl \in {data.ttl, Hop(n, fromJSON(data)).ttl}
    PROVE  LET onward == [Hop(n, fromJSON(data)) EXCEPT !.ttl = ttl]
           IN /\ onward \in Packet
              /\ onward.id = data.id
              /\ onward.hops = Append(data.hops, n)
<1> DEFINE h == Hop(n, fromJSON(data))
<1>1. h \in Packet /\ h.id = data.id /\ h.hops = Append(data.hops, n)
  BY FromJSONType, HopType
<1>2. ttl \in Int
  BY <1>1 DEF Packet
<1> HIDE DEF h
<1>3. h = [id |-> h.id, from |-> h.from, to |-> h.to, ttl |-> h.ttl,
           hops |-> h.hops, signatures |-> h.signatures]
      /\ h.id \in Messages /\ h.from \in Nodes /\ h.to \in Nodes \cup {All}
      /\ h.hops \in Seq(Nodes) /\ h.signatures \in Seq(Signature)
  BY <1>1 DEF Packet
<1>4. [h EXCEPT !.ttl = ttl] = [id |-> h.id, from |-> h.from, to |-> h.to, ttl |-> ttl,
                                hops |-> h.hops, signatures |-> h.signatures]
  BY <1>3
<1>5. QED
  BY <1>1, <1>2, <1>3, <1>4 DEF Packet, h

\* A route that is fresh leads to a node.
LEMMA RouteType ==
    ASSUME TypeOK, NEW n \in Nodes, NEW d \in Nodes, hasRoute(n, d)
    PROVE  table[n][d].via \in Nodes
BY DEF TypeOK, hasRoute, Route, NoRoute


-----------------------------------------------------------------------------
(* What the steps do to the messages on their way *)

\* A packet that has left its sender.
Posted == {packet \in [dest : Nodes, data : Packet] : Len(packet.data.hops) = 1}

\* A packet that n has relayed.
Onward(n, data) ==
    {packet \in [dest : Nodes, data : Packet] :
        /\ packet.data.id = data.id
        /\ packet.data.hops = Append(data.hops, n)
        /\ Len(data.hops) < MAX_HOPS}

HandledHere(n, data) ==
    handled' = [handled EXCEPT ![n][data.id] = IF @ = 2 THEN 2 ELSE @ + 1]

\* What comes of a message: it is handed to the handler, dropped or relayed.
Outcome(n, data) ==
    /\ \A packet \in net' : packet \in net \/ packet \in Onward(n, data)
    /\ handled' = handled \/ HandledHere(n, data)

\* Nothing happens at a node; messages are sent or lost.
Quiet ==
    /\ \A packet \in net' : packet \in net \/ packet \in Posted
    /\ UNCHANGED <<seen, verifying, handled, forgotten>>

\* A message arrives that its node does not remember.
Arrival(packet) ==
    LET n == packet.dest
        data == packet.data
    IN /\ packet \in net
       /\ data.id \notin seen[n]
       /\ seen' = [seen EXCEPT ![n] = @ \cup {data.id}]
       /\ UNCHANGED forgotten
       /\ \/ UNCHANGED verifying /\ Outcome(n, data)
          \/ /\ verifying' = [verifying EXCEPT ![n] = @ \cup {data}]
             /\ net' \subseteq net
             /\ UNCHANGED handled

\* The signatures of a message are settled.
Settled(n, data) ==
    /\ data \in verifying[n]
    /\ verifying' = [verifying EXCEPT ![n] = @ \ {data}]
    /\ Outcome(n, data)
    /\ UNCHANGED <<seen, forgotten>>

LEMMA DispatchOutcome ==
    ASSUME TypeOK, NEW n \in Nodes, NEW data \in Packet, NEW rest, rest \subseteq net,
           Dispatch(n, data, rest)
    PROVE  Outcome(n, data)
<1> DEFINE message == fromJSON(data)
<1>1. message \in Packet /\ message.to = data.to /\ message.hops = data.hops
  BY FromJSONType
<1>2. CASE isForMe(n, message)
  BY <1>2 DEF Dispatch, HandledHere, Outcome
<1>3. CASE ~isForMe(n, message) /\ n \in Forwarders /\ shouldForward(message)
           /\ hasRoute(n, message.to)
  <2>1. message.to \in Nodes
    BY <1>1, <1>3 DEF isForMe, Packet
  <2>2. table[n][message.to].via \in Nodes
    BY <1>3, <2>1, RouteType
  <2>3. Len(data.hops) < MAX_HOPS
    BY <1>1, <1>3 DEF shouldForward
  <2>4. PICK ttl \in {data.ttl, Hop(n, message).ttl} :
              net' = rest \cup {[dest |-> table[n][message.to].via,
                                data |-> [Hop(n, message) EXCEPT !.ttl = ttl]]}
    BY <1>3 DEF Dispatch
  <2> DEFINE onward == [Hop(n, message) EXCEPT !.ttl = ttl]
  <2>5. onward \in Packet /\ onward.id = data.id /\ onward.hops = Append(data.hops, n)
    BY OnwardType
  <2>6. net' = rest \cup {[dest |-> table[n][message.to].via, data |-> onward]}
    BY <2>4
  <2>7. handled' = handled
    BY <1>3 DEF Dispatch
  <2> HIDE DEF onward
  <2>8. [dest |-> table[n][message.to].via, data |-> onward] \in Onward(n, data)
    BY <2>2, <2>3, <2>5 DEF Onward
  <2>9. QED
    BY <2>6, <2>7, <2>8 DEF Outcome
<1>4. CASE /\ ~isForMe(n, message)
           /\ ~(n \in Forwarders /\ shouldForward(message) /\ hasRoute(n, message.to))
  BY <1>4 DEF Dispatch, Outcome
<1>5. QED
  BY <1>2, <1>3, <1>4

LEMMA PostIsQuiet ==
    ASSUME NEW n \in Nodes, NEW id \in Messages, NEW to \in Nodes \cup {All},
           NEW ttl \in Int, NEW dests \in SUBSET Nodes, Post(n, id, to, ttl, dests)
    PROVE  \A packet \in net' : packet \in net \/ packet \in Posted
<1> DEFINE first == Hop(n, Message(id, n, to, ttl))
<1>1. first \in Packet /\ first.hops = <<n>>
  BY SentType
<1>2. net' = net \cup {[dest |-> d, data |-> first] : d \in dests}
  BY DEF Post
<1>3. Len(<<n>>) = 1
  OBVIOUS
<1> HIDE DEF first
<1>4. \A d \in dests : [dest |-> d, data |-> first] \in Posted
  BY <1>1, <1>3 DEF Posted
<1>5. QED
  BY <1>2, <1>4

LEMMA ReceiveCases ==
    ASSUME TypeOK, NEW packet \in net, NEW again \in BOOLEAN, Receive(packet, again)
    PROVE  Quiet \/ Arrival(packet)
<1> DEFINE n == packet.dest
           data == packet.data
           rest == IF again THEN net ELSE net \ {packet}
<1>1. n \in Nodes /\ data \in Packet /\ rest \subseteq net
  BY DEF TypeOK
<1>2. CASE data.id \in seen[n]
  BY <1>1, <1>2 DEF Receive, Quiet
<1>3. CASE data.id \notin seen[n]
  <2>1. fromJSON(data).ttl \in Int
    BY <1>1, FromJSONType DEF Packet
  <2>2. /\ seen' = [seen EXCEPT ![n] = @ \cup {data.id}]
        /\ UNCHANGED forgotten
    BY <1>3 DEF Receive, MarkSeen
  <2>3. CASE fromJSON(data).ttl <= 0
    <3>1. net' = rest /\ UNCHANGED <<verifying, handled>>
      BY <1>3, <2>1, <2>3 DEF Receive
    <3>2. Outcome(n, data)
      BY <1>1, <3>1 DEF Outcome
    <3>3. QED
      BY <1>3, <2>2, <3>1, <3>2 DEF Arrival
  <2>4. CASE fromJSON(data).ttl > 0 /\ mustVerify(n, data)
    <3>1. /\ verifying' = [verifying EXCEPT ![n] = @ \cup {data}]
          /\ net' = rest /\ UNCHANGED handled
      BY <1>3, <2>1, <2>4 DEF Receive
    <3>2. QED
      BY <1>1, <1>3, <2>2, <3>1 DEF Arrival
  <2>5. CASE fromJSON(data).ttl > 0 /\ ~mustVerify(n, data)
    <3>1. Dispatch(n, data, rest) /\ UNCHANGED verifying
      BY <1>3, <2>1, <2>5 DEF Receive
    <3>2. Outcome(n, data)
      BY <1>1, <3>1, DispatchOutcome
    <3>3. QED
      BY <1>3, <2>2, <3>1, <3>2 DEF Arrival
  <2>6. QED
    BY <2>1, <2>3, <2>4, <2>5
<1>4. QED
  BY <1>2, <1>3

LEMMA VerifiedSettles ==
    ASSUME TypeOK, NEW n \in Nodes, NEW data \in verifying[n], Verified(n, data)
    PROVE  Settled(n, data)
<1>1. data \in Packet
  BY DEF TypeOK
<1>2. Outcome(n, data)
  <2>1. CASE SignaturesHold(n, fromJSON(data))
    BY <1>1, <2>1, DispatchOutcome DEF Verified
  <2>2. CASE ~SignaturesHold(n, fromJSON(data))
    BY <2>2 DEF Verified, Outcome
  <2>3. QED
    BY <2>1, <2>2
<1>3. QED
  BY <1>2 DEF Verified, Settled

LEMMA StepCases ==
    ASSUME TypeOK, [Next]_vars
    PROVE  \/ Quiet
           \/ \E packet \in net : Arrival(packet)
           \/ \E n \in Nodes : \E data \in verifying[n] : Settled(n, data)
           \/ \E n \in Nodes, id \in Messages : Forget(n, id)
<1>1. CASE \E a \in Adverts : AddRoute(a)
  BY <1>1 DEF AddRoute, Quiet
<1>2. CASE \E n, d \in Nodes : RemoveRoute(n, d) \/ Expire(n, d)
  BY <1>2 DEF RemoveRoute, Expire, Quiet
<1>3. ASSUME NEW t \in Traffic, NEW id \in Messages, NEW ttl \in TTLs,
             \/ SendDirect(t[1], id, t[2], ttl)
             \/ \E requireAck \in BOOLEAN : SendRouted(t[1], id, t[2], ttl, requireAck)
             \/ SendAll(t[1], id, ttl)
      PROVE  Quiet
  <2>1. t[1] \in Nodes /\ t[2] \in Nodes /\ ttl \in Int
    BY RoutingAssumption
  <2>2. CASE SendDirect(t[1], id, t[2], ttl)
    <3>1. Post(t[1], id, t[2], ttl, {t[2]})
      BY <2>2 DEF SendDirect
    <3>2. QED
      BY <2>1, <2>2, <3>1, PostIsQuiet DEF SendDirect, Quiet
  <2>3. CASE \E requireAck \in BOOLEAN : SendRouted(t[1], id, t[2], ttl, requireAck)
    <3>1. Post(t[1], id, t[2], ttl, {table[t[1]][t[2]].via}) /\ hasRoute(t[1], t[2])
      BY <2>3 DEF SendRouted
    <3>2. table[t[1]][t[2]].via \in Nodes
      BY <2>1, <3>1, RouteType
    <3>3. QED
      BY <2>1, <2>3, <3>1, <3>2, PostIsQuiet DEF SendRouted, Quiet
  <2>4. CASE SendAll(t[1], id, ttl)
    <3>1. Post(t[1], id, All, ttl, Nodes \ {t[1]})
      BY <2>4 DEF SendAll
    <3>2. QED
      BY <2>1, <2>4, <3>1, PostIsQuiet DEF SendAll, Quiet
  <2>5. QED
    BY <1>3, <2>2, <2>3, <2>4
<1>4. CASE \E packet \in net, again \in BOOLEAN : Receive(packet, again)
  BY <1>4, ReceiveCases
<1>5. CASE \E packet \in net : Lose(packet)
  BY <1>5 DEF Lose, Quiet
<1>6. CASE \E n \in Nodes : \E data \in verifying[n] : Verified(n, data)
  BY <1>6, VerifiedSettles
<1>7. CASE \E n \in Nodes, id \in Messages : Forget(n, id)
  BY <1>7
<1>8. CASE \E n \in Nodes, id \in Messages : HandleTimeout(n, id)
  BY <1>8 DEF HandleTimeout, Quiet
<1>9. CASE UNCHANGED vars
  BY <1>9 DEF vars, Quiet
<1>10. QED
  BY <1>1, <1>2, <1>3, <1>4, <1>5, <1>6, <1>7, <1>8, <1>9 DEF Next

-----------------------------------------------------------------------------
(* Types *)

\* What the steps that concern a message may change, and the rest.
MessagesOK ==
    /\ seen \in [Nodes -> SUBSET Messages]
    /\ verifying \in [Nodes -> SUBSET Packet]
    /\ net \subseteq [dest : Nodes, data : Packet]
    /\ \A packet \in net : Len(packet.data.hops) \in 1..MAX_HOPS
    /\ handled \in [Nodes -> [Messages -> 0..2]]
    /\ forgotten \in [Nodes -> SUBSET Messages]

TablesOK ==
    /\ table \in [Nodes -> [Nodes -> Route]]
    /\ pending \in [Nodes -> [Messages -> -1..MaxRetries]]
    /\ unsent \subseteq Messages

LEMMA TypeInit == Init => TypeOK
<1> SUFFICES ASSUME Init PROVE TypeOK
  OBVIOUS
<1>1. 0 \in 0..2 /\ -1 \in -1..MaxRetries
  BY RoutingAssumption
<1>2. NoRoute \in Route
  BY DEF Route
<1>3. QED
  BY <1>1, <1>2 DEF Init, TypeOK

LEMMA OutcomeType ==
    ASSUME TypeOK, NEW n \in Nodes, NEW data \in Packet, Outcome(n, data)
    PROVE  /\ net' \subseteq [dest : Nodes, data : Packet]
           /\ \A packet \in net' : Len(packet.data.hops) \in 1..MAX_HOPS
           /\ handled' \in [Nodes -> [Messages -> 0..2]]
<1>1. data.id \in Messages /\ data.hops \in Seq(Nodes) /\ MAX_HOPS \in Nat
  BY RoutingAssumption DEF Packet
<1>2. \A packet \in Onward(n, data) : Len(packet.data.hops) \in 1..MAX_HOPS
  <2>1. Len(Append(data.hops, n)) = Len(data.hops) + 1 /\ Len(data.hops) \in Nat
    BY <1>1
  <2>2. QED
    BY <1>1, <2>1 DEF Onward
<1>3. Onward(n, data) \subseteq [dest : Nodes, data : Packet]
  BY DEF Onward
<1>4. handled' \in [Nodes -> [Messages -> 0..2]]
  <2> DEFINE times == IF handled[n][data.id] = 2 THEN 2 ELSE handled[n][data.id] + 1
  <2>1. handled \in [Nodes -> [Messages -> 0..2]]
    BY DEF TypeOK
  <2>2. handled[n][data.id] \in 0..2
    BY <1>1, <2>1
  <2>3. times \in 0..2
    BY <2>2
  <2>4. handled' = handled \/ handled' = [handled EXCEPT ![n][data.id] = times]
    BY DEF Outcome, HandledHere
  <2> HIDE DEF times
  <2>5. QED
    BY <1>1, <2>1, <2>3, <2>4
<1>5. QED
  BY <1>2, <1>3, <1>4 DEF Outcome, TypeOK

LEMMA TablesNext == ASSUME TypeOK, [Next]_vars PROVE TablesOK'
<1>1. TablesOK
  BY DEF TypeOK, TablesOK
<1>2. ASSUME UNCHANGED <<table, pending, unsent>> PROVE TablesOK'
  BY <1>1, <1>2 DEF TablesOK
<1>3. CASE \E a \in Adverts : AddRoute(a)
  <2>1. PICK a \in Adverts : AddRoute(a)
    BY <1>3
  <2>2. /\ a.node \in Nodes /\ a.to \in Nodes
        /\ [via |-> a.via, metric |-> a.metric, expired |-> FALSE] \in Route
    BY RoutingAssumption DEF Route
  <2>3. table' \in [Nodes -> [Nodes -> Route]]
    BY <1>1, <2>1, <2>2 DEF AddRoute, TablesOK
  <2>4. QED
    BY <1>1, <2>1, <2>3 DEF AddRoute, TablesOK
<1>4. ASSUME NEW n \in Nodes, NEW d \in Nodes, RemoveRoute(n, d) PROVE TablesOK'
  <2>1. NoRoute \in Route
    BY DEF Route
  <2>2. table' \in [Nodes -> [Nodes -> Route]]
    BY <1>1, <1>4, <2>1 DEF RemoveRoute, TablesOK
  <2>3. QED
    BY <1>1, <1>4, <2>2 DEF RemoveRoute, TablesOK
<1>5. ASSUME NEW n \in Nodes, NEW d \in Nodes, Expire(n, d) PROVE TablesOK'
  <2>1. table[n][d] \in Route /\ table[n] \in [Nodes -> Route]
    BY <1>1 DEF TablesOK
  <2>2. [table[n][d] EXCEPT !.expired = TRUE] \in Route
    <3>1. CASE table[n][d] = NoRoute
      <4> DEFINE gone == TRUE
      <4>1. [NoRoute EXCEPT !.expired = TRUE] = NoRoute
        <5>1. NoRoute = [via |-> All, metric |-> 0, expired |-> gone]
          BY DEF NoRoute
        <5> HIDE DEF gone
        <5>2. [NoRoute EXCEPT !.expired = gone] = NoRoute
          BY <5>1, Z3
        <5>3. QED
          BY <5>2 DEF gone
      <4>2. NoRoute \in Route
        BY DEF Route
      <4>3. QED
        BY <3>1, <4>1, <4>2
    <3>2. CASE table[n][d] \in [via : Nodes, metric : Nat, expired : BOOLEAN]
      BY <3>2 DEF Route
    <3>3. QED
      BY <2>1, <3>1, <3>2 DEF Route
  <2> DEFINE expired == [table[n][d] EXCEPT !.expired = TRUE]
  <2>3. table' = [table EXCEPT ![n][d] = expired]
    BY <1>5 DEF Expire
  <2>4. expired \in Route
    BY <2>2
  <2> HIDE DEF expired
  <2>5. table' \in [Nodes -> [Nodes -> Route]]
    BY <1>1, <2>1, <2>3, <2>4 DEF TablesOK
  <2>6. QED
    BY <1>1, <1>5, <2>5 DEF Expire, TablesOK
<1>6. ASSUME NEW t \in Traffic, NEW id \in Messages, NEW ttl \in TTLs,
             \/ SendDirect(t[1], id, t[2], ttl)
             \/ \E requireAck \in BOOLEAN : SendRouted(t[1], id, t[2], ttl, requireAck)
             \/ SendAll(t[1], id, ttl)
      PROVE  TablesOK'
  <2>1. t[1] \in Nodes /\ 0 \in -1..MaxRetries
    BY RoutingAssumption
  <2>2. table' = table /\ unsent' \subseteq Messages
    BY <1>1, <1>6 DEF SendDirect, SendRouted, SendAll, Post, TablesOK
  <2>3. pending' = pending \/ pending' = [pending EXCEPT ![t[1]][id] = 0]
    BY <1>6 DEF SendDirect, SendRouted, SendAll
  <2>4. pending' \in [Nodes -> [Messages -> -1..MaxRetries]]
    <3>1. pending \in [Nodes -> [Messages -> -1..MaxRetries]]
      BY <1>1 DEF TablesOK
    <3>2. CASE pending' = pending
      BY <3>1, <3>2
    <3>3. CASE pending' = [pending EXCEPT ![t[1]][id] = 0]
      <4> DEFINE n == t[1]
      <4>1. n \in Nodes /\ pending' = [pending EXCEPT ![n][id] = 0]
        BY <2>1, <3>3
      <4> HIDE DEF n
      <4>2. QED
        BY <2>1, <3>1, <4>1
    <3>4. QED
      BY <2>3, <3>2, <3>3
  <2>5. QED
    BY <1>1, <2>2, <2>4 DEF TablesOK
<1>7. CASE \E packet \in net, again \in BOOLEAN : Receive(packet, again)
  <2>1. UNCHANGED <<table, pending, unsent>>
    BY <1>7 DEF Receive
  <2>2. QED
    BY <1>2, <2>1
<1>8. CASE \E packet \in net : Lose(packet)
  BY <1>2, <1>8 DEF Lose
<1>9. CASE \E n \in Nodes : \E data \in verifying[n] : Verified(n, data)
  <2>1. UNCHANGED <<table, pending, unsent>>
    BY <1>9 DEF Verified
  <2>2. QED
    BY <1>2, <2>1
<1>10. CASE \E n \in Nodes, id \in Messages : Forget(n, id)
  BY <1>2, <1>10 DEF Forget
<1>11. ASSUME NEW n \in Nodes, NEW id \in Messages, HandleTimeout(n, id) PROVE TablesOK'
  <2>1. pending[n][id] \in -1..MaxRetries
    BY <1>1 DEF TablesOK
  <2>2. RetriesAfter(n, id) \in -1..MaxRetries
    BY <2>1, RoutingAssumption DEF RetriesAfter
  <2>3. pending' \in [Nodes -> [Messages -> -1..MaxRetries]]
    BY <1>1, <1>11, <2>2 DEF HandleTimeout, TablesOK
  <2>4. QED
    BY <1>1, <1>11, <2>3 DEF HandleTimeout, TablesOK
<1>12. CASE UNCHANGED vars
  BY <1>2, <1>12 DEF vars
<1>13. QED
  BY <1>3, <1>4, <1>5, <1>6, <1>7, <1>8, <1>9, <1>10, <1>11, <1>12 DEF Next

LEMMA MessagesNext == ASSUME TypeOK, [Next]_vars PROVE MessagesOK'
<1>1. CASE Quiet
  <2>1. 1 \in 1..MAX_HOPS
    BY RoutingAssumption
  <2>2. /\ net \subseteq [dest : Nodes, data : Packet]
        /\ \A packet \in net : Len(packet.data.hops) \in 1..MAX_HOPS
    BY DEF TypeOK
  <2>3. /\ net' \subseteq [dest : Nodes, data : Packet]
        /\ \A packet \in net' : Len(packet.data.hops) \in 1..MAX_HOPS
    <3>1. /\ Posted \subseteq [dest : Nodes, data : Packet]
          /\ \A packet \in Posted : Len(packet.data.hops) \in 1..MAX_HOPS
      BY <2>1 DEF Posted
    <3>2. QED
      BY <1>1, <2>2, <3>1 DEF Quiet
  <2>4. QED
    BY <1>1, <2>3 DEF Quiet, TypeOK, MessagesOK
<1>2. CASE \E packet \in net : Arrival(packet)
  <2>1. PICK packet \in net : Arrival(packet)
    BY <1>2
  <2> DEFINE n == packet.dest
             data == packet.data
  <2>2. n \in Nodes /\ data \in Packet /\ data.id \in Messages
    BY DEF TypeOK, Packet
  <2>3. seen' \in [Nodes -> SUBSET Messages] /\ forgotten' \in [Nodes -> SUBSET Messages]
    BY <2>1, <2>2 DEF Arrival, TypeOK
  <2>4. CASE UNCHANGED verifying /\ Outcome(n, data)
    BY <2>2, <2>3, <2>4, OutcomeType DEF MessagesOK, TypeOK
  <2>5. CASE /\ verifying' = [verifying EXCEPT ![n] = @ \cup {data}]
             /\ net' \subseteq net
             /\ UNCHANGED handled
    BY <2>2, <2>3, <2>5 DEF MessagesOK, TypeOK
  <2>6. QED
    BY <2>1, <2>4, <2>5 DEF Arrival
<1>3. CASE \E n \in Nodes : \E data \in verifying[n] : Settled(n, data)
  <2>1. PICK n \in Nodes : \E data \in verifying[n] : Settled(n, data)
    BY <1>3
  <2>2. PICK data \in verifying[n] : Settled(n, data)
    BY <2>1
  <2>3. data \in Packet
    BY DEF TypeOK
  <2>4. QED
    BY <2>2, <2>3, OutcomeType DEF Settled, MessagesOK, TypeOK
<1>4. CASE \E n \in Nodes, id \in Messages : Forget(n, id)
  BY <1>4 DEF Forget, MessagesOK, TypeOK
<1>5. QED
  BY <1>1, <1>2, <1>3, <1>4, StepCases

\* The types of the routing layers and of the packets between them are right;
\* no packet in flight has more hops than MAX_HOPS (addHop, shouldForward).
THEOREM RoutingTypes == Spec => []TypeOK
<1>1. ASSUME TypeOK, [Next]_vars PROVE TypeOK'
  BY <1>1, TablesNext, MessagesNext DEF TablesOK, MessagesOK, TypeOK
<1>2. QED
  BY <1>1, TypeInit, PTL DEF Spec

-----------------------------------------------------------------------------
(* A message is handled once *)

\* What holds of a node that has not forgotten a message: it was handled at
\* most once; not at all, nor is a copy being verified, while the node has not
\* seen it; and one copy at most is being verified, which was not handled yet.
Once(n, id) ==
    /\ handled[n][id] <= 1
    /\ id \notin seen[n] =>
          handled[n][id] = 0 /\ \A data \in verifying[n] : data.id # id
    /\ \A data \in verifying[n] : data.id = id => handled[n][id] = 0
    /\ \A data, other \in verifying[n] : data.id = id /\ other.id = id => data = other

OnceInv == \A n \in Nodes, id \in Messages : id \notin forgotten[n] => Once(n, id)

LEMMA OnceInit == Init => OnceInv
BY DEF Init, OnceInv, Once

\* A message is counted as handled only where it is handed to the handler.
LEMMA OutcomeCounts ==
    ASSUME TypeOK, NEW n \in Nodes, NEW data \in Packet, Outcome(n, data)
    PROVE  /\ \A m \in Nodes, id \in Messages :
                 m # n \/ id # data.id => handled'[m][id] = handled[m][id]
           /\ handled[n][data.id] = 0 => handled'[n][data.id] \in {0, 1}
<1>1. handled \in [Nodes -> [Messages -> 0..2]] /\ data.id \in Messages
  BY DEF TypeOK, Packet
<1>2. CASE handled' = handled
  BY <1>2
<1>3. CASE HandledHere(n, data)
  <2> DEFINE id == data.id
             times == IF handled[n][id] = 2 THEN 2 ELSE handled[n][id] + 1
  <2>1. id \in Messages /\ handled' = [handled EXCEPT ![n][id] = times]
    BY <1>1, <1>3 DEF HandledHere
  <2>2. handled[n][id] = 0 => times = 1
    OBVIOUS
  <2> HIDE DEF id, times
  <2>3. /\ \A m \in Nodes, k \in Messages :
              m # n \/ k # id => handled'[m][k] = handled[m][k]
        /\ handled'[n][id] = times
    BY <1>1, <2>1
  <2>4. QED
    BY <2>2, <2>3 DEF id
<1>4. QED
  BY <1>2, <1>3 DEF Outcome

\* Nothing changes for a node and a message that a step is not about.
LEMMA OnceKept ==
    ASSUME NEW n \in Nodes, NEW id \in Messages, Once(n, id),
           handled'[n][id] = handled[n][id], id \in seen[n] => id \in seen'[n],
           \A data \in verifying'[n] : data.id = id => data \in verifying[n]
    PROVE  Once(n, id)'
BY DEF Once

LEMMA OnceNext ==
    ASSUME TypeOK, OnceInv, [Next]_vars
    PROVE  OnceInv'
<1> SUFFICES ASSUME NEW m \in Nodes, NEW id \in Messages, id \notin forgotten'[m]
             PROVE  Once(m, id)'
  BY DEF OnceInv
<1>1. /\ seen \in [Nodes -> SUBSET Messages]
      /\ verifying \in [Nodes -> SUBSET Packet]
      /\ forgotten \in [Nodes -> SUBSET Messages]
  BY DEF TypeOK
<1>2. CASE Quiet
  BY <1>2 DEF Quiet, OnceInv, Once
<1>3. ASSUME NEW packet \in net, Arrival(packet)
      PROVE  Once(m, id)'
  <2> DEFINE n == packet.dest
             data == packet.data
  <2>1. n \in Nodes /\ data \in Packet /\ data.id \in Messages
    BY DEF TypeOK, Packet
  <2>2. /\ data.id \notin seen[n]
        /\ seen' = [seen EXCEPT ![n] = @ \cup {data.id}]
        /\ forgotten' = forgotten
        /\ \/ verifying' = verifying /\ Outcome(n, data)
           \/ /\ verifying' = [verifying EXCEPT ![n] = @ \cup {data}]
              /\ handled' = handled
    BY <1>3 DEF Arrival
  <2> HIDE DEF n, data
  <2>3. Once(m, id)
    BY <2>2 DEF OnceInv
  <2>4. /\ \A k \in Nodes, i \in Messages :
              k # n \/ i # data.id => handled'[k][i] = handled[k][i]
        /\ handled[n][data.id] = 0 => handled'[n][data.id] \in {0, 1}
    BY <2>1, <2>2, OutcomeCounts
  <2>5. CASE m # n \/ id # data.id
    BY <1>1, <2>1, <2>2, <2>3, <2>4, <2>5, OnceKept
  <2>6. CASE m = n /\ id = data.id
    <3>1. /\ handled[m][id] = 0 /\ \A other \in verifying[m] : other.id # id
          /\ id \in seen'[m]
      BY <1>1, <2>1, <2>2, <2>3, <2>6 DEF Once
    <3>2. CASE verifying' = verifying /\ Outcome(n, data)
      BY <2>4, <2>6, <3>1, <3>2 DEF Once
    <3>3. CASE /\ verifying' = [verifying EXCEPT ![n] = @ \cup {data}]
               /\ handled' = handled
      <4>1. verifying'[m] = verifying[m] \cup {data}
        BY <1>1, <2>6, <3>3
      <4>2. QED
        BY <3>1, <3>3, <4>1 DEF Once
    <3>4. QED
      BY <2>2, <3>2, <3>3
  <2>7. QED
    BY <2>5, <2>6
<1>4. ASSUME NEW n \in Nodes, NEW data \in verifying[n], Settled(n, data)
      PROVE  Once(m, id)'
  <2>1. data \in Packet /\ data.id \in Messages
    BY <1>1 DEF Packet
  <2>2. /\ verifying' = [verifying EXCEPT ![n] = @ \ {data}]
        /\ seen' = seen /\ forgotten' = forgotten
        /\ Outcome(n, data)
    BY <1>4 DEF Settled
  <2>3. Once(m, id)
    BY <2>2 DEF OnceInv
  <2>4. /\ \A k \in Nodes, i \in Messages :
              k # n \/ i # data.id => handled'[k][i] = handled[k][i]
        /\ handled[n][data.id] = 0 => handled'[n][data.id] \in {0, 1}
    BY <2>1, <2>2, OutcomeCounts
  <2>5. CASE m # n \/ id # data.id
    BY <1>1, <2>1, <2>2, <2>3, <2>4, <2>5, OnceKept
  <2>6. CASE m = n /\ id = data.id
    <3>1. /\ id \in seen[m] /\ handled[m][id] = 0
          /\ \A other \in verifying[m] : other.id = id => other = data
      BY <2>3, <2>6 DEF Once
    <3>2. verifying'[m] = verifying[m] \ {data}
      BY <1>1, <2>2, <2>6
    <3>3. handled'[m][id] \in {0, 1}
      BY <2>4, <2>6, <3>1
    <3>4. QED
      BY <2>2, <3>1, <3>2, <3>3 DEF Once
  <2>7. QED
    BY <2>5, <2>6
<1>5. ASSUME NEW n \in Nodes, NEW k \in Messages, Forget(n, k)
      PROVE  Once(m, id)'
  <2>1. /\ seen' = [seen EXCEPT ![n] = @ \ {k}]
        /\ forgotten' = [forgotten EXCEPT ![n] = @ \cup {k}]
        /\ verifying' = verifying /\ handled' = handled
    BY <1>5 DEF Forget
  <2>2. (m # n \/ id # k) /\ id \notin forgotten[m]
    BY <1>1, <2>1
  <2>3. Once(m, id)
    BY <2>2 DEF OnceInv
  <2>4. id \in seen[m] => id \in seen'[m]
    BY <1>1, <2>1, <2>2
  <2>5. QED
    BY <2>1, <2>3, <2>4, OnceKept
<1>6. QED
  BY <1>2, <1>3, <1>4, <1>5, StepCases

\* Deduplication for every set of nodes, routes, messages and packets in flight:
\* a message is handed to a node's handler once, unless the node has forgotten
\* it (_isSeen, _markSeen; a copy that arrives while the signatures of another
\* are being verified is a duplicate).
THEOREM HandledOnlyOnce == Spec => []HandledOnce
<1>1. ASSUME TypeOK, OnceInv, [Next]_vars PROVE OnceInv'
  BY <1>1, OnceNext
<1>2. OnceInv => HandledOnce
  BY DEF OnceInv, Once, HandledOnce
<1>3. QED
  BY <1>1, <1>2, OnceInit, RoutingTypes, PTL DEF Spec

-----------------------------------------------------------------------------
(* A message is relayed once *)

\* A node that has relayed a message remembers it, unless it has forgotten it.
Remembered(data) ==
    \A i \in 2..Len(data.hops) :
        data.id \notin forgotten[data.hops[i]] => data.id \in seen[data.hops[i]]

\* A node that verifies a message has not relayed it.
NotYetRelayed(n, data) ==
    \A i \in 2..Len(data.hops) : data.hops[i] = n => data.id \in forgotten[n]

RelayInv ==
    /\ \A data \in InFlight : Remembered(data)
    /\ \A n \in Nodes : \A data \in verifying[n] : NotYetRelayed(n, data)
    /\ RelaysOnce

LEMMA RelayInit == Init => RelayInv
BY DEF Init, RelayInv, InFlight, RelaysOnce

\* The hops of a message that are no sender's are one message's own business.
Path(data) ==
    \A i, j \in 2..Len(data.hops) :
        data.hops[i] = data.hops[j] /\ data.id \notin forgotten[data.hops[i]]
            => i = j

LEMMA InFlightType == ASSUME TypeOK PROVE InFlight \subseteq Packet
BY DEF TypeOK, InFlight

\* Nodes remember more, or have forgotten more: what held of a path holds.
LEMMA PathKept ==
    ASSUME TypeOK, TypeOK', NEW data \in Packet, Remembered(data), Path(data),
           \A n \in Nodes : forgotten[n] \subseteq forgotten'[n],
           \A n \in Nodes : seen[n] \subseteq seen'[n] \cup forgotten'[n]
    PROVE  Remembered(data)' /\ Path(data)'
<1>1. \A i \in 2..Len(data.hops) : data.hops[i] \in Nodes
  <2>1. data.hops \in Seq(Nodes)
    BY DEF Packet
  <2>2. QED
    BY <2>1
<1>2. QED
  BY <1>1 DEF Remembered, Path

\* A node relays a message it has not relayed.
LEMMA OnwardPath ==
    ASSUME NEW n \in Nodes, NEW data \in Packet, NEW packet \in Onward(n, data),
           Remembered(data)', Path(data)', NotYetRelayed(n, data)',
           data.id \notin forgotten'[n] => data.id \in seen'[n]
    PROVE  Remembered(packet.data)' /\ Path(packet.data)'
<1> DEFINE hops == data.hops
           onward == packet.data
<1>1. hops \in Seq(Nodes) /\ Len(hops) \in Nat
  BY DEF Packet
<1>2. onward.id = data.id /\ onward.hops = Append(hops, n)
  BY DEF Onward
<1>3. /\ Len(onward.hops) = Len(hops) + 1
      /\ \A i \in 2..Len(hops) : onward.hops[i] = hops[i]
      /\ onward.hops[Len(hops) + 1] = n
  BY <1>1, <1>2
<1> HIDE DEF onward
<1>4. \A i \in 2..Len(onward.hops) : i \in 2..Len(hops) \/ i = Len(hops) + 1
  BY <1>1, <1>3
<1>5. Remembered(onward)'
  BY <1>2, <1>3, <1>4 DEF Remembered
<1>6. Path(onward)'
  <2> SUFFICES ASSUME NEW i \in 2..Len(onward.hops), NEW j \in 2..Len(onward.hops),
                      onward.hops[i] = onward.hops[j],
                      data.id \notin forgotten'[onward.hops[i]]
               PROVE  i = j
    BY <1>2 DEF Path
  <2>1. CASE i \in 2..Len(hops) /\ j \in 2..Len(hops)
    BY <1>3, <2>1 DEF Path
  <2>2. CASE i \in 2..Len(hops) /\ j = Len(hops) + 1
    BY <1>3, <2>2 DEF NotYetRelayed
  <2>3. CASE i = Len(hops) + 1 /\ j \in 2..Len(hops)
    BY <1>3, <2>3 DEF NotYetRelayed
  <2>4. QED
    BY <1>4, <2>1, <2>2, <2>3
<1>7. QED
  BY <1>5, <1>6 DEF onward

LEMMA RelayNext ==
    ASSUME TypeOK, TypeOK', OnceInv, RelayInv, [Next]_vars
    PROVE  RelayInv'
<1> DEFINE Sound(data) == Remembered(data) /\ Path(data)
<1>1. /\ seen \in [Nodes -> SUBSET Messages]
      /\ verifying \in [Nodes -> SUBSET Packet]
      /\ forgotten \in [Nodes -> SUBSET Messages]
      /\ net \subseteq [dest : Nodes, data : Packet]
  BY DEF TypeOK
<1>2. /\ \A packet \in net : Sound(packet.data)
      /\ \A n \in Nodes : \A data \in verifying[n] : Sound(data) /\ NotYetRelayed(n, data)
  BY DEF RelayInv, RelaysOnce, InFlight, Path
<1>3. SUFFICES /\ \A packet \in net' : Sound(packet.data)'
               /\ \A n \in Nodes : \A data \in verifying'[n] :
                     Sound(data)' /\ NotYetRelayed(n, data)'
  BY DEF RelayInv, RelaysOnce, InFlight, Path
<1>4. CASE Quiet
  <2>1. \A packet \in Posted : \A i \in 2..Len(packet.data.hops) : FALSE
    <3>1. \A packet \in Posted : Len(packet.data.hops) = 1
      BY DEF Posted
    <3>2. \A i \in 2..1 : FALSE
      OBVIOUS
    <3>3. QED
      BY <3>1, <3>2
  <2>2. \A packet \in Posted : Sound(packet.data)'
    BY <2>1 DEF Remembered, Path
  <2>3. QED
    BY <1>2, <1>4, <2>2 DEF Quiet, Remembered, Path, NotYetRelayed
<1>5. ASSUME NEW packet \in net, Arrival(packet)
      PROVE  /\ \A p \in net' : Sound(p.data)'
             /\ \A n \in Nodes : \A data \in verifying'[n] :
                   Sound(data)' /\ NotYetRelayed(n, data)'
  <2> DEFINE n == packet.dest
             data == packet.data
  <2>1. n \in Nodes /\ data \in Packet /\ Sound(data)
    BY <1>1, <1>2
  <2>2. /\ data.id \notin seen[n]
        /\ seen' = [seen EXCEPT ![n] = @ \cup {data.id}]
        /\ forgotten' = forgotten
        /\ \/ verifying' = verifying /\ Outcome(n, data)
           \/ /\ verifying' = [verifying EXCEPT ![n] = @ \cup {data}]
              /\ net' \subseteq net
    BY <1>5 DEF Arrival
  <2> HIDE DEF n, data
  <2>3. NotYetRelayed(n, data) /\ data.id \in seen'[n]
    BY <1>1, <2>1, <2>2 DEF Remembered, NotYetRelayed
  <2>4. \A m \in Nodes : seen[m] \subseteq seen'[m]
    BY <1>1, <2>2
  <2>5. \A d \in Packet : Sound(d) => Sound(d)'
    BY <2>2, <2>4, PathKept
  <2>6. \A m \in Nodes, d \in Packet : NotYetRelayed(m, d) => NotYetRelayed(m, d)'
    BY <2>2 DEF NotYetRelayed
  <2>7. CASE verifying' = verifying /\ Outcome(n, data)
    <3>1. \A p \in Onward(n, data) : Sound(p.data)'
      BY <2>1, <2>3, <2>5, <2>6, OnwardPath
    <3>2. QED
      BY <1>1, <1>2, <2>5, <2>6, <2>7, <3>1 DEF Outcome
  <2>8. CASE /\ verifying' = [verifying EXCEPT ![n] = @ \cup {data}]
             /\ net' \subseteq net
    <3>1. \A m \in Nodes : \A d \in verifying'[m] :
              d \in verifying[m] \/ (m = n /\ d = data)
      BY <1>1, <2>1, <2>8
    <3>2. QED
      BY <1>1, <1>2, <2>1, <2>3, <2>5, <2>6, <2>8, <3>1
  <2>9. QED
    BY <2>2, <2>7, <2>8
<1>6. ASSUME NEW n \in Nodes, NEW data \in verifying[n], Settled(n, data)
      PROVE  /\ \A p \in net' : Sound(p.data)'
             /\ \A m \in Nodes : \A d \in verifying'[m] :
                   Sound(d)' /\ NotYetRelayed(m, d)'
  <2>1. data \in Packet /\ data.id \in Messages /\ Sound(data) /\ NotYetRelayed(n, data)
    BY <1>1, <1>2 DEF Packet
  <2>2. /\ verifying' = [verifying EXCEPT ![n] = @ \ {data}]
        /\ Outcome(n, data)
        /\ seen' = seen /\ forgotten' = forgotten
    BY <1>6 DEF Settled
  <2>3. data.id \notin forgotten'[n] => data.id \in seen'[n]
    BY <2>1, <2>2 DEF OnceInv, Once
  <2>4. \A d \in Packet : Sound(d) => Sound(d)'
    BY <2>2, PathKept
  <2>5. \A m \in Nodes, d \in Packet : NotYetRelayed(m, d) => NotYetRelayed(m, d)'
    BY <2>2 DEF NotYetRelayed
  <2>6. \A p \in Onward(n, data) : Sound(p.data)'
    BY <2>1, <2>3, <2>4, <2>5, OnwardPath
  <2>7. \A m \in Nodes : verifying'[m] \subseteq verifying[m]
    BY <1>1, <2>2
  <2>8. \A p \in net' : p \in net \/ p \in Onward(n, data)
    BY <2>2 DEF Outcome
  <2>9. QED
    BY <1>1, <1>2, <2>4, <2>5, <2>6, <2>7, <2>8
<1>7. ASSUME NEW n \in Nodes, NEW id \in Messages, Forget(n, id)
      PROVE  /\ \A p \in net' : Sound(p.data)'
             /\ \A m \in Nodes : \A d \in verifying'[m] :
                   Sound(d)' /\ NotYetRelayed(m, d)'
  <2>1. /\ seen' = [seen EXCEPT ![n] = @ \ {id}]
        /\ forgotten' = [forgotten EXCEPT ![n] = @ \cup {id}]
        /\ verifying' = verifying /\ net' = net
    BY <1>7 DEF Forget
  <2>2. \A m \in Nodes : /\ forgotten[m] \subseteq forgotten'[m]
                         /\ seen[m] \subseteq seen'[m] \cup forgotten'[m]
    BY <1>1, <2>1
  <2>3. \A d \in Packet : Sound(d) => Sound(d)'
    BY <2>2, PathKept
  <2>4. \A m \in Nodes, d \in Packet : NotYetRelayed(m, d) => NotYetRelayed(m, d)'
    BY <2>2 DEF NotYetRelayed
  <2>5. QED
    BY <1>1, <1>2, <2>1, <2>3, <2>4
<1>8. QED
  BY <1>4, <1>5, <1>6, <1>7, StepCases

\* Whatever loops the routes form, a message does not circle in them: no node
\* but the sender relays it twice, unless it has forgotten the message; copies
\* whose signatures are being verified while others arrive included (_isSeen,
\* _forward, verifySignatures).
THEOREM RelaysOnlyOnce == Spec => []RelaysOnce
<1>1. ASSUME TypeOK, TypeOK', OnceInv, RelayInv, [Next]_vars PROVE RelayInv'
  BY <1>1, RelayNext
<1>2. ASSUME TypeOK, OnceInv, [Next]_vars PROVE OnceInv'
  BY <1>2, OnceNext
<1>3. RelayInv => RelaysOnce
  BY DEF RelayInv
<1>4. QED
  BY <1>1, <1>2, <1>3, OnceInit, RelayInit, RoutingTypes, PTL DEF Spec

=============================================================================
