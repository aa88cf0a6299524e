--------------------------- MODULE MessageRouting ---------------------------
(* The routing layer of every node (core/routing/layer.js) and the packets   *)
(* between them.  receive() is asynchronous: a node verifies signatures while*)
(* its routes change and copies of the message arrive.  The layer does not   *)
(* send: the application carries what send...() returns to the next hop, and *)
(* on "forwarded" the object it passed to receive(), whose hops and          *)
(* signatures the layer has extended in place, or a message rebuilt from it  *)
(* with the time-to-live of the forwarded one.  Packets may be lost and      *)
(* repeated.                                                                 *)
EXTENDS Integers, FiniteSets, Sequences, SequencesExt

CONSTANTS Nodes,
          Messages,     \* messages that are sent (bound of the model)
          Traffic,      \* who sends to whom
          TTLs,         \* time-to-live that senders ask for
          DEFAULT_TTL,
          MAX_HOPS,
          Signers,      \* nodes with an identity and requireSignatures
          Strict,       \* nodes with requireSignatures
          Forwarders,   \* nodes with enableForwarding
          KeyKnown,     \* KeyKnown[n]: nodes whose public key n finds
          Adverts,      \* routes nodes may be told of: node, to, via, metric
          MaxRetries,   \* options.maxRetries
          MaxNet,       \* packets in flight (bound of the model)
          All           \* the address "*"

ASSUME RoutingAssumption == /\ Messages \subseteq Nat
                            /\ Traffic \subseteq {t \in Nodes \X Nodes : t[1] # t[2]}
                            /\ TTLs \subseteq Int
                            /\ DEFAULT_TTL \in Nat \ {0}
                            /\ MAX_HOPS \in Nat \ {0}
                            /\ Signers \subseteq Strict /\ Strict \subseteq Nodes
                            /\ Forwarders \subseteq Nodes
                            /\ KeyKnown \in [Nodes -> SUBSET Nodes]
                            /\ Adverts \subseteq [node : Nodes, to : Nodes,
                                                  via : Nodes, metric : Nat]
                            /\ MaxRetries \in Nat
                            /\ All \notin Nodes

VARIABLES table,      \* entries: destination to route, per node
          seen,       \* messages each node has seen and not forgotten
          verifying,  \* receive() calls that await verifySignatures()
          pending,    \* retries of messages that wait for an acknowledgement
          net,        \* packets in flight
          unsent,     \* messages not sent yet
          handled,    \* how often each node handed a message to its handler
          forgotten   \* messages each node forgot to have seen (history)

vars == <<table, seen, verifying, pending, net, unsent, handled, forgotten>>

NoRoute == [via |-> All, metric |-> 0, expired |-> TRUE]

Init ==
    /\ table = [n \in Nodes |-> [d \in Nodes |-> NoRoute]]
    /\ seen = [n \in Nodes |-> {}]
    /\ verifying = [n \in Nodes |-> {}]
    /\ pending = [n \in Nodes |-> [id \in Messages |-> -1]]
    /\ net = {}
    /\ unsent = Messages
    /\ handled = [n \in Nodes |-> [id \in Messages |-> 0]]
    /\ forgotten = [n \in Nodes |-> {}]

-----------------------------------------------------------------------------
(* Routing table *)

hasRoute(n, d) == ~table[n][d].expired

\* addRoute(): an entry with a lower metric stays, expired or not.
AddRoute(a) ==
    LET old == table[a.node][a.to]
    IN /\ table' = IF old # NoRoute /\ old.metric < a.metric THEN table
                   ELSE [table EXCEPT ![a.node][a.to] =
                            [via |-> a.via, metric |-> a.metric, expired |-> FALSE]]
       /\ UNCHANGED <<seen, verifying, pending, net, unsent, handled, forgotten>>

\* removeRoute(), and cleanup() for routes that have expired.
RemoveRoute(n, d) ==
    /\ table' = [table EXCEPT ![n][d] = NoRoute]
    /\ UNCHANGED <<seen, verifying, pending, net, unsent, handled, forgotten>>

\* The expiry of a route passes.
Expire(n, d) ==
    /\ table' = [table EXCEPT ![n][d].expired = TRUE]
    /\ UNCHANGED <<seen, verifying, pending, net, unsent, handled, forgotten>>

-----------------------------------------------------------------------------
(* Sending *)

\* addHop() and addSignature(): a signature covers, besides what never changes,
\* the hop and the time-to-live of the moment.
Hop(n, message) ==
    LET hops == Append(message.hops, n)
        ttl == message.ttl - 1
    IN [message EXCEPT
          !.hops = hops, !.ttl = ttl,
          !.signatures = IF n \in Signers
                         THEN Append(@, [index |-> Len(hops), ttl |-> ttl])
                         ELSE @]

Message(id, n, to, ttl) ==
    [id |-> id, from |-> n, to |-> to,
     ttl |-> IF ttl = 0 THEN DEFAULT_TTL ELSE ttl,
     hops |-> <<>>, signatures |-> <<>>]

Post(n, id, to, ttl, dests) ==
    /\ id \in unsent
    /\ unsent' = unsent \ {id}
    /\ net' = net \cup {[dest |-> d, data |-> Hop(n, Message(id, n, to, ttl))] :
                            d \in dests}
    /\ Cardinality(net') <= MaxNet

\* sendDirect(), ping() and pong(): no route is needed.
SendDirect(n, id, to, ttl) ==
    /\ Post(n, id, to, ttl, {to})
    /\ UNCHANGED <<table, seen, verifying, pending, handled, forgotten>>

\* sendRouted(): the route is the one before the signature is made.
SendRouted(n, id, to, ttl, requireAck) ==
    /\ hasRoute(n, to)
    /\ Post(n, id, to, ttl, {table[n][to].via})
    /\ pending' = IF requireAck THEN [pending EXCEPT ![n][id] = 0] ELSE pending
    /\ UNCHANGED <<table, seen, verifying, handled, forgotten>>

\* broadcast(), flood() and discoverRoute(): to every peer.
SendAll(n, id, ttl) ==
    /\ Post(n, id, All, ttl, Nodes \ {n})
    /\ UNCHANGED <<table, seen, verifying, pending, handled, forgotten>>

-----------------------------------------------------------------------------
(* Receiving *)

\* fromJSON(): a time-to-live of 0 becomes the default one.
fromJSON(data) ==
    [data EXCEPT !.ttl = IF @ = 0 THEN DEFAULT_TTL ELSE @]

isForMe(n, message) == message.to \in {n, All}

shouldForward(message) == message.ttl > 0 /\ Len(message.hops) < MAX_HOPS

\* verifySignatures(): the key of every hop that signed is known, and the text
\* it signed has the time-to-live the message has now.
SignaturesHold(n, message) ==
    \A i \in DOMAIN message.signatures :
        LET s == message.signatures[i]
        IN /\ s.index \in DOMAIN message.hops
           /\ message.hops[s.index] \in KeyKnown[n]
           /\ s.ttl = message.ttl

\* What receive() does once the signatures are settled; rest is what remains in
\* flight.  A route that is gone by now drops the message.
Dispatch(n, data, rest) ==
    LET message == fromJSON(data)
        onward == Hop(n, message)
    IN CASE isForMe(n, message) ->
              /\ handled' = [handled EXCEPT ![n][data.id] = IF @ = 2 THEN 2 ELSE @ + 1]
              /\ net' = rest
         [] ~isForMe(n, message) /\ n \in Forwarders /\ shouldForward(message)
                /\ hasRoute(n, message.to) ->
              /\ \E ttl \in {data.ttl, onward.ttl} :
                    net' = rest \cup {[dest |-> table[n][message.to].via,
                                       data |-> [onward EXCEPT !.ttl = ttl]]}
              /\ UNCHANGED handled
         [] OTHER -> net' = rest /\ UNCHANGED handled

mustVerify(n, data) == n \in Strict /\ data.signatures # <<>>

\* Faulty variant: a message that has to be verified is not marked yet.
MarkSeenLate(n, data) ==
    seen' = IF mustVerify(n, data) THEN seen
            ELSE [seen EXCEPT ![n] = @ \cup {data.id}]

\* Faulty variant: only messages for the node itself are remembered.
MarkSeenOwn(n, data) ==
    seen' = IF isForMe(n, data) THEN [seen EXCEPT ![n] = @ \cup {data.id}] ELSE seen

\* _markSeen()
MarkSeen(n, data) == seen' = [seen EXCEPT ![n] = @ \cup {data.id}]

\* receive(): the packet may arrive again.  A message seen before is a
\* duplicate, and one without time-to-live has expired.
Receive(packet, again) ==
    LET n == packet.dest
        data == packet.data
        rest == IF again THEN net ELSE net \ {packet}
    IN /\ packet \in net
       /\ IF data.id \in seen[n]
          THEN /\ net' = rest
               /\ UNCHANGED <<seen, verifying, handled>>
          ELSE /\ MarkSeen(n, data)
               /\ CASE fromJSON(data).ttl <= 0 ->
                         net' = rest /\ UNCHANGED <<verifying, handled>>
                    [] fromJSON(data).ttl > 0 /\ mustVerify(n, data) ->
                         /\ verifying' = [verifying EXCEPT ![n] = @ \cup {data}]
                         /\ net' = rest
                         /\ UNCHANGED handled
                    [] OTHER -> Dispatch(n, data, rest) /\ UNCHANGED verifying
       /\ UNCHANGED <<table, pending, unsent, forgotten>>

\* verifySignatures() resolves.
Verified(n, data) ==
    /\ data \in verifying[n]
    /\ verifying' = [verifying EXCEPT ![n] = @ \ {data}]
    /\ IF SignaturesHold(n, fromJSON(data))
       THEN Dispatch(n, data, net)
       ELSE UNCHANGED <<net, handled>>
    /\ Cardinality(net') <= MaxNet
    /\ UNCHANGED <<table, seen, pending, unsent, forgotten>>

\* A seen message grows older than maxSeenAge, once at each node (bound of the
\* model).
Forget(n, id) ==
    /\ id \in seen[n] \ forgotten[n]
    /\ seen' = [seen EXCEPT ![n] = @ \ {id}]
    /\ forgotten' = [forgotten EXCEPT ![n] = @ \cup {id}]
    /\ UNCHANGED <<table, verifying, pending, net, unsent, handled>>

Lose(packet) ==
    /\ net' = net \ {packet}
    /\ UNCHANGED <<table, seen, verifying, pending, unsent, handled, forgotten>>

-----------------------------------------------------------------------------
(* Acknowledgements *)

\* Faulty variant: a retry is not counted.
RetriesKept(n, id) == pending[n][id]

\* Faulty variant: one retry too many.
RetriesAfterLate(n, id) ==
    IF pending[n][id] <= MaxRetries THEN pending[n][id] + 1 ELSE -1

\* The retries after a timeout; -1: the message is given up.
RetriesAfter(n, id) ==
    IF pending[n][id] < MaxRetries THEN pending[n][id] + 1 ELSE -1

\* _handleTimeout(): a retry is counted, but nothing is sent again, and no
\* acknowledgement ever ends the wait.
HandleTimeout(n, id) ==
    /\ pending[n][id] # -1
    /\ pending' = [pending EXCEPT ![n][id] = RetriesAfter(n, id)]
    /\ UNCHANGED <<table, seen, verifying, net, unsent, handled, forgotten>>

Next ==
    \/ \E a \in Adverts : AddRoute(a)
    \/ \E n, d \in Nodes : RemoveRoute(n, d) \/ Expire(n, d)
    \/ \E t \in Traffic, id \in Messages, ttl \in TTLs :
          \/ SendDirect(t[1], id, t[2], ttl)
          \/ \E requireAck \in BOOLEAN : SendRouted(t[1], id, t[2], ttl, requireAck)
          \/ SendAll(t[1], id, ttl)
    \/ \E packet \in net, again \in BOOLEAN : Receive(packet, again)
    \/ \E packet \in net : Lose(packet)
    \/ \E n \in Nodes : \E data \in verifying[n] : Verified(n, data)
    \/ \E n \in Nodes, id \in Messages : Forget(n, id) \/ HandleTimeout(n, id)

Spec == Init /\ [][Next]_vars

\* Timers fire.
FairSpec == Spec /\ \A n \in Nodes, id \in Messages : WF_vars(HandleTimeout(n, id))

-----------------------------------------------------------------------------
(* Properties *)

Route == [via : Nodes, metric : Nat, expired : BOOLEAN] \cup {NoRoute}

Signature == [index : Nat, ttl : Int]

Packet == [id : Messages, from : Nodes, to : Nodes \cup {All}, ttl : Int,
           hops : Seq(Nodes), signatures : Seq(Signature)]

TypeOK ==
    /\ table \in [Nodes -> [Nodes -> Route]]
    /\ seen \in [Nodes -> SUBSET Messages]
    /\ verifying \in [Nodes -> SUBSET Packet]
    /\ pending \in [Nodes -> [Messages -> -1..MaxRetries]]
    /\ net \subseteq [dest : Nodes, data : Packet]
    /\ \A packet \in net : Len(packet.data.hops) \in 1..MAX_HOPS
    /\ unsent \subseteq Messages
    /\ handled \in [Nodes -> [Messages -> 0..2]]
    /\ forgotten \in [Nodes -> SUBSET Messages]

\* Deduplication: however many copies of a message arrive, and while signatures
\* of an earlier copy are still being verified, a node hands it to its handler
\* once, unless it has forgotten the message after maxSeenAge (_isSeen).
HandledOnce ==
    \A n \in Nodes, id \in Messages : id \notin forgotten[n] => handled[n][id] <= 1

InFlight == {packet.data : packet \in net} \cup UNION {verifying[n] : n \in Nodes}

\* Routes may form a loop, but no message circles in it: no node but the sender
\* relays a message twice, unless it has forgotten it (_isSeen, _forward).
RelaysOnce ==
    \A data \in InFlight : \A i, j \in 2..Len(data.hops) :
        data.hops[i] = data.hops[j] /\ data.id \notin forgotten[data.hops[i]]
            => i = j

\* No message waits for its acknowledgement for ever (_handleTimeout).
PendingEnds ==
    \A n \in Nodes, id \in Messages : pending[n][id] # -1 ~> pending[n][id] = -1

\* Hop signatures verify the path: a message nobody altered is never found to
\* have an invalid signature by a node that knows the keys of its hops
\* (addSignature, verifySignatures).
HopSignaturesVerify ==
    \A n \in Nodes : \A data \in verifying[n] :
        Range(data.hops) \subseteq KeyKnown[n] => SignaturesHold(n, fromJSON(data))

=============================================================================
