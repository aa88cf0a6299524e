-------------------------- MODULE ServiceDiscovery --------------------------
(* Network discovery (network/discovery): the service registry with its      *)
(* indexes and its copies in the DHT, the bootstrap manager, the periodic    *)
(* discovery of peers, and the mDNS responder.  Four parts without shared    *)
(* state: RegistryNext, BootstrapNext, PeersNext and MdnsNext.               *)
EXTENDS Integers, FiniteSets, Sequences, Functions

CONSTANTS Ids, Kinds,     \* ids and types of services; nodes are left out
          maxServices,
          NodeList,       \* bootstrap nodes, in the order of the map
          maxConcurrent, requiredNodes, maxRetries,
          Found,          \* peers
          maxPeers,
          MaxTries,       \* attempts for a node (bound of the model)
          MaxCalls        \* calls of register() in a behaviour (bound)

VARIABLES services,       \* id |-> [type, expired]
          byType,         \* the index, type |-> ids
          localServices,
          storing,        \* registerLocal() calls that await the DHT
          calls,
          status,         \* of the bootstrap nodes
          tries,          \* their attempts
          dials,          \* connection attempts in progress, late after their timeout
          open,           \* number of open connections of a node
          waiting,        \* nodes whose _reconnect() is in its delay
          connected,      \* _connected
          bootstrap,      \* _isBootstrapping, _isBootstrapped, and the batch
          peers,          \* peer |-> seen lately
          lookups,        \* findNode() calls left of a discover(), 0 if none
          polling,        \* the timers of peer discovery are set
          mdns            \* socket and timer of the responder

registryVars == <<services, byType, localServices, storing, calls>>
bootstrapVars == <<status, tries, dials, open, waiting, connected, bootstrap>>
peerVars == <<peers, lookups, polling>>
vars == <<registryVars, bootstrapVars, peerVars, mdns>>

Nodes == 1..Len(NodeList)

With(map, id, value) == [x \in DOMAIN map \cup {id} |-> IF x = id THEN value ELSE map[x]]

Init ==
    /\ services = <<>> /\ byType = [t \in Kinds |-> {}]
    /\ localServices = {} /\ storing = {} /\ calls = 0
    /\ status = [n \in Nodes |-> "pending"] /\ tries = [n \in Nodes |-> 0]
    /\ dials = {} /\ open = [n \in Nodes |-> 0] /\ waiting = {} /\ connected = {}
    /\ bootstrap = [running |-> FALSE, done |-> FALSE, batch |-> <<>>, next |-> 1, count |-> 0]
    /\ peers = <<>> /\ lookups = 0 /\ polling = FALSE
    /\ mdns = [binding |-> 0, running |-> FALSE, closing |-> FALSE, timers |-> 0, held |-> FALSE]

-----------------------------------------------------------------------------
(* Registry.  register() is done before it awaits the DHT. *)

\* Faulty variant: an id that is registered is taken to be in the index.
IndexedOnce(id, type) ==
    IF id \in DOMAIN services THEN byType ELSE [byType EXCEPT ![type] = @ \cup {id}]

Indexed(id, type) == [byType EXCEPT ![type] = @ \cup {id}]

\* Faulty variant: one more than the limit is let in.
FullLate(id) == id \notin DOMAIN services /\ Cardinality(DOMAIN services) > maxServices

Full(id) == id \notin DOMAIN services /\ Cardinality(DOMAIN services) >= maxServices

\* register(), called by registerLocal(), by import() and for what the DHT has;
\* an id that is there may come with another type.
register(id, type, local) ==
    /\ calls < MaxCalls /\ calls' = calls + 1
    /\ ~Full(id)
    /\ services' = With(services, id, [type |-> type, expired |-> FALSE])
    /\ byType' = Indexed(id, type)
    /\ storing' = IF local THEN storing \cup {id} ELSE storing
    /\ UNCHANGED localServices

\* registerLocal() after its await, whether or not the id is still there.
RegisteredLocal(id) ==
    /\ id \in storing
    /\ storing' = storing \ {id}
    /\ localServices' = localServices \cup {id}
    /\ UNCHANGED <<services, byType, calls>>

Without(ids) ==
    /\ services' = Restrict(services, DOMAIN services \ ids)
    /\ byType' = [t \in Kinds |->
                   byType[t] \ {id \in ids \cap DOMAIN services : services[id].type = t}]
    /\ localServices' = localServices \ ids
    /\ UNCHANGED <<storing, calls>>

unregister(id) == id \in DOMAIN services /\ Without({id})

\* Time passes the ttl of a service that sends no heartbeat.
Expires(id) ==
    /\ id \in DOMAIN services /\ ~services[id].expired
    /\ services' = [services EXCEPT ![id].expired = TRUE]
    /\ UNCHANGED <<byType, localServices, storing, calls>>

heartbeat(id) ==
    /\ id \in DOMAIN services
    /\ services' = [services EXCEPT ![id].expired = FALSE]
    /\ UNCHANGED <<byType, localServices, storing, calls>>

checkExpiredServices ==
    LET expired == {id \in DOMAIN services \ localServices : services[id].expired}
    IN expired # {} /\ Without(expired)

RegistryNext ==
    \/ \E id \in Ids :
         \/ RegisteredLocal(id) \/ unregister(id) \/ Expires(id) \/ heartbeat(id)
         \/ \E type \in Kinds, local \in BOOLEAN : register(id, type, local)
    \/ checkExpiredServices

findByType(type) ==
    {id \in byType[type] : id \in DOMAIN services /\ ~services[id].expired}

-----------------------------------------------------------------------------
(* Bootstrap: nodes are tried in batches, and a batch ends when each attempt *)
(* of it has settled.                                                        *)

\* _connectToNode()
Dials(nodes, by) == {[node |-> n, by |-> by, try |-> tries[n], late |-> FALSE] : n \in nodes}

Try(nodes, by) ==
    /\ dials' = dials \cup Dials(nodes, by)
    /\ tries' = [n \in Nodes |-> IF n \in nodes THEN tries[n] + 1 ELSE tries[n]]

BatchAt(first) == {n \in Nodes : n >= first /\ n < first + maxConcurrent}

Connecting(nodes) ==
    status' = [n \in Nodes |-> IF n \in nodes THEN "connecting" ELSE status[n]]

StartBootstrap ==
    LET batch == BatchAt(1)
    IN /\ ~bootstrap.running
       /\ \A n \in Nodes : tries[n] < MaxTries
       /\ bootstrap' = [bootstrap EXCEPT !.running = TRUE, !.next = 1 + maxConcurrent, !.count = 0,
                                         !.batch = [n \in batch |-> "pending"]]
       /\ Try(batch, "batch") /\ Connecting(batch)
       /\ UNCHANGED <<open, waiting, connected>>

\* What the batch learns of an attempt, unless the attempt has timed out.
Reports(d, result) ==
    bootstrap' = IF d.by = "batch" /\ ~d.late /\ d.node \in DOMAIN bootstrap.batch
                 THEN [bootstrap EXCEPT !.batch[d.node] = result] ELSE bootstrap

\* The transport connects, perhaps after the timeout.
Connects(d) ==
    /\ dials' = dials \ {d}
    /\ open' = [open EXCEPT ![d.node] = @ + 1]
    /\ status' = [status EXCEPT ![d.node] = "connected"]
    /\ Reports(d, "ok")
    /\ UNCHANGED <<tries, waiting, connected>>

ConnectFails(d) ==
    /\ dials' = dials \ {d}
    /\ status' = [status EXCEPT ![d.node] = "failed"]
    /\ Reports(d, "failed")
    /\ UNCHANGED <<tries, open, waiting, connected>>

\* The timeout rejects; the transport is not told.
ConnectTimesOut(d) ==
    /\ ~d.late
    /\ dials' = (dials \ {d}) \cup {[d EXCEPT !.late = TRUE]}
    /\ Reports(d, "failed")
    /\ UNCHANGED <<status, tries, open, waiting, connected>>

\* _handleDisconnect(), and _reconnect() up to its delay
Disconnects(n) ==
    /\ open[n] > 0
    /\ open' = [open EXCEPT ![n] = @ - 1]
    /\ connected' = connected \ {n}
    /\ status' = [status EXCEPT ![n] = "disconnected"]
    /\ waiting' = IF Cardinality(connected') < requiredNodes /\ tries[n] < maxRetries
                  THEN waiting \cup {n} ELSE waiting
    /\ UNCHANGED <<dials, tries, bootstrap>>

\* A connection it makes is not put in _connected.
Reconnect(n) ==
    /\ n \in waiting /\ tries[n] < MaxTries
    /\ waiting' = waiting \ {n}
    /\ Try({n}, "retry") /\ Connecting({n})
    /\ UNCHANGED <<open, connected, bootstrap>>

\* Faulty variant: only an attempt that is refused or succeeds is over.
SettledInTime ==
    \A n \in DOMAIN bootstrap.batch :
        bootstrap.batch[n] # "pending" /\ \A d \in dials : d.node # n

Settled == \A n \in DOMAIN bootstrap.batch : bootstrap.batch[n] # "pending"

\* The end of a batch: enough nodes, the next batch, or the end of the list.
\* A node counts that has disconnected while the batch waited for others.
BatchEnds ==
    LET ok == {n \in DOMAIN bootstrap.batch : bootstrap.batch[n] = "ok"}
        count == bootstrap.count + Cardinality(ok)
        over == count >= requiredNodes \/ bootstrap.next > Len(NodeList)
        batch == IF over THEN {} ELSE BatchAt(bootstrap.next)
    IN /\ bootstrap.running /\ Settled
       /\ connected' = connected \cup ok
       /\ bootstrap' = [running |-> ~over, done |-> bootstrap.done \/ (over /\ count >= requiredNodes),
                        batch |-> [n \in batch |-> "pending"],
                        next |-> bootstrap.next + maxConcurrent, count |-> count]
       /\ status' = [n \in Nodes |-> IF n \in batch THEN "connecting"
                                     ELSE IF n \in DOMAIN bootstrap.batch \ ok THEN "failed"
                                     ELSE status[n]]
       /\ Try(batch, "batch")
       /\ UNCHANGED <<open, waiting>>

\* reset() while no bootstrap() is running
reset ==
    /\ ~bootstrap.running
    /\ bootstrap' = [bootstrap EXCEPT !.done = FALSE]
    /\ connected' = {} /\ status' = [n \in Nodes |-> "pending"]
    /\ UNCHANGED <<dials, tries, open, waiting>>

Attempts == BatchEnds \/ \E d \in dials : ConnectTimesOut(d)

BootstrapNext ==
    \/ StartBootstrap \/ reset \/ Attempts
    \/ \E d \in dials : Connects(d) \/ ConnectFails(d)
    \/ \E n \in Nodes : Disconnects(n) \/ Reconnect(n)

-----------------------------------------------------------------------------
(* Peers and mDNS *)

startPeers == ~polling /\ polling' = TRUE /\ lookups' = 1 /\ UNCHANGED peers
stopPeers == polling' = FALSE /\ UNCHANGED <<peers, lookups>>

\* discover(), unless one is running
discover == polling /\ lookups = 0 /\ lookups' = 1 /\ UNCHANGED <<peers, polling>>

AddPeers(found) ==
    IF found \in DOMAIN peers \/ Cardinality(DOMAIN peers) < maxPeers
    THEN With(peers, found, TRUE) ELSE peers

StalePeers == {p \in DOMAIN peers : ~peers[p]}

\* A lookup answers with a peer, or fails, which ends discover() before the
\* stale peers are removed; after the last one they are.
LookupAnswers(found, more) ==
    /\ lookups > 0
    /\ peers' = IF more THEN AddPeers(found)
                ELSE LET all == AddPeers(found) IN Restrict(all, {p \in DOMAIN all : all[p]})
    /\ lookups' = IF more THEN lookups ELSE 0
    /\ UNCHANGED polling

LookupFails == lookups > 0 /\ lookups' = 0 /\ UNCHANGED <<peers, polling>>

addPeer(p) == peers' = AddPeers(p) /\ UNCHANGED <<lookups, polling>>

removePeer(p) ==
    /\ p \in DOMAIN peers
    /\ peers' = Restrict(peers, DOMAIN peers \ {p}) /\ UNCHANGED <<lookups, polling>>

GrowsStale(p) ==
    /\ p \in DOMAIN peers /\ peers' = [peers EXCEPT ![p] = FALSE]
    /\ UNCHANGED <<lookups, polling>>

PeersNext ==
    \/ startPeers \/ stopPeers \/ discover \/ LookupFails
    \/ \E p \in Found : \/ addPeer(p) \/ removePeer(p) \/ GrowsStale(p)
                        \/ \E more \in BOOLEAN : LookupAnswers(p, more)

\* The responder.  Its parser returns no answers, so a message changes nothing.
\* A start() while another is binding makes a second socket, and the timer of
\* the first to be bound is forgotten by the second.
startMdns ==
    /\ ~mdns.running /\ mdns.binding < 2
    /\ mdns' = [mdns EXCEPT !.binding = @ + 1]

BoundMdns ==
    /\ mdns.binding > 0 /\ mdns.timers < 3
    /\ mdns' = [mdns EXCEPT !.binding = @ - 1, !.running = TRUE, !.timers = @ + 1,
                            !.held = TRUE]

\* stop() sends the goodbye and closes; running until the callback.
stopMdns ==
    /\ mdns.running /\ ~mdns.closing
    /\ mdns' = [mdns EXCEPT !.closing = TRUE, !.held = FALSE,
                            !.timers = IF mdns.held THEN @ - 1 ELSE @]

ClosedMdns ==
    /\ mdns.closing
    /\ mdns' = [mdns EXCEPT !.closing = FALSE, !.running = FALSE]

MdnsNext == startMdns \/ BoundMdns \/ stopMdns \/ ClosedMdns

-----------------------------------------------------------------------------
Next ==
    \/ RegistryNext /\ UNCHANGED <<bootstrapVars, peerVars, mdns>>
    \/ BootstrapNext /\ UNCHANGED <<registryVars, peerVars, mdns>>
    \/ PeersNext /\ UNCHANGED <<registryVars, bootstrapVars, mdns>>
    \/ MdnsNext /\ UNCHANGED <<registryVars, bootstrapVars, peerVars>>

\* Attempts have a timeout, and promises are resolved.
Spec == Init /\ [][Next]_vars /\ WF_vars(Attempts /\ UNCHANGED <<registryVars, peerVars, mdns>>)

TypeOK ==
    /\ DOMAIN services \subseteq Ids
    /\ Cardinality(DOMAIN services) <= maxServices
    /\ Cardinality(DOMAIN peers) <= maxPeers
    /\ connected \subseteq Nodes /\ DOMAIN bootstrap.batch \subseteq Nodes
    /\ DOMAIN bootstrap.batch # {} <=> bootstrap.running
    /\ mdns.held => mdns.timers > 0

\* A service of the registry is found under its type, unless it has expired,
\* although it may have been registered before, under another type, by import
\* or from the DHT, and been removed in between.
ServicesAreIndexed ==
    \A id \in DOMAIN services :
        services[id].expired \/ id \in findByType(services[id].type)

\* bootstrap() ends: with enough nodes, or after the last batch.
BootstrapEnds == bootstrap.running ~> ~bootstrap.running

=============================================================================
