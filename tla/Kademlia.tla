------------------------------ MODULE Kademlia ------------------------------
(* One node of the Kademlia DHT (network/dht/kademlia.js) and the requests   *)
(* and answers its peers send.  A remote call waits in _pendingCalls until   *)
(* its answer is dispatched or its timer fires.  handleRPC dispatches by     *)
(* command and a FIND_NODE, FIND_VALUE or STORE answer carries the command   *)
(* of its request, so it is taken for a request without target or key, which *)
(* throws before any state changes: only PONG completes a call.              *)
EXTENDS RoutingTable

CONSTANTS Peers,      \* the other nodes
          Keys,       \* keys that are stored or looked up
          Alpha,      \* options.alpha: calls of a lookup in parallel
          MaxPings,   \* options.maxPendingPings
          Slots,      \* lookups in progress at once (bound of the model)
          MaxCalls,   \* PING calls in progress at once (bound of the model)
          Idle        \* a slot without a lookup

ASSUME KademliaAssumption == /\ Peers \subseteq NodeIds \ {Self}
                             /\ Keys \subseteq NodeIds
                             /\ Alpha \in Nat \ {0}
                             /\ MaxPings \in Nat \ {0}
                             /\ IsFiniteSet(Slots)
                             /\ MaxCalls \in Nat

VARIABLES table,      \* _routingTable._buckets
          pings,      \* _routingTable._pendingPings, 0 when absent
          calls,      \* _pendingCalls
          lookups,    \* the findNode() calls in progress
          storage,    \* keys of _storage
          ready,      \* _isReady
          refreshing  \* an interval of _startRefresh exists

vars == <<table, pings, calls, lookups, storage, ready, refreshing>>

\* What a lookup in progress keeps that its end or a property depends on:
\* bootstrap() goes on differently, a user's findNode, put and get do not.
Lookup == [kind : {"bootstrap", "user"}]
          \cup [kind : {"refresh"}, bucket : BucketIndices, probe : NodeIds]

ASSUME IdleAssumption == Idle \notin Lookup

PingCall(p) == [kind |-> "ping", peer |-> p]
FindCall(s, p) == [kind |-> "find_node", slot |-> s, peer |-> p]

CallType == {PingCall(p) : p \in Peers}
            \cup {FindCall(s, p) : s \in Slots, p \in Peers}

CallsOf(s, pending) == {c \in pending : c.kind = "find_node" /\ c.slot = s}

Init ==
    /\ table = EmptyTable
    /\ pings = [p \in Peers |-> 0]
    /\ calls = {}
    /\ lookups = [s \in Slots |-> Idle]
    /\ storage = {}
    /\ ready = FALSE
    /\ refreshing = FALSE

-----------------------------------------------------------------------------
(* Lookups *)

\* findNode() up to its first await: the Alpha closest contacts are queried.
Queries(s, target, contacts) ==
    {FindCall(s, p) : p \in getClosestNodes(contacts, target, Alpha)}

FreeSlots == {s \in Slots : lookups[s] = Idle}

\* What follows the await of findNode() in its caller.  Every query has failed
\* and left the results, so the lookup returns no node: put() throws, get()
\* returns null, bootstrap() declares the node ready.
Returns(kind) == ready' = (ready \/ kind = "bootstrap")

\* Faulty variant: findNode() does not return early on an empty table.
BeginLookupEmpty(s, kind, target, contacts) ==
    /\ lookups' = [lookups EXCEPT ![s] = [kind |-> kind]]
    /\ calls' = calls \cup Queries(s, target, contacts)
    /\ UNCHANGED ready

\* findNode() returns at once when the table is empty.
BeginLookup(s, kind, target, contacts) ==
    IF getClosestNodes(contacts, target, Alpha) = {}
    THEN Returns(kind) /\ UNCHANGED <<lookups, calls>>
    ELSE /\ lookups' = [lookups EXCEPT ![s] = [kind |-> kind]]
         /\ calls' = calls \cup Queries(s, target, contacts)
         /\ UNCHANGED ready

\* findNode(), called by the network manager for a peer.
FindNode(s, target) ==
    /\ s \in FreeSlots
    /\ BeginLookup(s, "user", target, table)
    /\ UNCHANGED <<table, pings, storage, refreshing>>

\* put(): the value would be stored on the nodes the lookup returns.
Put(s, key) ==
    /\ s \in FreeSlots
    /\ BeginLookup(s, "user", key, table)
    /\ UNCHANGED <<table, pings, storage, refreshing>>

\* get(): a key of the local storage needs no lookup.
Get(s, key) ==
    /\ s \in FreeSlots
    /\ key \notin storage
    /\ BeginLookup(s, "user", key, table)
    /\ UNCHANGED <<table, pings, storage, refreshing>>

\* bootstrap(): the bootstrap nodes enter the table, then the node looks for
\* itself; without bootstrap nodes it is ready at once.
Bootstrap(s, first) ==
    LET known == IF first = NoContact THEN table ELSE addNode(table, first)
    IN /\ s \in FreeSlots
       /\ refreshing' = TRUE
       /\ table' = known
       /\ IF first = NoContact
          THEN ready' = TRUE /\ UNCHANGED <<lookups, calls>>
          ELSE BeginLookup(s, "bootstrap", Self, known)
       /\ UNCHANGED <<pings, storage>>

\* The interval of _startRefresh: for every stale bucket the contact closest to
\* the generated identifier is looked up.  Buckets are marked refreshed under
\* one key (bucket.index, undefined), so all non-empty ones are stale together.
Refresh(slotOf, random) ==
    LET probe == generateIdForBucket(Undefined, random)
        target == CHOOSE c \in getClosestNodes(table, probe, 1) : TRUE
        bucketOf(s) == CHOOSE b \in DOMAIN slotOf : slotOf[b] = s
        started == {s \in {slotOf[b] : b \in DOMAIN slotOf} :
                        Queries(s, target, table) # {}}
    IN /\ refreshing
       /\ DOMAIN slotOf # {}
       /\ lookups' = [s \in Slots |->
            IF s \in started
            THEN [kind |-> "refresh", bucket |-> bucketOf(s), probe |-> probe]
            ELSE lookups[s]]
       /\ calls' = calls \cup UNION {Queries(s, target, table) : s \in started}
       /\ UNCHANGED <<table, pings, storage, ready, refreshing>>

\* Injections from the non-empty buckets to free slots.
RefreshPlans == {f \in [NonEmptyBuckets(table) -> FreeSlots] :
                    \A a, b \in DOMAIN f : f[a] = f[b] => a = b}

-----------------------------------------------------------------------------
(* Calls *)

\* ping(), by a user of the DHT.
Ping(p) ==
    /\ PingCall(p) \notin calls
    /\ Cardinality({c \in calls : c.kind = "ping"}) < MaxCalls
    /\ calls' = calls \cup {PingCall(p)}
    /\ UNCHANGED <<table, pings, lookups, storage, ready, refreshing>>

\* _handlePong(): completes the call, and touchNode() changes time stamps only;
\* an unknown rpcId is ignored.
HandlePong(p) ==
    /\ PingCall(p) \in calls
    /\ calls' = calls \ {PingCall(p)}
    /\ pings' = [pings EXCEPT ![p] = 0]
    /\ UNCHANGED <<table, lookups, storage, ready, refreshing>>

\* The timer of ping() rejects the call.
PingTimeout(p) ==
    /\ PingCall(p) \in calls
    /\ calls' = calls \ {PingCall(p)}
    /\ UNCHANGED <<table, pings, lookups, storage, ready, refreshing>>

\* The timer of _findNodeRPC() rejects one query; Promise.all() lets the lookup
\* go on when the last one has settled, and it has no result left then.
SettledByAny(s, pending) == TRUE  \* Faulty variant: Promise.race()

Settled(s, pending) == CallsOf(s, pending) = {}

QueryTimeout(s, p) ==
    /\ FindCall(s, p) \in calls
    /\ calls' = calls \ {FindCall(s, p)}
    /\ IF Settled(s, calls \ {FindCall(s, p)})
       THEN /\ lookups' = [lookups EXCEPT ![s] = Idle]
            /\ Returns(lookups[s].kind)
       ELSE UNCHANGED <<lookups, ready>>
    /\ UNCHANGED <<table, pings, storage, refreshing>>

-----------------------------------------------------------------------------
(* Requests of peers, and the routing table's public operations *)

\* _handlePing(), _handleFindNode(), _handleFindValue(): the sender is added.
HandleRequest(p) ==
    /\ table' = addNode(table, p)
    /\ UNCHANGED <<pings, calls, lookups, storage, ready, refreshing>>

\* _handleStore().
HandleStore(p, key) ==
    /\ table' = addNode(table, p)
    /\ storage' = storage \cup {key}
    /\ UNCHANGED <<pings, calls, lookups, ready, refreshing>>

\* addNode() through the DHT or its routing table, the node itself included.
AddNode(p) ==
    /\ table' = addNode(table, p)
    /\ UNCHANGED <<pings, calls, lookups, storage, ready, refreshing>>

\* removeNode(): _pendingPings keeps the count of the removed node.
RemoveNode(p) ==
    /\ table' = removeNode(table, p)
    /\ UNCHANGED <<pings, calls, lookups, storage, ready, refreshing>>

\* Faulty variant: one missed ping too many is counted.
HandlePingTimeoutLate(p) ==
    /\ IF pings[p] >= MaxPings
       THEN table' = removeNode(table, p) /\ pings' = [pings EXCEPT ![p] = 0]
       ELSE pings' = [pings EXCEPT ![p] = @ + 1] /\ UNCHANGED table
    /\ UNCHANGED <<calls, lookups, storage, ready, refreshing>>

\* handlePingTimeout(): the last missed ping removes the node.
HandlePingTimeout(p) ==
    /\ IF pings[p] >= MaxPings - 1
       THEN /\ table' = removeNode(table, p)
            /\ pings' = [pings EXCEPT ![p] = 0]
       ELSE /\ pings' = [pings EXCEPT ![p] = @ + 1]
            /\ UNCHANGED table
    /\ UNCHANGED <<calls, lookups, storage, ready, refreshing>>

\* clear().
Clear ==
    /\ table' = EmptyTable
    /\ pings' = [p \in Peers |-> 0]
    /\ UNCHANGED <<calls, lookups, storage, ready, refreshing>>

-----------------------------------------------------------------------------

StartLookup ==
    \E s \in Slots : \/ \E p \in Peers : FindNode(s, p)
                     \/ \E k \in Keys : Put(s, k) \/ Get(s, k)
                     \/ \E p \in Peers \cup {NoContact} : Bootstrap(s, p)

RefreshStep == \E f \in RefreshPlans : Refresh(f, ZeroId)

Timeouts == \/ \E p \in Peers : PingTimeout(p)
            \/ \E s \in Slots, p \in Peers : QueryTimeout(s, p)

Messages == \E p \in Peers : \/ HandlePong(p)
                             \/ HandleRequest(p)
                             \/ \E k \in Keys : HandleStore(p, k)

TableCalls == \/ \E p \in Peers \cup {Self} : AddNode(p)
              \/ \E p \in Peers : RemoveNode(p) \/ HandlePingTimeout(p)
              \/ Clear

Next == \/ StartLookup
        \/ RefreshStep
        \/ \E p \in Peers : Ping(p)
        \/ Timeouts
        \/ Messages
        \/ TableCalls

Spec == Init /\ [][Next]_vars

\* Every timer that was set fires unless it is cleared.
FairSpec ==
    /\ Spec
    /\ \A p \in Peers : WF_vars(PingTimeout(p))
    /\ \A s \in Slots, p \in Peers : WF_vars(QueryTimeout(s, p))

-----------------------------------------------------------------------------
(* Properties *)

TypeOK ==
    /\ table \in TableType
    /\ pings \in [Peers -> 0..(MaxPings - 1)]
    /\ calls \subseteq CallType
    /\ lookups \in [Slots -> Lookup \cup {Idle}]
    /\ storage \subseteq Keys
    /\ ready \in BOOLEAN
    /\ refreshing \in BOOLEAN

\* Whatever order requests, evictions and clears come in, each bucket stays a
\* list of at most K different contacts of its distance, none the node itself,
\* with a waiting contact only while it is full and never one it already has
\* (KBucket.add and KBucket.remove under RoutingTable.addNode/removeNode).
TableInv == TableOK(table)

\* A lookup in progress waits for at least one of its own calls, and no call
\* outlives the lookup that made it: nothing in _pendingCalls is left behind by
\* a lookup that has returned, and no lookup waits for a call nobody made.
LookupsOwnCalls ==
    \A s \in Slots : lookups[s] = Idle <=> CallsOf(s, calls) = {}

KeepsContacts(before, after) ==
    \A b \in BucketIndices :
        LET gone == Members(before[b]) \ Members(after[b])
            came == Members(after[b]) \ Members(before[b])
        IN /\ \A x, y \in gone : x = y
           /\ gone # {} => came = {before[b].pending} \ {NoContact}
           /\ gone = {} /\ came # {} => ~isFull(before[b])

\* A full bucket prefers the contacts it has: a step takes at most one contact
\* out of the table, unless it empties it, and a contact that was waiting for
\* that bucket takes the place in the same step (KBucket.add, KBucket.remove).
EvictionsAreExplicit ==
    [][table' = EmptyTable \/ KeepsContacts(table, table')]_vars

\* Every findNode, put, get, bootstrap and refresh in progress returns: no
\* lookup waits for ever although no answer is ever matched to its calls.
LookupsReturn == \A s \in Slots : lookups[s] # Idle ~> lookups[s] = Idle

=============================================================================
