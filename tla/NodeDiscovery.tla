---------------------------- MODULE NodeDiscovery ----------------------------
(* Discovery of nodes (core/discovery/index.js): announcements, pings and    *)
(* introductions, each handled after an asynchronous verification of its     *)
(* signature, QR codes, introductions accepted after an asynchronous         *)
(* signature, the bound of the peer table and the expiry of peers.  Messages *)
(* of this node itself and invalid ones change nothing and are left out.     *)
EXTENDS Integers, FiniteSets, Functions

CONSTANTS Ids, Addresses,
          maxPeers, peerTimeout,
          MaxTime, MaxMessages   \* bounds of the model

VARIABLES peers,          \* id |-> [address, seen]
          pending,        \* pendingIntroductions: id |-> address
          messages,       \* messages whose signature is being verified
          accepting,      \* acceptIntroduction() calls behind their signature
          scanning,       \* state, with the two timers that follow it
          now,
          received

vars == <<peers, pending, messages, accepting, scanning, now, received>>

Init ==
    /\ peers = <<>> /\ pending = <<>> /\ messages = {} /\ accepting = {}
    /\ scanning = FALSE
    /\ now = 0 /\ received = 0

\* _removeOldestPeer(): nobody goes if all were seen in this very millisecond.
Oldest == {p \in DOMAIN peers : /\ peers[p].seen < now
                                /\ \A q \in DOMAIN peers : peers[p].seen <= peers[q].seen}

\* Faulty variant: the peer that was seen last goes.
Newest == {p \in DOMAIN peers : \A q \in DOMAIN peers : peers[q].seen <= peers[p].seen}

Replaced == Oldest

With(map, id, value) == [p \in DOMAIN map \cup {id} |-> IF p = id THEN value ELSE map[p]]

\* _addOrUpdatePeer()
AddOrUpdate(id, address) ==
    LET info == [address |-> address, seen |-> now]
    IN IF id \in DOMAIN peers \/ Cardinality(DOMAIN peers) < maxPeers \/ Replaced = {}
       THEN peers' = With(peers, id, info)
       ELSE \E old \in Replaced : peers' = With(Restrict(peers, DOMAIN peers \ {old}), id, info)

Forget(id) == Restrict(pending, DOMAIN pending \ {id})

\* The handler of a message; an introduction replaces one that is pending.
Handle(m) ==
    CASE m.kind = "announce" -> AddOrUpdate(m.from, m.address) /\ UNCHANGED pending
      [] m.kind = "ping" ->
           /\ peers' = IF m.from \in DOMAIN peers THEN [peers EXCEPT ![m.from].seen = now] ELSE peers
           /\ UNCHANGED pending
      [] m.kind = "introduction" -> pending' = With(pending, m.from, m.address) /\ UNCHANGED peers
      [] m.kind = "introduction_response" ->
           IF m.from \in DOMAIN pending
           THEN AddOrUpdate(m.from, pending[m.from]) /\ pending' = Forget(m.from)
           ELSE UNCHANGED <<peers, pending>>

Kinds == {"announce", "ping", "introduction", "introduction_response"}

\* processDiscovery() up to its await; without a signature or a key in the
\* message there is none.
processDiscovery(m, signed) ==
    /\ received < MaxMessages /\ received' = received + 1
    /\ IF signed THEN messages' = messages \cup {m} /\ UNCHANGED <<peers, pending>>
       ELSE Handle(m) /\ UNCHANGED messages
    /\ UNCHANGED <<accepting, scanning, now>>

Verified(m) ==
    /\ messages' = messages \ {m}
    /\ Handle(m)
    /\ UNCHANGED <<accepting, scanning, now, received>>

Invalid(m) ==
    /\ messages' = messages \ {m}
    /\ UNCHANGED <<peers, pending, accepting, scanning, now, received>>

\* addPeerManually(), or processQRScan() of a valid code
AddPeer(id, address) ==
    /\ received < MaxMessages /\ received' = received + 1
    /\ AddOrUpdate(id, address)
    /\ UNCHANGED <<pending, messages, accepting, scanning, now>>

removePeer(id) ==
    /\ id \in DOMAIN peers
    /\ peers' = Restrict(peers, DOMAIN peers \ {id})
    /\ UNCHANGED <<pending, messages, accepting, scanning, now, received>>

\* acceptIntroduction() around the signature of the response: it adds what it
\* found before, and deletes what is pending by then.
acceptIntroduction(id) ==
    /\ id \in DOMAIN pending
    /\ accepting' = accepting \cup {[peer |-> id, address |-> pending[id]]}
    /\ UNCHANGED <<peers, pending, messages, scanning, now, received>>

Accepted(a) ==
    /\ accepting' = accepting \ {a}
    /\ AddOrUpdate(a.peer, a.address)
    /\ pending' = Forget(a.peer)
    /\ UNCHANGED <<messages, scanning, now, received>>

startLocalDiscovery == ~scanning /\ scanning' = TRUE
stopLocalDiscovery == scanning /\ scanning' = FALSE

\* Faulty variant: the timeout is counted the other way round.
ExpiredYoung == {p \in DOMAIN peers : now - peers[p].seen <= peerTimeout}

Expired == {p \in DOMAIN peers : now - peers[p].seen > peerTimeout}

cleanupExpiredPeers ==
    /\ scanning /\ Expired # {}
    /\ peers' = Restrict(peers, DOMAIN peers \ Expired)
    /\ UNCHANGED <<pending, messages, accepting, scanning, now, received>>

Tick == now < MaxTime /\ now' = now + 1

Next ==
    \/ \E id \in Ids, address \in Addresses :
         \/ AddPeer(id, address)
         \/ \E kind \in Kinds, signed \in BOOLEAN :
              processDiscovery([kind |-> kind, from |-> id, address |-> address], signed)
    \/ \E m \in messages : Verified(m) \/ Invalid(m)
    \/ \E id \in Ids : removePeer(id) \/ acceptIntroduction(id)
    \/ \E a \in accepting : Accepted(a)
    \/ cleanupExpiredPeers
    \/ /\ startLocalDiscovery \/ stopLocalDiscovery
       /\ UNCHANGED <<peers, pending, messages, accepting, now, received>>
    \/ Tick /\ UNCHANGED <<peers, pending, messages, accepting, scanning, received>>

Spec == Init /\ [][Next]_vars

-----------------------------------------------------------------------------
TypeOK ==
    /\ DOMAIN peers \subseteq Ids /\ DOMAIN pending \subseteq Ids
    /\ \A p \in DOMAIN peers : peers[p].address \in Addresses /\ peers[p].seen \in 0..now
    /\ messages \subseteq [kind : Kinds, from : Ids, address : Addresses]
    /\ accepting \subseteq [peer : Ids, address : Addresses]

\* A peer that nobody removes is dropped after its timeout, or to make room
\* for a new one in a full table and only if no peer was seen less lately:
\* however announcements and pings that are being verified overtake each other.
DroppedForCause ==
    [][\A p \in DOMAIN peers \ DOMAIN peers' :
          \/ removePeer(p)
          \/ now - peers[p].seen > peerTimeout
          \/ /\ DOMAIN peers' \ DOMAIN peers # {}
             /\ Cardinality(DOMAIN peers) >= maxPeers
             /\ \A q \in DOMAIN peers : peers[p].seen <= peers[q].seen]_vars

=============================================================================
