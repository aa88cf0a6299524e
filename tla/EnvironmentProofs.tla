-------------------------- MODULE EnvironmentProofs --------------------------
(* Proofs about the parts of NodeEnvironment.  A behaviour explores one part,*)
(* so that an invariant is kept when the steps of the part it is about keep  *)
(* it.                                                                       *)
EXTENDS NodeEnvironment, FiniteSetTheorems, FunctionTheorems, SequenceTheorems,
        WellFoundedInduction, TLAPS

-----------------------------------------------------------------------------
(* A step of a behaviour is one of the part that the behaviour explores.     *)

LEMMA StepOfPart ==
  ASSUME [Next]_vars
  PROVE  /\ part' = part
         /\ part = "bus" => Bus!Next \/ UNCHANGED busVars
         /\ part = "shutdown" => Down!Next \/ UNCHANGED downVars
         /\ part = "alerts" => Obs!AlertsNext \/ UNCHANGED alertVars
         /\ part = "spans" => Obs!SpansNext \/ UNCHANGED spanVars
         /\ part = "registry" => Disc!RegistryNext \/ UNCHANGED registryVars
         /\ part = "nodes" => Node!Next \/ UNCHANGED nodeVars
         /\ part # "nodes" => UNCHANGED nodeVars
         /\ part = "turn" => Turn!Next \/ UNCHANGED turnVars
         /\ part \in {"mapping", "punching"} =>
              \/ Gate!MapNext
              \/ \E c \in NatCallers : Gate!cleanup(c)
              \/ UNCHANGED mapVars
         /\ part = "plugins" => Plug!Next \/ UNCHANGED pluginVars
         /\ part = "container" => Cont!Next \/ UNCHANGED containerVars
<1>1. CASE UNCHANGED vars
  BY <1>1, Zenon DEF vars
<1>2. ASSUME NEW p, Only(p) PROVE part' = part /\ part = p /\ (p # "nodes" => UNCHANGED nodeVars)
  BY <1>2 DEF Only
<1>3. (Gate!PunchNext /\ UNCHANGED <<mapVars, stunVars>>) => UNCHANGED mapVars
  OBVIOUS
<1>4. (Gate!StunNext /\ UNCHANGED <<mapVars, punchVars>>) => UNCHANGED mapVars
  OBVIOUS
<1> QED
  BY <1>1, <1>2, <1>3, <1>4 DEF Next

-----------------------------------------------------------------------------
(* Nodes.  A full table is one of at least maxPeers peers, so that its       *)
(* cardinality has to be a number.                                           *)

NodesInv == IsFiniteSet(DOMAIN nodes)

MessagesInv == \A m \in messages : m.kind \in Node!Kinds

LEMMA NodeCardinality == \A S : Node!Cardinality(S) = Cardinality(S)
  BY Zenon DEF Node!Cardinality, Cardinality

\* A cause to drop a peer.
HasCause(p) ==
    \/ Node!removePeer(p)
    \/ now - nodes[p].seen > peerTimeout
    \/ /\ DOMAIN nodes' \ DOMAIN nodes # {}
       /\ Cardinality(DOMAIN nodes) >= maxPeers
       /\ \A q \in DOMAIN nodes : nodes[p].seen <= nodes[q].seen

\* What goes, as a peer is added, is the oldest one of a full table.
LEMMA AddDropsOldest ==
  ASSUME NodesInv, NEW id, NEW address, Node!AddOrUpdate(id, address)
  PROVE  NodesInv' /\ \A p \in DOMAIN nodes \ DOMAIN nodes' : HasCause(p)
<1>1. Cardinality(DOMAIN nodes) \in Nat
  BY FS_CardinalityType DEF NodesInv
<1>2. CASE DOMAIN nodes' = DOMAIN nodes \cup {id}
  BY <1>2, FS_AddElement DEF NodesInv
<1>3. CASE /\ id \notin DOMAIN nodes /\ ~(Cardinality(DOMAIN nodes) < maxPeers)
           /\ \E old \in Node!Oldest : DOMAIN nodes' = (DOMAIN nodes \ {old}) \cup {id}
  <2>1. PICK old \in Node!Oldest : DOMAIN nodes' = (DOMAIN nodes \ {old}) \cup {id}
    BY <1>3
  <2>2. IsFiniteSet(DOMAIN nodes \ {old})
    BY FS_RemoveElement DEF NodesInv
  <2>3. NodesInv'
    BY <2>1, <2>2, FS_AddElement DEF NodesInv
  <2>4. \A q \in DOMAIN nodes : nodes[old].seen <= nodes[q].seen
    BY <2>1 DEF Node!Oldest
  <2> QED
    BY <1>1, <1>3, <2>1, <2>3, <2>4, LimitsFit DEF HasCause
<1> QED
  BY <1>2, <1>3, NodeCardinality
     DEF Node!AddOrUpdate, Node!With, Node!Restrict, Node!Replaced

LEMMA MessagesKept ==
  ASSUME MessagesInv, [Next]_vars
  PROVE  MessagesInv'
<1>1. Node!Next \/ UNCHANGED nodeVars
  BY StepOfPart
<1>2. CASE messages' \subseteq messages
  BY <1>2 DEF MessagesInv, Node!Kinds
<1>3. CASE \E m : m.kind \in Node!Kinds /\ messages' = messages \cup {m}
  BY <1>3 DEF MessagesInv, Node!Kinds
<1>4. ASSUME NEW id, NEW address, NEW kind \in Node!Kinds, NEW signed,
             Node!processDiscovery([kind |-> kind, from |-> id, address |-> address], signed)
      PROVE  \/ messages' \subseteq messages
             \/ \E m : m.kind \in Node!Kinds /\ messages' = messages \cup {m}
  <2> DEFINE m == [kind |-> kind, from |-> id, address |-> address]
  <2>1. m.kind \in Node!Kinds
    OBVIOUS
  <2> QED
    BY <1>4, <2>1 DEF Node!processDiscovery
<1>5. Node!Next => \/ messages' \subseteq messages
                   \/ \E m : m.kind \in Node!Kinds /\ messages' = messages \cup {m}
  BY <1>4 DEF Node!Next, Node!AddPeer, Node!Verified, Node!Invalid, Node!removePeer,
              Node!acceptIntroduction, Node!Accepted, Node!cleanupExpiredPeers
<1> QED
  BY <1>1, <1>2, <1>3, <1>5 DEF nodeVars

LEMMA NodesKept ==
  ASSUME NodesInv, MessagesInv, [Next]_vars
  PROVE  NodesInv' /\ \A p \in DOMAIN nodes \ DOMAIN nodes' : HasCause(p)
<1>1. Node!Next \/ UNCHANGED nodeVars
  BY StepOfPart
<1>2. ASSUME DOMAIN nodes' = DOMAIN nodes
      PROVE  NodesInv' /\ \A p \in DOMAIN nodes \ DOMAIN nodes' : HasCause(p)
  BY <1>2 DEF NodesInv
<1>3. ASSUME NEW id, NEW address, Node!AddOrUpdate(id, address)
      PROVE  NodesInv' /\ \A p \in DOMAIN nodes \ DOMAIN nodes' : HasCause(p)
  BY <1>3, AddDropsOldest
<1>4. ASSUME NEW m, m.kind \in Node!Kinds, Node!Handle(m)
      PROVE  \/ DOMAIN nodes' = DOMAIN nodes
             \/ \E id, address : Node!AddOrUpdate(id, address)
  BY <1>4 DEF Node!Handle, Node!Kinds
<1>5. ASSUME NEW id, Node!removePeer(id)
      PROVE  NodesInv' /\ \A p \in DOMAIN nodes \ DOMAIN nodes' : HasCause(p)
  <2>1. DOMAIN nodes' = DOMAIN nodes \ {id}
    BY <1>5 DEF Node!removePeer, Node!Restrict
  <2>2. NodesInv'
    BY <2>1, FS_RemoveElement DEF NodesInv
  <2> QED
    BY <1>5, <2>1, <2>2 DEF HasCause
<1>6. ASSUME Node!cleanupExpiredPeers
      PROVE  NodesInv' /\ \A p \in DOMAIN nodes \ DOMAIN nodes' : HasCause(p)
  <2>1. DOMAIN nodes' = DOMAIN nodes \ Node!Expired
    BY <1>6 DEF Node!cleanupExpiredPeers, Node!Restrict
  <2>2. NodesInv'
    BY <2>1, FS_Subset DEF NodesInv
  <2>3. \A p \in Node!Expired : now - nodes[p].seen > peerTimeout
    BY DEF Node!Expired
  <2> QED
    BY <2>1, <2>2, <2>3 DEF HasCause
<1>4a. ASSUME NEW id, NEW address, NEW kind \in Node!Kinds, NEW signed,
              Node!processDiscovery([kind |-> kind, from |-> id, address |-> address], signed)
       PROVE  \/ DOMAIN nodes' = DOMAIN nodes
              \/ \E i, a : Node!AddOrUpdate(i, a)
  <2> DEFINE m == [kind |-> kind, from |-> id, address |-> address]
  <2>1. m.kind \in Node!Kinds
    OBVIOUS
  <2>2. Node!Handle(m) \/ UNCHANGED nodes
    BY <1>4a DEF Node!processDiscovery
  <2> HIDE DEF m
  <2> QED
    BY <1>4, <2>1, <2>2
<1>4b. ASSUME NEW m \in messages, Node!Verified(m)
       PROVE  \/ DOMAIN nodes' = DOMAIN nodes
              \/ \E i, a : Node!AddOrUpdate(i, a)
  BY <1>4, <1>4b DEF Node!Verified, MessagesInv
<1>7. Node!Next => \/ DOMAIN nodes' = DOMAIN nodes
                   \/ \E id, address : Node!AddOrUpdate(id, address)
                   \/ \E id : Node!removePeer(id)
                   \/ Node!cleanupExpiredPeers
  BY <1>4a, <1>4b DEF Node!Next, Node!AddPeer, Node!Invalid, Node!acceptIntroduction,
                      Node!Accepted
<1> QED
  BY <1>1, <1>2, <1>3, <1>5, <1>6, <1>7 DEF nodeVars

\* Whatever announcements, pings and introductions overtake each other, a peer
\* is dropped only by removePeer(), after its timeout, or as the one seen least
\* lately to make room in a full table.
THEOREM NodesGoForCause == Spec => DroppedForCause
<1>1. Init => NodesInv /\ MessagesInv
  BY FS_EmptySet DEF Init, Node!Init, NodesInv, MessagesInv
<1>2. NodesInv /\ MessagesInv /\ [Next]_vars => NodesInv' /\ MessagesInv'
  BY NodesKept, MessagesKept
<1>3. NodesInv /\ MessagesInv /\ [Next]_vars =>
        [\A p \in DOMAIN nodes \ DOMAIN nodes' :
          \/ Node!removePeer(p)
          \/ now - nodes[p].seen > peerTimeout
          \/ /\ DOMAIN nodes' \ DOMAIN nodes # {}
             /\ Node!Cardinality(DOMAIN nodes) >= maxPeers
             /\ \A q \in DOMAIN nodes : nodes[p].seen <= nodes[q].seen]_Node!vars
  BY NodesKept, NodeCardinality DEF HasCause
<1> QED
  BY <1>1, <1>2, <1>3, PTL DEF Spec, DroppedForCause, Node!DroppedForCause

-----------------------------------------------------------------------------
(* The allocation of a TURN client.  A request waits on the socket of the    *)
(* moment or on one that is being closed, and until that is closed no other  *)
(* socket takes its place: so nothing is allocated on a socket left behind.  *)

SocketsInRange ==
    /\ made \in Nat /\ socket \in 0..made
    /\ closed \subseteq closing /\ closing \subseteq 1..made

OpenOnes == \A r \in requests : r.socket \notin closing \cup {0} => bound /\ r.socket = socket

LastCloses == closing \ closed \subseteq {socket} /\ (closing \ closed # {} => bound)

AllocatedOnes == state = "active" => bound /\ socket \notin closed \cup {0}

TurnInv == SocketsInRange /\ (~cutShort => OpenOnes /\ LastCloses /\ AllocatedOnes)

LEMMA AskedKeepsOpen ==
  ASSUME OpenOnes, NEW kind, NEW peer, NEW channel, NEW then,
         Turn!Request(kind, peer, channel, then), bound', UNCHANGED <<socket, closing>>
  PROVE  OpenOnes'
<1> DEFINE r == [id |-> sent, kind |-> kind, peer |-> peer, channel |-> channel,
                 then |-> IF socket \in closing \cup {0} THEN "nothing" ELSE then,
                 socket |-> IF socket \in closing THEN 0 ELSE socket]
<1>1. /\ requests' = requests \cup {r}
      /\ r.socket = IF socket \in closing THEN 0 ELSE socket
  BY DEF Turn!Request
<1> HIDE DEF r
<1> QED
  BY <1>1 DEF OpenOnes

LEMMA CloseKeepsTurn ==
  ASSUME TurnInv, Turn!Close, requests' \subseteq requests,
         ~cutShort' => (state' = "active" => bound /\ socket \notin closed \cup {0})
  PROVE  TurnInv'
<1>1. SocketsInRange'
  BY DEF TurnInv, SocketsInRange, Turn!Close
<1>2. SUFFICES ASSUME ~cutShort' PROVE OpenOnes' /\ LastCloses' /\ AllocatedOnes'
  BY <1>1 DEF TurnInv
<1>3. ~cutShort /\ (socket # 0 => bound)
  BY <1>2 DEF Turn!Close
<1> QED
  BY <1>2, <1>3 DEF TurnInv, OpenOnes, LastCloses, AllocatedOnes, Turn!Close, SocketsInRange

LEMMA RequestsKeepTurn ==
  ASSUME TurnInv, NEW kind, NEW peer, NEW channel, NEW then,
         Turn!Request(kind, peer, channel, then), UNCHANGED Turn!sockets,
         bound, state' \in {state, "pending"}
  PROVE  TurnInv'
BY AskedKeepsOpen DEF TurnInv, SocketsInRange, LastCloses, AllocatedOnes, Turn!sockets

LEMMA TurnKept ==
  ASSUME TurnInv, Turn!Next
  PROVE  TurnInv'
<1>1. ASSUME NEW allocates, Turn!Connect(allocates) PROVE TurnInv'
  <2>1. /\ ~bound /\ made' = made + 1 /\ socket' = made + 1
        /\ UNCHANGED <<closing, closed, bound, cutShort, state, requests>>
    BY <1>1 DEF Turn!Connect, Turn!Quiet
  <2>2. SocketsInRange'
    BY <2>1 DEF TurnInv, SocketsInRange
  <2> QED
    BY <2>1, <2>2 DEF TurnInv, OpenOnes, LastCloses, AllocatedOnes
<1>2. ASSUME NEW b \in binding, Turn!Bound(b) PROVE TurnInv'
  <2>1. bound' = TRUE /\ UNCHANGED <<socket, made, closing, closed, cutShort>>
    BY <1>2 DEF Turn!Bound
  <2>2. \/ UNCHANGED <<state, requests>>
        \/ state' = "pending" /\ Turn!Request("allocate", {}, 0, "nothing")
    BY <1>2 DEF Turn!Bound, Turn!AllocateNow, Turn!Quiet
  <2>3. OpenOnes => OpenOnes'
    BY <2>1, <2>2, AskedKeepsOpen DEF OpenOnes
  <2> QED
    BY <2>1, <2>2, <2>3 DEF TurnInv, SocketsInRange, LastCloses, AllocatedOnes
<1>3. ASSUME NEW b \in binding, Turn!ConnectTimesOut(b) PROVE TurnInv'
  BY <1>3 DEF Turn!ConnectTimesOut, Turn!Quiet, TurnInv, SocketsInRange, OpenOnes, LastCloses,
              AllocatedOnes
<1>4. ASSUME NEW s \in closing \ closed, Turn!Closed(s) PROVE TurnInv'
  <2>1. /\ closed' = closed \cup {s} /\ socket' = 0 /\ bound' = FALSE /\ state' = "none"
        /\ UNCHANGED <<made, closing, cutShort, requests>>
    BY <1>4 DEF Turn!Closed, Turn!Quiet
  <2>2. SocketsInRange'
    BY <1>4, <2>1 DEF TurnInv, SocketsInRange
  <2> QED
    BY <1>4, <2>1, <2>2 DEF TurnInv, OpenOnes, LastCloses, AllocatedOnes
<1>5. ASSUME Turn!Disconnect PROVE TurnInv'
  <2>1. CASE Turn!isAllocated
    <3>1. Turn!Request("refresh", {}, 0, "close") /\ UNCHANGED Turn!sockets /\ bound /\ UNCHANGED state
      BY <1>5, <2>1 DEF Turn!Disconnect
    <3> QED
      BY <3>1, RequestsKeepTurn
  <2>2. CASE ~Turn!isAllocated
    <3>1. Turn!Close /\ UNCHANGED <<requests, state>> /\ state # "active"
      BY <1>5, <2>2 DEF Turn!Disconnect, Turn!Quiet, Turn!isAllocated
    <3> QED
      BY <3>1, CloseKeepsTurn
  <2> QED
    BY <2>1, <2>2
<1>6. ASSUME Turn!Allocate PROVE TurnInv'
  <2>1. bound /\ UNCHANGED Turn!sockets
    BY <1>6 DEF Turn!Allocate
  <2>2. \/ UNCHANGED <<state, requests>>
        \/ state' = "pending" /\ Turn!Request("allocate", {}, 0, "nothing")
    BY <1>6 DEF Turn!Allocate, Turn!AllocateNow, Turn!Quiet
  <2>3. CASE UNCHANGED <<state, requests>>
    BY <2>1, <2>3 DEF TurnInv, SocketsInRange, OpenOnes, LastCloses, AllocatedOnes, Turn!sockets
  <2> QED
    BY <2>1, <2>2, <2>3, RequestsKeepTurn
<1>7. ASSUME NEW kind, NEW peer, NEW channel, NEW then, Turn!isAllocated,
             Turn!Request(kind, peer, channel, then), UNCHANGED Turn!sockets, UNCHANGED state
      PROVE  TurnInv'
  <2>1. CASE bound
    BY <1>7, <2>1, RequestsKeepTurn
  <2>2. CASE cutShort
    BY <1>7, <2>2 DEF TurnInv, SocketsInRange, Turn!sockets
  <2> QED
    BY <1>7, <2>1, <2>2 DEF TurnInv, AllocatedOnes, Turn!isAllocated
<1>8. ASSUME Turn!TimerFires, ~Turn!isAllocated PROVE TurnInv'
  BY <1>8 DEF Turn!TimerFires, Turn!Quiet, Turn!sockets, TurnInv, SocketsInRange, OpenOnes,
              LastCloses, AllocatedOnes
<1>9. ASSUME NEW r \in requests, Turn!Succeeds(r) PROVE TurnInv'
  <2>1. /\ r.socket \notin {0} \cup closing /\ requests' = requests \ {r}
        /\ state' \in {state, "active"}
        /\ Turn!Close \/ UNCHANGED Turn!sockets
    BY <1>9 DEF Turn!Succeeds, Turn!Then
  <2>2. ~cutShort => bound /\ socket \notin closed \cup {0}
    BY <2>1 DEF TurnInv, OpenOnes, SocketsInRange
  <2>3. CASE Turn!Close
    <3>1. ~cutShort' => ~cutShort
      BY <2>3 DEF Turn!Close
    <3> QED
      BY <2>1, <2>2, <2>3, <3>1, CloseKeepsTurn
  <2>4. CASE UNCHANGED Turn!sockets
    BY <2>1, <2>2, <2>4 DEF Turn!sockets, TurnInv, SocketsInRange, OpenOnes, LastCloses,
                            AllocatedOnes
  <2> QED
    BY <2>1, <2>3, <2>4
<1>10. ASSUME NEW r \in requests, Turn!Fails(r) PROVE TurnInv'
  <2>1. /\ requests' = requests \ {r} /\ state' \in {state, "failed"}
        /\ Turn!Close \/ UNCHANGED Turn!sockets
    BY <1>10 DEF Turn!Fails, Turn!Then
  <2>2. CASE Turn!Close
    <3>1. ~cutShort' => (state' = "active" => bound /\ socket \notin closed \cup {0})
      BY <2>1, <2>2 DEF Turn!Close, TurnInv, AllocatedOnes
    <3> QED
      BY <2>1, <2>2, <3>1, CloseKeepsTurn
  <2>3. CASE UNCHANGED Turn!sockets
    BY <2>1, <2>3 DEF Turn!sockets, TurnInv, SocketsInRange, OpenOnes, LastCloses, AllocatedOnes
  <2> QED
    BY <2>1, <2>2, <2>3
<1>11. ASSUME Turn!Refresh \/ (Turn!TimerFires /\ Turn!isAllocated)
              \/ \E p \in Peers : \/ Turn!CreatePermission(p, "nothing")
                                  \/ Turn!BindChannel(p) \/ Turn!Send(p)
       PROVE  TurnInv'
  <2>1. /\ Turn!isAllocated /\ UNCHANGED Turn!sockets /\ UNCHANGED state
        /\ \E kind, peer, channel, then : Turn!Request(kind, peer, channel, then)
    BY <1>11 DEF Turn!Refresh, Turn!TimerFires, Turn!CreatePermission, Turn!BindChannel, Turn!Send
  <2> QED
    BY <1>7, <2>1
<1> QED
  BY <1>1, <1>2, <1>3, <1>4, <1>5, <1>6, <1>8, <1>9, <1>10, <1>11 DEF Turn!Next

-----------------------------------------------------------------------------
(* The mappings of the gateway, and the registry of services.                *)

Requests == [op : {"add", "added", "delete", "deleted"}, key : Ports \X Protocols,
             rest : SUBSET {"clean"}]

MapperTyped ==
    /\ mapper \in [NatCallers -> Requests \cup {[op |-> "idle"], [op |-> "cleaned"]}]
    /\ \A port \in DOMAIN listed : port \in Ports /\ listed[port] \in Protocols

MapsInv == MapperTyped /\ Gate!ListedIsKnown

LEMMA CleanIsTyped ==
  ASSUME MapsInv, NEW c \in NatCallers, NEW left, Gate!Clean(c, left),
         \A port \in DOMAIN left : port \in Ports /\ left[port] \in Protocols
  PROVE  mapper' \in [NatCallers -> Requests \cup {[op |-> "idle"], [op |-> "cleaned"]}]
<1>1. CASE mapper' = [mapper EXCEPT ![c] = [op |-> "cleaned"]]
  BY <1>1 DEF MapsInv, MapperTyped
<1>2. ASSUME NEW port \in DOMAIN left,
             mapper' = [mapper EXCEPT ![c] =
                          [op |-> "delete", key |-> <<port, left[port]>>, rest |-> {"clean"}]]
      PROVE  mapper' \in [NatCallers -> Requests \cup {[op |-> "idle"], [op |-> "cleaned"]}]
  <2>1. [op |-> "delete", key |-> <<port, left[port]>>, rest |-> {"clean"}] \in Requests
    BY DEF Requests
  <2> QED
    BY <1>2, <2>1 DEF MapsInv, MapperTyped
<1> QED
  BY <1>1, <1>2 DEF Gate!Clean, Gate!Mapper

LEMMA AnsweredKeepsMaps ==
  ASSUME MapsInv, NEW c \in NatCallers, Gate!Answered(c)
  PROVE  MapsInv'
<1> DEFINE key == mapper[c].key
<1>1. key = <<key[1], key[2]>> /\ key[1] \in Ports /\ key[2] \in Protocols
  BY DEF MapsInv, MapperTyped, Requests, Gate!Answered
<1> HIDE DEF key
<1>2. CASE /\ known' = known \cup {key}
           /\ listed' = [port \in DOMAIN listed \cup {key[1]} |->
                            IF port = key[1] THEN key[2] ELSE listed[port]]
           /\ mapper' = [mapper EXCEPT ![c] = Gate!Idle]
  <2>1. MapperTyped'
    BY <1>1, <1>2 DEF MapsInv, MapperTyped, Gate!Idle
  <2>2. Gate!ListedIsKnown'
    BY <1>1, <1>2 DEF MapsInv, Gate!ListedIsKnown
  <2> QED
    BY <2>1, <2>2 DEF MapsInv
<1>3. CASE /\ known' = known \ {key}
           /\ listed' = [port \in DOMAIN listed \ {key[1]} |-> listed[port]]
           /\ \/ mapper' = [mapper EXCEPT ![c] = Gate!Idle]
              \/ \E left : left = listed' /\ Gate!Clean(c, left)
  <2>1. \A port \in DOMAIN listed' : port \in Ports /\ listed'[port] \in Protocols
    BY <1>3 DEF MapsInv, MapperTyped
  <2>2. mapper' \in [NatCallers -> Requests \cup {[op |-> "idle"], [op |-> "cleaned"]}]
    <3>1. CASE mapper' = [mapper EXCEPT ![c] = Gate!Idle]
      BY <3>1 DEF MapsInv, MapperTyped, Gate!Idle
    <3>2. CASE \E left : left = listed' /\ Gate!Clean(c, left)
      BY <2>1, <3>2, CleanIsTyped
    <3> QED
      BY <1>3, <3>1, <3>2
  <2>3. Gate!ListedIsKnown'
    BY <1>1, <1>3 DEF MapsInv, Gate!ListedIsKnown
  <2> QED
    BY <2>1, <2>2, <2>3 DEF MapsInv, MapperTyped
<1> QED
  BY <1>2, <1>3 DEF Gate!Answered, Gate!Unlisted, Gate!Restrict, Gate!Mapper, key

\* A call that waits for the gateway changes neither list.
LEMMA WaitingKeepsMaps ==
  ASSUME MapsInv, UNCHANGED <<listed, known>>,
         \/ UNCHANGED mapper
         \/ \E c \in NatCallers, m \in Requests \cup {[op |-> "idle"]} :
              mapper' = [mapper EXCEPT ![c] = m]
         \/ \E c \in NatCallers : Gate!Clean(c, listed)
  PROVE  MapsInv'
<1>1. Gate!ListedIsKnown'
  BY DEF MapsInv, Gate!ListedIsKnown
<1>2. mapper' \in [NatCallers -> Requests \cup {[op |-> "idle"], [op |-> "cleaned"]}]
  <2>1. CASE UNCHANGED mapper
    BY <2>1 DEF MapsInv, MapperTyped
  <2>2. ASSUME NEW c \in NatCallers, NEW m \in Requests \cup {[op |-> "idle"]},
               mapper' = [mapper EXCEPT ![c] = m]
        PROVE  mapper' \in [NatCallers -> Requests \cup {[op |-> "idle"], [op |-> "cleaned"]}]
    BY <2>2 DEF MapsInv, MapperTyped
  <2>3. ASSUME NEW c \in NatCallers, Gate!Clean(c, listed)
        PROVE  mapper' \in [NatCallers -> Requests \cup {[op |-> "idle"], [op |-> "cleaned"]}]
    BY <2>3, CleanIsTyped DEF MapsInv, MapperTyped
  <2> QED
    BY <2>1, <2>2, <2>3
<1> QED
  BY <1>1, <1>2 DEF MapsInv, MapperTyped

LEMMA MapsKept ==
  ASSUME MapsInv, Gate!MapNext \/ \E c \in NatCallers : Gate!cleanup(c)
  PROVE  MapsInv'
<1>1. ASSUME NEW c \in NatCallers, Gate!cleanup(c) PROVE MapsInv'
  BY <1>1, WaitingKeepsMaps DEF Gate!cleanup
<1>2. ASSUME NEW c \in NatCallers, NEW port \in Ports, NEW protocol \in Protocols,
             Gate!createMapping(c, port, protocol) \/ Gate!removeMapping(c, port, protocol)
      PROVE  MapsInv'
  <2>1. \A op \in {"add", "delete"} :
           [op |-> op, key |-> <<port, protocol>>, rest |-> {}] \in Requests
    BY DEF Requests
  <2>2. \E op \in {"add", "delete"} :
           mapper' = [mapper EXCEPT ![c] = [op |-> op, key |-> <<port, protocol>>, rest |-> {}]]
    BY <1>2 DEF Gate!createMapping, Gate!removeMapping, Gate!Mapper
  <2> QED
    BY <1>2, <2>1, <2>2, WaitingKeepsMaps DEF Gate!createMapping, Gate!removeMapping
<1>3. ASSUME NEW c \in NatCallers, Gate!RequestFails(c) \/ Gate!AnswerIsLost(c)
      PROVE  MapsInv'
  BY <1>3, WaitingKeepsMaps
     DEF Gate!RequestFails, Gate!AnswerIsLost, Gate!Mapper, Gate!Idle
<1>4. ASSUME NEW c \in NatCallers, Gate!GatewayActs(c) PROVE MapsInv'
  <2>1. mapper[c] \in Requests
    BY <1>4 DEF Gate!GatewayActs, MapsInv, MapperTyped
  <2>2. \E op \in {"added", "deleted"} : mapper' = [mapper EXCEPT ![c] = [mapper[c] EXCEPT !.op = op]]
    BY <1>4, <2>1 DEF Gate!GatewayActs, Gate!Mapper, Requests
  <2>3. \A op \in {"added", "deleted"} : [mapper[c] EXCEPT !.op = op] \in Requests
    BY <2>1 DEF Requests
  <2> QED
    BY <1>4, <2>2, <2>3, WaitingKeepsMaps DEF Gate!GatewayActs
<1>5. ASSUME NEW key, Gate!GatewayForgets(key) PROVE MapsInv'
  BY <1>5, WaitingKeepsMaps DEF Gate!GatewayForgets
<1> QED
  BY <1>1, <1>2, <1>3, <1>4, <1>5, AnsweredKeepsMaps DEF Gate!MapNext

ServicesTyped ==
    /\ \A id \in DOMAIN services : services[id] \in [type : ServiceKinds, expired : BOOLEAN]
    /\ byType \in [ServiceKinds -> SUBSET ServiceIds]

\* A service is under its type also while it has expired.
IndexInv ==
    ServicesTyped /\ \A id \in DOMAIN services : id \in byType[services[id].type]

LEMMA WithoutKeepsIndex ==
  ASSUME IndexInv, NEW ids, Disc!Without(ids)
  PROVE  IndexInv'
<1>1. /\ services' = [id \in DOMAIN services \ ids |-> services[id]]
      /\ byType' = [t \in ServiceKinds |->
           byType[t] \ {id \in ids \cap DOMAIN services : services[id].type = t}]
  BY DEF Disc!Without, Disc!Restrict
<1>2. ServicesTyped'
  BY <1>1 DEF IndexInv, ServicesTyped
<1> QED
  BY <1>1, <1>2 DEF IndexInv, ServicesTyped

LEMMA IndexKept ==
  ASSUME IndexInv, Disc!RegistryNext
  PROVE  IndexInv'
<1>1. ASSUME NEW id \in ServiceIds, NEW type \in ServiceKinds, NEW local, Disc!register(id, type, local)
      PROVE  IndexInv'
  <2>1. /\ services' = [x \in DOMAIN services \cup {id} |->
                          IF x = id THEN [type |-> type, expired |-> FALSE] ELSE services[x]]
        /\ byType' = [byType EXCEPT ![type] = @ \cup {id}]
    BY <1>1 DEF Disc!register, Disc!With, Disc!Indexed
  <2>2. ServicesTyped'
    BY <2>1 DEF IndexInv, ServicesTyped
  <2> QED
    BY <2>1, <2>2 DEF IndexInv, ServicesTyped
<1>2. ASSUME NEW id, NEW b \in BOOLEAN, id \in DOMAIN services,
             services' = [services EXCEPT ![id].expired = b], byType' = byType
      PROVE  IndexInv'
  <2>1. services[id] \in [type : ServiceKinds, expired : BOOLEAN]
    BY <1>2 DEF IndexInv, ServicesTyped
  <2>2. /\ DOMAIN services' = DOMAIN services
        /\ \A x \in DOMAIN services :
             services'[x] = IF x = id THEN [services[id] EXCEPT !.expired = b] ELSE services[x]
    BY <1>2, <2>1
  <2>3. \A x \in DOMAIN services : /\ services'[x] \in [type : ServiceKinds, expired : BOOLEAN]
                                   /\ services'[x].type = services[x].type
    BY <2>1, <2>2 DEF IndexInv, ServicesTyped
  <2> QED
    BY <1>2, <2>2, <2>3 DEF IndexInv, ServicesTyped
<1>3. ASSUME NEW id, Disc!RegisteredLocal(id) PROVE IndexInv'
  BY <1>3 DEF Disc!RegisteredLocal, IndexInv, ServicesTyped
<1> QED
  BY <1>1, <1>2, <1>3, WithoutKeepsIndex
     DEF Disc!RegistryNext, Disc!unregister, Disc!Expires, Disc!heartbeat,
         Disc!checkExpiredServices

-----------------------------------------------------------------------------
(* Plugins.  A call that no other overlaps finds under its id the plugin that*)
(* it has stopped, or nothing: so it takes away none that runs.              *)

PlugPhases == {"idle", "load", "start", "stop", "visit"}

PlugCalls == [op : {"none", "load", "loadAll", "start", "stop", "unload", "reload", "shutdown"},
              phase : PlugPhases, id : Dirs \cup {"none"}, inst : Plug!Instances \cup {0},
              visited : SUBSET Dirs, alone : BOOLEAN]

PlugTyped ==
    /\ plugins \in [Dirs -> Plug!Instances \cup {0}]
    /\ pluginState \in [Plug!Instances -> Plug!States]
    /\ live \subseteq Plug!Instances
    /\ pluginCalls \in [LoaderCalls -> PlugCalls]

\* A call that starts or stops plugin i.
Works(k, i) == pluginCalls[k].phase \in {"start", "stop"} /\ pluginCalls[k].inst = i

FreshOnes == \A i \in Plug!Instances : pluginState[i] = "unloaded" =>
    /\ i \notin live
    /\ \A d \in Dirs : plugins[d] # i
    /\ \A k \in LoaderCalls : ~Works(k, i)

PlacesApart == \A d, e \in Dirs : plugins[d] = plugins[e] /\ plugins[d] # 0 => d = e

LiveStateful == \A d \in Dirs : plugins[d] \in live => d \in Stateful

LiveRuns == \A i \in live \ failed : pluginState[i] = "running" \/ \E k \in LoaderCalls : Works(k, i)

AloneOnes == \A k \in LoaderCalls : pluginCalls[k].alone /\ pluginCalls[k] # Plug!NoCall =>
    \A j \in LoaderCalls \ {k} : pluginCalls[j] = Plug!NoCall

StartsListed == \A k \in LoaderCalls : pluginCalls[k].phase = "start" =>
    /\ pluginCalls[k].inst \in Plug!Instances
    /\ \A d \in Dirs : plugins[d] = pluginCalls[k].inst => d \in Stateful
    /\ \/ pluginCalls[k].inst \in lostPlugins
       \/ \E d \in Dirs : plugins[d] = pluginCalls[k].inst

StopsListed == \A k \in LoaderCalls : pluginCalls[k].phase = "stop" =>
    /\ pluginCalls[k].inst \in Plug!Instances /\ pluginCalls[k].id \in Dirs
    /\ pluginCalls[k].alone => plugins[pluginCalls[k].id] \in {0, pluginCalls[k].inst}

LoadsPlaced == \A k \in LoaderCalls : pluginCalls[k].phase = "load" => pluginCalls[k].id \in Dirs

VisitedStopped == \A k \in LoaderCalls :
    pluginCalls[k].alone /\ pluginCalls[k].phase \in {"visit", "stop"} =>
        \A d \in pluginCalls[k].visited : plugins[d] \in live => plugins[d] \in failed

PlugInv ==
    /\ PlugTyped /\ FreshOnes /\ PlacesApart /\ LiveStateful /\ LiveRuns /\ AloneOnes
    /\ StartsListed /\ StopsListed /\ LoadsPlaced /\ VisitedStopped /\ Plug!LiveIsListed

\* What a call that begins leaves of the others: they are not alone any more.
LEMMA BeginsCall ==
  ASSUME PlugTyped, NEW k \in LoaderCalls,
         NEW op \in {"load", "loadAll", "start", "stop", "unload", "reload", "shutdown"},
         NEW phase \in PlugPhases \ {"idle"}, NEW id \in Dirs \cup {"none"},
         Plug!Begin(k, op, phase, id)
  PROVE  /\ pluginCalls' \in [LoaderCalls -> PlugCalls]
         /\ pluginCalls[k] = Plug!NoCall
         /\ pluginCalls'[k].phase = phase /\ pluginCalls'[k].id = id
         /\ id \in Dirs => pluginCalls'[k].inst = plugins[id]
         /\ pluginCalls'[k].visited = {}
         /\ \A j \in LoaderCalls \ {k} :
              /\ pluginCalls'[j].phase = pluginCalls[j].phase /\ pluginCalls'[j].id = pluginCalls[j].id
              /\ pluginCalls'[j].inst = pluginCalls[j].inst
              /\ pluginCalls[j].phase # "idle" => ~pluginCalls'[j].alone
         /\ AloneOnes'
<1> DEFINE new == [op |-> op, phase |-> phase, id |-> id,
                   inst |-> IF id \in Dirs THEN plugins[id] ELSE 0,
                   visited |-> {}, alone |-> ~Plug!Busy(k)]
           cut(j) == [pluginCalls[j] EXCEPT !.alone = pluginCalls[j] = Plug!NoCall]
<1>1. /\ pluginCalls[k] = Plug!NoCall
      /\ pluginCalls' = [j \in LoaderCalls |-> IF j = k THEN new ELSE cut(j)]
  BY DEF Plug!Begin
<1>2. Plug!Busy(k) \in BOOLEAN
  BY DEF Plug!Busy
<1>3. new \in PlugCalls
  <2>1. (IF id \in Dirs THEN plugins[id] ELSE 0) \in Plug!Instances \cup {0}
    BY DEF PlugTyped
  <2> QED
    BY <1>2, <2>1 DEF PlugCalls
<1>4. \A j \in LoaderCalls : pluginCalls[j] \in PlugCalls
  BY DEF PlugTyped
<1>5. ASSUME NEW j \in LoaderCalls
      PROVE  /\ cut(j) \in PlugCalls
             /\ cut(j).phase = pluginCalls[j].phase /\ cut(j).id = pluginCalls[j].id
             /\ cut(j).inst = pluginCalls[j].inst
             /\ cut(j).alone <=> pluginCalls[j] = Plug!NoCall
             /\ pluginCalls[j] = Plug!NoCall => cut(j) = Plug!NoCall
  <2>1. PICK c \in PlugCalls : c = pluginCalls[j]
    BY <1>4
  <2>2. PICK b \in BOOLEAN : b = (pluginCalls[j] = Plug!NoCall)
    OBVIOUS
  <2>3. cut(j) = [op |-> c.op, phase |-> c.phase, id |-> c.id, inst |-> c.inst,
                  visited |-> c.visited, alone |-> b]
    BY <2>1, <2>2 DEF PlugCalls
  <2>4. cut(j) \in PlugCalls /\ cut(j).phase = c.phase /\ cut(j).id = c.id
        /\ cut(j).inst = c.inst /\ cut(j).alone = b
    <3> HIDE DEF cut
    <3> QED
      BY <2>1, <2>2, <2>3 DEF PlugCalls
  <2>5. ASSUME pluginCalls[j] = Plug!NoCall PROVE cut(j) = Plug!NoCall
    <3>1. c.op = "none" /\ c.phase = "idle" /\ c.id = "none" /\ c.inst = 0 /\ c.visited = {}
      BY <2>1, <2>5 DEF Plug!NoCall
    <3>2. b = TRUE
      BY <2>2, <2>5
    <3> HIDE DEF cut
    <3> QED
      BY <2>3, <3>1, <3>2 DEF Plug!NoCall
  <2> HIDE DEF cut
  <2> QED
    BY <2>1, <2>2, <2>4, <2>5
<1>6. /\ new.phase = phase /\ new.id = id /\ new.visited = {} /\ (new.alone <=> ~Plug!Busy(k))
      /\ id \in Dirs => new.inst = plugins[id]
  OBVIOUS
<1> HIDE DEF new, cut
<1>7. /\ pluginCalls'[k] = new
      /\ \A j \in LoaderCalls \ {k} : pluginCalls'[j] = cut(j)
  BY <1>1
<1>8. Plug!NoCall.phase = "idle"
  BY DEF Plug!NoCall
<1>9. AloneOnes'
  <2> SUFFICES ASSUME NEW i \in LoaderCalls, pluginCalls'[i].alone, pluginCalls'[i] # Plug!NoCall,
                      NEW j \in LoaderCalls \ {i}
               PROVE  pluginCalls'[j] = Plug!NoCall
    BY DEF AloneOnes
  <2>1. i = k
    BY <1>5, <1>7
  <2> QED
    BY <2>1, <1>5, <1>6, <1>7 DEF Plug!Busy
<1>10. pluginCalls' \in [LoaderCalls -> PlugCalls]
  BY <1>1, <1>3, <1>5
<1> QED
  BY <1>1, <1>5, <1>6, <1>7, <1>8, <1>9, <1>10

\* A call in progress moves on: none of the others is alone.
LEMMA CallMoves ==
  ASSUME PlugTyped, AloneOnes, NEW k \in LoaderCalls, pluginCalls[k].phase # "idle",
         NEW c \in PlugCalls, c = Plug!NoCall \/ c.alone = pluginCalls[k].alone,
         pluginCalls' = [pluginCalls EXCEPT ![k] = c]
  PROVE  /\ pluginCalls' \in [LoaderCalls -> PlugCalls] /\ AloneOnes'
         /\ pluginCalls'[k] = c
         /\ \A j \in LoaderCalls \ {k} :
              /\ pluginCalls'[j] = pluginCalls[j]
              /\ pluginCalls[j].alone => pluginCalls[j].phase = "idle"
         /\ (\E j \in LoaderCalls \ {k} : pluginCalls[j].phase # "idle") => Plug!Busy(k)
<1>1. Plug!NoCall.phase = "idle"
  BY DEF Plug!NoCall
<1>2. /\ pluginCalls' \in [LoaderCalls -> PlugCalls] /\ pluginCalls'[k] = c
      /\ \A j \in LoaderCalls \ {k} : pluginCalls'[j] = pluginCalls[j]
  BY DEF PlugTyped
<1>3. \A j \in LoaderCalls \ {k} : pluginCalls[j].alone => pluginCalls[j].phase = "idle"
  BY <1>1 DEF AloneOnes
<1>4. AloneOnes'
  BY <1>1, <1>2 DEF AloneOnes
<1>5. (\E j \in LoaderCalls \ {k} : pluginCalls[j].phase # "idle") => Plug!Busy(k)
  BY <1>1 DEF Plug!Busy
<1> QED
  BY <1>2, <1>3, <1>4, <1>5

LEMMA NoCallTyped == Plug!NoCall \in PlugCalls /\ Plug!NoCall.phase = "idle"
  BY DEF Plug!NoCall, PlugCalls, PlugPhases

LEMMA InstancesNotZero == 0 \notin Plug!Instances
  BY DEF Plug!Instances

\* A call that only begins, to load or to visit the plugins.
LEMMA BeginKeepsPlug ==
  ASSUME PlugInv, NEW k \in LoaderCalls, NEW op \in {"load", "loadAll", "reload", "shutdown"},
         NEW phase \in {"load", "visit"}, NEW id \in Dirs \cup {"none"},
         phase = "load" => id \in Dirs, Plug!Begin(k, op, phase, id),
         UNCHANGED <<plugins, pluginState, live, failed, lostPlugins>>
  PROVE  PlugInv'
<1>1. /\ PlugTyped /\ FreshOnes /\ PlacesApart /\ LiveStateful /\ LiveRuns /\ StartsListed
      /\ StopsListed /\ LoadsPlaced /\ VisitedStopped /\ Plug!LiveIsListed
  BY DEF PlugInv
<1>2. /\ pluginCalls' \in [LoaderCalls -> PlugCalls]
      /\ pluginCalls[k] = Plug!NoCall
      /\ pluginCalls'[k].phase = phase /\ pluginCalls'[k].id = id
      /\ pluginCalls'[k].visited = {}
      /\ \A j \in LoaderCalls \ {k} :
           /\ pluginCalls'[j].phase = pluginCalls[j].phase /\ pluginCalls'[j].id = pluginCalls[j].id
           /\ pluginCalls'[j].inst = pluginCalls[j].inst
           /\ pluginCalls[j].phase # "idle" => ~pluginCalls'[j].alone
      /\ AloneOnes'
  BY <1>1, BeginsCall DEF PlugPhases
<1>3. PlugTyped' /\ PlacesApart' /\ LiveStateful' /\ Plug!LiveIsListed'
  BY <1>1, <1>2 DEF PlugTyped, PlacesApart, LiveStateful, Plug!LiveIsListed
<1>4. \A j \in LoaderCalls : \A i : Works(j, i)' <=> Works(j, i)
  BY <1>2, NoCallTyped DEF Works
<1>5. FreshOnes' /\ LiveRuns'
  BY <1>1, <1>4 DEF FreshOnes, LiveRuns
<1>6. StartsListed'
  BY <1>1, <1>2 DEF StartsListed
<1>7. StopsListed' /\ LoadsPlaced'
  BY <1>1, <1>2 DEF StopsListed, LoadsPlaced
<1>8. VisitedStopped'
  BY <1>1, <1>2 DEF VisitedStopped
<1> QED
  BY <1>2, <1>3, <1>5, <1>6, <1>7, <1>8 DEF PlugInv

\* A call that begins to start or to stop what it has found under an id.
LEMMA WorkKeepsPlug ==
  ASSUME PlugInv, NEW k \in LoaderCalls, NEW op \in {"start", "stop", "unload"},
         NEW phase \in {"start", "stop"}, NEW id \in Dirs, plugins[id] # 0, id \in Stateful,
         Plug!Begin(k, op, phase, id), NEW to \in {"starting", "stopping"},
         pluginState' = [pluginState EXCEPT ![plugins[id]] = to],
         UNCHANGED <<plugins, live, failed, lostPlugins>>
  PROVE  PlugInv'
<1>1. /\ PlugTyped /\ FreshOnes /\ PlacesApart /\ LiveStateful /\ LiveRuns /\ StartsListed
      /\ StopsListed /\ LoadsPlaced /\ VisitedStopped /\ Plug!LiveIsListed
  BY DEF PlugInv
<1>2. /\ pluginCalls' \in [LoaderCalls -> PlugCalls]
      /\ pluginCalls[k] = Plug!NoCall
      /\ pluginCalls'[k].phase = phase /\ pluginCalls'[k].id = id
      /\ pluginCalls'[k].inst = plugins[id] /\ pluginCalls'[k].visited = {}
      /\ \A j \in LoaderCalls \ {k} :
           /\ pluginCalls'[j].phase = pluginCalls[j].phase /\ pluginCalls'[j].id = pluginCalls[j].id
           /\ pluginCalls'[j].inst = pluginCalls[j].inst
           /\ pluginCalls[j].phase # "idle" => ~pluginCalls'[j].alone
      /\ AloneOnes'
  BY <1>1, BeginsCall DEF PlugPhases
<1>0. PICK i \in Plug!Instances : i = plugins[id]
  BY <1>1 DEF PlugTyped
<1>3. /\ pluginState' \in [Plug!Instances -> Plug!States] /\ pluginState'[i] = to
      /\ \A x \in Plug!Instances \ {i} : pluginState'[x] = pluginState[x]
  BY <1>0, <1>1 DEF PlugTyped, Plug!States
<1>4. PlugTyped' /\ PlacesApart' /\ LiveStateful' /\ Plug!LiveIsListed'
  BY <1>1, <1>2, <1>3 DEF PlugTyped, PlacesApart, LiveStateful, Plug!LiveIsListed
<1>5. /\ \A j \in LoaderCalls, x \in Plug!Instances \ {i} : Works(j, x)' <=> Works(j, x)
      /\ Works(k, i)'
  BY <1>0, <1>2, NoCallTyped DEF Works
<1>6. FreshOnes' /\ LiveRuns'
  <2>1. FreshOnes'
    BY <1>1, <1>3, <1>5 DEF FreshOnes
  <2>2. LiveRuns'
    BY <1>1, <1>3, <1>5 DEF LiveRuns, PlugTyped
  <2> QED
    BY <2>1, <2>2
<1>7. StartsListed'
  BY <1>0, <1>1, <1>2 DEF StartsListed, PlacesApart
<1>8. StopsListed' /\ LoadsPlaced'
  BY <1>0, <1>1, <1>2 DEF StopsListed, LoadsPlaced
<1>9. VisitedStopped'
  BY <1>1, <1>2 DEF VisitedStopped
<1> QED
  BY <1>2, <1>4, <1>6, <1>7, <1>8, <1>9 DEF PlugInv

\* Plugins that a call takes away are excused, or it was alone and none runs.
LEMMA RemovedAreExcused ==
  ASSUME PlugInv, NEW k \in LoaderCalls, NEW removed, Plug!Lost(k, removed),
         live' \subseteq live,
         \A d \in Dirs : plugins'[d] # plugins[d] =>
             /\ plugins'[d] = 0 /\ plugins[d] \in removed
             /\ \/ plugins[d] \notin live'
                \/ ~pluginCalls[k].alone \/ Plug!Busy(k) \/ plugins[d] \in failed
  PROVE  /\ Plug!LiveIsListed' /\ lostPlugins \subseteq lostPlugins'
         /\ Plug!Busy(k) => \A d \in Dirs : \/ plugins[d] \in lostPlugins'
                                            \/ plugins'[d] = plugins[d]
<1>1. \A i \in removed : \/ i \in lostPlugins'
                         \/ pluginCalls[k].alone /\ ~Plug!Busy(k) /\ i \notin failed
  BY DEF Plug!Lost
<1>2. lostPlugins \subseteq lostPlugins'
  BY DEF Plug!Lost
<1> QED
  BY <1>1, <1>2 DEF PlugInv, Plug!LiveIsListed

LEMMA UnloadKeepsPlug ==
  ASSUME PlugInv, NEW k \in LoaderCalls, NEW id \in Dirs, plugins[id] # 0, ~Plug!MustStop(id),
         pluginCalls[k] = Plug!NoCall, plugins' = [plugins EXCEPT ![id] = 0],
         Plug!Lost(k, {plugins[id]}), UNCHANGED <<pluginCalls, pluginState, live, failed>>
  PROVE  PlugInv'
<1>1. /\ PlugTyped /\ FreshOnes /\ PlacesApart /\ LiveStateful /\ LiveRuns /\ AloneOnes
      /\ StartsListed /\ StopsListed /\ LoadsPlaced /\ VisitedStopped
  BY DEF PlugInv
<1>2. \A j \in LoaderCalls : pluginCalls[j].phase # "idle" => Plug!Busy(k)
  BY NoCallTyped DEF Plug!Busy
<1>3. /\ plugins' \in [Dirs -> Plug!Instances \cup {0}] /\ plugins'[id] = 0
      /\ \A d \in Dirs \ {id} : plugins'[d] = plugins[d]
  BY <1>1 DEF PlugTyped
<1>4. plugins[id] \in live => Plug!Busy(k) \/ plugins[id] \in failed
  BY <1>1, <1>2 DEF LiveStateful, LiveRuns, Works, Plug!MustStop
<1>5. /\ Plug!LiveIsListed' /\ lostPlugins \subseteq lostPlugins'
      /\ Plug!Busy(k) => \A d \in Dirs : \/ plugins[d] \in lostPlugins'
                                         \/ plugins'[d] = plugins[d]
  BY <1>3, <1>4, RemovedAreExcused
<1>6. PlugTyped' /\ PlacesApart' /\ LiveRuns' /\ AloneOnes' /\ LoadsPlaced'
  BY <1>1, <1>3 DEF PlugTyped, PlacesApart, LiveRuns, AloneOnes, LoadsPlaced, Works
<1>7. FreshOnes' /\ LiveStateful'
  BY <1>1, <1>3, InstancesNotZero DEF FreshOnes, LiveStateful, Works, PlugTyped
<1>8. StartsListed'
  BY <1>1, <1>2, <1>3, <1>5, InstancesNotZero DEF StartsListed
<1>9. StopsListed' /\ VisitedStopped'
  BY <1>1, <1>3, InstancesNotZero DEF StopsListed, VisitedStopped, PlugTyped
<1> QED
  BY <1>5, <1>6, <1>7, <1>8, <1>9 DEF PlugInv

\* The calls of LoadNext() and End().
LEMMA GoesToLoad ==
  ASSUME PlugInv, NEW k \in LoaderCalls, pluginCalls[k].phase # "idle", NEW visited \in SUBSET Dirs,
         Plug!End(k) \/ Plug!LoadNext(k, visited)
  PROVE  \E c \in PlugCalls :
            /\ pluginCalls' = [pluginCalls EXCEPT ![k] = c]
            /\ c = Plug!NoCall \/ c.alone = pluginCalls[k].alone
            /\ c.phase \in {"idle", "load"} /\ (c.phase = "load" => c.id \in Dirs)
<1>1. CASE Plug!End(k)
  BY <1>1, NoCallTyped DEF Plug!End
<1>2. CASE Plug!LoadNext(k, visited)
  <2>1. PICK id \in Dirs : pluginCalls' =
           [pluginCalls EXCEPT ![k] = [@ EXCEPT !.visited = visited, !.id = id, !.phase = "load"]]
    BY <1>2 DEF Plug!LoadNext
  <2>2. PICK c \in PlugCalls : c = pluginCalls[k]
    BY DEF PlugInv, PlugTyped
  <2>3. PICK new : new = [c EXCEPT !.visited = visited, !.id = id, !.phase = "load"]
    OBVIOUS
  <2>4. new \in PlugCalls /\ new.phase = "load" /\ new.id = id /\ new.alone = c.alone
    BY <2>3 DEF PlugCalls, PlugPhases
  <2>5. pluginCalls' = [pluginCalls EXCEPT ![k] = new]
    BY <2>1, <2>2, <2>3 DEF PlugInv, PlugTyped
  <2> QED
    BY <2>2, <2>4, <2>5
<1> QED
  BY <1>1, <1>2

LEMMA LoadKeepsPlug ==
  ASSUME PlugInv, NEW k \in LoaderCalls, Plug!LoadEnds(k)
  PROVE  PlugInv'
<1> DEFINE id == pluginCalls[k].id
<1>1. /\ PlugTyped /\ FreshOnes /\ PlacesApart /\ LiveStateful /\ LiveRuns /\ AloneOnes
      /\ StartsListed /\ StopsListed /\ LoadsPlaced /\ VisitedStopped /\ Plug!LiveIsListed
  BY DEF PlugInv
<1>2. pluginCalls[k].phase = "load" /\ id \in Dirs /\ UNCHANGED <<live, failed>>
  BY <1>1 DEF Plug!LoadEnds, LoadsPlaced
<1>3. pluginCalls[k].visited \cup {id} \in SUBSET Dirs
  BY <1>1, <1>2 DEF PlugTyped, PlugCalls
<1>4. PICK c \in PlugCalls :
         /\ pluginCalls' = [pluginCalls EXCEPT ![k] = c]
         /\ c = Plug!NoCall \/ c.alone = pluginCalls[k].alone
         /\ c.phase \in {"idle", "load"} /\ (c.phase = "load" => c.id \in Dirs)
  <2>1. Plug!End(k) \/ Plug!LoadNext(k, pluginCalls[k].visited \cup {id})
    BY DEF Plug!LoadEnds
  <2> QED
    BY <1>2, <1>3, <2>1, GoesToLoad
<1>5. /\ pluginCalls' \in [LoaderCalls -> PlugCalls] /\ AloneOnes'
      /\ pluginCalls'[k] = c
      /\ \A j \in LoaderCalls \ {k} :
           /\ pluginCalls'[j] = pluginCalls[j]
           /\ pluginCalls[j].alone => pluginCalls[j].phase = "idle"
  BY <1>1, <1>2, <1>4, CallMoves
<1>6. \A j \in LoaderCalls : \A i : Works(j, i)' <=> Works(j, i)
  BY <1>2, <1>4, <1>5 DEF Works
<1>7. LoadsPlaced'
  BY <1>1, <1>4, <1>5 DEF LoadsPlaced
<1>8. VisitedStopped'
  BY <1>4, <1>5 DEF VisitedStopped
<1>9. CASE UNCHANGED <<plugins, pluginState, lostPlugins>>
  <2>1. PlugTyped' /\ PlacesApart' /\ LiveStateful' /\ Plug!LiveIsListed'
    BY <1>1, <1>2, <1>5, <1>9 DEF PlugTyped, PlacesApart, LiveStateful, Plug!LiveIsListed
  <2>2. FreshOnes' /\ LiveRuns'
    BY <1>1, <1>2, <1>6, <1>9 DEF FreshOnes, LiveRuns
  <2>3. StartsListed' /\ StopsListed'
    BY <1>1, <1>4, <1>5, <1>9 DEF StartsListed, StopsListed
  <2> QED
    BY <1>5, <1>7, <1>8, <2>1, <2>2, <2>3 DEF PlugInv
<1>10. ASSUME NEW i \in Plug!Instances, pluginState[i] = "unloaded",
              plugins' = [plugins EXCEPT ![id] = i],
              pluginState' = [pluginState EXCEPT ![i] = "loaded"],
              lostPlugins' = lostPlugins \cup ({plugins[id]} \ {0})
       PROVE  PlugInv'
  <2>1. /\ i \notin live /\ \A d \in Dirs : plugins[d] # i
        /\ \A j \in LoaderCalls : ~Works(j, i)
    BY <1>1, <1>10 DEF FreshOnes
  <2>2. /\ plugins' \in [Dirs -> Plug!Instances \cup {0}] /\ plugins'[id] = i
        /\ \A d \in Dirs \ {id} : plugins'[d] = plugins[d]
        /\ pluginState' \in [Plug!Instances -> Plug!States] /\ pluginState'[i] = "loaded"
        /\ \A x \in Plug!Instances \ {i} : pluginState'[x] = pluginState[x]
    BY <1>1, <1>2, <1>10 DEF PlugTyped, Plug!States
  <2> HIDE DEF id
  <2>3. PlugTyped' /\ PlacesApart' /\ LiveStateful'
    BY <1>1, <1>2, <1>5, <2>1, <2>2 DEF PlugTyped, PlacesApart, LiveStateful
  <2>4. Plug!LiveIsListed'
    BY <1>1, <1>2, <1>10, <2>2, InstancesNotZero DEF PlugTyped, Plug!LiveIsListed
  <2>5. FreshOnes' /\ LiveRuns'
    BY <1>1, <1>2, <1>6, <2>1, <2>2 DEF PlugTyped, FreshOnes, LiveRuns
  <2>6. StartsListed'
    <3> SUFFICES ASSUME NEW j \in LoaderCalls, pluginCalls'[j].phase = "start"
                 PROVE  /\ pluginCalls'[j].inst \in Plug!Instances
                        /\ \A d \in Dirs : plugins'[d] = pluginCalls'[j].inst => d \in Stateful
                        /\ \/ pluginCalls'[j].inst \in lostPlugins'
                           \/ \E d \in Dirs : plugins'[d] = pluginCalls'[j].inst
      BY DEF StartsListed
    <3>1. j # k /\ pluginCalls'[j] = pluginCalls[j]
      BY <1>4, <1>5
    <3>2. pluginCalls[j].inst # i
      BY <2>1, <3>1 DEF Works
    <3> QED
      BY <1>1, <1>10, <2>2, <3>1, <3>2, InstancesNotZero DEF StartsListed
  <2>7. StopsListed'
    BY <1>1, <1>4, <1>5 DEF StopsListed
  <2> QED
    BY <1>5, <1>7, <1>8, <2>3, <2>4, <2>5, <2>6, <2>7 DEF PlugInv
<1> QED
  BY <1>9, <1>10 DEF Plug!LoadEnds

LEMMA StartEndsKeepsPlug ==
  ASSUME PlugInv, NEW k \in LoaderCalls, Plug!StartEnds(k)
  PROVE  PlugInv'
<1>1. /\ PlugTyped /\ FreshOnes /\ PlacesApart /\ LiveStateful /\ LiveRuns /\ AloneOnes
      /\ StartsListed /\ StopsListed /\ LoadsPlaced /\ VisitedStopped /\ Plug!LiveIsListed
  BY DEF PlugInv
<1>2. pluginCalls[k].phase = "start" /\ Plug!End(k) /\ UNCHANGED <<plugins, lostPlugins>>
  BY DEF Plug!StartEnds
<1>3. PICK i \in Plug!Instances : i = pluginCalls[k].inst
  BY <1>1, <1>2 DEF StartsListed
<1>4. /\ pluginCalls' \in [LoaderCalls -> PlugCalls] /\ AloneOnes'
      /\ pluginCalls'[k] = Plug!NoCall
      /\ \A j \in LoaderCalls \ {k} :
           /\ pluginCalls'[j] = pluginCalls[j]
           /\ pluginCalls[j].alone => pluginCalls[j].phase = "idle"
  BY <1>1, <1>2, CallMoves, NoCallTyped DEF Plug!End
<1>5. \E to \in {"running", "error"} :
         /\ pluginState' = [pluginState EXCEPT ![i] = to]
         /\ IF to = "running" THEN live' = live \cup {i} /\ UNCHANGED failed
                              ELSE failed' = failed \cup {i} /\ UNCHANGED live
  BY <1>3 DEF Plug!StartEnds
<1>6. /\ pluginState' \in [Plug!Instances -> Plug!States]
      /\ \A x \in Plug!Instances \ {i} : pluginState'[x] = pluginState[x]
      /\ pluginState'[i] # "unloaded"
      /\ \/ pluginState'[i] = "running" /\ live' = live \cup {i} /\ failed' = failed
         \/ i \in failed' /\ failed' = failed \cup {i} /\ live' = live
  BY <1>1, <1>5 DEF PlugTyped, Plug!States
<1>7. \A j \in LoaderCalls, x \in Plug!Instances : Works(j, x)' => Works(j, x)
  BY <1>4, NoCallTyped DEF Works
<1>8. \A j \in LoaderCalls, x \in Plug!Instances \ {i} : Works(j, x)' <=> Works(j, x)
  BY <1>3, <1>4, NoCallTyped DEF Works
<1>9. PlugTyped' /\ PlacesApart' /\ LoadsPlaced'
  BY <1>1, <1>2, <1>4, <1>6, NoCallTyped DEF PlugTyped, PlacesApart, LoadsPlaced
<1>10. FreshOnes'
  BY <1>1, <1>2, <1>6, <1>7 DEF FreshOnes
<1>11. LiveRuns'
  BY <1>1, <1>6, <1>8 DEF LiveRuns, PlugTyped
<1>12. LiveStateful' /\ Plug!LiveIsListed'
  BY <1>1, <1>2, <1>3, <1>6 DEF LiveStateful, Plug!LiveIsListed, StartsListed
<1>13. StartsListed'
  BY <1>1, <1>2, <1>4, NoCallTyped DEF StartsListed
<1>14. StopsListed' /\ VisitedStopped'
  BY <1>1, <1>2, <1>4, NoCallTyped DEF StopsListed, VisitedStopped
<1> QED
  BY <1>4, <1>9, <1>10, <1>11, <1>12, <1>13, <1>14 DEF PlugInv

LEMMA StopNextKeepsPlug ==
  ASSUME PlugInv, NEW k \in LoaderCalls, Plug!StopNext(k)
  PROVE  PlugInv'
<1>1. /\ PlugTyped /\ FreshOnes /\ PlacesApart /\ LiveStateful /\ LiveRuns /\ AloneOnes
      /\ StartsListed /\ StopsListed /\ LoadsPlaced /\ VisitedStopped /\ Plug!LiveIsListed
  BY DEF PlugInv
<1>2. pluginCalls[k].phase = "visit" /\ UNCHANGED <<plugins, live, failed, lostPlugins>>
  BY DEF Plug!StopNext
<1>3. PICK c \in PlugCalls : c = pluginCalls[k]
  BY <1>1 DEF PlugTyped
<1>4. ASSUME NEW n \in PlugCalls, pluginCalls' = [pluginCalls EXCEPT ![k] = n],
             n = Plug!NoCall \/ n.alone = c.alone
      PROVE  /\ pluginCalls' \in [LoaderCalls -> PlugCalls] /\ AloneOnes'
             /\ pluginCalls'[k] = n
             /\ \A j \in LoaderCalls \ {k} :
                  /\ pluginCalls'[j] = pluginCalls[j]
                  /\ pluginCalls[j].alone => pluginCalls[j].phase = "idle"
  BY <1>1, <1>2, <1>3, <1>4, CallMoves
<1>5. ASSUME NEW n \in PlugCalls, pluginCalls' = [pluginCalls EXCEPT ![k] = n],
             n = Plug!NoCall \/ n.alone = c.alone, n.phase \in {"idle", "visit"},
             n.phase = "visit" => \A d \in n.visited : d \in c.visited \/ plugins[d] \notin live,
             UNCHANGED pluginState
      PROVE  PlugInv'
  <2>1. /\ pluginCalls' \in [LoaderCalls -> PlugCalls] /\ AloneOnes'
        /\ pluginCalls'[k] = n
        /\ \A j \in LoaderCalls \ {k} :
             /\ pluginCalls'[j] = pluginCalls[j]
             /\ pluginCalls[j].alone => pluginCalls[j].phase = "idle"
    BY <1>4, <1>5
  <2>2. \A j \in LoaderCalls : \A x : Works(j, x)' <=> Works(j, x)
    BY <1>2, <1>5, <2>1 DEF Works
  <2>3. /\ PlugTyped' /\ PlacesApart' /\ LiveStateful' /\ Plug!LiveIsListed'
    BY <1>1, <1>2, <1>5, <2>1 DEF PlugTyped, PlacesApart, LiveStateful, Plug!LiveIsListed
  <2>4. FreshOnes' /\ LiveRuns'
    BY <1>1, <1>2, <1>5, <2>2 DEF FreshOnes, LiveRuns
  <2>5. StartsListed' /\ StopsListed' /\ LoadsPlaced'
    BY <1>1, <1>2, <1>5, <2>1 DEF StartsListed, StopsListed, LoadsPlaced
  <2>6. VisitedStopped'
    BY <1>1, <1>2, <1>3, <1>5, <2>1, NoCallTyped DEF VisitedStopped
  <2> QED
    BY <2>1, <2>3, <2>4, <2>5, <2>6 DEF PlugInv
<1>6. ASSUME NEW id \in Plug!Unvisited(k), id \in Stateful,
             pluginCalls' = [pluginCalls EXCEPT ![k] =
                 [@ EXCEPT !.phase = "stop", !.id = id, !.inst = plugins[id]]],
             pluginState' = [pluginState EXCEPT ![plugins[id]] = "stopping"]
      PROVE  PlugInv'
  <2>1. PICK i \in Plug!Instances : i = plugins[id]
    BY <1>1, <1>6 DEF Plug!Unvisited, PlugTyped
  <2>2. PICK n : n = [c EXCEPT !.phase = "stop", !.id = id, !.inst = i]
    OBVIOUS
  <2>3. id \in Dirs
    BY <1>6 DEF Plug!Unvisited
  <2>4. /\ n \in PlugCalls /\ n.phase = "stop" /\ n.id = id /\ n.inst = i
        /\ n.alone = c.alone /\ n.visited = c.visited
    BY <2>2, <2>3 DEF PlugCalls, PlugPhases
  <2>5. pluginCalls' = [pluginCalls EXCEPT ![k] = n]
    BY <1>1, <1>3, <1>6, <2>1, <2>2 DEF PlugTyped
  <2>6. /\ pluginCalls' \in [LoaderCalls -> PlugCalls] /\ AloneOnes'
        /\ pluginCalls'[k] = n
        /\ \A j \in LoaderCalls \ {k} :
             /\ pluginCalls'[j] = pluginCalls[j]
             /\ pluginCalls[j].alone => pluginCalls[j].phase = "idle"
    BY <1>4, <2>4, <2>5
  <2>7. /\ pluginState' \in [Plug!Instances -> Plug!States] /\ pluginState'[i] = "stopping"
        /\ \A x \in Plug!Instances \ {i} : pluginState'[x] = pluginState[x]
    BY <1>1, <1>6, <2>1 DEF PlugTyped, Plug!States
  <2>8. /\ \A j \in LoaderCalls, x \in Plug!Instances \ {i} : Works(j, x)' <=> Works(j, x)
        /\ Works(k, i)'
    BY <1>2, <2>4, <2>6 DEF Works
  <2>9. PlugTyped' /\ PlacesApart' /\ LiveStateful' /\ Plug!LiveIsListed'
    BY <1>1, <1>2, <2>6, <2>7 DEF PlugTyped, PlacesApart, LiveStateful, Plug!LiveIsListed
  <2>10. FreshOnes' /\ LiveRuns'
    <3>1. FreshOnes'
      BY <1>1, <1>2, <2>7, <2>8 DEF FreshOnes
    <3>2. LiveRuns'
      BY <1>1, <1>2, <2>7, <2>8 DEF LiveRuns, PlugTyped
    <3> QED
      BY <3>1, <3>2
  <2>11. StartsListed' /\ LoadsPlaced'
    BY <1>1, <1>2, <2>4, <2>6 DEF StartsListed, LoadsPlaced
  <2>12. StopsListed'
    BY <1>1, <1>2, <2>1, <2>3, <2>4, <2>6 DEF StopsListed
  <2>13. VisitedStopped'
    BY <1>1, <1>2, <1>3, <2>4, <2>6 DEF VisitedStopped
  <2> QED
    BY <2>6, <2>9, <2>10, <2>11, <2>12, <2>13 DEF PlugInv
<1>7. ASSUME Plug!End(k), UNCHANGED pluginState PROVE PlugInv'
  BY <1>5, <1>7, NoCallTyped DEF Plug!End
<1>8. ASSUME NEW id \in Plug!Unvisited(k), id \notin Stateful, UNCHANGED pluginState,
             pluginCalls' = [pluginCalls EXCEPT ![k] = [pluginCalls[k] EXCEPT !.visited = @ \cup {id}]]
      PROVE  PlugInv'
  <2> DEFINE n == [pluginCalls[k] EXCEPT !.visited = @ \cup {id}]
  <2>1. id \in Dirs
    BY <1>8 DEF Plug!Unvisited
  <2>2. /\ n \in PlugCalls /\ n.phase = c.phase /\ n.alone = c.alone
        /\ n.visited = c.visited \cup {id}
    BY <1>3, <2>1 DEF PlugCalls, PlugPhases
  <2>3. pluginCalls' = [pluginCalls EXCEPT ![k] = n]
    BY <1>8
  <2> HIDE DEF n
  <2>4. plugins[id] \notin live
    BY <1>1, <1>8, <2>1 DEF LiveStateful
  <2> QED
    BY <1>2, <1>3, <1>5, <1>8, <2>2, <2>3, <2>4
<1> QED
  BY <1>6, <1>7, <1>8 DEF Plug!StopNext

LEMMA ClearKeepsPlug ==
  ASSUME PlugInv, NEW k \in LoaderCalls, Plug!Clear(k)
  PROVE  PlugInv'
<1>1. /\ PlugTyped /\ FreshOnes /\ PlacesApart /\ LiveStateful /\ LiveRuns /\ AloneOnes
      /\ StartsListed /\ StopsListed /\ LoadsPlaced /\ VisitedStopped
  BY DEF PlugInv
<1>2. /\ pluginCalls[k].phase = "visit" /\ plugins' = [d \in Dirs |-> 0]
      /\ Plug!Lost(k, {plugins[d] : d \in Dirs}) /\ UNCHANGED <<pluginState, live, failed>>
      /\ \A d \in Dirs \ pluginCalls[k].visited : plugins[d] = 0
  BY DEF Plug!Clear, Plug!Clears, Plug!Unvisited
<1>3. PICK c \in PlugCalls :
         /\ pluginCalls' = [pluginCalls EXCEPT ![k] = c]
         /\ c = Plug!NoCall \/ c.alone = pluginCalls[k].alone
         /\ c.phase \in {"idle", "load"} /\ (c.phase = "load" => c.id \in Dirs)
  <2>1. Plug!End(k) \/ Plug!LoadNext(k, {})
    BY DEF Plug!Clear
  <2> QED
    BY <1>2, <2>1, GoesToLoad
<1>4. /\ pluginCalls' \in [LoaderCalls -> PlugCalls] /\ AloneOnes'
      /\ pluginCalls'[k] = c
      /\ \A j \in LoaderCalls \ {k} :
           /\ pluginCalls'[j] = pluginCalls[j]
           /\ pluginCalls[j].alone => pluginCalls[j].phase = "idle"
      /\ (\E j \in LoaderCalls \ {k} : pluginCalls[j].phase # "idle") => Plug!Busy(k)
  BY <1>1, <1>2, <1>3, CallMoves
<1>5. \A j \in LoaderCalls : \A i : Works(j, i)' <=> Works(j, i)
  BY <1>2, <1>3, <1>4 DEF Works
<1>6. \A d \in Dirs : pluginCalls[k].alone /\ plugins[d] \in live => plugins[d] \in failed
  BY <1>1, <1>2, InstancesNotZero DEF VisitedStopped, PlugTyped
<1>7. /\ Plug!LiveIsListed' /\ lostPlugins \subseteq lostPlugins'
      /\ Plug!Busy(k) => \A d \in Dirs : \/ plugins[d] \in lostPlugins'
                                         \/ plugins'[d] = plugins[d]
  <2>1. \A d \in Dirs : plugins'[d] = 0 /\ plugins[d] \in {plugins[e] : e \in Dirs}
    BY <1>2
  <2>2. \A d \in Dirs : \/ plugins[d] \notin live' \/ ~pluginCalls[k].alone
                        \/ plugins[d] \in failed
    BY <1>2, <1>6
  <2> QED
    BY <1>2, <2>1, <2>2, RemovedAreExcused
<1>8. PlugTyped' /\ PlacesApart' /\ LoadsPlaced'
  BY <1>1, <1>2, <1>3, <1>4 DEF PlugTyped, PlacesApart, LoadsPlaced
<1>9. FreshOnes' /\ LiveStateful' /\ LiveRuns'
  BY <1>1, <1>2, <1>5, InstancesNotZero DEF FreshOnes, LiveStateful, LiveRuns, PlugTyped
<1>10. StartsListed'
  <2> SUFFICES ASSUME NEW j \in LoaderCalls, pluginCalls'[j].phase = "start"
               PROVE  /\ pluginCalls'[j].inst \in Plug!Instances
                      /\ \A d \in Dirs : plugins'[d] = pluginCalls'[j].inst => d \in Stateful
                      /\ \/ pluginCalls'[j].inst \in lostPlugins'
                         \/ \E d \in Dirs : plugins'[d] = pluginCalls'[j].inst
    BY DEF StartsListed
  <2>1. j # k /\ pluginCalls'[j] = pluginCalls[j] /\ Plug!Busy(k)
    BY <1>3, <1>4
  <2> QED
    BY <1>1, <1>2, <1>7, <2>1, InstancesNotZero DEF StartsListed
<1>11. StopsListed' /\ VisitedStopped'
  BY <1>1, <1>2, <1>3, <1>4 DEF StopsListed, VisitedStopped
<1> QED
  BY <1>4, <1>7, <1>8, <1>9, <1>10, <1>11 DEF PlugInv

LEMMA StopEndsKeepsPlug ==
  ASSUME PlugInv, NEW k \in LoaderCalls, Plug!StopEnds(k)
  PROVE  PlugInv'
<1>1. /\ PlugTyped /\ FreshOnes /\ PlacesApart /\ LiveStateful /\ LiveRuns /\ AloneOnes
      /\ StartsListed /\ StopsListed /\ LoadsPlaced /\ VisitedStopped /\ Plug!LiveIsListed
  BY DEF PlugInv
<1>2. PICK c \in PlugCalls : c = pluginCalls[k]
  BY <1>1 DEF PlugTyped
<1>3. PICK i \in Plug!Instances : i = c.inst
  BY <1>1, <1>2 DEF StopsListed, Plug!StopEnds
<1>4. /\ c.phase = "stop" /\ c.id \in Dirs
      /\ c.alone => plugins[c.id] \in {0, i}
  BY <1>1, <1>2, <1>3 DEF StopsListed, Plug!StopEnds
<1>5. PICK n \in PlugCalls :
         /\ pluginCalls' = [pluginCalls EXCEPT ![k] = n]
         /\ n = Plug!NoCall \/ n.alone = c.alone
         /\ n.phase \in {"idle", "visit"}
         /\ n.phase = "visit" => n.visited = c.visited \cup {c.id}
  <2>1. CASE Plug!End(k)
    BY <2>1, NoCallTyped DEF Plug!End
  <2>2. CASE pluginCalls' = [pluginCalls EXCEPT ![k] =
                               [c EXCEPT !.phase = "visit", !.visited = @ \cup {c.id}]]
    <3>1. PICK n : n = [c EXCEPT !.phase = "visit", !.visited = @ \cup {c.id}]
      OBVIOUS
    <3>2. /\ n \in PlugCalls /\ n.phase = "visit" /\ n.alone = c.alone
          /\ n.visited = c.visited \cup {c.id}
      BY <1>4, <3>1 DEF PlugCalls, PlugPhases
    <3> QED
      BY <2>2, <3>1, <3>2
  <2> QED
    BY <1>2, <2>1, <2>2 DEF Plug!StopEnds
<1>6. /\ pluginCalls' \in [LoaderCalls -> PlugCalls] /\ AloneOnes'
      /\ pluginCalls'[k] = n
      /\ \A j \in LoaderCalls \ {k} :
           /\ pluginCalls'[j] = pluginCalls[j]
           /\ pluginCalls[j].alone => pluginCalls[j].phase = "idle"
      /\ (\E j \in LoaderCalls \ {k} : pluginCalls[j].phase # "idle") => Plug!Busy(k)
  BY <1>1, <1>2, <1>4, <1>5, CallMoves
<1>7. \/ /\ pluginState' = [pluginState EXCEPT ![i] = "stopped"]
         /\ live' = live \ {i} /\ failed' = failed
         /\ \/ UNCHANGED <<plugins, lostPlugins>>
            \/ plugins' = [plugins EXCEPT ![c.id] = 0] /\ Plug!Lost(k, {plugins[c.id]})
      \/ failed' = failed \cup {i} /\ UNCHANGED <<plugins, pluginState, live, lostPlugins>>
  BY <1>2, <1>3 DEF Plug!StopEnds
<1>8. /\ plugins' \in [Dirs -> Plug!Instances \cup {0}]
      /\ \A d \in Dirs : plugins'[d] = plugins[d] \/ (d = c.id /\ plugins'[d] = 0)
      /\ pluginState' \in [Plug!Instances -> Plug!States]
      /\ \A x \in Plug!Instances \ {i} : pluginState'[x] = pluginState[x]
      /\ pluginState'[i] # "unloaded"
      /\ live' \subseteq live /\ failed \subseteq failed' /\ failed' \subseteq failed \cup {i}
      /\ i \in live' => i \in failed'
  <2>1. pluginState[i] # "unloaded"
    BY <1>1, <1>2, <1>3, <1>4 DEF FreshOnes, Works
  <2> QED
    BY <1>1, <1>4, <1>7, <2>1 DEF PlugTyped, Plug!States
<1>9. /\ Plug!LiveIsListed' /\ lostPlugins \subseteq lostPlugins'
      /\ Plug!Busy(k) => \A d \in Dirs : \/ plugins[d] \in lostPlugins'
                                         \/ plugins'[d] = plugins[d]
  <2>1. CASE UNCHANGED <<plugins, lostPlugins>>
    BY <1>1, <1>8, <2>1 DEF Plug!LiveIsListed
  <2>2. CASE /\ plugins' = [plugins EXCEPT ![c.id] = 0] /\ Plug!Lost(k, {plugins[c.id]})
             /\ live' = live \ {i}
    <3>1. c.alone => plugins[c.id] \notin live'
      BY <1>1, <1>4, <2>2, InstancesNotZero DEF PlugTyped
    <3>2. \A d \in Dirs : plugins'[d] # plugins[d] =>
             /\ plugins'[d] = 0 /\ plugins[d] \in {plugins[c.id]}
             /\ plugins[d] \notin live' \/ ~pluginCalls[k].alone
      BY <1>1, <1>2, <1>4, <2>2, <3>1 DEF PlugTyped
    <3> QED
      BY <1>8, <2>2, <3>2, RemovedAreExcused
  <2> QED
    BY <1>7, <2>1, <2>2
<1>10. \A j \in LoaderCalls, x \in Plug!Instances : Works(j, x)' => Works(j, x)
  BY <1>5, <1>6 DEF Works
<1>11. \A j \in LoaderCalls, x \in Plug!Instances \ {i} : Works(j, x)' <=> Works(j, x)
  BY <1>2, <1>3, <1>5, <1>6 DEF Works
<1>12. PlugTyped' /\ PlacesApart' /\ LoadsPlaced'
  BY <1>1, <1>5, <1>6, <1>8 DEF PlugTyped, PlacesApart, LoadsPlaced
<1>13. FreshOnes' /\ LiveStateful'
  BY <1>1, <1>8, <1>10, InstancesNotZero DEF FreshOnes, LiveStateful, PlugTyped
<1>14. LiveRuns'
  BY <1>1, <1>8, <1>11 DEF LiveRuns, PlugTyped
<1>15. StartsListed'
  <2> SUFFICES ASSUME NEW j \in LoaderCalls, pluginCalls'[j].phase = "start"
               PROVE  /\ pluginCalls'[j].inst \in Plug!Instances
                      /\ \A d \in Dirs : plugins'[d] = pluginCalls'[j].inst => d \in Stateful
                      /\ \/ pluginCalls'[j].inst \in lostPlugins'
                         \/ \E d \in Dirs : plugins'[d] = pluginCalls'[j].inst
    BY DEF StartsListed
  <2>1. j # k /\ pluginCalls'[j] = pluginCalls[j] /\ Plug!Busy(k)
    BY <1>5, <1>6
  <2> QED
    BY <1>1, <1>8, <1>9, <2>1, InstancesNotZero DEF StartsListed
<1>16. StopsListed'
  BY <1>1, <1>5, <1>6, <1>8 DEF StopsListed
<1>17. VisitedStopped'
  <2> SUFFICES ASSUME NEW j \in LoaderCalls, pluginCalls'[j].alone,
                      pluginCalls'[j].phase \in {"visit", "stop"},
                      NEW d \in pluginCalls'[j].visited, plugins'[d] \in live'
               PROVE  plugins'[d] \in failed'
    BY DEF VisitedStopped
  <2>1. j = k /\ n.phase = "visit" /\ n.alone /\ c.alone /\ d \in c.visited \cup {c.id}
    BY <1>5, <1>6, NoCallTyped
  <2>2. d \in Dirs /\ plugins'[d] = plugins[d] /\ plugins[d] \in live
    BY <1>1, <1>4, <1>8, <2>1, InstancesNotZero DEF PlugCalls, PlugTyped
  <2>3. CASE d = c.id
    BY <1>1, <1>4, <1>8, <2>1, <2>2, <2>3, InstancesNotZero DEF PlugTyped
  <2>4. CASE d \in c.visited
    BY <1>1, <1>2, <1>4, <1>8, <2>1, <2>2, <2>4 DEF VisitedStopped
  <2> QED
    BY <2>1, <2>3, <2>4
<1> QED
  BY <1>6, <1>9, <1>12, <1>13, <1>14, <1>15, <1>16, <1>17 DEF PlugInv

LEMMA PlugKept ==
  ASSUME PlugInv, Plug!Next
  PROVE  PlugInv'
<1>1. ASSUME NEW k \in LoaderCalls, NEW id \in Dirs,
             Plug!loadPlugin(k, id) \/ Plug!startPlugin(k, id) \/ Plug!stopPlugin(k, id)
      PROVE  PlugInv'
  BY <1>1, BeginKeepsPlug, WorkKeepsPlug DEF Plug!loadPlugin, Plug!startPlugin, Plug!stopPlugin
<1>2. ASSUME NEW k \in LoaderCalls, NEW id \in Dirs, Plug!unloadPlugin(k, id) PROVE PlugInv'
  <2>1. CASE Plug!MustStop(id) /\ Plug!Begin(k, "unload", "stop", id)
    BY <1>2, <2>1, WorkKeepsPlug DEF Plug!unloadPlugin, Plug!MustStop
  <2>2. CASE ~Plug!MustStop(id)
    BY <1>2, <2>2, UnloadKeepsPlug DEF Plug!unloadPlugin
  <2> QED
    BY <1>2, <2>1, <2>2 DEF Plug!unloadPlugin
<1>3. ASSUME NEW k \in LoaderCalls, Plug!loadAll(k) \/ Plug!reloadAll(k) \/ Plug!shutdown(k)
      PROVE  PlugInv'
  BY <1>3, BeginKeepsPlug DEF Plug!loadAll, Plug!reloadAll, Plug!shutdown
<1> QED
  BY <1>1, <1>2, <1>3, LoadKeepsPlug, StartEndsKeepsPlug, StopEndsKeepsPlug, StopNextKeepsPlug,
     ClearKeepsPlug DEF Plug!Next

-----------------------------------------------------------------------------
(* The container.  What a disposal has visited was disposed of or excused,   *)
(* and what was disposed of is not ahead of any.                             *)

Descriptors == 0..created.descriptors
Things == 0..created.instances

ContTyped ==
    /\ created.descriptors \in 0..MaxMade /\ created.instances \in 0..MaxMade
    /\ created = [instances |-> created.instances, descriptors |-> created.descriptors]
    /\ held \in [Cont!Containers -> [Tokens -> Descriptors]]
    /\ instances \in [Cont!Containers -> [Tokens -> Things]]
    /\ instance \in [Cont!Ids -> Things]
    /\ \A d \in Cont!Ids : d > created.descriptors => instance[d] = 0
    /\ resolving \in [ResolveCalls -> [on : Cont!Containers, descriptor : Descriptors, shared : BOOLEAN]]
    /\ \A k \in ResolveCalls : resolving[k] # Cont!NoCall => resolving[k].descriptor # 0
    /\ disposal \in [Cont!Containers ->
           [todo : SUBSET ({"service", "given"} \X Nat), at : {"service", "given", "none"} \X Nat,
            running : BOOLEAN]]
    /\ finished \in [Cont!Ids -> {0, 1}] /\ disposed \subseteq Cont!Containers

\* No descriptor is in two places, and no instance at two.
HeldApart ==
    /\ \A c, e \in Cont!Containers, t, u \in Tokens :
         /\ held[c][t] = held[e][u] /\ held[c][t] # 0 => c = e /\ t = u
         /\ instances[c][t] = instances[e][u] /\ instances[c][t] # 0 => c = e /\ t = u
    /\ \A d, e \in Cont!Ids : instance[d] = instance[e] /\ instance[d] # 0 => d = e
    /\ \A d \in Cont!Ids, c \in Cont!Containers, t \in Tokens :
         instance[d] # 0 => instances[c][t] # instance[d]

\* What a disposal has yet to visit, once it has begun or before.
Ahead(c) == IF c \in disposed THEN disposal[c].todo ELSE Cont!Visits(c)

DisposalsFit == \A c \in Cont!Containers :
    /\ disposal[c].todo \subseteq Cont!Visits(c)
    /\ disposal[c].at # Cont!Nowhere => disposal[c].at \in Cont!Visits(c) \ disposal[c].todo
    /\ c \notin disposed => disposal[c] = Cont!Idle

FinishedOnes ==
    /\ \A i \in Cont!Ids : finished[i] = 1 =>
         /\ i \in Things
         /\ \A c \in Cont!Containers : \A v \in Ahead(c) : i \notin Cont!InstanceAt(v)
    /\ \A c \in disposed : \A v \in Cont!Visits(c) \ disposal[c].todo :
         \A i \in Cont!InstanceAt(v) : finished[i] = 1 \/ i \in excused

NoneForgotten == \A i \in Cont!Ids :
    i \in Things => finished[i] = 1 \/ i \in excused \/ Cont!Held(i)

ContInv == ContTyped /\ HeldApart /\ DisposalsFit /\ FinishedOnes /\ NoneForgotten

LEMMA VisitsAre ==
  ASSUME NEW c \in Cont!Containers
  PROVE  /\ \A v : v \in Cont!Visits(c) <=>
              \E t \in Tokens : \/ held[c][t] # 0 /\ v = <<"service", held[c][t]>>
                                \/ instances[c][t] # 0 /\ v = <<"given", instances[c][t]>>
         /\ \A v : v \in Cont!Visits(c)' <=>
              \E t \in Tokens : \/ held'[c][t] # 0 /\ v = <<"service", held'[c][t]>>
                                \/ instances'[c][t] # 0 /\ v = <<"given", instances'[c][t]>>
BY DEF Cont!Visits

LEMMA InstanceAtIs ==
  /\ \A d : d # 0 => \A i : i \in Cont!InstanceAt(<<"service", d>>) <=> i = instance[d] /\ i # 0
  /\ \A d, i : i \in Cont!InstanceAt(<<"given", d>>) <=> i = d
  /\ Cont!InstanceAt(Cont!Nowhere) = {}
BY DEF Cont!InstanceAt, Cont!InstanceOf, Cont!Nowhere

LEMMA InstanceAtWillBe ==
  /\ \A d : d # 0 => \A i : i \in Cont!InstanceAt(<<"service", d>>)' <=> i = instance'[d] /\ i # 0
  /\ \A d, i : i \in Cont!InstanceAt(<<"given", d>>)' <=> i = d
BY DEF Cont!InstanceAt, Cont!InstanceOf

\* An instance is in one place, and of one container.
LEMMA OnePlace ==
  ASSUME ContTyped, HeldApart, NEW c \in Cont!Containers, NEW e \in Cont!Containers,
         NEW v \in Cont!Visits(c), NEW w \in Cont!Visits(e), NEW i \in Cont!InstanceAt(v),
         i \in Cont!InstanceAt(w)
  PROVE  c = e /\ v = w
<1>1. /\ \A d \in Descriptors \ {0} : d \in Cont!Ids
      /\ \A t \in Tokens : held[c][t] \in Descriptors /\ held[e][t] \in Descriptors
  <2>1. \A d \in Descriptors \ {0} : d \in Cont!Ids
    BY LimitsFit DEF ContTyped, Descriptors, Cont!Ids
  <2> QED
    BY <2>1 DEF ContTyped
<1>2. PICK t \in Tokens : \/ held[c][t] # 0 /\ v = <<"service", held[c][t]>>
                          \/ instances[c][t] # 0 /\ v = <<"given", instances[c][t]>>
  BY VisitsAre
<1>3. PICK u \in Tokens : \/ held[e][u] # 0 /\ w = <<"service", held[e][u]>>
                          \/ instances[e][u] # 0 /\ w = <<"given", instances[e][u]>>
  BY VisitsAre
<1>4. CASE v = <<"service", held[c][t]>> /\ held[c][t] # 0
  <2>1. i = instance[held[c][t]] /\ i # 0
    BY <1>4, InstanceAtIs
  <2>2. CASE w = <<"service", held[e][u]>> /\ held[e][u] # 0
    <3>1. i = instance[held[e][u]]
      BY <2>2, InstanceAtIs
    <3>2. held[c][t] = held[e][u]
      BY <1>1, <1>4, <2>1, <2>2, <3>1 DEF HeldApart
    <3> QED
      BY <1>4, <2>2, <3>2 DEF HeldApart
  <2>3. CASE w = <<"given", instances[e][u]>>
    <3>1. i = instances[e][u]
      BY <2>3, InstanceAtIs
    <3>2. PICK d \in Cont!Ids : d = held[c][t]
      BY <1>1, <1>4
    <3>3. instance[d] # 0 => instances[e][u] # instance[d]
      BY Zenon DEF HeldApart
    <3> QED
      BY <2>1, <3>1, <3>2, <3>3
  <2> QED
    BY <1>3, <2>2, <2>3
<1>5. CASE v = <<"given", instances[c][t]>> /\ instances[c][t] # 0
  <2>1. i = instances[c][t] /\ i # 0
    BY <1>5, InstanceAtIs
  <2>2. CASE w = <<"service", held[e][u]>> /\ held[e][u] # 0
    <3>1. i = instance[held[e][u]]
      BY <2>2, InstanceAtIs
    <3> QED
      BY <1>1, <2>1, <2>2, <3>1 DEF HeldApart
  <2>3. CASE w = <<"given", instances[e][u]>>
    <3>1. i = instances[e][u]
      BY <2>3, InstanceAtIs
    <3> QED
      BY <1>5, <2>1, <2>3, <3>1 DEF HeldApart
  <2> QED
    BY <1>3, <2>2, <2>3
<1> QED
  BY <1>2, <1>4, <1>5

LEMMA RegisterKeepsContainer ==
  ASSUME ContInv, NEW c \in Cont!Containers, NEW t \in Tokens, Cont!register(c, t)
  PROVE  ContInv'
<1>1. ContTyped /\ HeldApart /\ DisposalsFit /\ FinishedOnes /\ NoneForgotten
  BY DEF ContInv
<1>2. PICK D \in Cont!Ids : D = created.descriptors + 1
  BY <1>1, LimitsFit DEF Cont!register, ContTyped, Cont!Ids
<1>3. created' = [instances |-> created.instances, descriptors |-> D]
  BY <1>1, <1>2 DEF Cont!register, ContTyped
<1>4. /\ c \notin disposed /\ held' = [held EXCEPT ![c][t] = D]
      /\ excused' = excused \cup Cont!InstanceOf(held[c][t])
      /\ UNCHANGED <<instance, instances, resolving, disposed, disposal, finished>>
  <2>1. created'.descriptors = D
    BY <1>3
  <2> QED
    BY <2>1 DEF Cont!register
<1>5. /\ D \notin Descriptors /\ Descriptors \subseteq Descriptors' /\ D \in Descriptors' /\ D # 0
      /\ Things' = Things /\ instance[D] = 0
  BY <1>1, <1>2, <1>3 DEF ContTyped, Descriptors, Things
<1>6. /\ held' \in [Cont!Containers -> [Tokens -> Descriptors']]
      /\ \A e \in Cont!Containers, u \in Tokens :
           held'[e][u] = IF e = c /\ u = t THEN D ELSE held[e][u]
  BY <1>1, <1>4, <1>5 DEF ContTyped
<1>7. ContTyped'
  <2>1. \A d \in Cont!Ids : d > created'.descriptors => d > created.descriptors
    BY <1>1, <1>2, <1>3 DEF Cont!Ids, ContTyped
  <2>2. resolving \in [ResolveCalls -> [on : Cont!Containers, descriptor : Descriptors', shared : BOOLEAN]]
    BY <1>1, <1>5 DEF ContTyped
  <2>3. created'.descriptors = D /\ created'.instances = created.instances /\ D \in 0..MaxMade
    BY <1>2, <1>3 DEF Cont!Ids
  <2> QED
    BY <1>1, <1>3, <1>4, <1>5, <1>6, <2>1, <2>2, <2>3 DEF ContTyped
<1>8. HeldApart'
  <2>1. \A e \in Cont!Containers, u \in Tokens : held[e][u] # D
    BY <1>1, <1>5 DEF ContTyped
  <2> QED
    BY <1>1, <1>4, <1>6, <2>1 DEF HeldApart
<1>9. /\ \A e \in Cont!Containers \ {c} : Cont!Visits(e)' = Cont!Visits(e)
      /\ \A v \in Cont!Visits(c)' : v = <<"service", D>> \/ v \in Cont!Visits(c)
      /\ \A v \in Cont!Visits(c) : v = <<"service", held[c][t]>> \/ v \in Cont!Visits(c)'
  <2>1. \A e \in Cont!Containers \ {c} : Cont!Visits(e)' = Cont!Visits(e)
    BY <1>4, <1>6 DEF Cont!Visits
  <2>2. \A v \in Cont!Visits(c)' : v = <<"service", D>> \/ v \in Cont!Visits(c)
    BY <1>4, <1>6, VisitsAre
  <2>3. \A v \in Cont!Visits(c) : v = <<"service", held[c][t]>> \/ v \in Cont!Visits(c)'
    BY <1>4, <1>6, VisitsAre
  <2> QED
    BY <2>1, <2>2, <2>3
<1>10. \A v : Cont!InstanceAt(v)' = Cont!InstanceAt(v)
  BY <1>4 DEF Cont!InstanceAt, Cont!InstanceOf
<1>11. Cont!InstanceAt(<<"service", D>>) = {}
  BY <1>5, InstanceAtIs
<1>12. DisposalsFit'
  <2> SUFFICES ASSUME NEW e \in Cont!Containers
               PROVE  /\ disposal[e].todo \subseteq Cont!Visits(e)'
                      /\ disposal[e].at # Cont!Nowhere =>
                           disposal[e].at \in Cont!Visits(e)' \ disposal[e].todo
                      /\ e \notin disposed => disposal[e] = Cont!Idle
    BY <1>4 DEF DisposalsFit
  <2>1. CASE e = c
    <3>1. disposal[e] = Cont!Idle
      BY <1>1, <1>4, <2>1 DEF DisposalsFit
    <3>2. disposal[e].todo = {} /\ disposal[e].at = Cont!Nowhere
      BY <3>1 DEF Cont!Idle
    <3> QED
      BY <3>1, <3>2
  <2>2. CASE e # c
    BY <1>1, <1>9, <2>2 DEF DisposalsFit
  <2> QED
    BY <2>1, <2>2
<1>13. FinishedOnes'
  <2>1. \A e \in Cont!Containers : \A v \in Ahead(e)' : v \in Ahead(e) \/ v = <<"service", D>>
    BY <1>4, <1>9 DEF Ahead
  <2>2. \A e \in disposed : e \in Cont!Containers => Cont!Visits(e)' = Cont!Visits(e)
    BY <1>4, <1>9
  <2>3. disposed \subseteq Cont!Containers
    BY <1>1 DEF ContTyped
  <2> QED
    BY <1>1, <1>4, <1>5, <1>10, <1>11, <2>1, <2>2, <2>3 DEF FinishedOnes
<1>14. NoneForgotten'
  <2> SUFFICES ASSUME NEW i \in Cont!Ids, i \in Things, finished[i] # 1, i \notin excused'
               PROVE  Cont!Held(i)'
    BY <1>4, <1>5 DEF NoneForgotten
  <2>1. Cont!Held(i)
    BY <1>1, <1>4 DEF NoneForgotten
  <2> QED
    BY <1>4, <1>6, <2>1 DEF Cont!Held, Cont!InstanceOf
<1> QED
  BY <1>7, <1>8, <1>12, <1>13, <1>14 DEF ContInv

LEMMA RegisterInstanceKeepsContainer ==
  ASSUME ContInv, NEW c \in Cont!Containers, NEW t \in Tokens, Cont!registerInstance(c, t)
  PROVE  ContInv'
<1>1. ContTyped /\ HeldApart /\ DisposalsFit /\ FinishedOnes /\ NoneForgotten
  BY DEF ContInv
<1>2. PICK I \in Cont!Ids : I = created.instances + 1
  BY <1>1, LimitsFit DEF Cont!registerInstance, ContTyped, Cont!Ids
<1>3. created' = [instances |-> I, descriptors |-> created.descriptors]
  BY <1>1, <1>2 DEF Cont!registerInstance, ContTyped
<1>4. /\ c \notin disposed /\ instances' = [instances EXCEPT ![c][t] = I]
      /\ excused' = excused \cup ({instances[c][t]} \ {0})
      /\ UNCHANGED <<instance, held, resolving, disposed, disposal, finished>>
  <2>1. created'.instances = I
    BY <1>3
  <2> QED
    BY <2>1 DEF Cont!registerInstance
<1>5. /\ I \notin Things /\ Things \subseteq Things' /\ I \in Things' /\ I # 0
      /\ Descriptors' = Descriptors
      /\ \A i \in Things' : i \in Things \/ i = I
  <2>1. Things = 0..created.instances /\ Things' = 0..created.instances + 1
        /\ created.instances \in Nat
    BY <1>1, <1>2, <1>3 DEF ContTyped, Things
  <2>2. Descriptors' = Descriptors
    BY <1>3 DEF Descriptors
  <2> QED
    BY <1>2, <2>1, <2>2
<1>6. /\ instances' \in [Cont!Containers -> [Tokens -> Things']]
      /\ \A e \in Cont!Containers, u \in Tokens :
           instances'[e][u] = IF e = c /\ u = t THEN I ELSE instances[e][u]
  BY <1>1, <1>4, <1>5 DEF ContTyped
<1>7. ContTyped'
  <2>1. instance \in [Cont!Ids -> Things']
    BY <1>1, <1>5 DEF ContTyped
  <2>2. created'.instances = I /\ created'.descriptors = created.descriptors /\ I \in 0..MaxMade
    BY <1>2, <1>3 DEF Cont!Ids
  <2> QED
    BY <1>1, <1>3, <1>4, <1>5, <1>6, <2>1, <2>2 DEF ContTyped
<1>8. HeldApart'
  <2>1. /\ \A e \in Cont!Containers, u \in Tokens : instances[e][u] # I
        /\ \A d \in Cont!Ids : instance[d] # I
    BY <1>1, <1>5 DEF ContTyped
  <2> QED
    BY <1>1, <1>4, <1>6, <2>1 DEF HeldApart
<1>9. /\ \A e \in Cont!Containers \ {c} : Cont!Visits(e)' = Cont!Visits(e)
      /\ \A v \in Cont!Visits(c)' : v = <<"given", I>> \/ v \in Cont!Visits(c)
  <2>1. \A e \in Cont!Containers \ {c} : Cont!Visits(e)' = Cont!Visits(e)
    BY <1>4, <1>6 DEF Cont!Visits
  <2>2. \A v \in Cont!Visits(c)' : v = <<"given", I>> \/ v \in Cont!Visits(c)
    BY <1>4, <1>6, VisitsAre
  <2> QED
    BY <2>1, <2>2
<1>10. \A v : Cont!InstanceAt(v)' = Cont!InstanceAt(v)
  BY <1>4 DEF Cont!InstanceAt, Cont!InstanceOf
<1>11. Cont!InstanceAt(<<"given", I>>) = {I}
  BY InstanceAtIs
<1>12. DisposalsFit'
  <2> SUFFICES ASSUME NEW e \in Cont!Containers
               PROVE  /\ disposal[e].todo \subseteq Cont!Visits(e)'
                      /\ disposal[e].at # Cont!Nowhere =>
                           disposal[e].at \in Cont!Visits(e)' \ disposal[e].todo
                      /\ e \notin disposed => disposal[e] = Cont!Idle
    BY <1>4 DEF DisposalsFit
  <2>1. CASE e = c
    <3>1. disposal[e] = Cont!Idle
      BY <1>1, <1>4, <2>1 DEF DisposalsFit
    <3>2. disposal[e].todo = {} /\ disposal[e].at = Cont!Nowhere
      BY <3>1 DEF Cont!Idle
    <3> QED
      BY <3>1, <3>2
  <2>2. CASE e # c
    BY <1>1, <1>9, <2>2 DEF DisposalsFit
  <2> QED
    BY <2>1, <2>2
<1>13. FinishedOnes'
  <2>1. \A e \in Cont!Containers : \A v \in Ahead(e)' : v \in Ahead(e) \/ v = <<"given", I>>
    BY <1>4, <1>9 DEF Ahead
  <2>2. \A e \in disposed : Cont!Visits(e)' = Cont!Visits(e)
    BY <1>1, <1>4, <1>9 DEF ContTyped
  <2> QED
    BY <1>1, <1>4, <1>5, <1>10, <1>11, <2>1, <2>2 DEF FinishedOnes
<1>14. NoneForgotten'
  <2> SUFFICES ASSUME NEW i \in Cont!Ids, i \in Things', finished[i] # 1, i \notin excused'
               PROVE  Cont!Held(i)'
    BY <1>4 DEF NoneForgotten
  <2>1. CASE i = I
    BY <1>4, <1>6, <2>1 DEF Cont!Held
  <2>2. CASE i \in Things
    <3>1. Cont!Held(i) /\ i # 0
      BY <1>1, <1>4, <2>2 DEF NoneForgotten, Cont!Ids
    <3> QED
      BY <1>4, <1>6, <3>1 DEF Cont!Held, Cont!InstanceOf
  <2> QED
    BY <1>5, <2>1, <2>2
<1> QED
  BY <1>7, <1>8, <1>12, <1>13, <1>14 DEF ContInv

LEMMA ResolveKeepsContainer ==
  ASSUME ContInv, NEW k \in ResolveCalls, NEW c \in Cont!Containers, NEW t \in Tokens,
         Cont!resolve(k, c, t)
  PROVE  ContInv'
<1>1. ContTyped /\ HeldApart /\ DisposalsFit /\ FinishedOnes /\ NoneForgotten
  BY DEF ContInv
<1>2. Cont!Holder(c, t) \in Cont!Containers
  BY DEF Cont!Holder, Cont!Containers
<1>3. PICK r : /\ r \in [on : Cont!Containers, descriptor : Descriptors, shared : BOOLEAN]
               /\ r.descriptor # 0 /\ resolving' = [resolving EXCEPT ![k] = r]
  <2>1. PICK h \in Cont!Containers : h = Cont!Holder(c, t)
    BY <1>2
  <2>2. PICK d \in Descriptors : d = held[h][t] /\ d # 0
    BY <1>1, <2>1 DEF ContTyped, Cont!resolve
  <2>3. PICK b : b \in BOOLEAN /\ b = (t \in Singletons)
    <3>1. (t \in Singletons) \in BOOLEAN
      OBVIOUS
    <3> QED
      BY <3>1, Zenon
  <2>4. resolving' = [resolving EXCEPT ![k] = [on |-> h, descriptor |-> d, shared |-> b]]
    BY <2>1, <2>2, <2>3 DEF Cont!resolve
  <2> QED
    BY <2>2, <2>3, <2>4
<1>4. UNCHANGED <<held, instance, instances, created, disposed, disposal, finished, excused>>
  BY DEF Cont!resolve
<1>5. ContTyped'
  <2>1. resolving' \in [ResolveCalls -> [on : Cont!Containers, descriptor : Descriptors, shared : BOOLEAN]]
    BY <1>1, <1>3 DEF ContTyped
  <2>2. \A j \in ResolveCalls : resolving'[j] # Cont!NoCall => resolving'[j].descriptor # 0
    BY <1>1, <1>3 DEF ContTyped
  <2>3. Descriptors' = Descriptors /\ Things' = Things
    BY <1>4 DEF Descriptors, Things
  <2> QED
    BY <1>1, <1>4, <2>1, <2>2, <2>3 DEF ContTyped
<1>6. /\ HeldApart' /\ Things' = Things /\ \A i : Cont!Held(i)' <=> Cont!Held(i)
      /\ \A e : Cont!Visits(e)' = Cont!Visits(e) /\ Ahead(e)' = Ahead(e)
      /\ \A v : Cont!InstanceAt(v)' = Cont!InstanceAt(v)
  BY <1>1, <1>4 DEF HeldApart, Things, Cont!Held, Cont!InstanceOf, Cont!Visits, Ahead, Cont!InstanceAt
<1> QED
  BY <1>1, <1>4, <1>5, <1>6 DEF ContInv, DisposalsFit, FinishedOnes, NoneForgotten

LEMMA FactoryKeepsContainer ==
  ASSUME ContInv, NEW k \in ResolveCalls, Cont!FactoryEnds(k)
  PROVE  ContInv'
<1>1. ContTyped /\ HeldApart /\ DisposalsFit /\ FinishedOnes /\ NoneForgotten
  BY DEF ContInv
<1>2. PICK r : /\ r = resolving[k] /\ r.on \in Cont!Containers
               /\ r.descriptor \in Descriptors \ {0}
  BY <1>1 DEF ContTyped, Cont!FactoryEnds
<1>3. PICK D \in Cont!Ids : D = r.descriptor /\ D # 0
  BY <1>1, <1>2, LimitsFit DEF ContTyped, Descriptors, Cont!Ids
<1>4. resolving' = [resolving EXCEPT ![k] = Cont!NoCall]
      /\ UNCHANGED <<held, instances, disposed, disposal, finished>>
  BY DEF Cont!FactoryEnds
<1>5. /\ resolving' \in [ResolveCalls -> [on : Cont!Containers, descriptor : Descriptors, shared : BOOLEAN]]
      /\ \A j \in ResolveCalls : resolving'[j] # Cont!NoCall => resolving'[j].descriptor # 0
  <2>1. Cont!NoCall \in [on : Cont!Containers, descriptor : Descriptors, shared : BOOLEAN]
    BY <1>1 DEF Cont!NoCall, ContTyped, Descriptors, Cont!Containers
  <2> QED
    BY <1>1, <1>4, <2>1 DEF ContTyped
<1>6. \A e : Cont!Visits(e)' = Cont!Visits(e) /\ Ahead(e)' = Ahead(e)
  BY <1>4 DEF Cont!Visits, Ahead
<1>7. CASE UNCHANGED <<created, instance, excused>>
  <2>1. Descriptors' = Descriptors /\ Things' = Things
    BY <1>7 DEF Descriptors, Things
  <2>2. ContTyped'
    BY <1>1, <1>4, <1>5, <1>7, <2>1 DEF ContTyped
  <2>3. /\ HeldApart' /\ \A i : Cont!Held(i)' <=> Cont!Held(i)
        /\ \A v : Cont!InstanceAt(v)' = Cont!InstanceAt(v)
    BY <1>1, <1>4, <1>7 DEF HeldApart, Cont!Held, Cont!InstanceOf, Cont!InstanceAt
  <2> QED
    BY <1>1, <1>4, <1>6, <1>7, <2>1, <2>2, <2>3 DEF ContInv, DisposalsFit, FinishedOnes, NoneForgotten
<1>8. ASSUME created.instances < MaxMade,
             created' = [created EXCEPT !.instances = @ + 1],
             Cont!Keep(D, created'.instances),
             NEW late \in BOOLEAN,
             late <=> \/ r.on \in disposed /\ <<"service", D>> \notin disposal[r.on].todo
                      \/ \A t \in Tokens : held[r.on][t] # D,
             excused' = excused \cup Cont!InstanceOf(D)
                                \cup (IF late THEN {created'.instances} ELSE {})
      PROVE  ContInv'
  <2>1. PICK I \in Cont!Ids : I = created.instances + 1
    BY <1>1, <1>8, LimitsFit DEF ContTyped, Cont!Ids
  <2>2. /\ created' = [instances |-> I, descriptors |-> created.descriptors]
        /\ created'.instances = I /\ created'.descriptors = created.descriptors /\ I \in 0..MaxMade
    <3>1. created = [instances |-> created.instances, descriptors |-> created.descriptors]
      BY <1>1 DEF ContTyped
    <3>2. created' = [instances |-> I, descriptors |-> created.descriptors]
      BY <1>8, <2>1, <3>1
    <3>3. I \in 0..MaxMade
      BY <2>1 DEF Cont!Ids
    <3> QED
      BY <3>2, <3>3
  <2>3. /\ I \notin Things /\ Things \subseteq Things' /\ I \in Things' /\ I # 0
        /\ Descriptors' = Descriptors
        /\ \A i \in Things' : i \in Things \/ i = I
    <3>1. Things = 0..created.instances /\ Things' = 0..created.instances + 1
          /\ created.instances \in Nat
      BY <1>1, <2>1, <2>2 DEF ContTyped, Things
    <3>2. Descriptors' = Descriptors
      BY <2>2 DEF Descriptors
    <3> QED
      BY <2>1, <3>1, <3>2
  <2>4. /\ instance' \in [Cont!Ids -> Things'] /\ instance'[D] = I
        /\ \A d \in Cont!Ids \ {D} : instance'[d] = instance[d]
    <3>1. instance' = [instance EXCEPT ![D] = I]
      BY <1>8, <2>2 DEF Cont!Keep
    <3> QED
      BY <1>1, <2>3, <3>1 DEF ContTyped
  <2>5. ContTyped'
    <3>1. \A d \in Cont!Ids : d > created.descriptors => d # D
      BY <1>1, <1>2, <1>3 DEF ContTyped, Descriptors, Cont!Ids
    <3>2. instances \in [Cont!Containers -> [Tokens -> Things']]
      BY <1>1, <2>3 DEF ContTyped
    <3>3. \A d \in Cont!Ids : d > created'.descriptors => instance'[d] = 0
      BY <1>1, <2>2, <2>4, <3>1 DEF ContTyped
    <3> QED
      BY <1>1, <1>4, <1>5, <2>2, <2>3, <2>4, <3>2, <3>3 DEF ContTyped
  <2>6. /\ \A e \in Cont!Containers, u \in Tokens : instances[e][u] # I
        /\ \A d \in Cont!Ids : instance[d] # I
    BY <1>1, <2>3 DEF ContTyped
  <2>7. HeldApart'
    BY <1>1, <1>4, <2>4, <2>6 DEF HeldApart
  <2>8. DisposalsFit'
    BY <1>1, <1>4, <1>6 DEF DisposalsFit
  <2>9. \A e \in Cont!Containers : \A v \in Cont!Visits(e) : \A i \in Cont!InstanceAt(v)' :
           \/ v # <<"service", D>> /\ i \in Cont!InstanceAt(v)
           \/ v = <<"service", D>> /\ i = I
    <3> SUFFICES ASSUME NEW e \in Cont!Containers, NEW v \in Cont!Visits(e),
                        NEW i \in Cont!InstanceAt(v)'
                 PROVE  \/ v # <<"service", D>> /\ i \in Cont!InstanceAt(v)
                        \/ v = <<"service", D>> /\ i = I
      OBVIOUS
    <3>1. PICK t \in Tokens : \/ held[e][t] # 0 /\ v = <<"service", held[e][t]>>
                              \/ instances[e][t] # 0 /\ v = <<"given", instances[e][t]>>
      BY VisitsAre
    <3>2. CASE v = <<"given", instances[e][t]>>
      BY <3>2, InstanceAtIs, InstanceAtWillBe
    <3>3. CASE held[e][t] # 0 /\ v = <<"service", held[e][t]>>
      <4>1. PICK d \in Cont!Ids : d = held[e][t]
        BY <1>1, <3>3, LimitsFit DEF ContTyped, Descriptors, Cont!Ids
      <4>2. i = instance'[d] /\ i # 0
        BY <3>3, <4>1, InstanceAtWillBe
      <4>3. CASE d = D
        BY <2>4, <3>3, <4>1, <4>2, <4>3
      <4>4. CASE d # D
        <5>1. i = instance[d]
          BY <2>4, <4>2, <4>4
        <5>2. i \in Cont!InstanceAt(v)
          BY <3>3, <4>1, <4>2, <5>1, InstanceAtIs
        <5> QED
          BY <3>3, <4>1, <4>4, <5>2
      <4> QED
        BY <4>3, <4>4
    <3> QED
      BY <3>1, <3>2, <3>3
  <2>10. \A e \in disposed : <<"service", D>> \in Cont!Visits(e) \ disposal[e].todo => late
    <3> SUFFICES ASSUME NEW e \in disposed, <<"service", D>> \in Cont!Visits(e) \ disposal[e].todo,
                        ~late
                 PROVE  FALSE
      OBVIOUS
    <3>1. e \in Cont!Containers
      BY <1>1 DEF ContTyped
    <3>2. PICK u \in Tokens : held[e][u] = D
      BY <3>1, VisitsAre
    <3>3. PICK t \in Tokens : held[r.on][t] = D
      BY <1>8
    <3>4. e = r.on
      BY <1>1, <1>2, <1>3, <3>1, <3>2, <3>3 DEF HeldApart
    <3> QED
      BY <1>8, <3>4
  <2>11. FinishedOnes'
    <3>1. ASSUME NEW i \in Cont!Ids, finished[i] = 1
          PROVE  /\ i \in Things'
                 /\ \A e \in Cont!Containers : \A v \in Ahead(e) : i \notin Cont!InstanceAt(v)'
      <4>1. \A e \in Cont!Containers : Ahead(e) \subseteq Cont!Visits(e)
        BY <1>1 DEF Ahead, DisposalsFit
      <4>2. i \in Things /\ i # I
        BY <1>1, <2>3, <3>1 DEF FinishedOnes
      <4> QED
        BY <1>1, <2>3, <2>9, <3>1, <4>1, <4>2 DEF FinishedOnes
    <3>2. ASSUME NEW e \in disposed, NEW v \in Cont!Visits(e) \ disposal[e].todo,
                 NEW i \in Cont!InstanceAt(v)'
          PROVE  finished[i] = 1 \/ i \in excused'
      <4>1. e \in Cont!Containers
        BY <1>1 DEF ContTyped
      <4>2. CASE v = <<"service", D>> /\ i = I
        BY <1>8, <2>2, <2>10, <3>2, <4>2
      <4>3. CASE i \in Cont!InstanceAt(v)
        BY <1>1, <1>8, <3>2, <4>3 DEF FinishedOnes
      <4> QED
        BY <2>9, <4>1, <4>2, <4>3
    <3> QED
      BY <1>4, <1>6, <3>1, <3>2 DEF FinishedOnes
  <2>12. NoneForgotten'
    <3> SUFFICES ASSUME NEW i \in Cont!Ids, i \in Things', finished[i] # 1, i \notin excused'
                 PROVE  Cont!Held(i)'
      BY <1>4 DEF NoneForgotten
    <3>1. CASE i = I
      <4>1. PICK t \in Tokens : held[r.on][t] = D
        BY <1>8, <2>2, <3>1
      <4> QED
        BY <1>2, <1>3, <1>4, <2>4, <2>3, <3>1, <4>1 DEF Cont!Held, Cont!InstanceOf
    <3>2. CASE i \in Things
      <4>1. Cont!Held(i) /\ i # 0 /\ i \notin Cont!InstanceOf(D)
        BY <1>1, <1>8, <3>2 DEF NoneForgotten, Cont!Ids
      <4>2. PICK e \in Cont!Containers, t \in Tokens :
               i = instances[e][t] \/ i \in Cont!InstanceOf(held[e][t])
        BY <4>1 DEF Cont!Held
      <4>3. CASE i = instances[e][t]
        BY <1>4, <4>3 DEF Cont!Held
      <4>4. CASE i \in Cont!InstanceOf(held[e][t])
        <5>1. held[e][t] # 0 /\ i = instance[held[e][t]] /\ held[e][t] # D
          BY <1>3, <4>1, <4>4 DEF Cont!InstanceOf
        <5>2. held[e][t] \in Cont!Ids
          BY <1>1, <5>1, LimitsFit DEF ContTyped, Descriptors, Cont!Ids
        <5>3. instance'[held[e][t]] = i
          BY <2>4, <5>1, <5>2
        <5> QED
          BY <1>4, <4>1, <5>1, <5>3 DEF Cont!Held, Cont!InstanceOf
      <4> QED
        BY <4>2, <4>3, <4>4
    <3> QED
      BY <2>3, <3>1, <3>2
  <2> QED
    BY <2>5, <2>7, <2>8, <2>11, <2>12 DEF ContInv
<1> QED
  <2>1. PICK late \in BOOLEAN :
           late <=> \/ r.on \in disposed /\ <<"service", D>> \notin disposal[r.on].todo
                    \/ \A t \in Tokens : held[r.on][t] # D
    OBVIOUS
  <2>2. \/ UNCHANGED <<created, instance, excused>>
        \/ /\ created.instances < MaxMade
           /\ created' = [created EXCEPT !.instances = @ + 1]
           /\ Cont!Keep(D, created'.instances)
           /\ excused' = excused \cup Cont!InstanceOf(D)
                                 \cup (IF late THEN {created'.instances} ELSE {})
    BY <1>2, <1>3, <2>1 DEF Cont!FactoryEnds
  <2> QED
    BY <1>7, <1>8, <2>1, <2>2

LEMMA DisposeKeepsContainer ==
  ASSUME ContInv, NEW c \in Cont!Containers, Cont!dispose(c)
  PROVE  ContInv'
<1>1. ContTyped /\ HeldApart /\ DisposalsFit /\ FinishedOnes /\ NoneForgotten
  BY DEF ContInv
<1>2. /\ c \notin disposed /\ disposed' = disposed \cup {c}
      /\ UNCHANGED <<held, instance, instances, created, resolving, finished, excused>>
  BY DEF Cont!dispose, Cont!Begins
<1>3. PICK n : n = [todo |-> Cont!Visits(c), at |-> Cont!Nowhere, running |-> TRUE]
  OBVIOUS
<1>4. n.todo = Cont!Visits(c) /\ n.at = Cont!Nowhere
  BY <1>3
<1>5. disposal' = [disposal EXCEPT ![c] = n]
  BY <1>3 DEF Cont!dispose
<1>6. Cont!Visits(c) \in SUBSET ({"service", "given"} \X Nat)
  <2>1. \A t \in Tokens : held[c][t] \in Nat /\ instances[c][t] \in Nat
    BY <1>1 DEF ContTyped, Descriptors, Things
  <2> QED
    BY <2>1, VisitsAre
<1>7. n \in [todo : SUBSET ({"service", "given"} \X Nat), at : {"service", "given", "none"} \X Nat,
             running : BOOLEAN]
  BY <1>3, <1>6 DEF Cont!Nowhere
<1>8. disposal'[c] = n /\ \A e \in Cont!Containers \ {c} : disposal'[e] = disposal[e]
  BY <1>1, <1>5 DEF ContTyped
<1>9. Descriptors' = Descriptors /\ Things' = Things
  BY <1>2 DEF Descriptors, Things
<1>10. ContTyped'
  <2>1. disposal' \in [Cont!Containers ->
           [todo : SUBSET ({"service", "given"} \X Nat), at : {"service", "given", "none"} \X Nat,
            running : BOOLEAN]]
    BY <1>1, <1>5, <1>7 DEF ContTyped
  <2>2. disposed' \subseteq Cont!Containers
    BY <1>1, <1>2 DEF ContTyped
  <2> QED
    BY <1>1, <1>2, <1>9, <2>1, <2>2 DEF ContTyped
<1>11. /\ HeldApart' /\ \A i : Cont!Held(i)' <=> Cont!Held(i)
       /\ \A e : Cont!Visits(e)' = Cont!Visits(e)
       /\ \A v : Cont!InstanceAt(v)' = Cont!InstanceAt(v)
  BY <1>1, <1>2 DEF HeldApart, Cont!Held, Cont!InstanceOf, Cont!Visits, Cont!InstanceAt
<1>12. \A e \in Cont!Containers : Ahead(e)' = Ahead(e)
  BY <1>2, <1>4, <1>8, <1>11 DEF Ahead
<1>13. DisposalsFit'
  BY <1>1, <1>2, <1>4, <1>8, <1>11 DEF DisposalsFit
<1>14. FinishedOnes'
  <2>1. \A e \in disposed' : \A v \in Cont!Visits(e)' \ disposal'[e].todo :
           e \in disposed /\ v \in Cont!Visits(e) \ disposal[e].todo
    BY <1>1, <1>2, <1>4, <1>8, <1>11 DEF ContTyped
  <2> QED
    BY <1>1, <1>2, <1>9, <1>11, <1>12, <2>1 DEF FinishedOnes
<1>15. NoneForgotten'
  BY <1>1, <1>2, <1>9, <1>11 DEF NoneForgotten
<1> QED
  BY <1>10, <1>11, <1>13, <1>14, <1>15 DEF ContInv

\* What is at a place is an instance.
LEMMA VisitedIsInstance ==
  ASSUME ContTyped, NEW c \in Cont!Containers, NEW v \in Cont!Visits(c),
         NEW i \in Cont!InstanceAt(v)
  PROVE  i \in Things /\ i \in Cont!Ids
<1>1. PICK t \in Tokens : \/ held[c][t] # 0 /\ v = <<"service", held[c][t]>>
                          \/ instances[c][t] # 0 /\ v = <<"given", instances[c][t]>>
  BY VisitsAre
<1>2. i \in Things /\ i # 0
  <2>1. CASE v = <<"given", instances[c][t]>> /\ instances[c][t] # 0
    BY <2>1, InstanceAtIs DEF ContTyped
  <2>2. CASE held[c][t] # 0 /\ v = <<"service", held[c][t]>>
    <3>1. i = instance[held[c][t]] /\ i # 0
      BY <2>2, InstanceAtIs
    <3>2. held[c][t] \in Cont!Ids
      BY <2>2, LimitsFit DEF ContTyped, Descriptors, Cont!Ids
    <3> QED
      BY <3>1, <3>2 DEF ContTyped
  <2> QED
    BY <1>1, <2>1, <2>2
<1> QED
  BY <1>2, LimitsFit DEF ContTyped, Things, Cont!Ids

\* The next of what is held is visited.
LEMMA VisitKeepsContainer ==
  ASSUME ContInv, NEW c \in Cont!Containers, Cont!Visit(c)
  PROVE  ContInv'
<1>1. ContTyped /\ HeldApart /\ DisposalsFit /\ FinishedOnes /\ NoneForgotten
  BY DEF ContInv
<1>2. PICK v \in disposal[c].todo :
         /\ disposal' = [disposal EXCEPT
                ![c].todo = @ \ {v}, ![c].at = IF Cont!InstanceAt(v) = {} THEN Cont!Nowhere ELSE v]
         /\ finished' = [i \in Cont!Ids |-> finished[i] + IF i \in Cont!InstanceAt(v) THEN 1 ELSE 0]
  BY DEF Cont!Visit
<1>3. UNCHANGED <<held, instance, instances, created, resolving, disposed, excused>>
  BY DEF Cont!Visit
<1>4. PICK o \in [todo : SUBSET ({"service", "given"} \X Nat),
                  at : {"service", "given", "none"} \X Nat, running : BOOLEAN] : o = disposal[c]
  BY <1>1 DEF ContTyped
<1>5. PICK seat : /\ seat = IF Cont!InstanceAt(v) = {} THEN Cont!Nowhere ELSE v
                  /\ seat \in {v, Cont!Nowhere}
  OBVIOUS
<1>6. PICK n : n = [o EXCEPT !.todo = @ \ {v}, !.at = seat]
  OBVIOUS
<1>7. /\ n \in [todo : SUBSET ({"service", "given"} \X Nat),
                at : {"service", "given", "none"} \X Nat, running : BOOLEAN]
      /\ n.todo = o.todo \ {v} /\ n.at = seat
  <2>1. v \in {"service", "given"} \X Nat
    BY <1>2, <1>4
  <2>2. seat \in {"service", "given", "none"} \X Nat
    BY <1>5, <2>1 DEF Cont!Nowhere
  <2> QED
    BY <1>6, <2>2
<1>8. disposal' = [disposal EXCEPT ![c] = n]
  BY <1>1, <1>2, <1>4, <1>5, <1>6 DEF ContTyped
<1>9. disposal'[c] = n /\ \A e \in Cont!Containers \ {c} : disposal'[e] = disposal[e]
  BY <1>1, <1>8 DEF ContTyped
<1>10. /\ Descriptors' = Descriptors /\ Things' = Things /\ HeldApart'
       /\ \A i : Cont!Held(i)' <=> Cont!Held(i)
       /\ \A e : Cont!Visits(e)' = Cont!Visits(e)
       /\ \A w : Cont!InstanceAt(w)' = Cont!InstanceAt(w)
  BY <1>1, <1>3 DEF Descriptors, Things, HeldApart, Cont!Held, Cont!InstanceOf, Cont!Visits,
                    Cont!InstanceAt
<1>11. /\ c \in disposed /\ v \in Cont!Visits(c)
       /\ \A e \in Cont!Containers : Ahead(e) \subseteq Cont!Visits(e)
  <2>1. c \notin disposed => disposal[c].todo = {}
    BY <1>1 DEF DisposalsFit, Cont!Idle
  <2> QED
    BY <1>1, <1>2, <2>1 DEF DisposalsFit, Ahead
<1>12. \A i \in Cont!Ids : /\ i \in Cont!InstanceAt(v) => finished[i] = 0 /\ finished'[i] = 1
                           /\ i \notin Cont!InstanceAt(v) => finished'[i] = finished[i]
  <2>1. v \in Ahead(c)
    BY <1>2, <1>11 DEF Ahead
  <2> QED
    BY <1>1, <1>2, <2>1 DEF FinishedOnes, ContTyped
<1>13. ContTyped'
  <2>1. disposal' \in [Cont!Containers ->
           [todo : SUBSET ({"service", "given"} \X Nat), at : {"service", "given", "none"} \X Nat,
            running : BOOLEAN]]
    BY <1>1, <1>7, <1>8 DEF ContTyped
  <2>2. finished' \in [Cont!Ids -> {0, 1}]
    <3>1. \A i \in Cont!Ids : finished'[i] \in {0, 1}
      BY <1>1, <1>12 DEF ContTyped
    <3> QED
      BY <1>2, <3>1
  <2> QED
    BY <1>1, <1>3, <1>10, <2>1, <2>2 DEF ContTyped
<1>14. DisposalsFit'
  <2> SUFFICES ASSUME NEW e \in Cont!Containers
               PROVE  /\ disposal'[e].todo \subseteq Cont!Visits(e)
                      /\ disposal'[e].at # Cont!Nowhere =>
                           disposal'[e].at \in Cont!Visits(e) \ disposal'[e].todo
                      /\ e \notin disposed => disposal'[e] = Cont!Idle
    BY <1>3, <1>10 DEF DisposalsFit
  <2>1. CASE e = c
    BY <1>1, <1>4, <1>5, <1>7, <1>9, <1>11, <2>1 DEF DisposalsFit
  <2>2. CASE e # c
    BY <1>1, <1>9, <2>2 DEF DisposalsFit
  <2> QED
    BY <2>1, <2>2
<1>15. \A e \in Cont!Containers : Ahead(e)' \subseteq Ahead(e) /\ v \notin Ahead(c)'
  BY <1>3, <1>4, <1>7, <1>9, <1>10, <1>11 DEF Ahead
<1>16. FinishedOnes'
  <2>1. ASSUME NEW i \in Cont!Ids, finished'[i] = 1
        PROVE  /\ i \in Things
               /\ \A e \in Cont!Containers : \A w \in Ahead(e)' : i \notin Cont!InstanceAt(w)
    <3>1. CASE i \in Cont!InstanceAt(v)
      <4>1. i \in Things
        BY <1>1, <1>11, <3>1, VisitedIsInstance
      <4>2. ASSUME NEW e \in Cont!Containers, NEW w \in Ahead(e)', i \in Cont!InstanceAt(w)
            PROVE  FALSE
        <5>1. w \in Cont!Visits(e)
          BY <1>11, <1>15
        <5>2. e = c /\ w = v
          BY <1>1, <1>11, <3>1, <4>2, <5>1, OnePlace
        <5> QED
          BY <1>15, <4>2, <5>2
      <4> QED
        BY <4>1, <4>2
    <3>2. CASE i \notin Cont!InstanceAt(v)
      BY <1>1, <1>12, <1>15, <2>1, <3>2 DEF FinishedOnes
    <3> QED
      BY <3>1, <3>2
  <2>2. ASSUME NEW e \in disposed, NEW w \in Cont!Visits(e) \ disposal'[e].todo,
               NEW i \in Cont!InstanceAt(w)
        PROVE  finished'[i] = 1 \/ i \in excused
    <3>1. e \in Cont!Containers /\ i \in Cont!Ids
      BY <1>1, <2>2, VisitedIsInstance DEF ContTyped
    <3>2. w \in Cont!Visits(e) \ disposal[e].todo \/ w = v
      BY <1>4, <1>7, <1>9, <3>1
    <3>3. CASE w = v
      BY <1>12, <2>2, <3>1, <3>3
    <3>4. CASE w \in Cont!Visits(e) \ disposal[e].todo
      <4>1. finished[i] = 1 \/ i \in excused
        BY <1>1, <2>2, <3>4 DEF FinishedOnes
      <4> QED
        BY <1>12, <3>1, <4>1
    <3> QED
      BY <3>2, <3>3, <3>4
  <2> QED
    BY <1>3, <1>10, <2>1, <2>2 DEF FinishedOnes
<1>17. NoneForgotten'
  <2> SUFFICES ASSUME NEW i \in Cont!Ids, i \in Things
               PROVE  finished'[i] = 1 \/ i \in excused \/ Cont!Held(i)
    BY <1>3, <1>10 DEF NoneForgotten
  <2>1. finished[i] = 1 \/ i \in excused \/ Cont!Held(i)
    BY <1>1 DEF NoneForgotten
  <2> QED
    BY <1>12, <2>1
<1> QED
  BY <1>10, <1>13, <1>14, <1>16, <1>17 DEF ContInv

LEMMA VisitedKeepsContainer ==
  ASSUME ContInv, NEW c \in Cont!Containers, Cont!Visited(c)
  PROVE  ContInv'
<1>1. ContTyped /\ HeldApart /\ DisposalsFit /\ FinishedOnes /\ NoneForgotten
  BY DEF ContInv
<1>2. PICK v : v = disposal[c].at /\ v # Cont!Nowhere
  BY DEF Cont!Visited
<1>3. UNCHANGED <<held, instances, created, resolving, disposed, finished>>
  BY DEF Cont!Visited
<1>4. PICK o \in [todo : SUBSET ({"service", "given"} \X Nat),
                  at : {"service", "given", "none"} \X Nat, running : BOOLEAN] : o = disposal[c]
  BY <1>1 DEF ContTyped
<1>5. v \in Cont!Visits(c) \ o.todo /\ c \in disposed
  <2>1. c \notin disposed => disposal[c].at = Cont!Nowhere
    BY <1>1 DEF DisposalsFit, Cont!Idle
  <2> QED
    BY <1>1, <1>2, <1>4, <2>1 DEF DisposalsFit
<1>6. \E n \in [todo : SUBSET ({"service", "given"} \X Nat),
                at : {"service", "given", "none"} \X Nat, running : BOOLEAN] :
         /\ disposal' = [disposal EXCEPT ![c] = n] /\ n.at = Cont!Nowhere
         /\ \/ n.todo = o.todo /\ excused' = excused
            \/ /\ n.todo = {}
               /\ excused' = excused \cup UNION {Cont!InstanceAt(w) : w \in o.todo}
         /\ \/ instance' = instance
            \/ /\ instance' = [d \in Cont!Ids |-> IF v = <<"service", d>> THEN 0 ELSE instance[d]]
               /\ n.todo = o.todo
  <2>1. CASE /\ disposal' = [disposal EXCEPT ![c].at = Cont!Nowhere] /\ excused' = excused
             /\ \/ instance' = instance
                \/ instance' = [d \in Cont!Ids |-> IF v = <<"service", d>> THEN 0 ELSE instance[d]]
    <3>1. PICK n : n = [o EXCEPT !.at = Cont!Nowhere]
      OBVIOUS
    <3>2. /\ n \in [todo : SUBSET ({"service", "given"} \X Nat),
                    at : {"service", "given", "none"} \X Nat, running : BOOLEAN]
          /\ n.at = Cont!Nowhere /\ n.todo = o.todo
      BY <3>1 DEF Cont!Nowhere
    <3>3. disposal' = [disposal EXCEPT ![c] = n]
      BY <1>1, <1>4, <2>1, <3>1 DEF ContTyped
    <3> QED
      BY <2>1, <3>2, <3>3
  <2>2. CASE /\ disposal' = [disposal EXCEPT ![c] = Cont!Idle]
             /\ excused' = excused \cup UNION {Cont!InstanceAt(w) : w \in disposal[c].todo}
             /\ UNCHANGED instance
    <3>1. /\ Cont!Idle \in [todo : SUBSET ({"service", "given"} \X Nat),
                            at : {"service", "given", "none"} \X Nat, running : BOOLEAN]
          /\ Cont!Idle.at = Cont!Nowhere /\ Cont!Idle.todo = {}
      BY DEF Cont!Idle, Cont!Nowhere
    <3> QED
      BY <1>4, <2>2, <3>1
  <2> QED
    BY <1>2, <2>1, <2>2 DEF Cont!Visited
<1>7. PICK n \in [todo : SUBSET ({"service", "given"} \X Nat),
                  at : {"service", "given", "none"} \X Nat, running : BOOLEAN] :
         /\ disposal' = [disposal EXCEPT ![c] = n] /\ n.at = Cont!Nowhere
         /\ \/ n.todo = o.todo /\ excused' = excused
            \/ /\ n.todo = {}
               /\ excused' = excused \cup UNION {Cont!InstanceAt(w) : w \in o.todo}
         /\ \/ instance' = instance
            \/ /\ instance' = [d \in Cont!Ids |-> IF v = <<"service", d>> THEN 0 ELSE instance[d]]
               /\ n.todo = o.todo
  BY <1>6
<1>8. disposal'[c] = n /\ \A e \in Cont!Containers \ {c} : disposal'[e] = disposal[e]
  BY <1>1, <1>7 DEF ContTyped
<1>9. /\ Descriptors' = Descriptors /\ Things' = Things
      /\ \A e : Cont!Visits(e)' = Cont!Visits(e)
  BY <1>3 DEF Descriptors, Things, Cont!Visits
<1>10. /\ instance' \in [Cont!Ids -> Things]
       /\ \A d \in Cont!Ids : instance'[d] = instance[d] \/ (instance'[d] = 0 /\ v = <<"service", d>>)
  <2>1. instance \in [Cont!Ids -> Things] /\ 0 \in Things
    BY <1>1 DEF ContTyped, Things
  <2>2. CASE instance' = instance
    BY <2>1, <2>2
  <2>3. CASE instance' = [d \in Cont!Ids |-> IF v = <<"service", d>> THEN 0 ELSE instance[d]]
    BY <2>1, <2>3
  <2> QED
    BY <1>7, <2>2, <2>3
<1>11. ContTyped'
  <2>1. disposal' \in [Cont!Containers ->
           [todo : SUBSET ({"service", "given"} \X Nat), at : {"service", "given", "none"} \X Nat,
            running : BOOLEAN]]
    BY <1>1, <1>7 DEF ContTyped
  <2>2. \A d \in Cont!Ids : d > created'.descriptors => instance'[d] = 0
    BY <1>1, <1>3, <1>10 DEF ContTyped
  <2> QED
    BY <1>1, <1>3, <1>9, <1>10, <2>1, <2>2 DEF ContTyped
<1>12. HeldApart'
  BY <1>1, <1>3, <1>10 DEF HeldApart
<1>13. DisposalsFit'
  <2> SUFFICES ASSUME NEW e \in Cont!Containers
               PROVE  /\ disposal'[e].todo \subseteq Cont!Visits(e)
                      /\ disposal'[e].at # Cont!Nowhere =>
                           disposal'[e].at \in Cont!Visits(e) \ disposal'[e].todo
                      /\ e \notin disposed => disposal'[e] = Cont!Idle
    BY <1>3, <1>9 DEF DisposalsFit
  <2>1. CASE e = c
    BY <1>1, <1>4, <1>5, <1>7, <1>8, <2>1 DEF DisposalsFit
  <2>2. CASE e # c
    BY <1>1, <1>8, <2>2 DEF DisposalsFit
  <2> QED
    BY <2>1, <2>2
<1>14. \A e \in Cont!Containers : \A w \in Cont!Visits(e) :
          Cont!InstanceAt(w)' \subseteq Cont!InstanceAt(w)
  <2> SUFFICES ASSUME NEW e \in Cont!Containers, NEW w \in Cont!Visits(e),
                      NEW i \in Cont!InstanceAt(w)'
               PROVE  i \in Cont!InstanceAt(w)
    OBVIOUS
  <2>1. PICK t \in Tokens : \/ held[e][t] # 0 /\ w = <<"service", held[e][t]>>
                            \/ instances[e][t] # 0 /\ w = <<"given", instances[e][t]>>
    BY VisitsAre
  <2>2. CASE w = <<"given", instances[e][t]>>
    BY <2>2, InstanceAtIs, InstanceAtWillBe
  <2>3. CASE held[e][t] # 0 /\ w = <<"service", held[e][t]>>
    <3>1. PICK d \in Cont!Ids : d = held[e][t]
      BY <1>1, <2>3, LimitsFit DEF ContTyped, Descriptors, Cont!Ids
    <3>2. i = instance'[d] /\ i # 0
      BY <2>3, <3>1, InstanceAtWillBe
    <3>3. i = instance[d]
      BY <1>10, <3>2
    <3> QED
      BY <2>3, <3>1, <3>2, <3>3, InstanceAtIs
  <2> QED
    BY <2>1, <2>2, <2>3
<1>15. \A e \in Cont!Containers : /\ Ahead(e)' \subseteq Ahead(e)
                                  /\ Ahead(e) \subseteq Cont!Visits(e)
  BY <1>1, <1>3, <1>4, <1>7, <1>8, <1>9 DEF Ahead, DisposalsFit
<1>16. excused \subseteq excused'
  BY <1>7
<1>17. FinishedOnes'
  <2>1. ASSUME NEW i \in Cont!Ids, finished[i] = 1
        PROVE  /\ i \in Things
               /\ \A e \in Cont!Containers : \A w \in Ahead(e)' : i \notin Cont!InstanceAt(w)'
    BY <1>1, <1>14, <1>15, <2>1 DEF FinishedOnes
  <2>2. ASSUME NEW e \in disposed, NEW w \in Cont!Visits(e) \ disposal'[e].todo,
               NEW i \in Cont!InstanceAt(w)'
        PROVE  finished[i] = 1 \/ i \in excused'
    <3>1. e \in Cont!Containers /\ i \in Cont!InstanceAt(w)
      BY <1>1, <1>14, <2>2 DEF ContTyped
    <3>2. CASE w \notin disposal[e].todo
      BY <1>1, <1>16, <2>2, <3>1, <3>2 DEF FinishedOnes
    <3>3. CASE w \in disposal[e].todo
      <4>1. e = c /\ w \in o.todo /\ n.todo # o.todo
        BY <1>4, <1>8, <2>2, <3>1, <3>3
      <4> QED
        BY <1>7, <3>1, <4>1
    <3> QED
      BY <3>2, <3>3
  <2> QED
    BY <1>3, <1>9, <2>1, <2>2 DEF FinishedOnes
<1>18. NoneForgotten'
  <2> SUFFICES ASSUME NEW i \in Cont!Ids, i \in Things, finished[i] # 1, i \notin excused'
               PROVE  Cont!Held(i)'
    BY <1>3, <1>9 DEF NoneForgotten
  <2>1. Cont!Held(i) /\ i # 0
    BY <1>1, <1>16 DEF NoneForgotten, Cont!Ids
  <2>2. PICK e \in Cont!Containers, t \in Tokens :
           i = instances[e][t] \/ i \in Cont!InstanceOf(held[e][t])
    BY <2>1 DEF Cont!Held
  <2>3. CASE i = instances[e][t]
    BY <1>3, <2>3 DEF Cont!Held
  <2>4. CASE i \in Cont!InstanceOf(held[e][t])
    <3>1. held[e][t] # 0 /\ i = instance[held[e][t]]
      BY <2>4 DEF Cont!InstanceOf
    <3>2. PICK d \in Cont!Ids : d = held[e][t]
      BY <1>1, <3>1, LimitsFit DEF ContTyped, Descriptors, Cont!Ids
    <3>3. CASE v = <<"service", d>>
      <4>1. i \in Cont!InstanceAt(v)
        BY <2>1, <3>1, <3>2, <3>3, InstanceAtIs
      <4> QED
        BY <1>1, <1>4, <1>5, <1>16, <4>1 DEF FinishedOnes
    <3>4. CASE v # <<"service", d>>
      <4>1. instance'[d] = i
        BY <1>10, <3>1, <3>2, <3>4
      <4> QED
        BY <1>3, <2>1, <3>1, <3>2, <4>1 DEF Cont!Held, Cont!InstanceOf
    <3> QED
      BY <3>3, <3>4
  <2> QED
    BY <2>2, <2>3, <2>4
<1> QED
  BY <1>11, <1>12, <1>13, <1>17, <1>18 DEF ContInv

LEMMA DisposeEndsKeepsContainer ==
  ASSUME ContInv, NEW c \in Cont!Containers, Cont!DisposeEnds(c)
  PROVE  ContInv'
<1>1. ContTyped /\ HeldApart /\ DisposalsFit /\ FinishedOnes /\ NoneForgotten
  BY DEF ContInv
<1>2. /\ disposal[c].at = Cont!Nowhere /\ disposal[c].todo = {} /\ disposal[c].running
      /\ disposal' = [disposal EXCEPT ![c] = Cont!Idle]
      /\ held' = [held EXCEPT ![c] = [t \in Tokens |-> 0]]
      /\ instances' = [instances EXCEPT ![c] = [t \in Tokens |-> 0]]
      /\ UNCHANGED <<instance, created, resolving, disposed, finished, excused>>
  BY DEF Cont!DisposeEnds
<1>3. c \in disposed
  BY <1>1, <1>2 DEF DisposalsFit, Cont!Idle
<1>4. /\ Cont!Idle \in [todo : SUBSET ({"service", "given"} \X Nat),
                        at : {"service", "given", "none"} \X Nat, running : BOOLEAN]
      /\ Cont!Idle.at = Cont!Nowhere /\ Cont!Idle.todo = {}
  BY DEF Cont!Idle, Cont!Nowhere
<1>5. /\ Descriptors' = Descriptors /\ Things' = Things /\ 0 \in Descriptors /\ 0 \in Things
      /\ \A v : Cont!InstanceAt(v)' = Cont!InstanceAt(v)
  BY <1>1, <1>2 DEF ContTyped, Descriptors, Things, Cont!InstanceAt, Cont!InstanceOf
<1>6. /\ held' \in [Cont!Containers -> [Tokens -> Descriptors]]
      /\ instances' \in [Cont!Containers -> [Tokens -> Things]]
      /\ \A e \in Cont!Containers, t \in Tokens :
           /\ held'[e][t] = IF e = c THEN 0 ELSE held[e][t]
           /\ instances'[e][t] = IF e = c THEN 0 ELSE instances[e][t]
  BY <1>1, <1>2, <1>5 DEF ContTyped
<1>7. disposal'[c] = Cont!Idle /\ \A e \in Cont!Containers \ {c} : disposal'[e] = disposal[e]
  BY <1>1, <1>2 DEF ContTyped
<1>8. ContTyped'
  <2>1. disposal' \in [Cont!Containers ->
           [todo : SUBSET ({"service", "given"} \X Nat), at : {"service", "given", "none"} \X Nat,
            running : BOOLEAN]]
    BY <1>1, <1>2, <1>4 DEF ContTyped
  <2> QED
    BY <1>1, <1>2, <1>5, <1>6, <2>1 DEF ContTyped
<1>9. HeldApart'
  BY <1>1, <1>2, <1>6 DEF HeldApart
<1>10. /\ Cont!Visits(c)' = {}
       /\ \A e \in Cont!Containers \ {c} : Cont!Visits(e)' = Cont!Visits(e)
  <2>1. Cont!Visits(c)' = {}
    BY <1>6, VisitsAre
  <2>2. ASSUME NEW e \in Cont!Containers \ {c} PROVE Cont!Visits(e)' = Cont!Visits(e)
    <3>1. held'[e] = held[e] /\ instances'[e] = instances[e]
      BY <1>1, <1>2, <2>2 DEF ContTyped
    <3> QED
      BY <3>1 DEF Cont!Visits
  <2> QED
    BY <2>1, <2>2
<1>11. DisposalsFit'
  BY <1>1, <1>2, <1>4, <1>7, <1>10 DEF DisposalsFit
<1>12. FinishedOnes'
  <2>1. \A e \in Cont!Containers : Ahead(e)' \subseteq Ahead(e)
    BY <1>2, <1>3, <1>4, <1>7, <1>10 DEF Ahead
  <2>2. \A e \in disposed : \A w \in Cont!Visits(e)' \ disposal'[e].todo :
           w \in Cont!Visits(e) \ disposal[e].todo
    BY <1>1, <1>7, <1>10 DEF ContTyped
  <2> QED
    BY <1>1, <1>2, <1>5, <2>1, <2>2 DEF FinishedOnes
<1>13. NoneForgotten'
  <2> SUFFICES ASSUME NEW i \in Cont!Ids, i \in Things, finished[i] # 1, i \notin excused
               PROVE  Cont!Held(i)'
    BY <1>2, <1>5 DEF NoneForgotten
  <2>1. Cont!Held(i) /\ i # 0
    BY <1>1 DEF NoneForgotten, Cont!Ids
  <2>2. PICK e \in Cont!Containers, t \in Tokens :
           i = instances[e][t] \/ i \in Cont!InstanceOf(held[e][t])
    BY <2>1 DEF Cont!Held
  <2>3. CASE e # c
    BY <1>2, <1>6, <2>1, <2>2, <2>3 DEF Cont!Held, Cont!InstanceOf
  <2>4. CASE e = c
    <3>1. \E v \in Cont!Visits(c) : i \in Cont!InstanceAt(v)
      <4>1. CASE i = instances[c][t]
        <5>1. <<"given", i>> \in Cont!Visits(c)
          BY <2>1, <4>1, VisitsAre
        <5> QED
          BY <5>1, InstanceAtIs
      <4>2. CASE i \in Cont!InstanceOf(held[c][t])
        <5>1. held[c][t] # 0 /\ i = instance[held[c][t]]
          BY <4>2 DEF Cont!InstanceOf
        <5>2. <<"service", held[c][t]>> \in Cont!Visits(c)
          BY <5>1, VisitsAre
        <5> QED
          BY <2>1, <5>1, <5>2, InstanceAtIs
      <4> QED
        BY <2>2, <2>4, <4>1, <4>2
    <3> QED
      BY <1>1, <1>2, <1>3, <3>1 DEF FinishedOnes
  <2> QED
    BY <2>3, <2>4
<1> QED
  BY <1>8, <1>9, <1>11, <1>12, <1>13 DEF ContInv

LEMMA ContainerKept ==
  ASSUME ContInv, Cont!Next
  PROVE  ContInv'
BY RegisterKeepsContainer, RegisterInstanceKeepsContainer, ResolveKeepsContainer,
   FactoryKeepsContainer, DisposeKeepsContainer, VisitKeepsContainer, VisitedKeepsContainer,
   DisposeEndsKeepsContainer DEF Cont!Next

-----------------------------------------------------------------------------
(* Alerts and spans.  What was reported last is the state of an alert.       *)

AlertsInv ==
    /\ status \in [Obs!Alerts -> {"pending", "firing", "resolved"}]
    /\ raised \in [Obs!Alerts -> Seq({"firing", "resolved"})]
    /\ \A a \in Obs!Alerts : status[a] = "firing" <=> Len(raised[a]) % 2 = 1
    /\ Obs!Alternates

LEMMA ParityTurns == \A n \in Nat : (n + 1) % 2 = 1 <=> n % 2 # 1
  OBVIOUS

LEMMA CheckKeepsAlerts ==
  ASSUME AlertsInv, NEW r, Obs!CheckAlerts(r)
  PROVE  AlertsInv'
<1> DEFINE fired == Obs!Firing(context[r])
           resolved == {a \in Obs!Alerts : Obs!Resolves(a, context[r])}
           Now(a) == IF a \in fired THEN "firing" ELSE "resolved"
<1>1. \A a \in fired : a \in Obs!Alerts /\ status[a] # "firing"
  BY DEF Obs!Firing, Obs!Candidates
<1>2. \A a \in resolved : a \in Obs!Alerts /\ status[a] = "firing"
  BY DEF Obs!Resolves
<1>3. /\ status' = [a \in Obs!Alerts |-> IF a \in fired \cup resolved THEN Now(a) ELSE status[a]]
      /\ raised' = [a \in Obs!Alerts |-> IF a \in fired \cup resolved
                                        THEN Append(raised[a], Now(a)) ELSE raised[a]]
  BY DEF Obs!CheckAlerts
<1> HIDE DEF fired, resolved
<1>4. \A a \in Obs!Alerts :
        /\ status'[a] \in {"pending", "firing", "resolved"}
        /\ raised'[a] \in Seq({"firing", "resolved"})
        /\ status'[a] = "firing" <=> Len(raised'[a]) % 2 = 1
        /\ \A i \in DOMAIN raised'[a] :
             raised'[a][i] = IF i % 2 = 1 THEN "firing" ELSE "resolved"
  <2> SUFFICES ASSUME NEW a \in Obs!Alerts
               PROVE  /\ status'[a] \in {"pending", "firing", "resolved"}
                      /\ raised'[a] \in Seq({"firing", "resolved"})
                      /\ status'[a] = "firing" <=> Len(raised'[a]) % 2 = 1
                      /\ \A i \in DOMAIN raised'[a] :
                           raised'[a][i] = IF i % 2 = 1 THEN "firing" ELSE "resolved"
    OBVIOUS
  <2>1. /\ raised[a] \in Seq({"firing", "resolved"})
        /\ status[a] = "firing" <=> Len(raised[a]) % 2 = 1
        /\ \A i \in DOMAIN raised[a] :
             raised[a][i] = IF i % 2 = 1 THEN "firing" ELSE "resolved"
        /\ status[a] \in {"pending", "firing", "resolved"}
    BY DEF AlertsInv, Obs!Alternates
  <2>1a. Len(raised[a]) \in Nat /\ DOMAIN raised[a] = 1..Len(raised[a])
    BY <2>1, LenProperties
  <2>1b. ASSUME NEW what \in {"firing", "resolved"}, status'[a] = what,
                raised'[a] = Append(raised[a], what),
                what = IF (Len(raised[a]) + 1) % 2 = 1 THEN "firing" ELSE "resolved"
         PROVE  /\ status'[a] \in {"pending", "firing", "resolved"}
                /\ raised'[a] \in Seq({"firing", "resolved"})
                /\ status'[a] = "firing" <=> Len(raised'[a]) % 2 = 1
                /\ \A i \in DOMAIN raised'[a] :
                     raised'[a][i] = IF i % 2 = 1 THEN "firing" ELSE "resolved"
    <3>a. PICK more : more = Append(raised[a], what)
      OBVIOUS
    <3>b. /\ more \in Seq({"firing", "resolved"}) /\ Len(more) = Len(raised[a]) + 1
          /\ \A i \in 1..Len(raised[a]) : more[i] = raised[a][i]
          /\ more[Len(raised[a]) + 1] = what
      BY <2>1, <3>a, AppendProperties
    <3>1. /\ raised'[a] \in Seq({"firing", "resolved"}) /\ Len(raised'[a]) = Len(raised[a]) + 1
          /\ \A i \in 1..Len(raised[a]) : raised'[a][i] = raised[a][i]
          /\ raised'[a][Len(raised[a]) + 1] = what
      BY <2>1b, <3>a, <3>b
    <3>2. DOMAIN raised'[a] = 1..Len(raised'[a])
      BY <3>1, LenProperties
    <3>3. \A i \in 1..Len(raised[a]) + 1 : i \in 1..Len(raised[a]) \/ i = Len(raised[a]) + 1
      BY <2>1a
    <3>4. \A i \in DOMAIN raised'[a] :
             raised'[a][i] = IF i % 2 = 1 THEN "firing" ELSE "resolved"
      BY <2>1, <2>1a, <2>1b, <3>1, <3>2, <3>3
    <3> QED
      BY <2>1b, <3>1, <3>4
  <2>2. CASE a \notin fired \cup resolved
    BY <1>3, <2>1, <2>2
  <2>3. CASE a \in fired
    <3>1. status'[a] = "firing" /\ raised'[a] = Append(raised[a], "firing")
      BY <1>3, <2>3
    <3>2. (Len(raised[a]) + 1) % 2 = 1
      <4>1. Len(raised[a]) % 2 # 1
        BY <1>1, <2>1, <2>3
      <4> QED
        BY <2>1a, <4>1, ParityTurns
    <3> QED
      BY <2>1b, <3>1, <3>2
  <2>4. CASE a \in resolved /\ a \notin fired
    <3>1. status'[a] = "resolved" /\ raised'[a] = Append(raised[a], "resolved")
      BY <1>3, <2>4
    <3>2. (Len(raised[a]) + 1) % 2 # 1
      <4>1. Len(raised[a]) % 2 = 1
        BY <1>2, <2>1, <2>4
      <4> QED
        BY <2>1a, <4>1, ParityTurns
    <3> QED
      BY <2>1b, <3>1, <3>2
  <2> QED
    BY <2>2, <2>3, <2>4
<1> QED
  BY <1>3, <1>4 DEF AlertsInv, Obs!Alternates

LEMMA AlertsKept ==
  ASSUME AlertsInv, Obs!AlertsNext
  PROVE  AlertsInv'
<1>1. CASE UNCHANGED <<status, raised>>
  BY <1>1 DEF AlertsInv, Obs!Alternates
<1>2. UNCHANGED <<status, raised>> \/ \E r \in Runs : Obs!CheckAlerts(r)
  BY DEF Obs!AlertsNext, Obs!Changes, Obs!Silence, Obs!CoolsDown, Obs!ReadContext, Obs!Send,
         Obs!Quiet
<1> QED
  BY <1>1, <1>2, CheckKeepsAlerts

SpansTyped ==
    /\ spans \in Nat /\ active \subseteq 1..spans
    /\ spanQueue \in Seq(1..spans) /\ exported \in Seq(1..spans)

\* A span that was started is active, in the queue or exported, and that once.
SpansInv ==
    /\ SpansTyped
    /\ \A i, j \in DOMAIN exported : exported[i] = exported[j] => i = j
    /\ \A i, j \in DOMAIN spanQueue : spanQueue[i] = spanQueue[j] => i = j
    /\ \A i \in DOMAIN exported, j \in DOMAIN spanQueue : exported[i] # spanQueue[j]
    /\ \A i \in DOMAIN exported : exported[i] \notin active
    /\ \A i \in DOMAIN spanQueue : spanQueue[i] \notin active

LEMMA StartKeepsSpans ==
  ASSUME SpansInv, NEW sampled, Obs!startSpan(sampled)
  PROVE  SpansInv'
<1>1. /\ spans' = spans + 1 /\ active' \subseteq active \cup {spans + 1}
      /\ UNCHANGED <<spanQueue, exported>>
  BY DEF Obs!startSpan
<1>2. /\ DOMAIN exported = 1..Len(exported) /\ \A i \in DOMAIN exported : exported[i] \in 1..spans
      /\ DOMAIN spanQueue = 1..Len(spanQueue)
      /\ \A i \in DOMAIN spanQueue : spanQueue[i] \in 1..spans
      /\ Len(exported) \in Nat /\ Len(spanQueue) \in Nat
  BY DEF SpansInv, SpansTyped
<1>3. SpansTyped'
  <2>1. 1..spans \subseteq 1..spans' /\ spans' \in Nat /\ active' \subseteq 1..spans'
    BY <1>1 DEF SpansInv, SpansTyped
  <2>2. spanQueue \in Seq(1..spans') /\ exported \in Seq(1..spans')
    BY <2>1, SeqMonotonic DEF SpansInv, SpansTyped
  <2> QED
    BY <1>1, <2>1, <2>2 DEF SpansTyped
<1> QED
  BY <1>1, <1>2, <1>3 DEF SpansInv, SpansTyped

LEMMA EndKeepsSpans ==
  ASSUME SpansInv, NEW id, Obs!endSpan(id)
  PROVE  SpansInv'
<1>1. id \in active /\ active' = active \ {id} /\ UNCHANGED <<exported, spans>> /\ id \in 1..spans
  BY DEF Obs!endSpan, SpansInv, SpansTyped
<1>2. PICK kept : /\ kept = IF Len(spanQueue) >= maxQueueSize THEN Tail(spanQueue) ELSE spanQueue
                  /\ spanQueue' = Append(kept, id)
  BY DEF Obs!endSpan
<1>3. /\ spanQueue \in Seq(1..spans) /\ Len(spanQueue) \in Nat
      /\ DOMAIN spanQueue = 1..Len(spanQueue) /\ spans \in Nat
  BY DEF SpansInv, SpansTyped
<1>4. \E shift \in {0, 1} :
        /\ kept \in Seq(1..spans) /\ Len(kept) = Len(spanQueue) - shift
        /\ \A i \in 1..Len(kept) : i + shift \in DOMAIN spanQueue /\ kept[i] = spanQueue[i + shift]
  <2>1. CASE Len(spanQueue) >= maxQueueSize
    <3>1. kept = Tail(spanQueue) /\ spanQueue # <<>>
      BY <1>2, <1>3, <2>1, LimitsFit
    <3>2. /\ kept \in Seq(1..spans) /\ Len(kept) = Len(spanQueue) - 1
          /\ \A i \in 1..Len(kept) : kept[i] = spanQueue[i + 1]
      BY <1>3, <3>1, HeadTailProperties
    <3>3. \A i \in 1..Len(kept) : i + 1 \in 1..Len(spanQueue)
      BY <1>3, <3>2
    <3> QED
      BY <1>3, <3>2, <3>3
  <2>2. CASE ~(Len(spanQueue) >= maxQueueSize)
    <3>1. kept = spanQueue
      BY <1>2, <2>2
    <3>2. /\ Len(kept) = Len(spanQueue) - 0
          /\ \A i \in 1..Len(kept) : i + 0 \in DOMAIN spanQueue /\ kept[i] = spanQueue[i + 0]
      BY <1>3, <3>1
    <3> QED
      BY <1>3, <3>1, <3>2
  <2> QED
    BY <2>1, <2>2
<1>5. PICK shift \in {0, 1} :
        /\ kept \in Seq(1..spans) /\ Len(kept) = Len(spanQueue) - shift
        /\ \A i \in 1..Len(kept) : i + shift \in DOMAIN spanQueue /\ kept[i] = spanQueue[i + shift]
  BY <1>4
<1>6. /\ spanQueue' \in Seq(1..spans) /\ DOMAIN spanQueue' = 1..Len(kept) + 1
      /\ Len(kept) \in Nat
      /\ \A i \in 1..Len(kept) : spanQueue'[i] = kept[i]
      /\ spanQueue'[Len(kept) + 1] = id
  BY <1>1, <1>2, <1>5
<1>7. \A i \in DOMAIN spanQueue' :
        \/ i = Len(kept) + 1 /\ spanQueue'[i] = id
        \/ i \in 1..Len(kept) /\ i + shift \in DOMAIN spanQueue /\ spanQueue'[i] = spanQueue[i + shift]
  <2>1. \A i \in 1..Len(kept) + 1 : i = Len(kept) + 1 \/ i \in 1..Len(kept)
    BY <1>6
  <2> QED
    BY <1>5, <1>6, <2>1
<1>8. SpansTyped'
  BY <1>1, <1>6 DEF SpansInv, SpansTyped
<1>9. \A i, j \in DOMAIN spanQueue' : spanQueue'[i] = spanQueue'[j] => i = j
  BY <1>1, <1>6, <1>7 DEF SpansInv
<1> QED
  BY <1>1, <1>7, <1>8, <1>9 DEF SpansInv

LEMMA ExportKeepsSpans ==
  ASSUME SpansInv, Obs!Export, UNCHANGED <<active, spans>>
  PROVE  SpansInv'
<1>1. CASE UNCHANGED <<spanQueue, exported>>
  BY <1>1 DEF SpansInv, SpansTyped
<1>2. PICK n : n = IF Len(spanQueue) < maxBatchSize THEN Len(spanQueue) ELSE maxBatchSize
  OBVIOUS
<1>3. PICK batch : batch = SubSeq(spanQueue, 1, n)
  OBVIOUS
<1>4. CASE /\ spanQueue' = SubSeq(spanQueue, Len(batch) + 1, Len(spanQueue))
           /\ exported' = exported \o batch
  <2>1. /\ spanQueue \in Seq(1..spans) /\ Len(spanQueue) \in Nat /\ exported \in Seq(1..spans)
        /\ DOMAIN spanQueue = 1..Len(spanQueue) /\ spans \in Nat
        /\ \A i \in 1..Len(spanQueue) : spanQueue[i] \in 1..spans
        /\ DOMAIN exported = 1..Len(exported) /\ Len(exported) \in Nat
    BY DEF SpansInv, SpansTyped
  <2>2. n \in 0..Len(spanQueue)
    BY <1>2, <2>1, LimitsFit
  <2>3. /\ batch \in Seq(1..spans) /\ Len(batch) = n
        /\ \A i \in 1..n : batch[i] = spanQueue[i]
    BY <1>3, <2>1, <2>2
  <2>4. /\ spanQueue' \in Seq(1..spans) /\ DOMAIN spanQueue' = 1..Len(spanQueue) - n
        /\ \A i \in DOMAIN spanQueue' : i + n \in DOMAIN spanQueue /\ spanQueue'[i] = spanQueue[i + n]
    BY <1>4, <2>1, <2>2, <2>3
  <2>5. /\ exported' \in Seq(1..spans) /\ DOMAIN exported' = 1..Len(exported) + n
        /\ \A i \in DOMAIN exported' :
             \/ i \in DOMAIN exported /\ exported'[i] = exported[i]
             \/ /\ i - Len(exported) \in 1..n /\ i - Len(exported) \in DOMAIN spanQueue
                /\ exported'[i] = spanQueue[i - Len(exported)]
    <3>1. Len(exported') = Len(exported) + n /\ exported' \in Seq(1..spans)
      BY <1>4, <2>1, <2>3, ConcatProperties
    <3>2. \A i \in 1..Len(exported) : exported'[i] = exported[i]
      BY <1>4, <2>1, <2>3
    <3>3. \A i \in 1..n : exported'[Len(exported) + i] = batch[i]
      BY <1>4, <2>1, <2>2, <2>3
    <3>4. ASSUME NEW i \in 1..Len(exported) + n, i \notin 1..Len(exported)
          PROVE  /\ i - Len(exported) \in 1..n /\ i - Len(exported) \in DOMAIN spanQueue
                 /\ exported'[i] = spanQueue[i - Len(exported)]
      <4>1. i - Len(exported) \in 1..n /\ i = Len(exported) + (i - Len(exported))
        BY <2>1, <2>2, <3>4
      <4>2. PICK k \in 1..n : k = i - Len(exported) /\ i = Len(exported) + k
        BY <4>1
      <4> QED
        BY <2>1, <2>2, <2>3, <3>3, <4>2
    <3>5. DOMAIN exported' = 1..Len(exported) + n
      BY <3>1, LenProperties
    <3> QED
      BY <2>1, <3>1, <3>2, <3>4, <3>5
  <2>6. SpansTyped'
    BY <2>4, <2>5 DEF SpansInv, SpansTyped
  <2>7. \A i, j \in DOMAIN exported' : exported'[i] = exported'[j] => i = j
    <3> SUFFICES ASSUME NEW i \in DOMAIN exported', NEW j \in DOMAIN exported',
                        exported'[i] = exported'[j]
                 PROVE  i = j
      OBVIOUS
    <3>1. i \in Int /\ j \in Int
      BY <2>1, <2>2, <2>5
    <3>2. CASE i \in DOMAIN exported /\ exported'[i] = exported[i]
      <4>1. CASE j \in DOMAIN exported /\ exported'[j] = exported[j]
        BY <3>2, <4>1 DEF SpansInv
      <4>2. CASE exported'[j] = spanQueue[j - Len(exported)] /\ j - Len(exported) \in DOMAIN spanQueue
        BY <3>2, <4>2 DEF SpansInv
      <4> QED
        BY <2>5, <4>1, <4>2
    <3>3. CASE exported'[i] = spanQueue[i - Len(exported)] /\ i - Len(exported) \in DOMAIN spanQueue
      <4>1. CASE j \in DOMAIN exported /\ exported'[j] = exported[j]
        BY <3>3, <4>1 DEF SpansInv
      <4>2. CASE exported'[j] = spanQueue[j - Len(exported)] /\ j - Len(exported) \in DOMAIN spanQueue
        <5>1. i - Len(exported) = j - Len(exported)
          BY <3>3, <4>2 DEF SpansInv
        <5> QED
          BY <2>1, <3>1, <5>1
      <4> QED
        BY <2>5, <4>1, <4>2
    <3> QED
      BY <2>5, <3>2, <3>3
  <2>8. \A i, j \in DOMAIN spanQueue' : spanQueue'[i] = spanQueue'[j] => i = j
    BY <2>1, <2>2, <2>4 DEF SpansInv
  <2>9. \A i \in DOMAIN exported', j \in DOMAIN spanQueue' : exported'[i] # spanQueue'[j]
    <3>1. SUFFICES ASSUME NEW i \in DOMAIN exported', NEW j \in DOMAIN spanQueue'
                   PROVE  exported'[i] # spanQueue'[j]
      OBVIOUS
    <3>2. j + n \in DOMAIN spanQueue /\ spanQueue'[j] = spanQueue[j + n] /\ j \in Nat \ {0}
      BY <2>1, <2>2, <2>4
    <3>3. CASE i \in DOMAIN exported /\ exported'[i] = exported[i]
      BY <3>2, <3>3 DEF SpansInv
    <3>4. ASSUME NEW k \in 1..n, k \in DOMAIN spanQueue, exported'[i] = spanQueue[k]
          PROVE  exported'[i] # spanQueue'[j]
      BY <2>2, <3>2, <3>4 DEF SpansInv
    <3> QED
      BY <2>5, <3>3, <3>4
  <2>10. /\ \A i \in DOMAIN exported' : exported'[i] \notin active
         /\ \A i \in DOMAIN spanQueue' : spanQueue'[i] \notin active
    BY <2>4, <2>5 DEF SpansInv
  <2> QED
    BY <2>6, <2>7, <2>8, <2>9, <2>10 DEF SpansInv
<1> QED
  BY <1>1, <1>2, <1>3, <1>4 DEF Obs!Export, Obs!Rest

LEMMA SpansKept ==
  ASSUME SpansInv, Obs!SpansNext
  PROVE  SpansInv'
<1>1. ASSUME NEW batch, Obs!ExportEnds(batch) PROVE SpansInv'
  BY <1>1 DEF Obs!ExportEnds, SpansInv, SpansTyped
<1> QED
  BY <1>1, StartKeepsSpans, EndKeepsSpans, ExportKeepsSpans
     DEF Obs!SpansNext, Obs!forceFlush, Obs!Exports, Obs!TimerFires

\* Nothing is exported twice or exported and still waiting.
LEMMA SpansAreExportedOnce ==
  ASSUME SpansInv
  PROVE  Obs!ExportedOnce
<1>1. PICK all : all = exported \o spanQueue
  OBVIOUS
<1>2. /\ spanQueue \in Seq(1..spans) /\ exported \in Seq(1..spans)
      /\ Len(spanQueue) \in Nat /\ Len(exported) \in Nat
      /\ DOMAIN spanQueue = 1..Len(spanQueue) /\ DOMAIN exported = 1..Len(exported)
  BY DEF SpansInv, SpansTyped
<1>3. /\ DOMAIN all = 1..Len(exported) + Len(spanQueue)
      /\ \A i \in 1..Len(exported) : all[i] = exported[i]
      /\ \A k \in 1..Len(spanQueue) : all[Len(exported) + k] = spanQueue[k]
  BY <1>1, <1>2
<1>4. ASSUME NEW i \in DOMAIN all, i \notin DOMAIN exported
      PROVE  \E k \in DOMAIN spanQueue : i = Len(exported) + k /\ all[i] = spanQueue[k]
  <2>1. i - Len(exported) \in 1..Len(spanQueue) /\ i = Len(exported) + (i - Len(exported))
    BY <1>2, <1>3, <1>4
  <2> QED
    BY <1>2, <1>3, <2>1
<1>5. \A i, j \in DOMAIN all : all[i] = all[j] => i = j
  <2> SUFFICES ASSUME NEW i \in DOMAIN all, NEW j \in DOMAIN all, all[i] = all[j] PROVE i = j
    OBVIOUS
  <2>1. CASE i \in DOMAIN exported /\ j \in DOMAIN exported
    BY <1>2, <1>3, <2>1 DEF SpansInv
  <2>2. CASE i \in DOMAIN exported /\ j \notin DOMAIN exported
    BY <1>2, <1>3, <1>4, <2>2 DEF SpansInv
  <2>3. CASE i \notin DOMAIN exported /\ j \in DOMAIN exported
    BY <1>2, <1>3, <1>4, <2>3 DEF SpansInv
  <2>4. CASE i \notin DOMAIN exported /\ j \notin DOMAIN exported
    <3>1. PICK k \in DOMAIN spanQueue : i = Len(exported) + k /\ all[i] = spanQueue[k]
      BY <1>4, <2>4
    <3>2. PICK l \in DOMAIN spanQueue : j = Len(exported) + l /\ all[j] = spanQueue[l]
      BY <1>4, <2>4
    <3> QED
      BY <3>1, <3>2 DEF SpansInv
  <2> QED
    BY <2>1, <2>2, <2>3, <2>4
<1> QED
  BY <1>1, <1>5 DEF Obs!ExportedOnce, Obs!IsInjective

\* For any alerts, rules of inhibition, silences, numbers of overlapping checks
\* and sizes of queue and batch: an alert is reported firing and resolved in
\* turn, and no span is exported twice, nor exported and still in the queue.
THEOREM ReportsComeOnce == Spec => []ReportedOnce
<1> DEFINE I == (part = "alerts" => AlertsInv) /\ (part = "spans" => SpansInv)
<1>1. Init => I
  <2>1. Init => AlertsInv
    BY DEF Init, Obs!Init, AlertsInv, Obs!Alternates
  <2>2. Init => SpansInv
    BY DEF Init, Obs!Init, SpansInv, SpansTyped
  <2> QED
    BY <2>1, <2>2
<1>2. I /\ [Next]_vars => I'
  <2> SUFFICES ASSUME I, [Next]_vars PROVE I'
    OBVIOUS
  <2>1. AlertsInv /\ UNCHANGED alertVars => AlertsInv'
    BY DEF alertVars, AlertsInv, Obs!Alternates
  <2>2. SpansInv /\ UNCHANGED spanVars => SpansInv'
    BY DEF spanVars, SpansInv, SpansTyped
  <2> QED
    BY <2>1, <2>2, StepOfPart, AlertsKept, SpansKept
<1>3. I => ReportedOnce
  BY SpansAreExportedOnce DEF ReportedOnce, AlertsInv
<1> QED
  BY <1>1, <1>2, <1>3, PTL DEF Spec

-----------------------------------------------------------------------------
(* Cleanups.  A sort returns what it is asked for, as there is an order of   *)
(* any finite set along a strict total order, a relation of pairs: the place *)
(* of an element is one more than the number of those before it.             *)

LEMMA Enumerated ==
  ASSUME NEW S, IsFiniteSet(S), NEW R,
         \A x \in S : <<x, x>> \notin R,
         \A x, y \in S : x # y => <<x, y>> \in R \/ <<y, x>> \in R,
         \A x, y, z \in S : <<x, y>> \in R /\ <<y, z>> \in R => <<x, z>> \in R
  PROVE  \E f \in [1..Cardinality(S) -> S] :
            \A i, j \in 1..Cardinality(S) : i < j => <<f[i], f[j]>> \in R
<1> DEFINE n == Cardinality(S)
           below(x) == {y \in S : <<y, x>> \in R}
           rank == [x \in S |-> Cardinality(below(x)) + 1]
<1>1. n \in Nat
  BY FS_CardinalityType
<1>2. ASSUME NEW x \in S, NEW T \in SUBSET S, x \notin T
      PROVE  IsFiniteSet(T) /\ Cardinality(T) \in Nat /\ Cardinality(T) < n
  <2>1. IsFiniteSet(T) /\ Cardinality(T) <= n /\ Cardinality(T) # n
    BY <1>2, FS_Subset
  <2> QED
    BY <1>1, <2>1, FS_CardinalityType
<1>3. \A x \in S : /\ IsFiniteSet(below(x)) /\ Cardinality(below(x)) \in Nat
                   /\ Cardinality(below(x)) < n
  <2> SUFFICES ASSUME NEW x \in S
               PROVE  /\ IsFiniteSet(below(x)) /\ Cardinality(below(x)) \in Nat
                      /\ Cardinality(below(x)) < n
    OBVIOUS
  <2>1. below(x) \in SUBSET S /\ x \notin below(x)
    OBVIOUS
  <2> QED
    BY <1>2, <2>1
<1>4. ASSUME NEW x \in S, NEW y \in S, <<x, y>> \in R
      PROVE  rank[x] < rank[y]
  <2>1. below(x) \in SUBSET below(y) /\ x \in below(y) /\ x \notin below(x)
    BY <1>4
  <2>2. /\ IsFiniteSet(below(y)) /\ Cardinality(below(x)) \in Nat
        /\ Cardinality(below(y)) \in Nat
    BY <1>3
  <2>3. Cardinality(below(x)) <= Cardinality(below(y))
    BY <2>1, <2>2, FS_Subset
  <2>4. Cardinality(below(x)) # Cardinality(below(y))
    BY <2>1, <2>2, FS_Subset
  <2> HIDE DEF below
  <2> QED
    BY <2>2, <2>3, <2>4
<1>5. rank \in [S -> 1..n]
  <2> HIDE DEF below
  <2> QED
    BY <1>1, <1>3
<1> HIDE DEF rank
<1>6. \A x, y \in S : rank[x] = rank[y] => x = y
  <2> SUFFICES ASSUME NEW x \in S, NEW y \in S, rank[x] = rank[y], x # y PROVE FALSE
    OBVIOUS
  <2>1. rank[x] \in Nat /\ rank[y] \in Nat
    BY <1>1, <1>5
  <2>2. <<x, y>> \in R \/ <<y, x>> \in R
    OBVIOUS
  <2>3. rank[x] < rank[y] \/ rank[y] < rank[x]
    BY <1>4, <2>2
  <2> QED
    BY <2>1, <2>3
<1>7. rank \in Injection(S, 1..n)
  BY <1>5, <1>6 DEF Injection, IsInjective
<1>8. IsFiniteSet(1..n) /\ Cardinality(1..n) = n
  BY <1>1, FS_Interval
<1>9. rank \in Surjection(S, 1..n)
  BY <1>7, <1>8, FS_Injection
<1>10. \A i \in 1..n : \E x \in S : rank[x] = i
  BY <1>9 DEF Surjection
<1>11. PICK f \in [1..n -> S] : \A i \in 1..n : rank[f[i]] = i
  <2> DEFINE g == [i \in 1..n |-> CHOOSE x \in S : rank[x] = i]
  <2>1. g \in [1..n -> S] /\ \A i \in 1..n : rank[g[i]] = i
    BY <1>10
  <2> QED
    BY <2>1
<1>12. ASSUME NEW i \in 1..n, NEW j \in 1..n, i < j PROVE <<f[i], f[j]>> \in R
  <2>1. f[i] \in S /\ f[j] \in S /\ rank[f[i]] = i /\ rank[f[j]] = j /\ f[i] # f[j]
    BY <1>11, <1>12
  <2>2. <<f[j], f[i]>> \notin R
    BY <1>1, <1>4, <1>12, <2>1
  <2> QED
    BY <2>1, <2>2
<1> QED
  BY <1>11, <1>12

\* g may be cleaned up before h.
Precedes(g, h) == CleanupHandlers[g] <= CleanupHandlers[h] /\ g # h

InPriority(list) ==
    /\ list \in Seq(DOMAIN CleanupHandlers)
    /\ \A i, j \in DOMAIN list : i < j => Precedes(list[i], list[j])

\* A list of handlers in any order, each once.
OnceEach(list) ==
    /\ list \in Seq(DOMAIN CleanupHandlers)
    /\ \A i, j \in DOMAIN list : list[i] = list[j] => i = j

\* What was called and what is still to be called are one list, in order.
DownInv ==
    /\ OnceEach(registered)
    /\ InPriority(begun) /\ InPriority(todo)
    /\ \A i \in DOMAIN begun, j \in DOMAIN todo : Precedes(begun[i], todo[j])
    /\ stage = "up" => begun = <<>> /\ waited = "nobody"

LEMMA SortedByPriority ==
  ASSUME NEW list, OnceEach(list)
  PROVE  InPriority(Down!ByPriority(list))
<1> DEFINE n == Len(list)
           R == {r \in (1..n) \X (1..n) : Down!Before(list, list[r[1]], list[r[2]])}
           H == DOMAIN CleanupHandlers
<1>1. /\ n \in Nat /\ DOMAIN list = 1..n /\ list \in [1..n -> H]
      /\ \A h \in H : CleanupHandlers[h] \in Int
      /\ \A i, j \in 1..n : list[i] = list[j] => i = j
  BY LimitsFit DEF OnceEach
<1>2. \A i, j \in 1..n :
         Down!Before(list, list[i], list[j]) <=>
           \/ CleanupHandlers[list[i]] < CleanupHandlers[list[j]]
           \/ CleanupHandlers[list[i]] = CleanupHandlers[list[j]] /\ i < j
  BY <1>1 DEF Down!Before
<1>3. \A i, j \in 1..n :
         <<i, j>> \in R <=>
           \/ CleanupHandlers[list[i]] < CleanupHandlers[list[j]]
           \/ CleanupHandlers[list[i]] = CleanupHandlers[list[j]] /\ i < j
  BY <1>2
<1> HIDE DEF R
<1>4. \A i \in 1..n : list[i] \in H /\ CleanupHandlers[list[i]] \in Int
  BY <1>1
<1>5. IsFiniteSet(1..n) /\ Cardinality(1..n) = n
  BY <1>1, FS_Interval
<1>6. /\ \A i \in 1..n : <<i, i>> \notin R
      /\ \A i, j \in 1..n : i # j => <<i, j>> \in R \/ <<j, i>> \in R
      /\ \A i, j, k \in 1..n : <<i, j>> \in R /\ <<j, k>> \in R => <<i, k>> \in R
  BY <1>1, <1>3, <1>4
<1>7. PICK f \in [1..n -> 1..n] : \A i, j \in 1..n : i < j => <<f[i], f[j]>> \in R
  BY <1>5, <1>6, Enumerated
<1> DEFINE Good(sorted) == \A i, j \in DOMAIN list : i < j => Down!Before(list, sorted[i], sorted[j])
           g == [i \in 1..n |-> list[f[i]]]
<1>8. Down!ToSet(list) = {list[i] : i \in 1..n}
  BY <1>1 DEF Down!ToSet
<1>9. g \in [DOMAIN list -> Down!ToSet(list)] /\ Good(g)
  BY <1>1, <1>2, <1>3, <1>7, <1>8
<1>10. PICK s : s = Down!ByPriority(list)
  OBVIOUS
<1>11. s = CHOOSE sorted \in [DOMAIN list -> Down!ToSet(list)] : Good(sorted)
  BY <1>10 DEF Down!ByPriority
<1>12. s \in [DOMAIN list -> Down!ToSet(list)] /\ Good(s)
  BY <1>9, <1>11, Zenon
<1>13. s \in [1..n -> H]
  BY <1>1, <1>8, <1>12
<1>14. s \in Seq(H) /\ DOMAIN s = 1..n
  BY <1>1, <1>13
<1>15. ASSUME NEW i \in 1..n, NEW j \in 1..n, i < j PROVE Precedes(s[i], s[j])
  <2>1. PICK k \in 1..n, l \in 1..n : s[i] = list[k] /\ s[j] = list[l]
    BY <1>1, <1>8, <1>12
  <2>2. Down!Before(list, list[k], list[l])
    BY <1>1, <1>12, <1>15, <2>1
  <2>3. \/ CleanupHandlers[list[k]] < CleanupHandlers[list[l]]
        \/ CleanupHandlers[list[k]] = CleanupHandlers[list[l]] /\ k < l
    BY <1>2, <2>2
  <2> QED
    BY <1>1, <1>4, <2>1, <2>3 DEF Precedes
<1> QED
  BY <1>10, <1>14, <1>15 DEF InPriority

\* The next cleanup that a shutdown calls, if any.
LEMMA RunKeepsOrder ==
  ASSUME DownInv, NEW c, NEW list, NEW left, Down!Run(c, list, left), InPriority(list),
         \A i \in DOMAIN begun, j \in DOMAIN list : Precedes(begun[i], list[j])
  PROVE  DownInv'
<1>1. CASE list = <<>>
  BY <1>1 DEF DownInv, Down!Run, InPriority, OnceEach
<1>2. CASE list # <<>>
  <2>1. /\ todo' = Tail(list) /\ begun' = Append(begun, Head(list)) /\ stage' = "shutting"
        /\ registered' = registered
    BY <1>2 DEF Down!Run
  <2>2. /\ list \in Seq(DOMAIN CleanupHandlers) /\ begun \in Seq(DOMAIN CleanupHandlers)
        /\ Len(list) \in Nat /\ Len(begun) \in Nat
        /\ DOMAIN list = 1..Len(list) /\ DOMAIN begun = 1..Len(begun)
    BY DEF DownInv, InPriority
  <2>3. Head(list) = list[1] /\ 1 \in DOMAIN list /\ list[1] \in DOMAIN CleanupHandlers
    BY <1>2, <2>2
  <2>4. /\ todo' \in Seq(DOMAIN CleanupHandlers) /\ DOMAIN todo' = 1..Len(list) - 1
        /\ \A i \in DOMAIN todo' : i + 1 \in DOMAIN list /\ todo'[i] = list[i + 1]
    BY <1>2, <2>1, <2>2
  <2>5. /\ begun' \in Seq(DOMAIN CleanupHandlers) /\ DOMAIN begun' = 1..Len(begun) + 1
        /\ \A i \in DOMAIN begun : begun'[i] = begun[i]
        /\ begun'[Len(begun) + 1] = list[1]
    BY <2>1, <2>2, <2>3
  <2>6. InPriority(begun')
    BY <2>2, <2>3, <2>5 DEF InPriority, DownInv
  <2>7. InPriority(todo')
    BY <2>2, <2>4 DEF InPriority
  <2>8. ASSUME NEW i \in DOMAIN begun', NEW j \in DOMAIN todo'
        PROVE  Precedes(begun'[i], todo'[j])
    <3>1. j + 1 \in DOMAIN list /\ todo'[j] = list[j + 1] /\ 1 < j + 1
      BY <2>2, <2>4, <2>8
    <3>2. i \in DOMAIN begun \/ i = Len(begun) + 1
      BY <2>2, <2>5, <2>8
    <3> QED
      BY <2>3, <2>5, <3>1, <3>2 DEF InPriority
  <2> QED
    BY <2>1, <2>6, <2>7, <2>8 DEF DownInv, OnceEach, InPriority
<1> QED
  BY <1>1, <1>2

LEMMA CleanupsKept ==
  ASSUME DownInv, Down!Next
  PROVE  DownInv'
<1>1. ASSUME NEW h \in DOMAIN CleanupHandlers, Down!register(h) PROVE DownInv'
  <2>1. registered' = Append(registered, h) /\ \A i \in DOMAIN registered : registered[i] # h
    BY <1>1 DEF Down!register, Down!Contains, DownInv, OnceEach
  <2>2. OnceEach(registered')
    BY <2>1 DEF DownInv, OnceEach
  <2> QED
    BY <1>1, <2>2 DEF Down!register, DownInv, InPriority, OnceEach
<1>2. ASSUME NEW h \in DOMAIN CleanupHandlers, Down!unregister(h) PROVE DownInv'
  <2>1. PICK i \in DOMAIN registered : registered' = Down!RemoveAt(registered, i)
    BY <1>2 DEF Down!unregister
  <2>2. /\ registered \in Seq(DOMAIN CleanupHandlers) /\ Len(registered) \in Nat
        /\ i \in 1..Len(registered)
    BY DEF DownInv, OnceEach
  <2>3. PICK front, back : /\ front = SubSeq(registered, 1, i - 1)
                           /\ back = SubSeq(registered, i + 1, Len(registered))
    OBVIOUS
  <2>4. registered' = front \o back
    BY <2>1, <2>3 DEF Down!RemoveAt
  <2>5. /\ front \in Seq(DOMAIN CleanupHandlers) /\ Len(front) = i - 1
        /\ \A k \in 1..i - 1 : front[k] = registered[k]
    BY <2>2, <2>3
  <2>6. /\ back \in Seq(DOMAIN CleanupHandlers) /\ Len(back) = Len(registered) - i
        /\ \A k \in 1..Len(registered) - i : back[k] = registered[i + k]
    BY <2>2, <2>3
  <2>7. /\ registered' \in Seq(DOMAIN CleanupHandlers)
        /\ DOMAIN registered' = 1..Len(registered) - 1
        /\ \A k \in 1..i - 1 : registered'[k] = registered[k]
    BY <2>2, <2>4, <2>5, <2>6
  <2>8. ASSUME NEW k \in i..Len(registered) - 1 PROVE registered'[k] = registered[k + 1]
    <3>1. registered'[k] = back[k - (i - 1)] /\ k - (i - 1) \in 1..Len(registered) - i
      BY <2>2, <2>4, <2>5, <2>6
    <3>2. i + (k - (i - 1)) = k + 1
      BY <2>2
    <3> QED
      BY <2>6, <3>1, <3>2
  <2>9. ASSUME NEW k \in DOMAIN registered'
        PROVE  \E l \in DOMAIN registered : /\ registered'[k] = registered[l]
                                           /\ l = IF k < i THEN k ELSE k + 1
    <3>1. CASE k < i
      BY <2>2, <2>7, <3>1
    <3>2. CASE ~(k < i)
      <4>1. k \in i..Len(registered) - 1 /\ k + 1 \in DOMAIN registered
        BY <2>2, <2>7, <3>2
      <4> QED
        BY <2>8, <3>2, <4>1
    <3> QED
      BY <3>1, <3>2
  <2>10. ASSUME NEW k \in DOMAIN registered', NEW l \in DOMAIN registered',
                registered'[k] = registered'[l]
         PROVE  k = l
    <3>1. PICK m \in DOMAIN registered : /\ registered'[k] = registered[m]
                                         /\ m = IF k < i THEN k ELSE k + 1
      BY <2>9
    <3>2. PICK o \in DOMAIN registered : /\ registered'[l] = registered[o]
                                         /\ o = IF l < i THEN l ELSE l + 1
      BY <2>9
    <3>3. m = o
      BY <2>10, <3>1, <3>2 DEF DownInv, OnceEach
    <3> QED
      BY <2>2, <2>7, <3>1, <3>2, <3>3
  <2>11. OnceEach(registered')
    BY <2>7, <2>10 DEF OnceEach
  <2> QED
    BY <1>2, <2>11 DEF Down!unregister, DownInv, InPriority, OnceEach
<1>3. ASSUME NEW h, Down!SettlesLate(h) PROVE DownInv'
  BY <1>3 DEF Down!SettlesLate, DownInv, InPriority, OnceEach
<1>4. ASSUME NEW c, Down!Exit(c) PROVE DownInv'
  BY <1>4 DEF Down!Exit, DownInv, InPriority, OnceEach
<1>5. ASSUME NEW settled, Down!After(settled) PROVE DownInv'
  BY <1>5, RunKeepsOrder DEF Down!After, DownInv
<1>6. ASSUME NEW c, Down!Call(c) PROVE DownInv'
  <2>1. CASE stage = "up"
    BY <1>6, <2>1, RunKeepsOrder, SortedByPriority DEF Down!Call, DownInv
  <2>2. CASE stage # "up"
    BY <1>6, <2>2 DEF Down!Call, DownInv, InPriority, OnceEach
  <2> QED
    BY <2>1, <2>2
<1> QED
  BY <1>1, <1>2, <1>3, <1>4, <1>5, <1>6 DEF Down!Next

-----------------------------------------------------------------------------
(* Events.  What a delivery does is stated of a bus, a record of deliveries, *)
(* log and events, since one step may deliver an error before it goes on.    *)

Entry == [id : Nat, queued : BOOLEAN]

Delivery == [todo : Seq(Bus!Subs), done : SUBSET Bus!Subs, queued : BOOLEAN]

\* The events of the queue in a log came before this one.
Below(entries, id) == \A i \in DOMAIN entries : entries[i].queued => entries[i].id < id

NoRepeat(list) == \A i, j \in DOMAIN list : list[i] = list[j] => i = j

BusTyped(b) ==
    /\ b.events \in Seq(EventTypes \cup {"core:error"})
    /\ b.log \in [Bus!Subs -> Seq(Entry)]
    /\ \A s \in Bus!Subs : \A i \in DOMAIN b.log[s] : b.log[s][i].id <= Len(b.events)
    /\ \A id \in DOMAIN b.deliveries :
         id \in 1..Len(b.events) /\ b.deliveries[id] \in Delivery /\ b.deliveries[id].todo # <<>>

\* One event of the queue is delivered at a time.
OneQueued(b) ==
    \A id, other \in DOMAIN b.deliveries :
        b.deliveries[id].queued /\ b.deliveries[other].queued => id = other

Increasing(b) ==
    \A s \in Bus!Subs : \A i, j \in DOMAIN b.log[s] :
        (i < j /\ b.log[s][i].queued /\ b.log[s][j].queued) => b.log[s][i].id < b.log[s][j].id

\* No event of the queue is ahead of the one that is delivered, and handlers
\* that are still to be called have not seen it.
DeliveredLast(b) ==
    \A id \in DOMAIN b.deliveries : b.deliveries[id].queued =>
        /\ \A s \in Bus!Subs : Below(b.log[s], id + 1)
        /\ NoRepeat(b.deliveries[id].todo)
        /\ \A k \in DOMAIN b.deliveries[id].todo :
              k # 1 => Below(b.log[b.deliveries[id].todo[k]], id)

BusFits(b) == BusTyped(b) /\ OneQueued(b) /\ Increasing(b) /\ DeliveredLast(b)

\* Whatever of the queue has been taken came before this event.
TakenBefore(b, id) ==
    /\ \A other \in DOMAIN b.deliveries : b.deliveries[other].queued => other < id
    /\ \A s \in Bus!Subs : Below(b.log[s], id)

\* c has taken nothing more from the queue than b.
TakesNothing(b, c) ==
    /\ \A s \in Bus!Subs, id \in Nat : Below(b.log[s], id) => Below(c.log[s], id)
    /\ \A other \in DOMAIN c.deliveries : c.deliveries[other].queued =>
          other \in DOMAIN b.deliveries /\ b.deliveries[other].queued
    /\ Len(b.events) <= Len(c.events)

SubsInv ==
    /\ ever \in Seq(Bus!Subs) /\ NoRepeat(ever)
    /\ IsFiniteSet(subscribed)
    /\ \A s \in subscribed : \E i \in DOMAIN ever : ever[i] = s

QueueInv ==
    /\ queue \in Seq(Nat) /\ Len(queue) <= maxEventQueue
    /\ \A k \in DOMAIN queue : /\ queue[k] \in 1..Len(events)
                               /\ TakenBefore(Bus!Bus, queue[k])
    /\ \A i, j \in DOMAIN queue : i < j => queue[i] < queue[j]
    /\ ~processing => /\ queue = <<>>
                      /\ \A id \in DOMAIN deliveries : ~deliveries[id].queued

BusInv == BusFits(Bus!Bus) /\ SubsInv /\ QueueInv

LEMMA EmptyDomain == DOMAIN <<>> = {}
  OBVIOUS

LEMMA BusCardinality == \A S : Bus!Cardinality(S) = Cardinality(S)
  BY Zenon DEF Bus!Cardinality, Cardinality

LEMMA HandlersAre ==
  ASSUME SubsInv, NEW type
  PROVE  Bus!Handlers(type) \in Seq(Bus!Subs) /\ NoRepeat(Bus!Handlers(type))
<1> DEFINE called == {s \in subscribed : Subscriptions[s].type \in {type, "*"}}
           n == Cardinality(called)
           R == {r \in called \X called : Bus!Before(r[1], r[2])}
           every(x) == IF Subscriptions[x].type = "*" THEN 1 ELSE 0
           Good(sorted) == \A i, j \in 1..n : i < j => Bus!Before(sorted[i], sorted[j])
<1>1. IsFiniteSet(called) /\ n \in Nat
  <2>1. called \in SUBSET subscribed
    OBVIOUS
  <2> QED
    BY <2>1, FS_Subset, FS_CardinalityType DEF SubsInv
<1>2. /\ \A s \in called : s \in Bus!Subs /\ Subscriptions[s].rank \in Int
      /\ \A s \in called : \E i \in DOMAIN ever : ever[i] = s
      /\ DOMAIN ever \subseteq Nat
  BY LimitsFit DEF SubsInv, Bus!Subs
<1>3. PICK place \in [called -> Nat] :
        \A s \in called : place[s] \in DOMAIN ever /\ ever[place[s]] = s
  <2> DEFINE g == [s \in called |-> CHOOSE i \in DOMAIN ever : ever[i] = s]
  <2>1. g \in [called -> Nat] /\ \A s \in called : g[s] \in DOMAIN ever /\ ever[g[s]] = s
    BY <1>2
  <2> QED
    BY <2>1
<1>4. ASSUME NEW s \in called, NEW t \in called
      PROVE  Bus!Before(s, t) <=>
               \/ Subscriptions[s].rank < Subscriptions[t].rank
               \/ /\ Subscriptions[s].rank = Subscriptions[t].rank
                  /\ every(s) < every(t) \/ (every(s) = every(t) /\ place[s] < place[t])
  <2>1. (\E i, j \in DOMAIN ever : i < j /\ ever[i] = s /\ ever[j] = t) <=> place[s] < place[t]
    BY <1>3 DEF SubsInv, NoRepeat
  <2> QED
    BY <2>1 DEF Bus!Before
<1>5. \A s, t \in called :
        <<s, t>> \in R <=>
          \/ Subscriptions[s].rank < Subscriptions[t].rank
          \/ /\ Subscriptions[s].rank = Subscriptions[t].rank
             /\ every(s) < every(t) \/ (every(s) = every(t) /\ place[s] < place[t])
  BY <1>4
<1>6. \A s \in called : every(s) \in Int
  OBVIOUS
<1>7. \A s, t \in called : place[s] = place[t] => s = t
  BY <1>3
<1> HIDE DEF called, R, every
<1>8. /\ \A s \in called : <<s, s>> \notin R
      /\ \A s, t \in called : s # t => <<s, t>> \in R \/ <<t, s>> \in R
      /\ \A s, t, u \in called : <<s, t>> \in R /\ <<t, u>> \in R => <<s, u>> \in R
  BY <1>2, <1>3, <1>5, <1>6, <1>7
<1>9. PICK f \in [1..n -> called] : \A i, j \in 1..n : i < j => <<f[i], f[j]>> \in R
  BY <1>1, <1>8, Enumerated
<1>10. f \in [1..n -> called] /\ Good(f)
  BY <1>9 DEF R
<1>11. PICK s : s = Bus!Handlers(type)
  OBVIOUS
<1>12. s = CHOOSE sorted \in [1..n -> called] : Good(sorted)
  BY <1>11, BusCardinality DEF Bus!Handlers, called
<1>13. s \in [1..n -> called] /\ Good(s)
  BY <1>10, <1>12, Zenon
<1>14. s \in Seq(Bus!Subs) /\ DOMAIN s = 1..n
  BY <1>1, <1>2, <1>13
<1>15. ASSUME NEW i \in 1..n, NEW j \in 1..n, i < j PROVE s[i] # s[j]
  <2>1. <<s[i], s[j]>> \in R /\ s[i] \in called
    BY <1>13, <1>15 DEF R
  <2> QED
    BY <1>8, <2>1
<1> QED
  BY <1>1, <1>11, <1>14, <1>15 DEF NoRepeat

LEMMA EntriesTyped ==
  ASSUME NEW list \in Seq(Entry)
  PROVE  \A i \in DOMAIN list : list[i].id \in Nat /\ list[i].queued \in BOOLEAN
<1>1. \A i \in DOMAIN list : list[i] \in Entry
  OBVIOUS
<1> QED
  BY <1>1 DEF Entry

LEMMA BelowIs ==
  ASSUME NEW list \in Seq(Entry), NEW id \in Nat, NEW entry \in Entry
  PROVE  /\ Append(list, entry) \in Seq(Entry)
         /\ \A i \in DOMAIN Append(list, entry) :
              \/ i \in DOMAIN list /\ Append(list, entry)[i] = list[i]
              \/ i = Len(list) + 1 /\ Append(list, entry)[i] = entry
         /\ Below(Append(list, entry), id) <=> Below(list, id) /\ (entry.queued => entry.id < id)
<1>1. /\ Append(list, entry) \in Seq(Entry) /\ DOMAIN list = 1..Len(list) /\ Len(list) \in Nat
      /\ DOMAIN Append(list, entry) = 1..Len(list) + 1
      /\ \A i \in DOMAIN list : Append(list, entry)[i] = list[i]
      /\ Append(list, entry)[Len(list) + 1] = entry
  OBVIOUS
<1>2. \A i \in DOMAIN Append(list, entry) : i \in DOMAIN list \/ i = Len(list) + 1
  BY <1>1
<1>3. DOMAIN list \subseteq DOMAIN Append(list, entry) /\ Len(list) + 1 \in DOMAIN Append(list, entry)
  BY <1>1
<1> QED
  BY <1>1, <1>2, <1>3 DEF Below

\* What the delivery of an event has to be, to go on with it.
Goes(b, id, d) ==
    /\ \A other \in DOMAIN b.deliveries : b.deliveries[other].queued => other = id
    /\ \A s \in Bus!Subs : Below(b.log[s], id + 1)
    /\ NoRepeat(d.todo)
    /\ \A k \in DOMAIN d.todo : Below(b.log[d.todo[k]], id)

LEMMA HandleFits ==
  ASSUME NEW b, BusFits(b), NEW id \in 1..Len(b.events), NEW d \in Delivery,
         d.queued => Goes(b, id, d)
  PROVE  /\ BusFits(Bus!Handle(b, id, d))
         /\ Bus!Handle(b, id, d).events = b.events
         /\ ~d.queued => TakesNothing(b, Bus!Handle(b, id, d))
         /\ \A m \in Nat : TakenBefore(b, m) /\ id < m => TakenBefore(Bus!Handle(b, id, d), m)
<1>1. /\ b.events \in Seq(EventTypes \cup {"core:error"}) /\ Len(b.events) \in Nat
      /\ b.log \in [Bus!Subs -> Seq(Entry)]
      /\ \A s \in Bus!Subs : \A i \in DOMAIN b.log[s] : b.log[s][i].id <= Len(b.events)
      /\ \A other \in DOMAIN b.deliveries :
           /\ other \in 1..Len(b.events) /\ b.deliveries[other] \in Delivery
           /\ b.deliveries[other].todo # <<>>
  BY DEF BusFits, BusTyped
<1>2. PICK c : c = Bus!Handle(b, id, d)
  OBVIOUS
<1>3. d.todo \in Seq(Bus!Subs) /\ d.queued \in BOOLEAN /\ id \in Nat
  BY <1>1 DEF Delivery
<1>4. CASE d.todo = <<>>
  <2>1. /\ c.log = b.log /\ c.events = b.events
        /\ c.deliveries = [i \in DOMAIN b.deliveries \ {id} |-> b.deliveries[i]]
    BY <1>2, <1>4 DEF Bus!Handle, Bus!Restrict
  <2>2. \A i \in DOMAIN c.deliveries : i \in DOMAIN b.deliveries /\ c.deliveries[i] = b.deliveries[i]
    BY <2>1
  <2>3. BusTyped(c) /\ OneQueued(c) /\ Increasing(c)
    BY <1>1, <2>1, <2>2 DEF BusFits, BusTyped, OneQueued, Increasing
  <2>4. DeliveredLast(c)
    BY <2>1, <2>2 DEF BusFits, DeliveredLast
  <2>5. TakesNothing(b, c)
    BY <1>1, <2>1, <2>2 DEF TakesNothing
  <2>6. \A m \in Nat : TakenBefore(b, m) => TakenBefore(c, m)
    BY <2>1, <2>2 DEF TakenBefore
  <2> QED
    BY <1>2, <2>1, <2>3, <2>4, <2>5, <2>6 DEF BusFits
<1>5. CASE d.todo # <<>>
  <2> DEFINE s == d.todo[1]
             entry == [id |-> id, queued |-> d.queued]
  <2>1. /\ s \in Bus!Subs /\ 1 \in DOMAIN d.todo /\ s = Head(d.todo)
        /\ entry \in Entry /\ entry.id = id /\ entry.queued = d.queued
    BY <1>3, <1>5 DEF Entry
  <2> HIDE DEF s, entry
  <2>2. /\ c.events = b.events
        /\ c.log = [b.log EXCEPT ![s] = Append(b.log[s], entry)]
        /\ c.deliveries = [i \in DOMAIN b.deliveries \cup {id} |->
                             IF i = id THEN d ELSE b.deliveries[i]]
    BY <1>2, <1>5, <2>1 DEF Bus!Handle, entry
  <2>3. /\ c.log \in [Bus!Subs -> Seq(Entry)]
        /\ c.log[s] = Append(b.log[s], entry)
        /\ \A t \in Bus!Subs : t # s => c.log[t] = b.log[t]
    BY <1>1, <2>1, <2>2
  <2>4. /\ \A i \in DOMAIN c.log[s] :
             \/ i \in DOMAIN b.log[s] /\ c.log[s][i] = b.log[s][i]
             \/ i = Len(b.log[s]) + 1 /\ c.log[s][i] = entry
        /\ \A m \in Nat : Below(c.log[s], m) <=> Below(b.log[s], m) /\ (d.queued => id < m)
    BY <1>1, <2>1, <2>3, BelowIs
  <2>5. \A t \in Bus!Subs, m \in Nat :
          Below(b.log[t], m) /\ (d.queued => id < m) => Below(c.log[t], m)
    BY <2>3, <2>4
  <2>6. \A i \in DOMAIN c.deliveries :
          \/ i = id /\ c.deliveries[i] = d
          \/ i # id /\ i \in DOMAIN b.deliveries /\ c.deliveries[i] = b.deliveries[i]
    BY <2>2
  <2>7. ASSUME NEW t \in Bus!Subs, NEW i \in DOMAIN c.log[t]
        PROVE  c.log[t][i].id <= Len(c.events)
    <3>1. CASE t # s
      BY <1>1, <2>2, <2>3, <3>1
    <3>2. CASE t = s
      BY <1>1, <2>1, <2>2, <2>4, <3>2
    <3> QED
      BY <3>1, <3>2
  <2>8. BusTyped(c)
    BY <1>1, <1>5, <2>2, <2>3, <2>6, <2>7 DEF BusTyped
  <2>9. OneQueued(c)
    BY <2>6 DEF OneQueued, BusFits, Goes
  <2>10. Increasing(c)
    <3> SUFFICES ASSUME NEW t \in Bus!Subs, NEW i \in DOMAIN c.log[t], NEW j \in DOMAIN c.log[t],
                        i < j, c.log[t][i].queued, c.log[t][j].queued
                 PROVE  c.log[t][i].id < c.log[t][j].id
      BY DEF Increasing
    <3>1. CASE t # s
      BY <2>3, <3>1 DEF Increasing, BusFits
    <3>2. CASE t = s
      <4>1. b.log[s] \in Seq(Entry) /\ Len(b.log[s]) \in Nat /\ DOMAIN b.log[s] = 1..Len(b.log[s])
        BY <1>1, <2>1
      <4>2. i \in DOMAIN b.log[s] /\ c.log[s][i] = b.log[s][i]
        <5>1. DOMAIN c.log[s] = 1..Len(b.log[s]) + 1
          BY <2>1, <2>3, <4>1
        <5> QED
          BY <2>4, <3>2, <4>1, <5>1
      <4>3. CASE j \in DOMAIN b.log[s] /\ c.log[s][j] = b.log[s][j]
        BY <2>1, <3>2, <4>2, <4>3 DEF Increasing, BusFits
      <4>4. CASE c.log[s][j] = entry
        <5>1. d.queued /\ Goes(b, id, d)
          BY <2>1, <3>2, <4>4
        <5>2. Below(b.log[s], id)
          BY <2>1, <5>1 DEF Goes, s
        <5> QED
          BY <2>1, <3>2, <4>2, <4>4, <5>2 DEF Below
      <4> QED
        BY <2>4, <3>2, <4>3, <4>4
    <3> QED
      BY <3>1, <3>2
  <2>11. DeliveredLast(c)
    <3> SUFFICES ASSUME NEW i \in DOMAIN c.deliveries, c.deliveries[i].queued
                 PROVE  /\ \A t \in Bus!Subs : Below(c.log[t], i + 1)
                        /\ NoRepeat(c.deliveries[i].todo)
                        /\ \A k \in DOMAIN c.deliveries[i].todo :
                              k # 1 => Below(c.log[c.deliveries[i].todo[k]], i)
      BY DEF DeliveredLast
    <3>1. CASE i = id /\ c.deliveries[i] = d
      <4>1. Goes(b, id, d)
        BY <3>1
      <4>2. \A t \in Bus!Subs : Below(c.log[t], id + 1)
        BY <1>3, <2>5, <4>1 DEF Goes
      <4>3. ASSUME NEW k \in DOMAIN d.todo, k # 1 PROVE Below(c.log[d.todo[k]], id)
        <5>1. d.todo[k] # s /\ d.todo[k] \in Bus!Subs
          BY <1>3, <2>1, <4>1, <4>3 DEF Goes, NoRepeat, s
        <5> QED
          BY <2>3, <4>1, <5>1 DEF Goes
      <4> QED
        BY <3>1, <4>1, <4>2, <4>3 DEF Goes
    <3>2. CASE i # id /\ i \in DOMAIN b.deliveries /\ c.deliveries[i] = b.deliveries[i]
      <4>1. ~d.queued
        BY <3>2 DEF Goes
      <4>2. i \in Nat /\ b.deliveries[i].todo \in Seq(Bus!Subs)
        BY <1>1, <3>2 DEF Delivery
      <4>3. /\ \A t \in Bus!Subs : Below(b.log[t], i + 1)
            /\ NoRepeat(b.deliveries[i].todo)
            /\ \A k \in DOMAIN b.deliveries[i].todo :
                  k # 1 => Below(b.log[b.deliveries[i].todo[k]], i)
        BY <3>2 DEF BusFits, DeliveredLast
      <4>4. \A k \in DOMAIN b.deliveries[i].todo : b.deliveries[i].todo[k] \in Bus!Subs
        BY <4>2
      <4> QED
        BY <2>5, <3>2, <4>1, <4>2, <4>3, <4>4
    <3> QED
      BY <2>6, <3>1, <3>2
  <2>12. ~d.queued => TakesNothing(b, c)
    BY <1>1, <2>2, <2>5, <2>6 DEF TakesNothing
  <2>13. \A m \in Nat : TakenBefore(b, m) /\ id < m => TakenBefore(c, m)
    BY <2>5, <2>6 DEF TakenBefore
  <2> QED
    BY <1>2, <2>2, <2>8, <2>9, <2>10, <2>11, <2>12, <2>13 DEF BusFits
<1> QED
  BY <1>4, <1>5

LEMMA TakesNothingAfter ==
  ASSUME NEW b, NEW c, NEW d, TakesNothing(b, c), TakesNothing(c, d),
         Len(b.events) \in Nat, Len(c.events) \in Nat, Len(d.events) \in Nat
  PROVE  TakesNothing(b, d)
BY DEF TakesNothing

LEMMA TakenBeforeStill ==
  ASSUME NEW b, NEW c, TakesNothing(b, c), NEW id \in Nat, TakenBefore(b, id)
  PROVE  TakenBefore(c, id)
BY DEF TakesNothing, TakenBefore

\* A new event is delivered to nobody yet.
LEMMA EmittedFits ==
  ASSUME NEW b, BusFits(b), NEW type \in EventTypes \cup {"core:error"}
  PROVE  /\ BusFits(Bus!Emitted(b, type)) /\ TakesNothing(b, Bus!Emitted(b, type))
         /\ Len(b.events) \in Nat
         /\ Len(Bus!Emitted(b, type).events) = Len(b.events) + 1
         /\ Bus!Emitted(b, type).deliveries = b.deliveries /\ Bus!Emitted(b, type).log = b.log
<1>1. PICK c : c = Bus!Emitted(b, type)
  OBVIOUS
<1>2. /\ b.events \in Seq(EventTypes \cup {"core:error"}) /\ Len(b.events) \in Nat
      /\ b.log \in [Bus!Subs -> Seq(Entry)]
  BY DEF BusFits, BusTyped
<1>3. /\ c.events = Append(b.events, type) /\ c.log = b.log /\ c.deliveries = b.deliveries
      /\ c.events \in Seq(EventTypes \cup {"core:error"}) /\ Len(c.events) = Len(b.events) + 1
  BY <1>1, <1>2 DEF Bus!Emitted
<1>4. \A s \in Bus!Subs : \A i \in DOMAIN b.log[s] : b.log[s][i].id \in Nat
  BY <1>2, EntriesTyped
<1>5. BusTyped(c)
  BY <1>2, <1>3, <1>4 DEF BusFits, BusTyped
<1>6. OneQueued(c) /\ Increasing(c) /\ DeliveredLast(c)
  BY <1>3 DEF BusFits, OneQueued, Increasing, DeliveredLast
<1>7. TakesNothing(b, c)
  BY <1>2, <1>3 DEF TakesNothing
<1> QED
  BY <1>1, <1>2, <1>3, <1>5, <1>6, <1>7 DEF BusFits

LEMMA DeliverFits ==
  ASSUME SubsInv, NEW b, BusFits(b), NEW id \in 1..Len(b.events), NEW queued \in BOOLEAN,
         queued => /\ TakenBefore(b, id)
                   /\ \A other \in DOMAIN b.deliveries : ~b.deliveries[other].queued
  PROVE  /\ BusFits(Bus!Deliver(b, id, queued))
         /\ Bus!Deliver(b, id, queued).events = b.events
         /\ ~queued => TakesNothing(b, Bus!Deliver(b, id, queued))
         /\ \A m \in Nat : TakenBefore(b, m) /\ id < m => TakenBefore(Bus!Deliver(b, id, queued), m)
<1>1. PICK list : list = Bus!Handlers(b.events[id])
  OBVIOUS
<1>2. list \in Seq(Bus!Subs) /\ NoRepeat(list)
  BY <1>1, HandlersAre
<1>3. PICK d : d = [todo |-> list, done |-> {}, queued |-> queued]
  OBVIOUS
<1>4. d \in Delivery /\ d.todo = list /\ d.queued = queued
  BY <1>2, <1>3 DEF Delivery
<1>5. Bus!Deliver(b, id, queued) = Bus!Handle(b, id, d)
  BY <1>1, <1>3, Zenon DEF Bus!Deliver
<1>6. Len(b.events) \in Nat /\ b.log \in [Bus!Subs -> Seq(Entry)]
  BY DEF BusFits, BusTyped
<1>7. queued => Goes(b, id, d)
  <2> SUFFICES ASSUME queued PROVE Goes(b, id, d)
    OBVIOUS
  <2>1. \A s \in Bus!Subs : Below(b.log[s], id) /\ b.log[s] \in Seq(Entry)
    BY <1>6 DEF TakenBefore
  <2>2. \A s \in Bus!Subs : Below(b.log[s], id + 1)
    BY <1>6, <2>1, EntriesTyped DEF Below
  <2>3. \A k \in DOMAIN list : list[k] \in Bus!Subs
    BY <1>2
  <2> QED
    BY <1>2, <1>4, <2>1, <2>2, <2>3 DEF Goes
<1> QED
  BY <1>4, <1>5, <1>7, HandleFits

\* An event or an error that passes the queue by takes nothing from it.
LEMMA SyncFits ==
  ASSUME SubsInv, NEW b, BusFits(b), NEW type \in EventTypes \cup {"core:error"}
  PROVE  BusFits(Bus!Sync(b, type)) /\ TakesNothing(b, Bus!Sync(b, type))
<1>1. PICK c : c = Bus!Emitted(b, type)
  OBVIOUS
<1>2. /\ BusFits(c) /\ TakesNothing(b, c) /\ Len(b.events) \in Nat
      /\ Len(c.events) = Len(b.events) + 1
  BY <1>1, EmittedFits
<1>3. PICK d : d = Bus!Deliver(c, Len(b.events) + 1, FALSE)
  OBVIOUS
<1>4. BusFits(d) /\ d.events = c.events /\ TakesNothing(c, d)
  <2>1. Len(b.events) + 1 \in 1..Len(c.events) /\ FALSE \in BOOLEAN
    BY <1>2
  <2> QED
    BY <1>2, <1>3, <2>1, DeliverFits
<1>5. TakesNothing(b, d)
  BY <1>2, <1>4, TakesNothingAfter
<1>6. d = Bus!Sync(b, type)
  BY <1>1, <1>3, Zenon DEF Bus!Sync
<1> QED
  BY <1>4, <1>5, <1>6

LEMMA ErrorFits ==
  ASSUME SubsInv, NEW b, BusFits(b), NEW type
  PROVE  BusFits(Bus!handleError(b, type)) /\ TakesNothing(b, Bus!handleError(b, type))
<1>1. TakesNothing(b, b)
  BY DEF TakesNothing, BusFits, BusTyped
<1> QED
  BY <1>1, SyncFits DEF Bus!handleError, Bus!Error

LEMMA BecomesFits ==
  ASSUME NEW b, BusFits(b), Bus!Becomes(b)
  PROVE  /\ BusFits(Bus!Bus)'
         /\ \A id : TakenBefore(b, id) => TakenBefore(Bus!Bus, id)'
         /\ deliveries' = b.deliveries /\ events' = b.events
<1>1. /\ Bus!Bus'.deliveries = b.deliveries /\ Bus!Bus'.log = b.log
      /\ Bus!Bus'.events = b.events
      /\ deliveries' = b.deliveries /\ events' = b.events
  BY DEF Bus!Becomes, Bus!Bus
<1>2. BusTyped(Bus!Bus)'
  BY <1>1 DEF BusFits, BusTyped
<1>3. OneQueued(Bus!Bus)' /\ Increasing(Bus!Bus)' /\ DeliveredLast(Bus!Bus)'
  BY <1>1 DEF BusFits, OneQueued, Increasing, DeliveredLast
<1>4. \A id : TakenBefore(b, id) => TakenBefore(Bus!Bus, id)'
  BY <1>1 DEF TakenBefore
<1> QED
  BY <1>1, <1>2, <1>3, <1>4 DEF BusFits

\* A step that takes nothing from the queue and does not change it.
LEMMA BusPassedBy ==
  ASSUME BusInv, NEW b, BusFits(b), TakesNothing(Bus!Bus, b), Bus!Becomes(b),
         UNCHANGED <<queue, processing>>, SubsInv'
  PROVE  BusInv'
<1>1. /\ BusFits(Bus!Bus)' /\ \A id : TakenBefore(b, id) => TakenBefore(Bus!Bus, id)'
      /\ deliveries' = b.deliveries /\ events' = b.events
  BY BecomesFits
<1>2. /\ Bus!Bus.deliveries = deliveries /\ Bus!Bus.events = events
      /\ Len(events) \in Nat /\ Len(b.events) \in Nat
  BY DEF Bus!Bus, BusInv, BusFits, BusTyped
<1>3. Len(events) <= Len(events') /\ Len(events') \in Nat
  BY <1>1, <1>2 DEF TakesNothing
<1>4. ASSUME NEW k \in DOMAIN queue
      PROVE  queue[k] \in 1..Len(events') /\ TakenBefore(Bus!Bus, queue[k])'
  <2>1. queue[k] \in 1..Len(events) /\ TakenBefore(Bus!Bus, queue[k]) /\ queue[k] \in Nat
    BY DEF BusInv, QueueInv
  <2>2. TakenBefore(b, queue[k])
    BY <2>1, TakenBeforeStill
  <2>3. PICK id : id = queue[k]
    OBVIOUS
  <2>4. TakenBefore(Bus!Bus, id)'
    BY <1>1, <2>2, <2>3
  <2> QED
    BY <1>2, <1>3, <2>1, <2>3, <2>4
<1>5. ~processing => \A id \in DOMAIN deliveries' : ~deliveries'[id].queued
  BY <1>1, <1>2 DEF BusInv, QueueInv, TakesNothing
<1>6. QueueInv'
  BY <1>4, <1>5 DEF BusInv, QueueInv
<1> QED
  BY <1>1, <1>6 DEF BusInv

\* Whatever was taken from the queue is an event there is.
LEMMA TakenAreEvents ==
  ASSUME BusFits(Bus!Bus), NEW id \in Nat, Len(events) < id
  PROVE  TakenBefore(Bus!Bus, id)
<1>1. /\ Bus!Bus.events = events /\ Len(events) \in Nat
      /\ Bus!Bus.log \in [Bus!Subs -> Seq(Entry)]
      /\ \A s \in Bus!Subs : \A i \in DOMAIN Bus!Bus.log[s] : Bus!Bus.log[s][i].id <= Len(events)
      /\ \A other \in DOMAIN Bus!Bus.deliveries : other \in 1..Len(events)
  BY DEF Bus!Bus, BusFits, BusTyped
<1>2. \A s \in Bus!Subs : \A i \in DOMAIN Bus!Bus.log[s] : Bus!Bus.log[s][i].id \in Nat
  BY <1>1, EntriesTyped
<1>3. \A s \in Bus!Subs : Below(Bus!Bus.log[s], id)
  BY <1>1, <1>2 DEF Below
<1> QED
  BY <1>1, <1>3 DEF TakenBefore

\* A delivery of what comes before the queue.
LEMMA BusDelivers ==
  ASSUME SubsInv', NEW c, BusFits(c), NEW id \in 1..Len(c.events), SubsInv,
         TakenBefore(c, id), \A other \in DOMAIN c.deliveries : ~c.deliveries[other].queued,
         Bus!Becomes(Bus!Deliver(c, id, TRUE)), processing' = TRUE,
         NEW n \in Nat, n <= Len(c.events),
         queue' \in Seq(Nat), Len(queue') <= maxEventQueue,
         \A k \in DOMAIN queue' : queue'[k] \in 1..n /\ TakenBefore(c, queue'[k]) /\ id < queue'[k],
         \A i, j \in DOMAIN queue' : i < j => queue'[i] < queue'[j]
  PROVE  BusInv'
<1>1. PICK d : d = Bus!Deliver(c, id, TRUE)
  OBVIOUS
<1>2. /\ BusFits(d) /\ d.events = c.events
      /\ \A m \in Nat : TakenBefore(c, m) /\ id < m => TakenBefore(d, m)
  BY <1>1, DeliverFits
<1>3. /\ BusFits(Bus!Bus)' /\ \A m : TakenBefore(d, m) => TakenBefore(Bus!Bus, m)'
      /\ events' = c.events
  BY <1>1, <1>2, BecomesFits
<1>4. Len(c.events) \in Nat
  BY DEF BusFits, BusTyped
<1>5. ASSUME NEW k \in DOMAIN queue'
      PROVE  queue'[k] \in 1..Len(events') /\ TakenBefore(Bus!Bus, queue[k])'
  <2>1. PICK m : m = queue'[k]
    OBVIOUS
  <2>2. m \in 1..n /\ m \in Nat /\ TakenBefore(c, m) /\ id < m
    BY <2>1
  <2>3. TakenBefore(Bus!Bus, m)'
    BY <1>2, <1>3, <2>2
  <2> QED
    BY <1>3, <1>4, <2>1, <2>2, <2>3
<1>6. QueueInv'
  BY <1>5 DEF QueueInv
<1> QED
  BY <1>3, <1>6 DEF BusInv

LEMMA EmitKeepsBus ==
  ASSUME BusInv, NEW type \in EventTypes, NEW m, Bus!Emit(type, m)
  PROVE  BusInv'
<1>1. BusFits(Bus!Bus) /\ SubsInv /\ QueueInv
  BY DEF BusInv
<1>2. SubsInv'
  BY <1>1 DEF Bus!Emit, SubsInv
<1>3. PICK b : b = Bus!Emitted(Bus!Bus, type)
  OBVIOUS
<1>4. /\ BusFits(b) /\ TakesNothing(Bus!Bus, b) /\ Len(b.events) = Len(events) + 1
      /\ Len(events) \in Nat /\ Bus!Bus.deliveries = deliveries /\ Bus!Bus.events = events
  BY <1>1, <1>3, EmittedFits DEF Bus!Bus
<1>5. PICK id \in Nat : id = Len(b.events) /\ id = Len(events) + 1
  BY <1>4
<1>6. PICK c : c = IF m = "throws" THEN Bus!handleError(b, type) ELSE b
  OBVIOUS
<1>7. BusFits(c) /\ TakesNothing(b, c) /\ Len(c.events) \in Nat
  <2>1. TakesNothing(b, b)
    BY <1>4, <1>5 DEF TakesNothing
  <2>2. BusFits(c) /\ TakesNothing(b, c)
    BY <1>1, <1>4, <1>6, <2>1, ErrorFits
  <2> QED
    BY <2>2 DEF BusFits, BusTyped
<1>8. TakesNothing(Bus!Bus, c)
  BY <1>4, <1>5, <1>7, TakesNothingAfter
<1>9. ASSUME NEW d, BusFits(d), TakesNothing(Bus!Bus, d), Bus!Becomes(d),
             UNCHANGED <<queue, processing>>
      PROVE  BusInv'
  BY <1>2, <1>9, BusPassedBy
<1>10. CASE Bus!Overflows
  <2>1. PICK d : d = Bus!handleError(b, type)
    OBVIOUS
  <2>2. BusFits(d) /\ TakesNothing(b, d) /\ Len(d.events) \in Nat
    <3>1. BusFits(d) /\ TakesNothing(b, d)
      BY <1>1, <1>4, <2>1, ErrorFits
    <3> QED
      BY <3>1 DEF BusFits, BusTyped
  <2>3. TakesNothing(Bus!Bus, d)
    BY <1>4, <1>5, <2>2, TakesNothingAfter
  <2>4. Bus!Becomes(d) /\ UNCHANGED <<queue, processing>>
    BY <1>3, <1>10, <2>1 DEF Bus!Emit
  <2> QED
    BY <1>9, <2>2, <2>3, <2>4
<1>11. CASE ~Bus!Overflows /\ m = "cancels"
  <2>1. Bus!Becomes(b) /\ UNCHANGED <<queue, processing>>
    BY <1>3, <1>11 DEF Bus!Emit
  <2> QED
    BY <1>4, <1>9, <2>1
<1>12. CASE ~Bus!Overflows /\ m # "cancels" /\ processing
  <2>1. Bus!Becomes(c) /\ queue' = Append(queue, id) /\ processing' = processing
    BY <1>3, <1>5, <1>6, <1>12, Zenon DEF Bus!Emit
  <2>2. /\ queue \in Seq(Nat) /\ Len(queue) \in Nat /\ DOMAIN queue = 1..Len(queue)
        /\ Len(queue) < maxEventQueue /\ maxEventQueue \in Nat
    BY <1>1, <1>12, LimitsFit DEF QueueInv, Bus!Overflows
  <2>3. /\ queue' \in Seq(Nat) /\ Len(queue') = Len(queue) + 1 /\ DOMAIN queue' = 1..Len(queue) + 1
        /\ \A k \in DOMAIN queue : queue'[k] = queue[k]
        /\ queue'[Len(queue) + 1] = id
    BY <2>1, <2>2
  <2>4. /\ BusFits(Bus!Bus)' /\ \A x : TakenBefore(c, x) => TakenBefore(Bus!Bus, x)'
        /\ events' = c.events
    BY <1>7, <2>1, BecomesFits
  <2>5. Len(events') \in Nat /\ id <= Len(events')
    BY <1>5, <1>7, <2>4 DEF TakesNothing
  <2>6. ASSUME NEW x \in Nat, TakenBefore(Bus!Bus, x) PROVE TakenBefore(Bus!Bus, x)'
    BY <1>8, <2>4, <2>6, TakenBeforeStill
  <2>7. ASSUME NEW k \in DOMAIN queue'
        PROVE  queue'[k] \in 1..Len(events') /\ TakenBefore(Bus!Bus, queue[k])'
    <3>1. PICK x : x = queue'[k]
      OBVIOUS
    <3>2. x \in 1..id /\ x \in Nat /\ TakenBefore(Bus!Bus, x)
      <4>1. CASE k \in DOMAIN queue
        <5>1. x = queue[k] /\ x \in 1..Len(events) /\ TakenBefore(Bus!Bus, x)
          BY <1>1, <2>3, <3>1, <4>1 DEF QueueInv
        <5> QED
          BY <1>4, <1>5, <5>1
      <4>2. CASE k = Len(queue) + 1
        <5>1. x = id /\ x \in 1..id
          BY <1>4, <1>5, <2>3, <3>1, <4>2
        <5>2. Len(events) < id
          BY <1>4, <1>5
        <5> QED
          BY <1>1, <5>1, <5>2, TakenAreEvents
      <4> QED
        BY <2>2, <2>3, <4>1, <4>2
    <3>3. TakenBefore(Bus!Bus, x)'
      BY <2>6, <3>2
    <3> QED
      BY <2>5, <3>1, <3>2, <3>3
  <2>8. ASSUME NEW i \in DOMAIN queue', NEW j \in DOMAIN queue', i < j
        PROVE  queue'[i] < queue'[j]
    <3>1. i \in DOMAIN queue /\ (j \in DOMAIN queue \/ j = Len(queue) + 1)
      BY <2>2, <2>3, <2>8
    <3>2. queue[i] \in 1..Len(events)
      BY <1>1, <3>1 DEF QueueInv
    <3>3. CASE j \in DOMAIN queue
      BY <1>1, <2>3, <2>8, <3>1, <3>3 DEF QueueInv
    <3>4. CASE j = Len(queue) + 1
      BY <1>4, <1>5, <2>3, <3>1, <3>2, <3>4
    <3> QED
      BY <3>1, <3>3, <3>4
  <2>9. Len(queue') <= maxEventQueue
    BY <2>2, <2>3
  <2>10. QueueInv'
    BY <1>12, <2>1, <2>3, <2>7, <2>8, <2>9 DEF QueueInv
  <2> QED
    BY <1>2, <2>4, <2>10 DEF BusInv
<1>13. CASE ~Bus!Overflows /\ m # "cancels" /\ ~processing
  <2>1. /\ Bus!Becomes(Bus!Deliver(c, id, TRUE)) /\ queue' = queue /\ processing' = TRUE
    BY <1>3, <1>5, <1>6, <1>13, Zenon DEF Bus!Emit
  <2>2. queue = <<>> /\ \A other \in DOMAIN deliveries : ~deliveries[other].queued
    BY <1>1, <1>13 DEF QueueInv
  <2>3. \A other \in DOMAIN c.deliveries : ~c.deliveries[other].queued
    BY <1>4, <1>8, <2>2 DEF TakesNothing
  <2>4. TakenBefore(c, id)
    <3>1. Len(events) < id
      BY <1>4, <1>5
    <3>2. TakenBefore(Bus!Bus, id)
      BY <1>1, <3>1, TakenAreEvents
    <3> QED
      BY <1>8, <3>2, TakenBeforeStill
  <2>5. id \in 1..Len(c.events)
    BY <1>4, <1>5, <1>7 DEF TakesNothing
  <2>6. /\ queue' \in Seq(Nat) /\ Len(queue') <= maxEventQueue /\ DOMAIN queue' = {}
    BY <2>1, <2>2, LimitsFit
  <2>7. PICK n \in Nat : n = Len(c.events)
    BY <1>7
  <2>8. /\ \A k \in DOMAIN queue' : /\ queue'[k] \in 1..n
                                   /\ TakenBefore(c, queue'[k])
                                   /\ id < queue'[k]
        /\ \A i, j \in DOMAIN queue' : i < j => queue'[i] < queue'[j]
    BY <2>6
  <2>9. n <= Len(c.events)
    BY <2>7
  <2> HIDE <2>7
  <2> QED
    BY <1>1, <1>2, <1>7, <2>1, <2>3, <2>4, <2>5, <2>6, <2>8, <2>9, BusDelivers
<1> QED
  BY <1>10, <1>11, <1>12, <1>13

LEMMA EmitSyncKeepsBus ==
  ASSUME BusInv, NEW type \in EventTypes, Bus!EmitSync(type)
  PROVE  BusInv'
<1>1. BusFits(Bus!Bus) /\ SubsInv
  BY DEF BusInv
<1>2. PICK d : d = Bus!Sync(Bus!Bus, type)
  OBVIOUS
<1>3. BusFits(d) /\ TakesNothing(Bus!Bus, d)
  BY <1>1, <1>2, SyncFits
<1>4. Bus!Becomes(d) /\ UNCHANGED <<queue, processing>> /\ SubsInv'
  BY <1>1, <1>2 DEF Bus!EmitSync, SubsInv
<1> QED
  BY <1>3, <1>4, BusPassedBy

LEMMA SubscribeKeepsBus ==
  ASSUME BusInv, NEW s \in Bus!Subs, Bus!subscribe(s) \/ Bus!unsubscribe(s)
  PROVE  BusInv'
<1>1. UNCHANGED <<queue, processing, events, deliveries, log>>
  BY DEF Bus!subscribe, Bus!unsubscribe
<1>2. Bus!Bus' = Bus!Bus
  BY <1>1 DEF Bus!Bus
<1>3. BusFits(Bus!Bus)' /\ QueueInv'
  <2>1. BusFits(Bus!Bus) /\ QueueInv
    BY DEF BusInv
  <2>2. BusFits(Bus!Bus)'
    BY <1>2, <2>1
  <2>3. \A k \in DOMAIN queue : TakenBefore(Bus!Bus, queue[k])'
    BY <1>1, <1>2, <2>1 DEF QueueInv
  <2>4. QueueInv'
    BY <1>1, <2>1, <2>3 DEF QueueInv
  <2> QED
    BY <2>2, <2>4
<1>4. SubsInv
  BY DEF BusInv
<1>5. CASE Bus!subscribe(s)
  <2>1. /\ ever' = Append(ever, s) /\ subscribed' = subscribed \cup {s}
        /\ \A i \in DOMAIN ever : ever[i] # s
    BY <1>4, <1>5 DEF Bus!subscribe, Bus!Contains, SubsInv
  <2>2. /\ ever' \in Seq(Bus!Subs) /\ DOMAIN ever = 1..Len(ever) /\ Len(ever) \in Nat
        /\ DOMAIN ever' = 1..Len(ever) + 1 /\ ever'[Len(ever) + 1] = s
        /\ \A i \in DOMAIN ever : ever'[i] = ever[i]
    BY <1>4, <2>1 DEF SubsInv
  <2>3. NoRepeat(ever)'
    BY <1>4, <2>1, <2>2 DEF SubsInv, NoRepeat
  <2>4. IsFiniteSet(subscribed')
    BY <1>4, <2>1, FS_AddElement DEF SubsInv
  <2>5. \A t \in subscribed' : \E i \in DOMAIN ever' : ever'[i] = t
    BY <1>4, <2>1, <2>2 DEF SubsInv
  <2> QED
    BY <1>3, <2>2, <2>3, <2>4, <2>5 DEF BusInv, SubsInv
<1>6. CASE Bus!unsubscribe(s)
  <2>1. ever' = ever /\ subscribed' \in SUBSET subscribed
    BY <1>6 DEF Bus!unsubscribe
  <2>2. SubsInv'
    BY <1>4, <2>1, FS_Subset DEF SubsInv, NoRepeat
  <2> QED
    BY <1>3, <2>2 DEF BusInv
<1> QED
  BY <1>5, <1>6

LEMMA CancelKeepsBus ==
  ASSUME BusInv, UNCHANGED <<subscribed, ever, queue, processing, events, deliveries, log>>
  PROVE  BusInv'
<1>1. Bus!Bus' = Bus!Bus
  BY DEF Bus!Bus
<1>2. BusFits(Bus!Bus) /\ SubsInv /\ QueueInv
  BY DEF BusInv
<1>3. BusFits(Bus!Bus)'
  BY <1>1, <1>2
<1>4. SubsInv'
  BY <1>2 DEF SubsInv, NoRepeat
<1>5. \A k \in DOMAIN queue : TakenBefore(Bus!Bus, queue[k])'
  BY <1>1, <1>2 DEF QueueInv
<1>6. QueueInv'
  BY <1>2, <1>5 DEF QueueInv
<1> QED
  BY <1>3, <1>4, <1>6 DEF BusInv

LEMMA ProcessQueueKeepsBus ==
  ASSUME BusInv, Bus!ProcessQueue
  PROVE  BusInv'
<1>1. /\ BusFits(Bus!Bus) /\ SubsInv /\ QueueInv
      /\ Bus!Bus.deliveries = deliveries /\ Bus!Bus.events = events
      /\ events \in Seq(EventTypes \cup {"core:error"}) /\ Len(events) \in Nat
  BY DEF BusInv, BusFits, BusTyped, Bus!Bus
<1>2. /\ UNCHANGED <<subscribed, ever>> /\ processing
      /\ \A id \in DOMAIN deliveries : ~deliveries[id].queued
  BY DEF Bus!ProcessQueue
<1>3. SubsInv'
  BY <1>1, <1>2 DEF SubsInv, NoRepeat
<1>4. /\ queue \in Seq(Nat) /\ Len(queue) <= maxEventQueue /\ maxEventQueue \in Nat
      /\ \A k \in DOMAIN queue : /\ queue[k] \in 1..Len(events)
                                 /\ TakenBefore(Bus!Bus, queue[k])
      /\ \A i, j \in DOMAIN queue : i < j => queue[i] < queue[j]
  BY <1>1, LimitsFit DEF QueueInv
<1>5. CASE queue = <<>>
  <2>1. UNCHANGED <<queue, events, deliveries, log>>
    BY <1>5, Zenon DEF Bus!ProcessQueue, Bus!Drained
  <2>2. Bus!Bus' = Bus!Bus
    BY <2>1 DEF Bus!Bus
  <2>3. BusFits(Bus!Bus)'
    BY <1>1, <2>2
  <2>4. DOMAIN queue' = {} /\ Len(queue') = 0
    BY <1>5, <2>1
  <2>5. QueueInv'
    BY <1>2, <1>4, <1>5, <2>1, <2>4 DEF QueueInv
  <2> QED
    BY <1>3, <2>3, <2>5 DEF BusInv
<1>6. CASE queue # <<>>
  <2>1. queue' = Tail(queue) /\ processing' = processing
    BY <1>6 DEF Bus!ProcessQueue
  <2>2. PICK id : id = queue[1]
    OBVIOUS
  <2>3. /\ 1 \in DOMAIN queue /\ id = Head(queue) /\ id \in 1..Len(events)
        /\ TakenBefore(Bus!Bus, id)
    BY <1>4, <1>6, <2>2
  <2>4. /\ queue' \in Seq(Nat) /\ Len(queue') <= maxEventQueue
        /\ \A k \in DOMAIN queue' : /\ k \in Nat /\ k >= 1 /\ k + 1 \in DOMAIN queue
                                   /\ queue'[k] = queue[k + 1]
    BY <1>4, <1>6, <2>1
  <2>5. ASSUME NEW k \in DOMAIN queue'
        PROVE  queue'[k] \in 1..Len(events) /\ TakenBefore(Bus!Bus, queue'[k]) /\ id < queue'[k]
    BY <1>4, <2>2, <2>3, <2>4
  <2>6. \A i, j \in DOMAIN queue' : i < j => queue'[i] < queue'[j]
    BY <1>4, <2>4
  <2>7. CASE id \in cancelled
    <3>1. UNCHANGED <<events, deliveries, log>>
      BY <1>6, <2>3, <2>7 DEF Bus!ProcessQueue
    <3>2. Bus!Bus' = Bus!Bus
      BY <3>1 DEF Bus!Bus
    <3>3. BusFits(Bus!Bus)'
      BY <1>1, <3>2
    <3>4. \A k \in DOMAIN queue' : TakenBefore(Bus!Bus, queue[k])'
      BY <2>5, <3>2
    <3>5. QueueInv'
      BY <1>2, <2>1, <2>4, <2>5, <2>6, <3>1, <3>4 DEF QueueInv
    <3> QED
      BY <1>3, <3>3, <3>5 DEF BusInv
  <2>8. CASE id \notin cancelled
    <3>1. Bus!Becomes(Bus!Deliver(Bus!Bus, id, TRUE)) /\ processing' = TRUE
      BY <1>2, <1>6, <2>3, <2>8, Zenon DEF Bus!ProcessQueue
    <3>2. PICK c : c = Bus!Bus
      OBVIOUS
    <3>3. PICK n \in Nat : n = Len(events)
      BY <1>1
    <3>4. /\ BusFits(c) /\ id \in 1..Len(c.events) /\ TakenBefore(c, id)
          /\ \A other \in DOMAIN c.deliveries : ~c.deliveries[other].queued
          /\ n <= Len(c.events)
      BY <1>1, <1>2, <2>3, <3>2, <3>3
    <3>5. \A k \in DOMAIN queue' : /\ queue'[k] \in 1..n /\ TakenBefore(c, queue'[k])
                                 /\ id < queue'[k]
      BY <2>5, <3>2, <3>3
    <3>6. Bus!Becomes(Bus!Deliver(c, id, TRUE))
      BY <3>1, <3>2
    <3> QED
      BY <1>1, <1>3, <2>4, <2>6, <3>1, <3>4, <3>5, <3>6, BusDelivers
  <2> QED
    BY <2>7, <2>8
<1> QED
  BY <1>5, <1>6

LEMMA HandlerEndsKeepsBus ==
  ASSUME BusInv, NEW id \in DOMAIN deliveries, NEW cancels \in BOOLEAN, NEW throws \in BOOLEAN,
         Bus!HandlerEnds(id, cancels, throws)
  PROVE  BusInv'
<1>1. /\ BusFits(Bus!Bus) /\ SubsInv /\ QueueInv
      /\ Bus!Bus.deliveries = deliveries /\ Bus!Bus.events = events
      /\ events \in Seq(EventTypes \cup {"core:error"}) /\ Len(events) \in Nat
      /\ Bus!Bus.log \in [Bus!Subs -> Seq(Entry)]
      /\ id \in 1..Len(events) /\ deliveries[id] \in Delivery /\ deliveries[id].todo # <<>>
  BY DEF BusInv, BusFits, BusTyped, Bus!Bus
<1>2. PICK d \in Delivery : d = deliveries[id]
  BY <1>1
<1>3. /\ d.todo \in Seq(Bus!Subs) /\ d.todo # <<>> /\ d.done \in SUBSET Bus!Subs
      /\ d.queued \in BOOLEAN /\ Head(d.todo) \in Bus!Subs
  BY <1>1, <1>2 DEF Delivery
<1>4. PICK list : list = IF cancels \/ id \in cancelled THEN <<>> ELSE Tail(d.todo)
  OBVIOUS
<1>5. /\ list \in Seq(Bus!Subs)
      /\ \A k \in DOMAIN list : /\ k \in Nat /\ k >= 1 /\ k + 1 \in DOMAIN d.todo
                               /\ list[k] = d.todo[k + 1] /\ list[k] \in Bus!Subs
  <2>1. <<>> \in Seq(Bus!Subs) /\ DOMAIN <<>> = {}
    OBVIOUS
  <2>2. /\ Tail(d.todo) \in Seq(Bus!Subs)
        /\ \A k \in DOMAIN Tail(d.todo) :
             /\ k \in Nat /\ k >= 1 /\ k + 1 \in DOMAIN d.todo
             /\ Tail(d.todo)[k] = d.todo[k + 1] /\ Tail(d.todo)[k] \in Bus!Subs
    BY <1>3
  <2>3. list = <<>> \/ list = Tail(d.todo)
    BY <1>4
  <2> QED
    BY <2>1, <2>2, <2>3
<1>6. PICK done : done = IF throws THEN d.done ELSE d.done \cup {Head(d.todo)}
  OBVIOUS
<1>7. PICK next : next = [todo |-> list, done |-> done, queued |-> d.queued]
  OBVIOUS
<1>8. next \in Delivery /\ next.todo = list /\ next.queued = d.queued
  BY <1>3, <1>5, <1>6, <1>7 DEF Delivery
<1>9. PICK b : b = IF throws THEN Bus!handleError(Bus!Bus, events[id]) ELSE Bus!Bus
  OBVIOUS
<1>10. BusFits(b) /\ TakesNothing(Bus!Bus, b) /\ Len(b.events) \in Nat /\ id \in 1..Len(b.events)
  <2>1. TakesNothing(Bus!Bus, Bus!Bus)
    BY <1>1 DEF TakesNothing
  <2>2. BusFits(b) /\ TakesNothing(Bus!Bus, b)
    BY <1>1, <1>9, <2>1, ErrorFits
  <2>3. Len(b.events) \in Nat /\ Len(events) <= Len(b.events)
    BY <1>1, <2>2 DEF BusFits, BusTyped, TakesNothing
  <2> QED
    BY <1>1, <2>2, <2>3
<1>11. d.queued => Goes(b, id, next)
  <2> SUFFICES ASSUME d.queued PROVE Goes(b, id, next)
    OBVIOUS
  <2>1. /\ \A s \in Bus!Subs : Below(Bus!Bus.log[s], id + 1)
        /\ NoRepeat(d.todo)
        /\ \A k \in DOMAIN d.todo : k # 1 => Below(Bus!Bus.log[d.todo[k]], id)
    BY <1>1, <1>2 DEF BusFits, DeliveredLast
  <2>2. \A other \in DOMAIN b.deliveries : b.deliveries[other].queued => other = id
    BY <1>1, <1>2, <1>10 DEF TakesNothing, BusFits, OneQueued
  <2>3. id \in Nat /\ id + 1 \in Nat
    BY <1>1
  <2>4. \A s \in Bus!Subs, m \in Nat : Below(Bus!Bus.log[s], m) => Below(b.log[s], m)
    BY <1>10 DEF TakesNothing
  <2>5. \A s \in Bus!Subs : Below(b.log[s], id + 1)
    BY <2>1, <2>3, <2>4
  <2>6. \A k \in DOMAIN list : Below(b.log[list[k]], id)
    <3> SUFFICES ASSUME NEW k \in DOMAIN list PROVE Below(b.log[list[k]], id)
      OBVIOUS
    <3>1. k + 1 \in DOMAIN d.todo /\ k + 1 # 1 /\ list[k] = d.todo[k + 1] /\ list[k] \in Bus!Subs
      BY <1>5
    <3>2. Below(Bus!Bus.log[list[k]], id)
      BY <2>1, <3>1
    <3> QED
      BY <2>3, <2>4, <3>1, <3>2
  <2>7. NoRepeat(list)
    <3> SUFFICES ASSUME NEW i \in DOMAIN list, NEW j \in DOMAIN list, list[i] = list[j]
                 PROVE  i = j
      BY DEF NoRepeat
    <3>1. /\ i + 1 \in DOMAIN d.todo /\ j + 1 \in DOMAIN d.todo /\ i \in Nat /\ j \in Nat
          /\ d.todo[i + 1] = d.todo[j + 1]
      BY <1>5
    <3>2. i + 1 = j + 1
      BY <2>1, <3>1 DEF NoRepeat
    <3> QED
      BY <3>1, <3>2
  <2> QED
    BY <1>8, <2>2, <2>5, <2>6, <2>7 DEF Goes
<1>12. PICK c : c = Bus!Handle(b, id, next)
  OBVIOUS
<1>13. /\ BusFits(c) /\ c.events = b.events
       /\ ~d.queued => TakesNothing(b, c)
       /\ \A m \in Nat : TakenBefore(b, m) /\ id < m => TakenBefore(c, m)
  BY <1>8, <1>10, <1>11, <1>12, HandleFits
<1>14. Bus!Becomes(c) /\ UNCHANGED <<ever, queue, processing>>
  BY <1>2, <1>4, <1>6, <1>7, <1>9, <1>12, Zenon DEF Bus!HandlerEnds
<1>15. SubsInv'
  <2>1. subscribed' \in SUBSET subscribed
    BY DEF Bus!HandlerEnds
  <2> QED
    BY <1>1, <1>14, <2>1, FS_Subset DEF SubsInv, NoRepeat
<1>16. CASE ~d.queued
  <2>1. TakesNothing(Bus!Bus, c)
    BY <1>1, <1>10, <1>13, <1>16, TakesNothingAfter
  <2> QED
    BY <1>13, <1>14, <1>15, <2>1, BusPassedBy
<1>17. CASE d.queued
  <2>1. /\ BusFits(Bus!Bus)' /\ \A m : TakenBefore(c, m) => TakenBefore(Bus!Bus, m)'
        /\ events' = b.events
    BY <1>13, <1>14, BecomesFits
  <2>2. Len(events) <= Len(events') /\ Len(events') \in Nat
    BY <1>1, <1>10, <2>1 DEF TakesNothing
  <2>3. processing
    BY <1>1, <1>2, <1>17 DEF QueueInv
  <2>4. ASSUME NEW k \in DOMAIN queue
        PROVE  queue[k] \in 1..Len(events') /\ TakenBefore(Bus!Bus, queue[k])'
    <3>1. PICK m \in Nat : m = queue[k]
      BY <1>1 DEF QueueInv
    <3>2. m \in 1..Len(events) /\ TakenBefore(Bus!Bus, m)
      BY <1>1, <3>1 DEF QueueInv
    <3>3. id < m
      BY <1>1, <1>2, <1>17, <3>2 DEF TakenBefore
    <3>4. TakenBefore(b, m)
      BY <1>10, <3>2, TakenBeforeStill
    <3>5. TakenBefore(Bus!Bus, m)'
      BY <1>13, <2>1, <3>3, <3>4
    <3> QED
      BY <1>1, <1>14, <2>2, <3>1, <3>2, <3>5
  <2>5. QueueInv'
    BY <1>1, <1>14, <2>3, <2>4 DEF QueueInv
  <2> QED
    BY <1>15, <2>1, <2>5 DEF BusInv
<1> QED
  BY <1>16, <1>17

LEMMA BusKept ==
  ASSUME BusInv, Bus!Next
  PROVE  BusInv'
<1>1. CASE \E s \in Bus!Subs : Bus!subscribe(s) \/ Bus!unsubscribe(s)
  BY <1>1, SubscribeKeepsBus
<1>2. CASE \E type \in EventTypes : Bus!EmitSync(type)
  BY <1>2, EmitSyncKeepsBus
<1>3. CASE \E type \in EventTypes : \E m \in {"passes", "cancels", "throws"} : Bus!Emit(type, m)
  BY <1>3, EmitKeepsBus
<1>4. CASE Bus!ProcessQueue
  BY <1>4, ProcessQueueKeepsBus
<1>5. CASE \E id \in DOMAIN deliveries, cancels, throws \in BOOLEAN :
             Bus!HandlerEnds(id, cancels, throws)
  BY <1>5, HandlerEndsKeepsBus
<1>6. CASE \E id \in DOMAIN deliveries : Bus!HandlerEnds(id, FALSE, FALSE)
  <2>1. FALSE \in BOOLEAN
    OBVIOUS
  <2> QED
    BY <1>6, <2>1, HandlerEndsKeepsBus
<1>7. CASE \E id \in 1..MaxEvents : Bus!Cancel(id)
  BY <1>7, CancelKeepsBus DEF Bus!Cancel
<1> QED
  BY <1>1, <1>2, <1>3, <1>4, <1>5, <1>6, <1>7 DEF Bus!Next, Bus!Settle

LEMMA BusAtFirst ==
  ASSUME Bus!Init
  PROVE  BusInv
<1>1. /\ subscribed = {} /\ ever = <<>> /\ queue = <<>> /\ processing = FALSE
      /\ events = <<>> /\ deliveries = <<>> /\ log = [s \in Bus!Subs |-> <<>>]
  BY DEF Bus!Init
<1>2. /\ DOMAIN <<>> = {} /\ Len(<<>>) = 0
      /\ <<>> \in Seq(Entry) /\ <<>> \in Seq(Nat) /\ <<>> \in Seq(Bus!Subs)
      /\ <<>> \in Seq(EventTypes \cup {"core:error"})
  BY EmptyDomain
<1>3. /\ Bus!Bus.deliveries = <<>> /\ Bus!Bus.events = <<>>
      /\ Bus!Bus.log \in [Bus!Subs -> Seq(Entry)]
      /\ \A s \in Bus!Subs : DOMAIN Bus!Bus.log[s] = {}
  BY <1>1, <1>2 DEF Bus!Bus
<1>4. BusFits(Bus!Bus)
  BY <1>2, <1>3 DEF BusFits, BusTyped, OneQueued, Increasing, DeliveredLast
<1>5. SubsInv
  BY <1>1, <1>2, FS_EmptySet DEF SubsInv, NoRepeat
<1>6. QueueInv
  BY <1>1, <1>2, LimitsFit DEF QueueInv
<1> QED
  BY <1>4, <1>5, <1>6 DEF BusInv

LEMMA CleanupsAtFirst ==
  ASSUME Down!Init
  PROVE  DownInv
<1>1. registered = <<>> /\ todo = <<>> /\ begun = <<>> /\ waited = "nobody" /\ stage = "up"
  BY DEF Down!Init, Down!Nobody
<1>2. DOMAIN <<>> = {} /\ <<>> \in Seq(DOMAIN CleanupHandlers)
  BY EmptyDomain
<1> QED
  BY <1>1, <1>2 DEF DownInv, OnceEach, InPriority

\* For any subscriptions, priorities, cleanup handlers and bound of the queue,
\* whatever handlers emit, throw or cancel meanwhile: the queue of the bus keeps
\* its bound, its events are delivered one at a time, and a handler sees them in
\* the order they were emitted, each once (EventBus); cleanup handlers are called
\* once, in the order of their priorities (Shutdown).
THEOREM EventsComeInOrder == Spec => []InOrder
<1> DEFINE I == (part = "bus" => BusInv) /\ (part = "shutdown" => DownInv)
<1>1. Init => I
  BY BusAtFirst, CleanupsAtFirst DEF Init
<1>2. I /\ [Next]_vars => I'
  <2> SUFFICES ASSUME I, [Next]_vars PROVE I'
    OBVIOUS
  <2>1. BusInv /\ UNCHANGED busVars => BusInv'
    BY CancelKeepsBus DEF busVars
  <2>2. DownInv /\ UNCHANGED downVars => DownInv'
    BY DEF downVars, DownInv, OnceEach, InPriority
  <2> QED
    BY <2>1, <2>2, StepOfPart, BusKept, CleanupsKept
<1>3. I => InOrder
  <2> SUFFICES ASSUME I PROVE InOrder
    OBVIOUS
  <2>1. BusInv => Bus!InOrder
    <3> SUFFICES ASSUME BusInv PROVE Bus!InOrder
      OBVIOUS
    <3>1. Bus!Bus.deliveries = deliveries /\ Bus!Bus.log = log
      BY DEF Bus!Bus
    <3> QED
      BY <3>1 DEF BusInv, BusFits, OneQueued, Increasing, QueueInv, Bus!InOrder
  <2>2. DownInv => Down!CleansUpInOrder
    BY DEF DownInv, InPriority, Precedes, Down!CleansUpInOrder
  <2> QED
    BY <2>1, <2>2 DEF InOrder
<1> QED
  BY <1>1, <1>2, <1>3, PTL DEF Spec

-----------------------------------------------------------------------------
(* What a node says it has.                                                  *)

ListedInv ==
    /\ part = "turn" => TurnInv
    /\ part \in {"mapping", "punching"} => MapsInv
    /\ part = "registry" => IndexInv
    /\ part = "plugins" => PlugInv
    /\ part = "container" => ContInv

LEMMA ListedAtFirst == Init => ListedInv
<1> SUFFICES ASSUME Init PROVE ListedInv
  OBVIOUS
<1>1. TurnInv
  BY DEF Init, Turn!Init, TurnInv, SocketsInRange, OpenOnes, LastCloses, AllocatedOnes
<1>2. MapsInv
  BY EmptyDomain DEF Init, Gate!Init, MapsInv, MapperTyped, Gate!ListedIsKnown, Gate!Idle
<1>3. IndexInv
  BY EmptyDomain DEF Init, Disc!Init, IndexInv, ServicesTyped
<1>4. PlugInv
  <2>1. PlugTyped
    BY NoCallTyped DEF Init, Plug!Init, PlugTyped, Plug!States
  <2>2. \A k \in LoaderCalls : pluginCalls[k] = Plug!NoCall
    BY DEF Init, Plug!Init
  <2>3. /\ plugins = [d \in Dirs |-> 0] /\ live = {}
    BY DEF Init, Plug!Init
  <2>4. FreshOnes /\ PlacesApart /\ LiveStateful /\ LiveRuns /\ Plug!LiveIsListed
    BY <2>2, <2>3, NoCallTyped, InstancesNotZero
       DEF FreshOnes, PlacesApart, LiveStateful, LiveRuns, Works, Plug!LiveIsListed
  <2>5. AloneOnes /\ StartsListed /\ StopsListed /\ LoadsPlaced /\ VisitedStopped
    BY <2>2, NoCallTyped DEF AloneOnes, StartsListed, StopsListed, LoadsPlaced, VisitedStopped
  <2> QED
    BY <2>1, <2>4, <2>5 DEF PlugInv
<1>5. ContInv
  <2>1. /\ held = [c \in Cont!Containers |-> [t \in Tokens |-> 0]]
        /\ instances = [c \in Cont!Containers |-> [t \in Tokens |-> 0]]
        /\ instance = [d \in Cont!Ids |-> 0] /\ created = [instances |-> 0, descriptors |-> 0]
        /\ resolving = [k \in ResolveCalls |-> Cont!NoCall] /\ disposed = {}
        /\ disposal = [c \in Cont!Containers |-> Cont!Idle]
        /\ finished = [i \in Cont!Ids |-> 0]
    BY DEF Init, Cont!Init
  <2>2. created.instances = 0 /\ created.descriptors = 0
    BY <2>1
  <2>3. Descriptors = {0} /\ Things = {0}
    BY <2>2 DEF Descriptors, Things
  <2>4. ContTyped
    <3>1. Cont!NoCall \in [on : Cont!Containers, descriptor : Descriptors, shared : BOOLEAN]
      BY <2>3 DEF Cont!NoCall, Cont!Containers
    <3>2. Cont!Idle \in [todo : SUBSET ({"service", "given"} \X Nat),
                         at : {"service", "given", "none"} \X Nat, running : BOOLEAN]
      BY DEF Cont!Idle, Cont!Nowhere
    <3>3. /\ held \in [Cont!Containers -> [Tokens -> Descriptors]]
          /\ instances \in [Cont!Containers -> [Tokens -> Things]]
          /\ instance \in [Cont!Ids -> Things] /\ finished \in [Cont!Ids -> {0, 1}]
      BY <2>1, <2>3
    <3> QED
      BY <2>1, <2>2, <3>1, <3>2, <3>3, LimitsFit DEF ContTyped
  <2>5. HeldApart
    BY <2>1 DEF HeldApart
  <2>6. \A c \in Cont!Containers : Cont!Visits(c) = {}
    BY <2>1, VisitsAre
  <2>7. Cont!Idle.todo = {} /\ Cont!Idle.at = Cont!Nowhere
    BY DEF Cont!Idle
  <2>8. DisposalsFit
    BY <2>1, <2>6, <2>7 DEF DisposalsFit
  <2>9. FinishedOnes
    BY <2>1, <2>6 DEF FinishedOnes
  <2>10. NoneForgotten
    BY <2>3 DEF NoneForgotten, Cont!Ids
  <2> QED
    BY <2>4, <2>5, <2>8, <2>9, <2>10 DEF ContInv
<1> QED
  BY <1>1, <1>2, <1>3, <1>4, <1>5 DEF ListedInv

LEMMA ListedKept ==
  ASSUME ListedInv, [Next]_vars
  PROVE  ListedInv'
<1>1. part' = part
  BY StepOfPart
<1>2. ASSUME part = "turn" PROVE TurnInv'
  <2>1. UNCHANGED turnVars => TurnInv'
    BY <1>2 DEF ListedInv, turnVars, TurnInv, SocketsInRange, OpenOnes, LastCloses, AllocatedOnes
  <2> QED
    BY <1>2, <2>1, StepOfPart, TurnKept DEF ListedInv
<1>3. ASSUME part \in {"mapping", "punching"} PROVE MapsInv'
  <2>1. UNCHANGED mapVars => MapsInv'
    BY <1>3 DEF ListedInv, mapVars, MapsInv, MapperTyped, Gate!ListedIsKnown
  <2> QED
    BY <1>3, <2>1, StepOfPart, MapsKept DEF ListedInv
<1>4. ASSUME part = "registry" PROVE IndexInv'
  <2>1. UNCHANGED registryVars => IndexInv'
    BY <1>4 DEF ListedInv, registryVars, IndexInv, ServicesTyped
  <2> QED
    BY <1>4, <2>1, StepOfPart, IndexKept DEF ListedInv
<1>5. ASSUME part = "plugins" PROVE PlugInv'
  <2>1. UNCHANGED pluginVars => PlugInv'
    BY <1>5 DEF ListedInv, pluginVars, PlugInv, PlugTyped, FreshOnes, PlacesApart, LiveStateful,
                LiveRuns, AloneOnes, StartsListed, StopsListed, LoadsPlaced, VisitedStopped, Works,
                Plug!LiveIsListed
  <2> QED
    BY <1>5, <2>1, StepOfPart, PlugKept DEF ListedInv
<1>6. ASSUME part = "container" PROVE ContInv'
  <2>1. UNCHANGED containerVars => ContInv'
    <3> SUFFICES ASSUME UNCHANGED containerVars PROVE ContInv'
      OBVIOUS
    <3>1. ContTyped /\ HeldApart /\ DisposalsFit /\ FinishedOnes /\ NoneForgotten
      BY <1>6 DEF ListedInv, ContInv
    <3>2. UNCHANGED <<held, instance, instances, created, resolving, disposed, disposal, finished,
                      excused>>
      BY DEF containerVars
    <3>3. Descriptors' = Descriptors /\ Things' = Things
      BY <3>2 DEF Descriptors, Things
    <3>4. ContTyped' /\ HeldApart'
      BY <3>1, <3>2, <3>3 DEF ContTyped, HeldApart
    <3>5. /\ \A i : Cont!Held(i)' <=> Cont!Held(i)
          /\ \A e : Cont!Visits(e)' = Cont!Visits(e) /\ Ahead(e)' = Ahead(e)
          /\ \A v : Cont!InstanceAt(v)' = Cont!InstanceAt(v)
      BY <3>2 DEF Cont!Held, Cont!InstanceOf, Cont!Visits, Ahead, Cont!InstanceAt
    <3> QED
      BY <3>1, <3>2, <3>3, <3>4, <3>5 DEF ContInv, DisposalsFit, FinishedOnes, NoneForgotten
  <2> QED
    BY <1>6, <2>1, StepOfPart, ContainerKept DEF ListedInv
<1> QED
  BY <1>1, <1>2, <1>3, <1>4, <1>5, <1>6 DEF ListedInv

\* For any callers, peers, ports, services, plugins and tokens, whatever calls
\* overlap and fail: an allocation has its socket (TurnClient), a listed mapping
\* is known to the client that can remove it (PortMapper), a service is found
\* under its type (ServiceRegistry), a plugin that runs is in the loader
\* (PluginLoader) and an instance is disposed of once, and not forgotten
\* (ServiceContainer), with the exceptions that the properties name.
THEOREM WhatIsListedIsThere == Spec => []ListedIsThere
<1>1. ListedInv => ListedIsThere
  <2> SUFFICES ASSUME ListedInv PROVE ListedIsThere
    OBVIOUS
  <2>1. TurnInv => Turn!AllocationIsOpen
    BY DEF TurnInv, AllocatedOnes, Turn!AllocationIsOpen, Turn!isAllocated
  <2>2. IndexInv => Disc!ServicesAreIndexed
    BY DEF IndexInv, ServicesTyped, Disc!ServicesAreIndexed, Disc!findByType
  <2>3. ContInv => Cont!DisposedOnce
    <3> SUFFICES ASSUME ContInv, NEW i \in Cont!Ids
                 PROVE  /\ finished[i] <= 1
                        /\ i <= created.instances =>
                             finished[i] = 1 \/ i \in excused \/ Cont!Held(i)
      BY DEF Cont!DisposedOnce
    <3>1. finished[i] \in {0, 1} /\ created.instances \in Nat
      BY DEF ContInv, ContTyped
    <3>2. i <= created.instances => i \in Things
      BY <3>1 DEF Things, Cont!Ids
    <3> QED
      BY <3>1, <3>2 DEF ContInv, NoneForgotten
  <2> QED
    BY <2>1, <2>2, <2>3 DEF ListedInv, ListedIsThere, MapsInv, PlugInv
<1> QED
  BY <1>1, ListedAtFirst, ListedKept, PTL DEF Spec

===============================================================================
