----------------------------- MODULE TurnClient -----------------------------
(* The TURN client (network/nat/turn-client.js): connect(), disconnect(),    *)
(* allocate(), permissions, channels and the refresh timer, with any number  *)
(* of calls in progress.  A request is answered, refused or timed out; the   *)
(* server answers on the socket the request was sent from.                   *)
EXTENDS Integers, FiniteSets, Functions

CONSTANTS Peers,
          channelMin, channelMax,
          MaxSockets, MaxRequests, MaxPending   \* bounds of the model

VARIABLES socket,         \* _socket: the number of a socket, 0 for null
          made,           \* sockets created so far
          binding,        \* connect() calls: [socket, allocates]
          closing,        \* sockets close() was called on
          closed,         \* sockets that are closed
          running,        \* _isRunning
          cutShort,       \* a socket was closed that was not bound yet (history)
          state,          \* _allocationState
          permissions,
          channels,       \* channel number |-> peer
          nextChannel,
          requests,       \* _pendingRequests, each with its timeout
          sent,           \* requests made so far
          timer           \* _refreshTimer

vars == <<socket, made, binding, closing, closed, running, cutShort, state, permissions,
          channels, nextChannel, requests, sent, timer>>
sockets == <<socket, made, binding, closing, closed, running, cutShort>>
peers == <<permissions, channels, nextChannel>>

Init ==
    /\ socket = 0 /\ made = 0 /\ binding = {} /\ closing = {} /\ closed = {}
    /\ running = FALSE /\ cutShort = FALSE
    /\ state = "none"
    /\ permissions = {} /\ channels = <<>> /\ nextChannel = channelMin
    /\ requests = {} /\ sent = 0
    /\ timer = FALSE

isAllocated == state = "active"

\* A request goes out on the socket of the moment.  Without one, send() throws
\* and the caller is told, but the request waits for its timeout all the same.
Request(kind, peer, channel, then) ==
    /\ sent < MaxRequests /\ Cardinality(requests) < MaxPending
    /\ sent' = sent + 1
    /\ requests' = requests \cup
         {[id |-> sent, kind |-> kind, peer |-> peer, channel |-> channel,
           then |-> IF socket \in closing \cup {0} THEN "nothing" ELSE then,
           socket |-> IF socket \in closing THEN 0 ELSE socket]}

Quiet == UNCHANGED <<requests, sent>>

-----------------------------------------------------------------------------
(* Sockets *)

\* connect() replaces the socket of a connect() that is still in progress.
Connect(allocates) ==
    /\ ~running /\ made < MaxSockets
    /\ made' = made + 1 /\ socket' = made + 1
    /\ binding' = binding \cup {[socket |-> made + 1, allocates |-> allocates]}
    /\ UNCHANGED <<closing, closed, running, cutShort, state, timer>>
    /\ UNCHANGED peers /\ Quiet

\* allocate() behind its await: the state is PENDING unless already ACTIVE.
AllocateNow ==
    IF isAllocated THEN UNCHANGED state /\ Quiet
    ELSE state' = "pending" /\ Request("allocate", {}, 0, "nothing")

\* The bind callback; the caller of an allocate() goes on.
Bound(b) ==
    /\ b.socket \notin closing
    /\ binding' = binding \ {b}
    /\ running' = TRUE
    /\ IF b.allocates THEN AllocateNow ELSE UNCHANGED state /\ Quiet
    /\ UNCHANGED <<socket, made, closing, closed, cutShort, timer>> /\ UNCHANGED peers

\* The connection timeout of a socket whose bind fails.
ConnectTimesOut(b) ==
    /\ binding' = binding \ {b}
    /\ UNCHANGED <<socket, made, closing, closed, running, cutShort, state, timer>>
    /\ UNCHANGED peers /\ Quiet

\* The end of disconnect(): a socket that is being closed throws.  After an
\* overlap it may be the socket of a connect() that is still in progress.
Close ==
    /\ closing' = IF socket = 0 THEN closing ELSE closing \cup {socket}
    /\ cutShort' = (cutShort \/ (socket # 0 /\ ~running))
    /\ UNCHANGED <<socket, made, binding, closed, running>>

\* Faulty variant: the state is left as it was.
ClosedKeepsState(s) ==
    /\ closed' = closed \cup {s}
    /\ socket' = 0 /\ running' = FALSE
    /\ UNCHANGED <<made, binding, closing, cutShort, state, timer>>
    /\ UNCHANGED peers /\ Quiet

\* The callback of close()
Closed(s) ==
    /\ closed' = closed \cup {s}
    /\ socket' = 0 /\ running' = FALSE /\ state' = "none"
    /\ UNCHANGED <<made, binding, closing, cutShort, timer>>
    /\ UNCHANGED peers /\ Quiet

Disconnect ==
    /\ running
    /\ timer' = FALSE
    /\ IF isAllocated THEN Request("refresh", {}, 0, "close") /\ UNCHANGED sockets
       ELSE Close /\ Quiet
    /\ UNCHANGED state /\ UNCHANGED peers

-----------------------------------------------------------------------------
(* Requests *)

Allocate ==
    /\ running
    /\ AllocateNow
    /\ UNCHANGED sockets /\ UNCHANGED timer /\ UNCHANGED peers

CreatePermission(p, then) ==
    /\ isAllocated
    /\ Request("permission", {p}, 0, then)
    /\ UNCHANGED sockets /\ UNCHANGED <<state, timer>> /\ UNCHANGED peers

\* bindChannel(): the numbers start again after channelMax.
BindChannel(p) ==
    /\ isAllocated
    /\ p \notin Range(channels)
    /\ nextChannel' = IF nextChannel = channelMax THEN channelMin ELSE nextChannel + 1
    /\ Request("bind", {p}, nextChannel, "nothing")
    /\ UNCHANGED sockets /\ UNCHANGED <<state, timer, permissions, channels>>

\* send(): over a channel, or after a permission.
Send(p) ==
    /\ p \notin Range(channels) /\ p \notin permissions
    /\ CreatePermission(p, "send")

Refresh ==
    /\ isAllocated
    /\ Request("refresh", {}, 0, "nothing")
    /\ UNCHANGED sockets /\ UNCHANGED <<state, timer>> /\ UNCHANGED peers

\* The refresh timer is set once for an allocation and not again.
TimerFires ==
    /\ timer /\ timer' = FALSE
    /\ IF isAllocated THEN Request("refresh", {}, 0, "nothing") ELSE Quiet
    /\ UNCHANGED sockets /\ UNCHANGED state /\ UNCHANGED peers

\* What follows a request: disconnect() goes on whether or not it succeeded.
Then(r) == IF r.then = "close" THEN Close ELSE UNCHANGED sockets

\* _handleMessage() with a success: the server answers on an open socket.
Succeeds(r) ==
    /\ r.socket \notin {0} \cup closing
    /\ requests' = requests \ {r}
    /\ state' = IF r.kind = "allocate" THEN "active" ELSE state
    /\ timer' = (timer \/ r.kind = "allocate")
    /\ permissions' = IF r.kind = "permission" THEN permissions \cup r.peer ELSE permissions
    /\ channels' = [c \in DOMAIN channels \cup (IF r.kind = "bind" THEN {r.channel} ELSE {}) |->
                    IF r.kind = "bind" /\ c = r.channel THEN CHOOSE p \in r.peer : TRUE
                    ELSE channels[c]]
    /\ Then(r)
    /\ UNCHANGED <<nextChannel, sent>>

\* An error response, or the timeout
Fails(r) ==
    /\ requests' = requests \ {r}
    /\ state' = IF r.kind = "allocate" THEN "failed" ELSE state
    /\ Then(r)
    /\ UNCHANGED <<sent, timer>> /\ UNCHANGED peers

Next ==
    \/ \E allocates \in BOOLEAN : Connect(allocates)
    \/ \E b \in binding : Bound(b) \/ ConnectTimesOut(b)
    \/ \E s \in closing \ closed : Closed(s)
    \/ Disconnect \/ Allocate \/ Refresh \/ TimerFires
    \/ \E p \in Peers : \/ CreatePermission(p, "nothing")
                        \/ BindChannel(p) \/ Send(p)
    \/ \E r \in requests : Succeeds(r) \/ Fails(r)

Spec == Init /\ [][Next]_vars

-----------------------------------------------------------------------------
TypeOK ==
    /\ socket \in 0..made /\ made \in 0..MaxSockets
    /\ closed \subseteq closing /\ closing \subseteq 1..made
    /\ state \in {"none", "pending", "active", "failed"}
    /\ permissions \subseteq Peers
    /\ DOMAIN channels \subseteq channelMin..channelMax
    /\ nextChannel \in channelMin..channelMax
    /\ \A r, q \in requests : r.id = q.id => r = q

\* Whatever answers and timeouts of overlapping calls come when, the client
\* that says it has an allocation has the socket the allocation belongs to,
\* unless the disconnect() of an earlier connection closed one that a connect()
\* was still binding.
AllocationIsOpen ==
    isAllocated => cutShort \/ (running /\ socket \notin closed \cup {0})

=============================================================================
