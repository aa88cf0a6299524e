------------------------------ MODULE Network -------------------------------
(* The network manager (network/index.js), its TCP and WebSocket transports, *)
(* their connections and the connection pool (network/transport).  Sockets,  *)
(* servers and peers are external: they connect, send, fail and end when they*)
(* like.  start() and stop() await, so that connections come and go, and     *)
(* start() is called again, while they run.  Every start() makes transports  *)
(* and a pool of its own, called a generation here.                          *)
EXTENDS Framing, SequencesExt

CONSTANTS Conns,            \* connection ids (bound of the model)
          MaxStarts,        \* calls of start() (bound of the model)
          Streams,          \* Streams[c]: what the peer may send over c
          MAX_CONNECTIONS,  \* options.maxConnections of a transport
          POOL_MAX,         \* options.maxSize of the pool
          POOL_MIN          \* options.minSize of the pool

ASSUME NetworkAssumption == /\ MaxStarts \in Nat
                            /\ Streams \in [Conns -> SUBSET Seq(Frame)]
                            /\ MAX_CONNECTIONS \in Nat
                            /\ POOL_MAX \in Nat /\ POOL_MIN \in Nat

Kinds == {"tcp", "ws"}

Gens == 1..MaxStarts

VARIABLES started,  \* _isStarted of the manager
          pool,     \* generation of its _pool, 0: none
          trans,    \* generation of its transport of each kind, 0: none
          starts,   \* calls of start(), one per generation
          stops,    \* calls of stop(): what they await and of which generation
          server,   \* the listening side of every transport
          pooled,   \* _connections of every pool
          timer,    \* pools whose idle check runs
          conn      \* connections

managerVars == <<started, pool, trans, starts, stops>>

vars == <<managerVars, server, pooled, timer, conn>>

Down == [bound |-> "no", listening |-> FALSE, started |-> FALSE]

Unused == [call |-> "unused", incoming |-> FALSE, kind |-> "tcp", gen |-> 0,
           state |-> "disconnected", sock |-> "none", listed |-> FALSE,
           parser |-> FALSE, ping |-> FALSE, activity |-> "never",
           stream |-> <<>>, read |-> 0, done |-> 0, got |-> <<>>]

Init ==
    /\ started = FALSE
    /\ pool = 0
    /\ trans = [k \in Kinds |-> 0]
    /\ starts = [g \in Gens |-> "none"]
    /\ stops = [g \in Gens |-> [at |-> "none", gen |-> 0]]
    /\ server = [g \in 0..MaxStarts |-> [k \in Kinds |-> Down]]
    /\ pooled = [g \in 0..MaxStarts |-> {}]
    /\ timer = [g \in 0..MaxStarts |-> FALSE]
    /\ conn = [c \in Conns |-> Unused]

-----------------------------------------------------------------------------
(* Connections and the sets they are in *)

\* this.connections of a transport
connections(g, k) == {c \in Conns : conn[c].gen = g /\ conn[c].kind = k /\ conn[c].listed}

HasSocket(c) == conn[c].sock \in {"open", "failed"}

\* A connection whose socket has ended and that no map holds any more: nothing
\* it remembers is read again.
Released(r) == [Unused EXCEPT !.call = "over", !.sock = "closed",
                              !.stream = r.stream, !.got = r.got]

\* Faulty variant: close() forgets to destroy the socket.
ClosedDetached(r) == [r EXCEPT !.state = "disconnected", !.listed = FALSE]

\* Connection.close(): a WebSocket is not its _socket, and stays open.
Closed(r) == IF r.kind = "tcp" THEN Released(r)
             ELSE [r EXCEPT !.state = "disconnected", !.listed = FALSE]

\* close() of the connections S.  DISCONNECTED takes them out of their transport
\* and their pool; a connection that was disconnected before emits nothing.
CloseIn(S, cs) ==
    [c \in Conns |-> IF c \in S /\ cs[c].state # "disconnected" THEN Closed(cs[c])
                     ELSE cs[c]]

Without(S, pools) == [g \in 0..MaxStarts |-> pools[g] \ S]

\* ConnectionPool.remove() of the connections S of generation g
PoolRemove(g, S) ==
    /\ conn' = CloseIn({c \in S : conn[c].state = "connected"}, conn)
    /\ pooled' = [pooled EXCEPT ![g] = @ \ S]

\* _createConnection(), _registerConnection() and the parser of a connection.
\* A WebSocket's activity is unknown until a frame is sent over it.
Created(r, stream) ==
    [r EXCEPT !.state = "connected", !.sock = "open", !.listed = TRUE,
              !.parser = TRUE, !.ping = (r.kind = "ws"), !.stream = stream,
              !.activity = IF r.kind = "tcp" THEN "recent" ELSE "never"]

TransportFull(g, k) == Cardinality(connections(g, k)) >= MAX_CONNECTIONS

\* Faulty variant: the pool takes one connection too many.
PoolFullLate == Cardinality(pooled[pool]) > POOL_MAX

\* isFull of the manager's pool
PoolFull == Cardinality(pooled[pool]) >= POOL_MAX

-----------------------------------------------------------------------------
(* Starting *)

\* start(), up to listen() of the TCP transport.
Start(g) ==
    /\ ~started
    /\ starts[g] = "none"
    /\ \A h \in Gens : h < g => starts[h] # "none"
    /\ pool' = g
    /\ timer' = [timer EXCEPT ![g] = TRUE]
    /\ starts' = [starts EXCEPT ![g] = "listening"]
    /\ UNCHANGED <<started, trans, stops, server, pooled, conn>>

\* The TCP server is bound.  The WebSocket transport listens at once; its server
\* gets its port only when nobody else has it.
Listening(g) ==
    LET Bound(k) == \E h \in Gens : server[h][k].bound = "port"
        Up(b) == [bound |-> b, listening |-> TRUE, started |-> TRUE]
    IN /\ starts[g] = "listening"
       /\ ~Bound("tcp")
       /\ server' = [server EXCEPT ![g] =
                        [tcp |-> Up("port"), ws |-> Up(IF Bound("ws") THEN "no" ELSE "port")]]
       /\ trans' = [k \in Kinds |-> g]
       /\ starts' = [starts EXCEPT ![g] = "preparing"]
       /\ UNCHANGED <<started, pool, stops, pooled, timer, conn>>

\* The TCP port is taken, by another process or by an earlier start().
ListenFails(g) ==
    /\ starts[g] = "listening"
    /\ starts' = [starts EXCEPT ![g] = "failed"]
    /\ UNCHANGED <<started, pool, trans, stops, server, pooled, timer, conn>>

\* NAT, DHT, discovery, registry and bootstrap are done with.
Started(g) ==
    /\ starts[g] = "preparing"
    /\ starts' = [starts EXCEPT ![g] = "done"]
    /\ started' = TRUE
    /\ UNCHANGED <<pool, trans, stops, server, pooled, timer, conn>>

-----------------------------------------------------------------------------
(* Stopping *)

Stop(s) ==
    /\ started
    /\ stops[s].at = "none"
    /\ \A h \in Gens : h < s => stops[h].at # "none"
    /\ started' = FALSE
    /\ stops' = [stops EXCEPT ![s] = [at |-> "services", gen |-> 0]]
    /\ UNCHANGED <<pool, trans, starts, server, pooled, timer, conn>>

\* close() of a transport up to its await: parsers and ping timers are dropped,
\* the server accepts no more.
Shut(g, k, cs) ==
    [c \in Conns |-> IF cs[c].gen = g /\ cs[c].kind = k
                     THEN [cs[c] EXCEPT !.parser = FALSE, !.ping = FALSE] ELSE cs[c]]

\* A server is closed once the connections it accepted have ended.
ServerEnded(g, k) ==
    \A c \in Conns : conn[c].gen = g /\ conn[c].kind = k /\ conn[c].incoming => ~HasSocket(c)

\* mDNS, discovery, registry and NAT have stopped: close() of the TCP transport.
CloseTcp(s) ==
    LET g == trans["tcp"]
    IN /\ stops[s].at = "services"
       /\ stops' = [stops EXCEPT ![s] = [at |-> "tcp", gen |-> g]]
       /\ server' = [server EXCEPT ![g]["tcp"].bound = "no"]
       /\ conn' = Shut(g, "tcp", conn)
       /\ UNCHANGED <<started, pool, trans, starts, pooled, timer>>

\* The TCP server is closed: its connections are closed, then close() of the
\* WebSocket transport the manager has by now.
TcpClosed(s) ==
    LET g == stops[s].gen
        h == trans["ws"]
        own == connections(g, "tcp")
    IN /\ stops[s].at = "tcp"
       /\ ServerEnded(g, "tcp")
       /\ stops' = [stops EXCEPT ![s] = [at |-> "ws", gen |-> h]]
       /\ server' = [server EXCEPT ![g]["tcp"] = Down, ![h]["ws"].bound = "no"]
       /\ conn' = Shut(h, "ws", CloseIn(own, conn))
       /\ pooled' = Without(own, pooled)
       /\ UNCHANGED <<started, pool, trans, starts, timer>>

\* The WebSocket server is closed: its connections are closed, the transports
\* are forgotten and the pool the manager has by now is stopped.
WsClosed(s) ==
    LET g == stops[s].gen
        own == connections(g, "ws")
        rest == pooled[pool]
        cs == [c \in Conns |-> IF c \in own
                               THEN [CloseIn(own, conn)[c] EXCEPT !.listed = FALSE]
                               ELSE conn[c]]
    IN /\ stops[s].at = "ws"
       /\ ServerEnded(g, "ws")
       /\ stops' = [stops EXCEPT ![s].at = "done"]
       /\ server' = [server EXCEPT ![g]["ws"] = Down]
       /\ conn' = CloseIn({c \in rest : cs[c].state = "connected"}, cs)
       /\ pooled' = [Without({c \in own : conn[c].state # "disconnected"}, pooled)
                        EXCEPT ![pool] = {}]
       /\ trans' = [k \in Kinds |-> 0]
       /\ timer' = [timer EXCEPT ![pool] = FALSE]
       /\ UNCHANGED <<started, pool, starts>>

-----------------------------------------------------------------------------
(* Connections begin *)

\* A peer connects.  A full transport or a full pool closes the connection;
\* closing it in the pool's place leaves a WebSocket open.
Accept(c, g, k, stream) ==
    LET r == Created([Unused EXCEPT !.call = "over", !.incoming = TRUE,
                                    !.kind = k, !.gen = g], stream)
    IN /\ conn[c] = Unused
       /\ server[g][k].bound # "no"
       /\ IF TransportFull(g, k)
          THEN /\ conn' = [conn EXCEPT ![c] = Released(r)]
               /\ UNCHANGED pooled
          ELSE IF PoolFull
          THEN /\ conn' = [conn EXCEPT ![c] = Closed(r)]
               /\ UNCHANGED pooled
          ELSE /\ conn' = [conn EXCEPT ![c] = r]
               /\ pooled' = [pooled EXCEPT ![pool] = @ \cup {c}]
       /\ UNCHANGED <<managerVars, server, timer>>

\* connect().  A TCP transport that is not started listens on some port first.
Connect(c, k) ==
    LET g == trans[k]
        listens == k = "tcp" /\ ~server[g][k].started /\ ~server[g][k].listening
    IN /\ conn[c] = Unused
       /\ g # 0
       /\ conn' = [conn EXCEPT ![c].kind = k, ![c].gen = g,
                               ![c].call = IF listens THEN "listening" ELSE "opening"]
       /\ server' = [server EXCEPT ![g][k].started = IF k = "ws" /\ ~server[g][k].listening
                                                     THEN TRUE ELSE @]
       /\ UNCHANGED <<managerVars, pooled, timer>>

AutoListening(c) ==
    /\ conn[c].call = "listening"
    /\ conn' = [conn EXCEPT ![c].call = "opening"]
    /\ server' = [server EXCEPT ![conn[c].gen]["tcp"] =
                     [bound |-> "any", listening |-> TRUE, started |-> TRUE]]
    /\ UNCHANGED <<managerVars, pooled, timer>>

\* The socket is connected.  A full transport closes the connection and throws
\* in the socket's callback; a full pool rejects, and keeps it in the transport.
Connected(c, stream) ==
    LET r == Created(conn[c], stream)
    IN /\ conn[c].call = "opening"
       /\ IF TransportFull(r.gen, r.kind)
          THEN /\ conn' = [conn EXCEPT ![c] =
                              [Closed(r) EXCEPT !.call = "over", !.parser = FALSE, !.ping = FALSE]]
               /\ UNCHANGED pooled
          ELSE IF PoolFull
          THEN /\ conn' = [conn EXCEPT ![c] = [r EXCEPT !.call = "over"]]
               /\ UNCHANGED pooled
          ELSE /\ conn' = [conn EXCEPT ![c] = [r EXCEPT !.call = "over"]]
               /\ pooled' = [pooled EXCEPT ![pool] = @ \cup {c}]
       /\ UNCHANGED <<managerVars, server, timer>>

\* The socket fails, or connectionTimeout is over and it is destroyed.
ConnectFails(c) ==
    /\ conn[c].call = "opening"
    /\ conn' = [conn EXCEPT ![c] = Released(@)]
    /\ UNCHANGED <<managerVars, server, pooled, timer>>

-----------------------------------------------------------------------------
(* Connections are used *)

\* The data frames among some frames, in their order: the k-th is at the place
\* that makes k of them.
DataOf(stream, frames) ==
    LET kept == {i \in DOMAIN frames : stream[frames[i]] = "data"}
        place(k) == CHOOSE i \in kept : Cardinality({j \in kept : j <= i}) = k
    IN [k \in 1..Cardinality(kept) |-> frames[place(k)]]

\* A chunk of n pieces arrives: any part of a TCP stream, one frame of a
\* WebSocket.  A fault closes the connection and drops the frames before it.
Data(c, n) ==
    LET r == conn[c]
        fed == feed(r.stream, r.done, r.read + n)
        has(type) == \E i \in ToSet(fed.frames) : r.stream[i] = type
        active == r.kind = "tcp" \/ (r.parser /\ ~fed.error /\ has("ping") /\ r.listed)
        taken == [r EXCEPT !.read = @ + n,
                           !.activity = IF active THEN "recent" ELSE @,
                           !.done = IF r.parser THEN fed.done ELSE @,
                           !.got = IF r.parser /\ ~fed.error
                                   THEN @ \o DataOf(r.stream, fed.frames)
                                   ELSE @]
        closes == /\ r.parser /\ r.state # "disconnected"
                  /\ fed.error \/ has("disconnect")
    IN /\ r.sock = "open"
       /\ r.read + n <= 2 * Len(r.stream)
       /\ r.kind = "ws" => n = 2
       /\ conn' = [conn EXCEPT ![c] = IF closes THEN Closed(taken) ELSE taken]
       /\ pooled' = IF closes THEN Without({c}, pooled) ELSE pooled
       /\ UNCHANGED <<managerVars, server, timer>>

\* send() of the manager, or broadcast(): Connection.send() needs a _socket.
Send(c) ==
    /\ c \in pooled[pool]
    /\ conn[c].state = "connected" /\ conn[c].kind = "tcp"
    /\ conn' = [conn EXCEPT ![c].activity = "recent"]
    /\ UNCHANGED <<managerVars, server, pooled, timer>>

\* disconnect() of the manager
Disconnect(c) ==
    /\ c \in pooled[pool]
    /\ PoolRemove(pool, {c})
    /\ UNCHANGED <<managerVars, server, timer>>

\* idleTimeout passes without activity (only the idle check looks at it).
TimePasses(c) ==
    /\ conn[c].activity = "recent" /\ \E g \in Gens : c \in pooled[g]
    /\ conn' = [conn EXCEPT ![c].activity = "old"]
    /\ UNCHANGED <<managerVars, server, pooled, timer>>

\* Connections that _checkIdleConnections() may evict: idle ones, as many as
\* leave minSize connections (in the order of the pool, which is not modelled).
Evictable(g) ==
    LET idle == {c \in pooled[g] : conn[c].activity = "old"}
        excess == Max({0, Cardinality(pooled[g]) - POOL_MIN})
    IN {S \in SUBSET idle : Cardinality(S) = Min({excess, Cardinality(idle)})}

CheckIdle(g) ==
    /\ timer[g]
    /\ \E S \in Evictable(g) : PoolRemove(g, S)
    /\ UNCHANGED <<managerVars, server, timer>>

\* The ping timer of a WebSocket: it ends with the socket, or closes the
\* connection when the last pong is overdue.
PingTick(c) ==
    /\ conn[c].ping
    /\ \/ /\ conn[c].sock # "open"
          /\ conn' = [conn EXCEPT ![c].ping = FALSE]
          /\ UNCHANGED pooled
       \/ /\ conn[c].sock = "open"
          /\ conn' = [CloseIn({c}, conn) EXCEPT ![c].ping = FALSE]
          /\ pooled' = IF conn[c].state = "disconnected" THEN pooled ELSE Without({c}, pooled)
    /\ UNCHANGED <<managerVars, server, timer>>

-----------------------------------------------------------------------------
(* Connections end *)

\* Faulty variant: the pool does not listen to DISCONNECTED.
HandleCloseUnpooled(c) ==
    /\ conn' = [conn EXCEPT ![c] = IF @.kind = "ws"
                                   THEN [@ EXCEPT !.sock = "closed", !.state = "disconnected"]
                                   ELSE Released(@)]
    /\ UNCHANGED <<managerVars, server, timer, pooled>>

\* _handleClose(); a WebSocket's close only sets the state of its connection.
HandleClose(c) ==
    /\ IF conn[c].kind = "ws"
       THEN /\ conn' = [conn EXCEPT ![c].sock = "closed", ![c].state = "disconnected"]
            /\ UNCHANGED pooled
       ELSE /\ conn' = [conn EXCEPT ![c] = Released(@)]
            /\ pooled' = Without({c}, pooled)
    /\ UNCHANGED <<managerVars, server, timer>>

RemoteEnds(c) == conn[c].sock = "open" /\ HandleClose(c)

\* _handleError(): the 'close' event of the socket follows.
SocketFails(c) ==
    /\ conn[c].sock = "open" /\ conn[c].kind = "tcp"
    /\ conn' = [conn EXCEPT ![c].sock = "failed", ![c].state = "error"]
    /\ UNCHANGED <<managerVars, server, pooled, timer>>

SocketCloses(c) == conn[c].sock = "failed" /\ HandleClose(c)

-----------------------------------------------------------------------------

Next ==
    \/ \E g \in Gens : \/ Start(g) \/ Listening(g) \/ ListenFails(g) \/ Started(g)
                       \/ Stop(g) \/ CloseTcp(g) \/ TcpClosed(g) \/ WsClosed(g)
                       \/ CheckIdle(g)
    \/ \E c \in Conns :
          \/ \E g \in Gens, k \in Kinds, stream \in Streams[c] : Accept(c, g, k, stream)
          \/ \E k \in Kinds : Connect(c, k)
          \/ AutoListening(c)
          \/ \E stream \in Streams[c] : Connected(c, stream)
          \/ ConnectFails(c)
          \/ \E n \in 1..(2 * Len(conn[c].stream)) : Data(c, n)
          \/ Send(c) \/ Disconnect(c) \/ TimePasses(c) \/ PingTick(c)
          \/ RemoteEnds(c) \/ SocketFails(c) \/ SocketCloses(c)

Spec == Init /\ [][Next]_vars

\* Calls the code awaits come back, its timers fire, idle connections get old.
\* Nothing makes an application call or a peer act.
FairSpec ==
    /\ Spec
    /\ \A g \in Gens : /\ WF_vars(Listening(g) \/ ListenFails(g))
                       /\ WF_vars(Started(g))
                       /\ WF_vars(CloseTcp(g) \/ TcpClosed(g) \/ WsClosed(g))
                       /\ SF_vars(CheckIdle(g))
    /\ \A c \in Conns : /\ WF_vars(AutoListening(c))
                        /\ WF_vars(ConnectFails(c) \/ \E stream \in Streams[c] : Connected(c, stream))
                        /\ WF_vars(TimePasses(c))
                        /\ WF_vars(SocketCloses(c))

-----------------------------------------------------------------------------
(* Properties *)

Connection ==
    [call : {"unused", "listening", "opening", "over"},
     incoming : BOOLEAN, kind : Kinds, gen : 0..MaxStarts,
     state : {"disconnected", "connected", "error"},
     sock : {"none", "open", "failed", "closed"}, listed : BOOLEAN,
     parser : BOOLEAN, ping : BOOLEAN, activity : {"never", "recent", "old"},
     stream : Seq(Frame), read : Nat, done : Nat, got : Seq(Nat)]

TypeOK ==
    /\ started \in BOOLEAN
    /\ pool \in 0..MaxStarts
    /\ trans \in [Kinds -> 0..MaxStarts]
    /\ starts \in [Gens -> {"none", "listening", "preparing", "done", "failed"}]
    /\ stops \in [Gens -> [at : {"none", "services", "tcp", "ws", "done"}, gen : 0..MaxStarts]]
    /\ server \in [0..MaxStarts -> [Kinds -> [bound : {"no", "port", "any"},
                                              listening : BOOLEAN, started : BOOLEAN]]]
    /\ pooled \in [0..MaxStarts -> SUBSET Conns]
    /\ \A g \in Gens : Cardinality(pooled[g]) <= POOL_MAX
    /\ timer \in [0..MaxStarts -> BOOLEAN]
    /\ conn \in [Conns -> Connection]
    /\ \A g \in Gens, k \in Kinds : Cardinality(connections(g, k)) <= MAX_CONNECTIONS

\* A pooled TCP connection has a socket whose end will be noticed, and its
\* transport knows it, whatever errors, evictions, stops and late connects come
\* in between: the pool holds no dead entry (pool.add, remove, _handleClose).
PooledIsLive ==
    \A g \in 0..MaxStarts : \A c \in pooled[g] : conn[c].kind = "tcp" =>
        HasSocket(c) /\ conn[c].state # "disconnected" /\ conn[c].listed

\* No TCP socket is lost: as long as it is open its connection is registered with
\* the transport, whose close() closes it (_registerConnection, connect, close).
SocketsAreOwned ==
    \A c \in Conns : conn[c].kind = "tcp" /\ HasSocket(c) =>
        conn[c].listed /\ conn[c].state # "disconnected"

\* However its bytes are cut into chunks, and whatever faulty or closing frames
\* come between, a connection hands on the data frames of its peer in order and
\* without a gap (FrameParser.feed, _handleData).
FramesInOrder ==
    \A c \in Conns :
        LET got == conn[c].got
            data == {i \in DOMAIN conn[c].stream : conn[c].stream[i] = "data"}
        IN /\ \A i, j \in DOMAIN got : i < j => got[i] < got[j]
           /\ \A i \in DOMAIN got : /\ got[i] \in data
                                   /\ \A k \in data : k < got[i] => k \in Range(got)

\* "Stop the transport and close all connections" (Transport.close): stop() of
\* the manager comes to an end.
StopReturns ==
    \A s \in Gens : stops[s].at = "services" ~> stops[s].at = "done"

=============================================================================
