--------------------------- MODULE NetworkProofs ----------------------------
(* Proofs about the ownership of sockets and the contents of the pools, then *)
(* about the limits and the order of frames.  The invariants are stated over *)
(* any connections cs and pools ps, so that a step that closes connections at*)
(* several points is a chain of lemmas.                                      *)
EXTENDS Network, FiniteSetTheorems, SequenceTheorems, WellFoundedInduction, TLAPS

-----------------------------------------------------------------------------
(* The inductive invariant *)

\* A record that has the fields the invariant looks at.
IsConn(r) ==
    /\ r = [f \in DOMAIN r |-> r[f]]
    /\ {"call", "kind", "state", "sock", "listed"} \subseteq DOMAIN r

Wired(r) == r.sock \in {"open", "failed"}

\* A connection that its transport knows, so that its end will be noticed.
Known(r) == r.listed /\ r.state # "disconnected"

\* A TCP connection with a socket is known.
Owned(r) == r.kind = "tcp" /\ Wired(r) => Known(r)

\* A connection that may be in a pool.
Poolable(r) == r.call = "over" /\ (r.kind = "tcp" => Wired(r) /\ Known(r))

ConnsOK(cs) ==
    /\ cs = [c \in Conns |-> cs[c]]
    /\ \A c \in Conns : IsConn(cs[c]) /\ Owned(cs[c])

Pools == 0..MaxStarts

IsPools(ps) == ps = [g \in Pools |-> ps[g]] /\ \A g \in Pools : ps[g] \subseteq Conns

\* No connection is in two pools: a close in one pool's place would leave it in
\* the other.
PoolsOK(cs, ps) ==
    /\ IsPools(ps)
    /\ \A g \in Pools : \A c \in ps[g] :
           Poolable(cs[c]) /\ \A h \in Pools : c \in ps[h] => g = h

NetInv == pool \in Pools /\ ConnsOK(conn) /\ PoolsOK(conn, pooled)

-----------------------------------------------------------------------------
(* Connections *)

LEMMA UnusedIsConn ==
    /\ IsConn(Unused) /\ Owned(Unused)
    /\ Unused.call # "over" /\ Unused.kind = "tcp"
BY DEF Unused, IsConn, Owned, Wired

\* A released connection has no socket.
LEMMA ReleasedIsOwned ==
    ASSUME NEW r
    PROVE  LET s == Released(r)
           IN IsConn(s) /\ Owned(s) /\ s.call = "over" /\ s.kind = "tcp" /\ ~Wired(s)
BY UnusedIsConn DEF Released, IsConn, Owned, Wired

\* close() loses no socket of a TCP connection.
LEMMA ClosedIsOwned ==
    ASSUME NEW r, IsConn(r)
    PROVE  IsConn(Closed(r)) /\ Owned(Closed(r))
<1>1. CASE r.kind = "tcp"
    BY <1>1, ReleasedIsOwned DEF Closed
<1>2. CASE r.kind # "tcp"
    BY <1>2 DEF Closed, IsConn, Owned
<1>. QED  BY <1>1, <1>2

\* A connection that was just made is known.
LEMMA CreatedIsKnown ==
    ASSUME NEW r, IsConn(r), NEW stream
    PROVE  LET s == Created(r, stream)
           IN IsConn(s) /\ Wired(s) /\ Known(s) /\ s.kind = r.kind /\ s.call = r.call
BY DEF Created, IsConn, Wired, Known

-----------------------------------------------------------------------------
(* Steps over many connections *)

\* Dropping parsers and ping timers touches nothing the invariant looks at.
LEMMA ShutKeeps ==
    ASSUME NEW cs, ConnsOK(cs), NEW ps, PoolsOK(cs, ps), NEW g, NEW k
    PROVE  ConnsOK(Shut(g, k, cs)) /\ PoolsOK(Shut(g, k, cs), ps)
<1> DEFINE after == Shut(g, k, cs)
<1>1. after = [c \in Conns |-> after[c]]
    BY DEF Shut
<1>2. ASSUME NEW c \in Conns
      PROVE  /\ IsConn(after[c]) /\ Owned(after[c])
             /\ Poolable(cs[c]) => Poolable(after[c])
    <2>1. IsConn(cs[c]) /\ Owned(cs[c])
        BY DEF ConnsOK
    <2>2. after[c] \in {cs[c], [cs[c] EXCEPT !.parser = FALSE, !.ping = FALSE]}
        BY DEF Shut
    <2>. QED  BY <2>1, <2>2 DEF IsConn, Owned, Poolable, Wired, Known
<1> HIDE DEF after
<1>3. ConnsOK(after)
    BY <1>1, <1>2 DEF ConnsOK
<1>4. ASSUME NEW h \in Pools, NEW c \in ps[h]
      PROVE  Poolable(after[c]) /\ \A i \in Pools : c \in ps[i] => h = i
    BY <1>2, <1>4 DEF PoolsOK, IsPools
<1>5. PoolsOK(after, ps)
    BY <1>4 DEF PoolsOK
<1>. QED  BY <1>3, <1>5 DEF after

\* Closing connections, when those that emit DISCONNECTED leave the pools.
LEMMA CloseInKeeps ==
    ASSUME NEW cs, ConnsOK(cs), NEW ps, PoolsOK(cs, ps), NEW S,
           NEW left, IsPools(left), \A g \in Pools : left[g] \subseteq ps[g],
           \A g \in Pools : \A c \in left[g] :
               c \in S => cs[c].state = "disconnected"
    PROVE  ConnsOK(CloseIn(S, cs)) /\ PoolsOK(CloseIn(S, cs), left)
<1> DEFINE after == CloseIn(S, cs)
<1>1. after = [c \in Conns |-> after[c]]
    BY DEF CloseIn
<1>2. ASSUME NEW c \in Conns
      PROVE  /\ IsConn(after[c]) /\ Owned(after[c])
             /\ \A g \in Pools : c \in left[g] => after[c] = cs[c]
    <2>1. IsConn(cs[c]) /\ Owned(cs[c])
        BY DEF ConnsOK
    <2>2. after[c] = IF c \in S /\ cs[c].state # "disconnected"
                     THEN Closed(cs[c]) ELSE cs[c]
        BY DEF CloseIn
    <2>. QED  BY <2>1, <2>2, ClosedIsOwned
<1> HIDE DEF after
<1>3. ConnsOK(after)
    BY <1>1, <1>2 DEF ConnsOK
<1>4. ASSUME NEW g \in Pools, NEW c \in left[g]
      PROVE  Poolable(after[c]) /\ \A h \in Pools : c \in left[h] => g = h
    <2>1. c \in ps[g] /\ c \in Conns
        BY <1>4 DEF IsPools
    <2>2. after[c] = cs[c]
        BY <2>1, <1>2, <1>4
    <2>. QED  BY <2>1, <2>2, <1>4 DEF PoolsOK
<1>5. PoolsOK(after, left)
    BY <1>4 DEF PoolsOK
<1>. QED  BY <1>3, <1>5 DEF after

\* Taking connections out of all pools.
LEMMA WithoutShrinks ==
    ASSUME NEW ps, IsPools(ps), NEW S
    PROVE  /\ IsPools(Without(S, ps))
           /\ \A g \in Pools : Without(S, ps)[g] = ps[g] \ S
BY DEF IsPools, Without, Pools

-----------------------------------------------------------------------------
(* Steps of one connection *)

\* A connection changes and its pool does not, or it leaves the pools.
LEMMA OneChanges ==
    ASSUME NetInv, NEW c \in Conns, NEW r, IsConn(r), Owned(r),
           conn' = [conn EXCEPT ![c] = r], pool' = pool,
           \/ pooled' = pooled /\ (Poolable(conn[c]) => Poolable(r))
           \/ pooled' = Without({c}, pooled)
    PROVE  NetInv'
<1>1. ConnsOK(conn) /\ PoolsOK(conn, pooled)
    BY DEF NetInv
<1>2. ConnsOK(conn')
    BY <1>1 DEF ConnsOK
<1>3. conn'[c] = r /\ \A d \in Conns \ {c} : conn'[d] = conn[d]
    BY <1>1 DEF ConnsOK
<1>4. CASE pooled' = pooled /\ (Poolable(conn[c]) => Poolable(r))
    <2>1. ASSUME NEW g \in Pools, NEW d \in pooled'[g]
          PROVE  Poolable(conn'[d])
        <3>1. d \in Conns /\ Poolable(conn[d])
            BY <1>1, <1>4, <2>1 DEF PoolsOK, IsPools
        <3>. QED  BY <3>1, <1>3, <1>4
    <2>. QED  BY <1>1, <1>2, <1>4, <2>1 DEF PoolsOK, NetInv
<1>5. CASE pooled' = Without({c}, pooled)
    <2>1. IsPools(pooled') /\ \A g \in Pools : pooled'[g] = pooled[g] \ {c}
        BY <1>1, <1>5, WithoutShrinks DEF PoolsOK
    <2>2. ASSUME NEW g \in Pools, NEW d \in pooled'[g]
          PROVE  /\ Poolable(conn'[d])
                 /\ \A h \in Pools : d \in pooled'[h] => g = h
        <3>1. d \in pooled[g] /\ d \in Conns \ {c}
            BY <1>1, <2>1, <2>2 DEF PoolsOK, IsPools
        <3>2. Poolable(conn[d]) /\ \A h \in Pools : d \in pooled[h] => g = h
            BY <3>1, <1>1 DEF PoolsOK
        <3>. QED  BY <3>1, <3>2, <1>3, <2>1
    <2>. QED  BY <1>2, <2>1, <2>2 DEF PoolsOK, NetInv
<1>. QED  BY <1>4, <1>5

\* A connection that was in no pool enters the one of the manager.
LEMMA OneEnters ==
    ASSUME NetInv, NEW c \in Conns, NEW r, IsConn(r), Owned(r), Poolable(r),
           conn[c].call # "over",
           conn' = [conn EXCEPT ![c] = r], pool' = pool,
           pooled' = [pooled EXCEPT ![pool] = @ \cup {c}]
    PROVE  NetInv'
<1>1. ConnsOK(conn) /\ PoolsOK(conn, pooled)
    BY DEF NetInv
<1>2. ConnsOK(conn')
    BY <1>1 DEF ConnsOK
<1>3. conn'[c] = r /\ \A d \in Conns \ {c} : conn'[d] = conn[d]
    BY <1>1 DEF ConnsOK
<1>4. \A g \in Pools : c \notin pooled[g]
    BY <1>1 DEF PoolsOK, Poolable
<1>5. /\ IsPools(pooled')
      /\ \A g \in Pools : pooled'[g] = IF g = pool THEN pooled[g] \cup {c} ELSE pooled[g]
    BY <1>1 DEF PoolsOK, IsPools
<1>6. ASSUME NEW g \in Pools, NEW d \in pooled'[g]
      PROVE  Poolable(conn'[d]) /\ \A h \in Pools : d \in pooled'[h] => g = h
    <2>1. CASE d = c
        BY <2>1, <1>3, <1>4, <1>5, <1>6
    <2>2. CASE d # c
        <3>1. d \in pooled[g] /\ d \in Conns
            BY <2>2, <1>1, <1>5, <1>6 DEF PoolsOK, IsPools
        <3>2. Poolable(conn[d]) /\ \A h \in Pools : d \in pooled[h] => g = h
            BY <3>1, <1>1 DEF PoolsOK
        <3>. QED  BY <3>1, <3>2, <2>2, <1>3, <1>5
    <2>. QED  BY <2>1, <2>2
<1>. QED  BY <1>2, <1>5, <1>6 DEF PoolsOK, NetInv

\* Removing connections from a pool closes those that are connected, and none
\* of them is in another pool.
LEMMA PoolRemoveKeeps ==
    ASSUME NetInv, NEW g \in Pools, NEW S, S \subseteq pooled[g],
           PoolRemove(g, S), pool' = pool
    PROVE  NetInv'
<1> DEFINE T == {c \in S : conn[c].state = "connected"}
<1>1. ConnsOK(conn) /\ PoolsOK(conn, pooled)
    BY DEF NetInv
<1>2. conn' = CloseIn(T, conn) /\ pooled' = [pooled EXCEPT ![g] = @ \ S]
    BY DEF PoolRemove
<1>3. /\ IsPools(pooled')
      /\ \A h \in Pools : pooled'[h] = IF h = g THEN pooled[h] \ S ELSE pooled[h]
    BY <1>1, <1>2 DEF PoolsOK, IsPools
<1>4. ASSUME NEW h \in Pools, NEW c \in pooled'[h], c \in T
      PROVE  FALSE
    <2>1. c \in S /\ c \in pooled[g]
        BY <1>4
    <2>2. c \in pooled[h] /\ h # g
        BY <1>3, <1>4, <2>1
    <2>. QED  BY <2>1, <2>2, <1>1 DEF PoolsOK
<1> HIDE DEF T
<1>5. ASSUME NEW ps, ps = pooled'
      PROVE  ConnsOK(CloseIn(T, conn)) /\ PoolsOK(CloseIn(T, conn), ps)
    <2>1. IsPools(ps) /\ \A h \in Pools : ps[h] \subseteq pooled[h]
        BY <1>3, <1>5
    <2>2. \A h \in Pools : \A c \in ps[h] : c \in T => conn[c].state = "disconnected"
        BY <1>4, <1>5
    <2>. QED  BY <1>1, <2>1, <2>2, CloseInKeeps
<1>. QED  BY <1>2, <1>5 DEF NetInv

-----------------------------------------------------------------------------
(* One lemma per action that touches connections or pools *)

LEMMA NetInvInitially == Init => NetInv
BY UnusedIsConn, NetworkAssumption
DEF Init, NetInv, ConnsOK, PoolsOK, IsPools, Pools, NetworkAssumption

LEMMA QuietSteps ==
    NetInv /\ UNCHANGED <<pool, pooled, conn>> => NetInv'
BY DEF NetInv, ConnsOK, PoolsOK, IsPools

LEMMA StartKeeps ==
    ASSUME NetInv, NEW g \in Gens, Start(g)
    PROVE  NetInv'
<1>1. g \in Pools /\ pool' = g
    BY NetworkAssumption DEF NetworkAssumption, Gens, Pools, Start
<1>2. UNCHANGED <<pooled, conn>>
    BY DEF Start
<1>. QED  BY <1>1, <1>2 DEF NetInv, ConnsOK, PoolsOK, IsPools

LEMMA CloseTcpKeeps ==
    ASSUME NetInv, NEW t, CloseTcp(t)
    PROVE  NetInv'
<1>1. PICK g : conn' = Shut(g, "tcp", conn) /\ UNCHANGED <<pool, pooled>>
    BY DEF CloseTcp
<1>. QED  BY <1>1, ShutKeeps DEF NetInv

LEMMA TcpClosedKeeps ==
    ASSUME NetInv, NEW t, TcpClosed(t)
    PROVE  NetInv'
<1> DEFINE own == connections(stops[t].gen, "tcp")
           left == Without(own, pooled)
<1>1. /\ pool' = pool /\ pooled' = left
      /\ conn' = Shut(trans["ws"], "ws", CloseIn(own, conn))
    BY DEF TcpClosed
<1>2. IsPools(left) /\ \A g \in Pools : left[g] = pooled[g] \ own
    BY WithoutShrinks DEF NetInv, PoolsOK
<1> HIDE DEF own, left
<1>3. ConnsOK(CloseIn(own, conn)) /\ PoolsOK(CloseIn(own, conn), left)
    BY <1>2, CloseInKeeps DEF NetInv
<1>4. /\ ConnsOK(Shut(trans["ws"], "ws", CloseIn(own, conn)))
      /\ PoolsOK(Shut(trans["ws"], "ws", CloseIn(own, conn)), left)
    BY <1>3, ShutKeeps
<1>. QED  BY <1>1, <1>4 DEF NetInv

\* The WebSockets of the transport are closed and forgotten, then the rest of
\* the pool: what a pool still holds afterwards is in another pool.
LEMMA WsClosedKeeps ==
    ASSUME NetInv, NEW t, WsClosed(t)
    PROVE  NetInv'
<1> DEFINE own == connections(stops[t].gen, "ws")
           closed == CloseIn(own, conn)
           cs == [c \in Conns |-> IF c \in own
                                  THEN [closed[c] EXCEPT !.listed = FALSE]
                                  ELSE conn[c]]
           gone == {c \in own : conn[c].state # "disconnected"}
           mid == Without(gone, pooled)
           left == [mid EXCEPT ![pool] = {}]
           rest == {c \in pooled[pool] : cs[c].state = "connected"}
<1>1. conn' = CloseIn(rest, cs) /\ pooled' = left /\ pool' = pool
    BY DEF WsClosed
<1>2. pool \in Pools /\ ConnsOK(conn) /\ PoolsOK(conn, pooled)
    BY DEF NetInv
<1>3. IsPools(mid) /\ \A g \in Pools : mid[g] = pooled[g] \ gone
    BY <1>2, WithoutShrinks DEF PoolsOK
<1>4. ConnsOK(closed) /\ PoolsOK(closed, mid)
    <2> HIDE DEF mid
    <2>1. \A g \in Pools : \A c \in mid[g] :
              c \in own => conn[c].state = "disconnected"
        BY <1>3
    <2> HIDE DEF own
    <2>. QED  BY <1>2, <1>3, <2>1, CloseInKeeps
<1>5. ASSUME NEW c \in Conns
      PROVE  /\ IsConn(cs[c]) /\ Owned(cs[c])
             /\ Poolable(closed[c]) => Poolable(cs[c])
    <2>1. CASE c \in own
        <3>1. conn[c].kind = "ws" /\ IsConn(conn[c])
            BY <2>1, <1>2 DEF connections, ConnsOK
        <3>2. closed[c] \in {conn[c], Closed(conn[c])}
            BY DEF CloseIn
        <3>3. closed[c].kind = "ws" /\ IsConn(closed[c])
            <4>1. IsConn(Closed(conn[c])) /\ Closed(conn[c]).kind = "ws"
                BY <3>1, ClosedIsOwned DEF Closed, IsConn
            <4>. QED  BY <3>1, <3>2, <4>1
        <3>4. cs[c] = [closed[c] EXCEPT !.listed = FALSE]
            BY <2>1
        <3> HIDE DEF closed, cs
        <3>. QED  BY <3>3, <3>4 DEF IsConn, Owned, Poolable
    <2>2. CASE c \notin own
        <3>1. cs[c] = conn[c] /\ closed[c] = conn[c]
            BY <2>2 DEF CloseIn
        <3>. QED  BY <3>1, <1>2 DEF ConnsOK
    <2>. QED  BY <2>1, <2>2
<1>6. cs = [c \in Conns |-> cs[c]]
    OBVIOUS
<1> HIDE DEF closed, cs, own
<1>7. ConnsOK(cs)
    BY <1>5, <1>6 DEF ConnsOK
<1>8. PoolsOK(cs, mid)
    BY <1>4, <1>5 DEF PoolsOK, IsPools
<1>9. IsPools(left) /\ \A g \in Pools : left[g] = IF g = pool THEN {} ELSE mid[g]
    <2> HIDE DEF mid
    <2>. QED  BY <1>3 DEF IsPools
<1>10. ASSUME NEW g \in Pools, NEW c \in left[g], c \in rest
       PROVE  FALSE
    <2>1. g # pool /\ c \in pooled[g] /\ c \in pooled[pool]
        BY <1>3, <1>9, <1>10
    <2>. QED  BY <2>1, <1>2 DEF PoolsOK
<1> HIDE DEF left, mid, rest
<1>11. ConnsOK(CloseIn(rest, cs)) /\ PoolsOK(CloseIn(rest, cs), left)
    <2>1. \A g \in Pools : left[g] \subseteq mid[g]
        BY <1>9
    <2>2. \A g \in Pools : \A c \in left[g] : c \in rest => cs[c].state = "disconnected"
        BY <1>10
    <2>. QED  BY <1>7, <1>8, <1>9, <2>1, <2>2, CloseInKeeps
<1>. QED  BY <1>1, <1>2, <1>11 DEF NetInv

\* What a full transport, a full pool or neither make of a new connection r.
LEMMA AcceptKeeps ==
    ASSUME NetInv, NEW c \in Conns, NEW g, NEW k, NEW stream,
           Accept(c, g, k, stream)
    PROVE  NetInv'
<1> DEFINE new == [Unused EXCEPT !.call = "over", !.incoming = TRUE,
                                 !.kind = k, !.gen = g]
           r == Created(new, stream)
<1>1. IsConn(new) /\ new.call = "over"
    BY UnusedIsConn DEF IsConn
<1>2. conn[c] = Unused /\ conn[c].call # "over" /\ ~Poolable(conn[c])
    BY UnusedIsConn DEF Accept, Poolable
<1>3. /\ pool' = pool
      /\ \/ conn' = [conn EXCEPT ![c] = Released(r)] /\ pooled' = pooled
         \/ conn' = [conn EXCEPT ![c] = Closed(r)] /\ pooled' = pooled
         \/ /\ conn' = [conn EXCEPT ![c] = r]
            /\ pooled' = [pooled EXCEPT ![pool] = @ \cup {c}]
    BY DEF Accept, managerVars
<1> HIDE DEF new
<1>4. IsConn(r) /\ Wired(r) /\ Known(r) /\ r.call = "over"
    BY <1>1, CreatedIsKnown
<1>5. Owned(r) /\ Poolable(r)
    BY <1>4 DEF Owned, Poolable
<1> HIDE DEF r
<1>6. CASE conn' = [conn EXCEPT ![c] = Released(r)] /\ pooled' = pooled
    BY <1>2, <1>3, <1>6, ReleasedIsOwned, OneChanges
<1>7. CASE conn' = [conn EXCEPT ![c] = Closed(r)] /\ pooled' = pooled
    BY <1>2, <1>3, <1>4, <1>7, ClosedIsOwned, OneChanges
<1>8. CASE /\ conn' = [conn EXCEPT ![c] = r]
           /\ pooled' = [pooled EXCEPT ![pool] = @ \cup {c}]
    BY <1>2, <1>3, <1>4, <1>5, <1>8, OneEnters
<1>. QED  BY <1>3, <1>6, <1>7, <1>8

LEMMA ConnectKeeps ==
    ASSUME NetInv, NEW c \in Conns, NEW k, Connect(c, k)
    PROVE  NetInv'
<1>1. conn[c] = Unused /\ ~Poolable(conn[c])
    BY UnusedIsConn DEF Connect, Poolable
<1>2. PICK call : /\ conn' = [conn EXCEPT ![c].kind = k, ![c].gen = trans[k],
                                          ![c].call = call]
                  /\ UNCHANGED <<pool, pooled>>
    BY DEF Connect, managerVars
<1> DEFINE r == [Unused EXCEPT !.kind = k, !.gen = trans[k], !.call = call]
<1>3. conn' = [conn EXCEPT ![c] = r]
    BY <1>1, <1>2 DEF NetInv, ConnsOK
<1>4. IsConn(r) /\ Owned(r)
    <2>1. IsConn(Unused) /\ ~Wired(Unused)
        BY UnusedIsConn DEF Unused, Wired
    <2>. QED  BY <2>1 DEF IsConn, Owned, Wired
<1> HIDE DEF r
<1>. QED  BY <1>1, <1>2, <1>3, <1>4, OneChanges

LEMMA AutoListeningKeeps ==
    ASSUME NetInv, NEW c \in Conns, AutoListening(c)
    PROVE  NetInv'
<1> DEFINE r == [conn[c] EXCEPT !.call = "opening"]
<1>1. /\ conn' = [conn EXCEPT ![c] = r] /\ UNCHANGED <<pool, pooled>>
      /\ ~Poolable(conn[c])
    BY DEF AutoListening, managerVars, Poolable
<1>2. IsConn(conn[c]) /\ Owned(conn[c])
    BY DEF NetInv, ConnsOK
<1>3. IsConn(r) /\ Owned(r)
    BY <1>2 DEF IsConn, Owned, Wired, Known
<1> HIDE DEF r
<1>. QED  BY <1>1, <1>3, OneChanges

LEMMA ConnectedKeeps ==
    ASSUME NetInv, NEW c \in Conns, NEW stream, Connected(c, stream)
    PROVE  NetInv'
<1> DEFINE r == Created(conn[c], stream)
           kept == [r EXCEPT !.call = "over"]
           shut == [Closed(r) EXCEPT !.call = "over", !.parser = FALSE, !.ping = FALSE]
<1>1. IsConn(conn[c]) /\ conn[c].call # "over" /\ ~Poolable(conn[c])
    BY DEF NetInv, ConnsOK, Connected, Poolable
<1>2. /\ pool' = pool
      /\ \/ conn' = [conn EXCEPT ![c] = shut] /\ pooled' = pooled
         \/ conn' = [conn EXCEPT ![c] = kept] /\ pooled' = pooled
         \/ /\ conn' = [conn EXCEPT ![c] = kept]
            /\ pooled' = [pooled EXCEPT ![pool] = @ \cup {c}]
    BY DEF Connected, managerVars
<1>3. IsConn(r) /\ Wired(r) /\ Known(r)
    BY <1>1, CreatedIsKnown
<1> HIDE DEF r
<1>4. IsConn(kept) /\ Owned(kept) /\ Poolable(kept)
    BY <1>3 DEF IsConn, Wired, Known, Owned, Poolable
<1>5. IsConn(shut) /\ Owned(shut)
    <2>1. IsConn(Closed(r)) /\ Owned(Closed(r))
        BY <1>3, ClosedIsOwned
    <2>. QED  BY <2>1 DEF IsConn, Owned, Wired, Known
<1> HIDE DEF kept, shut
<1>6. CASE conn' = [conn EXCEPT ![c] = shut] /\ pooled' = pooled
    BY <1>1, <1>2, <1>5, <1>6, OneChanges
<1>7. CASE conn' = [conn EXCEPT ![c] = kept] /\ pooled' = pooled
    BY <1>1, <1>2, <1>4, <1>7, OneChanges
<1>8. CASE /\ conn' = [conn EXCEPT ![c] = kept]
           /\ pooled' = [pooled EXCEPT ![pool] = @ \cup {c}]
    BY <1>1, <1>2, <1>4, <1>8, OneEnters
<1>. QED  BY <1>2, <1>6, <1>7, <1>8

LEMMA ConnectFailsKeeps ==
    ASSUME NetInv, NEW c \in Conns, ConnectFails(c)
    PROVE  NetInv'
<1>1. /\ conn' = [conn EXCEPT ![c] = Released(conn[c])]
      /\ UNCHANGED <<pool, pooled>> /\ ~Poolable(conn[c])
    BY DEF ConnectFails, managerVars, Poolable
<1>. QED  BY <1>1, ReleasedIsOwned, OneChanges

\* What a chunk does to a connection before it may be closed.
LEMMA DataKeeps ==
    ASSUME NetInv, NEW c \in Conns, NEW n, Data(c, n)
    PROVE  NetInv'
<1> DEFINE r == conn[c]
           fed == feed(r.stream, r.done, r.read + n)
           has(type) == \E i \in ToSet(fed.frames) : r.stream[i] = type
           active == r.kind = "tcp" \/ (r.parser /\ ~fed.error /\ has("ping") /\ r.listed)
           activity == IF active THEN "recent" ELSE r.activity
           done == IF r.parser THEN fed.done ELSE r.done
           got == IF r.parser /\ ~fed.error
                  THEN r.got \o DataOf(r.stream, fed.frames)
                  ELSE r.got
           closes == /\ r.parser /\ r.state # "disconnected"
                     /\ fed.error \/ has("disconnect")
           taken == [r EXCEPT !.read = r.read + n, !.activity = activity,
                              !.done = done, !.got = got]
<1>1. /\ conn' = [conn EXCEPT ![c] = IF closes THEN Closed(taken) ELSE taken]
      /\ pooled' = IF closes THEN Without({c}, pooled) ELSE pooled
    BY DEF Data
<1>2. pool' = pool
    BY DEF Data, managerVars
<1> HIDE DEF activity, done, got, closes
<1>3. IsConn(conn[c]) /\ Owned(conn[c])
    BY DEF NetInv, ConnsOK
<1>4. /\ IsConn(taken) /\ Owned(taken)
      /\ Poolable(conn[c]) => Poolable(taken)
    BY <1>3 DEF IsConn, Owned, Poolable, Wired, Known
<1> HIDE DEF taken
<1>5. \/ conn' = [conn EXCEPT ![c] = taken] /\ pooled' = pooled
      \/ conn' = [conn EXCEPT ![c] = Closed(taken)] /\ pooled' = Without({c}, pooled)
    BY <1>1
<1>6. CASE conn' = [conn EXCEPT ![c] = taken] /\ pooled' = pooled
    BY <1>2, <1>4, <1>6, OneChanges
<1>7. CASE conn' = [conn EXCEPT ![c] = Closed(taken)] /\ pooled' = Without({c}, pooled)
    BY <1>2, <1>4, <1>7, ClosedIsOwned, OneChanges
<1>. QED  BY <1>5, <1>6, <1>7

LEMMA ActivityKeeps ==
    ASSUME NetInv, NEW c \in Conns, Send(c) \/ TimePasses(c)
    PROVE  NetInv'
<1>1. PICK a : /\ conn' = [conn EXCEPT ![c] = [conn[c] EXCEPT !.activity = a]]
               /\ UNCHANGED <<pool, pooled>>
    BY DEF Send, TimePasses, managerVars
<1> DEFINE r == [conn[c] EXCEPT !.activity = a]
<1>2. IsConn(conn[c]) /\ Owned(conn[c])
    BY DEF NetInv, ConnsOK
<1>3. IsConn(r) /\ Owned(r) /\ (Poolable(conn[c]) => Poolable(r))
    BY <1>2 DEF IsConn, Owned, Poolable, Wired, Known
<1>4. conn' = [conn EXCEPT ![c] = r]
    BY <1>1
<1> HIDE DEF r
<1>. QED  BY <1>1, <1>3, <1>4, OneChanges

LEMMA DisconnectKeeps ==
    ASSUME NetInv, NEW c \in Conns, Disconnect(c)
    PROVE  NetInv'
<1>1. pool \in Pools /\ {c} \subseteq pooled[pool] /\ PoolRemove(pool, {c}) /\ pool' = pool
    BY DEF NetInv, Disconnect, managerVars
<1>. QED  BY <1>1, PoolRemoveKeeps

LEMMA CheckIdleKeeps ==
    ASSUME NetInv, NEW g \in Gens, CheckIdle(g)
    PROVE  NetInv'
<1>1. g \in Pools /\ pool' = pool
    BY NetworkAssumption DEF NetworkAssumption, Gens, Pools, CheckIdle, managerVars
<1>2. PICK S \in Evictable(g) : PoolRemove(g, S)
    BY DEF CheckIdle
<1>3. S \subseteq pooled[g]
    BY DEF Evictable
<1>. QED  BY <1>1, <1>2, <1>3, PoolRemoveKeeps

LEMMA PingTickKeeps ==
    ASSUME NetInv, NEW c \in Conns, PingTick(c)
    PROVE  NetInv'
<1>0. IsConn(conn[c]) /\ Owned(conn[c]) /\ conn = [d \in Conns |-> conn[d]]
    BY DEF NetInv, ConnsOK
<1>1. pool' = pool
    BY DEF PingTick, managerVars
<1>2. CASE \/ conn[c].sock # "open"
           \/ conn[c].state = "disconnected"
    <2> DEFINE r == [conn[c] EXCEPT !.ping = FALSE]
    <2>1. conn' = [conn EXCEPT ![c] = r] /\ pooled' = pooled
        <3>1. CASE conn[c].sock # "open"
            BY <3>1 DEF PingTick
        <3>2. CASE conn[c].sock = "open" /\ conn[c].state = "disconnected"
            <4>1. CloseIn({c}, conn) = conn
                BY <1>0, <3>2 DEF CloseIn
            <4>. QED  BY <4>1, <3>2 DEF PingTick
        <3>. QED  BY <1>2, <3>1, <3>2
    <2>2. IsConn(r) /\ Owned(r) /\ (Poolable(conn[c]) => Poolable(r))
        BY <1>0 DEF IsConn, Owned, Poolable, Wired, Known
    <2> HIDE DEF r
    <2>. QED  BY <1>1, <2>1, <2>2, OneChanges
<1>3. CASE conn[c].sock = "open" /\ conn[c].state # "disconnected"
    <2> DEFINE r == [Closed(conn[c]) EXCEPT !.ping = FALSE]
    <2>1. /\ conn' = [CloseIn({c}, conn) EXCEPT ![c].ping = FALSE]
          /\ pooled' = Without({c}, pooled)
        BY <1>3 DEF PingTick
    <2>2. CloseIn({c}, conn) = [conn EXCEPT ![c] = Closed(conn[c])]
        BY <1>0, <1>3 DEF CloseIn
    <2>3. conn' = [conn EXCEPT ![c] = r]
        BY <1>0, <2>1, <2>2
    <2>4. IsConn(r) /\ Owned(r)
        <3>1. IsConn(Closed(conn[c])) /\ Owned(Closed(conn[c]))
            BY <1>0, ClosedIsOwned
        <3>. QED  BY <3>1 DEF IsConn, Owned, Wired, Known
    <2> HIDE DEF r
    <2>. QED  BY <1>1, <2>1, <2>3, <2>4, OneChanges
<1>. QED  BY <1>2, <1>3

LEMMA HandleCloseKeeps ==
    ASSUME NetInv, NEW c \in Conns, HandleClose(c)
    PROVE  NetInv'
<1>0. IsConn(conn[c]) /\ pool' = pool
    BY DEF NetInv, ConnsOK, HandleClose, managerVars
<1>1. CASE conn[c].kind = "ws"
    <2> DEFINE r == [conn[c] EXCEPT !.sock = "closed", !.state = "disconnected"]
    <2>1. conn' = [conn EXCEPT ![c] = r] /\ pooled' = pooled
        BY <1>1 DEF HandleClose
    <2>2. IsConn(r) /\ Owned(r) /\ (Poolable(conn[c]) => Poolable(r))
        BY <1>0, <1>1 DEF IsConn, Owned, Poolable
    <2> HIDE DEF r
    <2>. QED  BY <1>0, <2>1, <2>2, OneChanges
<1>2. CASE conn[c].kind # "ws"
    <2>1. /\ conn' = [conn EXCEPT ![c] = Released(conn[c])]
          /\ pooled' = Without({c}, pooled)
        BY <1>2 DEF HandleClose
    <2>. QED  BY <1>0, <2>1, ReleasedIsOwned, OneChanges
<1>. QED  BY <1>1, <1>2

LEMMA SocketFailsKeeps ==
    ASSUME NetInv, NEW c \in Conns, SocketFails(c)
    PROVE  NetInv'
<1> DEFINE r == [conn[c] EXCEPT !.sock = "failed", !.state = "error"]
<1>1. /\ conn' = [conn EXCEPT ![c] = r] /\ UNCHANGED <<pool, pooled>>
      /\ conn[c].sock = "open" /\ conn[c].kind = "tcp"
    BY DEF SocketFails, managerVars
<1>2. IsConn(conn[c]) /\ Owned(conn[c])
    BY DEF NetInv, ConnsOK
<1>3. IsConn(r) /\ Owned(r) /\ (Poolable(conn[c]) => Poolable(r))
    BY <1>1, <1>2 DEF IsConn, Owned, Poolable, Wired, Known
<1> HIDE DEF r
<1>. QED  BY <1>1, <1>3, OneChanges

-----------------------------------------------------------------------------
(* The theorems *)

LEMMA NetInvPreserved == NetInv /\ [Next]_vars => NetInv'
<1> SUFFICES ASSUME NetInv, [Next]_vars
             PROVE  NetInv'
    OBVIOUS
<1>1. CASE UNCHANGED vars
    BY <1>1, QuietSteps DEF vars, managerVars
<1>2. ASSUME NEW g \in Gens,
             \/ Start(g) \/ Listening(g) \/ ListenFails(g) \/ Started(g)
             \/ Stop(g) \/ CloseTcp(g) \/ TcpClosed(g) \/ WsClosed(g) \/ CheckIdle(g)
      PROVE  NetInv'
    <2>1. CASE Listening(g) \/ ListenFails(g) \/ Started(g) \/ Stop(g)
        BY <2>1, QuietSteps DEF Listening, ListenFails, Started, Stop
    <2>. QED
        BY <1>2, <2>1, StartKeeps, CloseTcpKeeps, TcpClosedKeeps, WsClosedKeeps, CheckIdleKeeps
<1>3. ASSUME NEW c \in Conns,
             \/ \E g \in Gens, k \in Kinds, stream \in Streams[c] : Accept(c, g, k, stream)
             \/ \E k \in Kinds : Connect(c, k)
             \/ AutoListening(c)
             \/ \E stream \in Streams[c] : Connected(c, stream)
             \/ ConnectFails(c)
             \/ \E n \in 1..(2 * Len(conn[c].stream)) : Data(c, n)
             \/ Send(c) \/ Disconnect(c) \/ TimePasses(c) \/ PingTick(c)
             \/ RemoteEnds(c) \/ SocketFails(c) \/ SocketCloses(c)
      PROVE  NetInv'
    <2>1. CASE \/ \E g \in Gens, k \in Kinds, stream \in Streams[c] : Accept(c, g, k, stream)
               \/ \E k \in Kinds : Connect(c, k)
               \/ AutoListening(c)
               \/ \E stream \in Streams[c] : Connected(c, stream)
               \/ ConnectFails(c)
        BY <2>1, AcceptKeeps, ConnectKeeps, AutoListeningKeeps, ConnectedKeeps, ConnectFailsKeeps
    <2>2. CASE \/ \E n \in 1..(2 * Len(conn[c].stream)) : Data(c, n)
               \/ Send(c) \/ Disconnect(c) \/ TimePasses(c) \/ PingTick(c)
        BY <2>2, DataKeeps, ActivityKeeps, DisconnectKeeps, PingTickKeeps
    <2>3. CASE RemoteEnds(c) \/ SocketFails(c) \/ SocketCloses(c)
        BY <2>3, HandleCloseKeeps, SocketFailsKeeps DEF RemoteEnds, SocketCloses
    <2>. QED  BY <1>3, <2>1, <2>2, <2>3
<1>. QED  BY <1>1, <1>2, <1>3 DEF Next

\* No reachable state breaks the invariant.
THEOREM NetworkInvariant == Spec => []NetInv
<1>. QED  BY NetInvInitially, NetInvPreserved, PTL DEF Spec

\* The pool holds no dead TCP connection, for any number of connections and
\* starts and any limits.
THEOREM PoolHoldsLive == Spec => []PooledIsLive
<1>1. NetInv => PooledIsLive
    BY DEF NetInv, PoolsOK, IsPools, Pools, Poolable, Wired, Known, PooledIsLive, HasSocket
<1>. QED  BY <1>1, NetworkInvariant, PTL

\* No TCP socket is lost: an open one has a connection its transport will close.
THEOREM SocketsAreNotLost == Spec => []SocketsAreOwned
<1>1. NetInv => SocketsAreOwned
    BY DEF NetInv, ConnsOK, Owned, Wired, Known, SocketsAreOwned, HasSocket
<1>. QED  BY <1>1, NetworkInvariant, PTL

-----------------------------------------------------------------------------
(* Numbers *)

\* A non-empty set of natural numbers has a least element.
LEMMA LeastNumber ==
    ASSUME NEW S \in SUBSET Nat, S # {}
    PROVE  \E m \in S : \A n \in S : m <= n
<1> DEFINE R == {ss \in Nat \X Nat : ss[1] < ss[2]}
<1>1. IsWellFoundedOn(R, Nat)
    BY NatLessThanWellFounded DEF OpToRel
<1>2. \A m, n \in Nat : m < n => <<m, n>> \in R
    OBVIOUS
<1> HIDE DEF R
<1>3. PICK m \in S : \A n \in S : <<n, m>> \notin R
    BY <1>1, WFMin
<1>4. \A n \in S : ~(n < m)
    BY <1>2, <1>3
<1>5. \A n \in S : m <= n
    BY <1>4
<1>. QED  BY <1>5

\* A non-empty set of positions of a sequence has a greatest element.
LEMMA GreatestPosition ==
    ASSUME NEW len \in Nat, NEW S, S \subseteq 1..len, S # {}
    PROVE  \E m \in S : \A n \in S : n <= m
<1>0. \A i \in S : i \in Nat /\ i <= len
    OBVIOUS
<1> DEFINE T == {t \in Nat : \E i \in S : t = len - i}
<1>1. T # {}
    <2>1. PICK i \in S : TRUE
        OBVIOUS
    <2>2. len - i \in T
        BY <1>0
    <2>. QED  BY <2>2
<1>2. PICK t \in T : \A u \in T : t <= u
    <2>1. T \in SUBSET Nat
        OBVIOUS
    <2> HIDE DEF T
    <2>. QED  BY <1>1, <2>1, LeastNumber
<1>3. PICK m \in S : t = len - m
    OBVIOUS
<1>4. ASSUME NEW n \in S
      PROVE  n <= m
    <2>1. len - n \in T
        BY <1>0
    <2>2. len - m <= len - n
        BY <1>2, <1>3, <2>1
    <2>. QED  BY <1>0, <2>2
<1>. QED  BY <1>4

\* The numbers of a set up to i, one by one: some number makes k of them.
LEMMA KthPosition ==
    ASSUME NEW len \in Nat, NEW S, S \subseteq 1..len, NEW k \in 1..Cardinality(S)
    PROVE  \E i \in S : Cardinality({j \in S : j <= i}) = k
<1> DEFINE upto == [i \in 0..len |-> {j \in S : j <= i}]
           T == {i \in 0..len : Cardinality(upto[i]) >= k}
<1>0. \A i \in S : i \in Nat /\ 1 <= i /\ i <= len
    OBVIOUS
<1>1. IsFiniteSet(S) /\ Cardinality(S) \in Nat /\ k \in Nat /\ 1 <= k /\ k <= Cardinality(S)
    <2>1. IsFiniteSet(1..len)
        BY FS_Interval
    <2>2. IsFiniteSet(S)
        BY <2>1, FS_Subset
    <2>. QED  BY <2>2, FS_CardinalityType
<1>2. ASSUME NEW i \in 0..len
      PROVE  IsFiniteSet(upto[i]) /\ Cardinality(upto[i]) \in Nat
    <2>1. upto[i] \in SUBSET S
        OBVIOUS
    <2> HIDE DEF upto
    <2>. QED  BY <1>1, <2>1, FS_Subset, FS_CardinalityType
<1>3. upto[len] = S /\ upto[0] = {}
    <2>1. 0 \in 0..len /\ len \in 0..len
        OBVIOUS
    <2>2. \A j \in S : j <= len /\ ~(j <= 0)
        BY <1>0
    <2>. QED  BY <2>1, <2>2
<1>4. ASSUME NEW i \in 1..len
      PROVE  /\ i \in S => upto[i] = upto[i - 1] \cup {i} /\ i \notin upto[i - 1]
             /\ i \notin S => upto[i] = upto[i - 1]
    <2>1. i \in 0..len /\ i - 1 \in 0..len
        OBVIOUS
    <2>2. upto[i] = {j \in S : j <= i} /\ upto[i - 1] = {j \in S : j <= i - 1}
        BY <2>1
    <2>3. \A j \in S : j <= i <=> j <= i - 1 \/ j = i
        BY <1>0
    <2> HIDE DEF upto
    <2>4. \A j \in S : j \in upto[i] <=> j \in upto[i - 1] \/ j = i
        BY <2>2, <2>3
    <2>5. i \notin upto[i - 1] /\ upto[i] \subseteq S /\ upto[i - 1] \subseteq S
        BY <2>2
    <2>. QED  BY <2>4, <2>5
<1>5. \A i \in 0..len : upto[i] = {j \in S : j <= i}
    OBVIOUS
<1> HIDE DEF upto
<1>6. T # {}
    <2>1. len \in T
        BY <1>1, <1>3
    <2>. QED  BY <2>1
<1>7. PICK i \in T : \A j \in T : i <= j
    <2>1. T \in SUBSET Nat
        OBVIOUS
    <2> HIDE DEF T
    <2>. QED  BY <1>6, <2>1, LeastNumber
<1>8. i \in 0..len /\ Cardinality(upto[i]) >= k
    OBVIOUS
<1>9. i \in 1..len
    <2>1. Cardinality(upto[0]) = 0
        BY <1>3, FS_EmptySet
    <2>. QED  BY <1>1, <1>8, <2>1
<1>10. i - 1 \in 0..len /\ i - 1 \notin T
    BY <1>7, <1>9
<1>11. Cardinality(upto[i - 1]) < k
    BY <1>1, <1>2, <1>10
<1>12. Cardinality(upto[i]) =
           IF i \in S THEN Cardinality(upto[i - 1]) + 1 ELSE Cardinality(upto[i - 1])
    BY <1>2, <1>4, <1>9, <1>10, FS_AddElement
<1>13. i \in S /\ Cardinality(upto[i]) = k
    BY <1>1, <1>2, <1>8, <1>10, <1>11, <1>12
<1>. QED  BY <1>5, <1>8, <1>13

-----------------------------------------------------------------------------
(* Frames *)

Increasing(s) == \A i, j \in DOMAIN s : i < j => s[i] < s[j]

\* The data frames among consecutive frames of a stream are handed on in order,
\* and all of them.
LEMMA DataOfRun ==
    ASSUME NEW stream \in Seq(Frame), NEW a \in Nat, NEW m \in Nat, a + m <= Len(stream)
    PROVE  LET got == DataOf(stream, [i \in 1..m |-> a + i])
           IN /\ got \in Seq(Nat) /\ Increasing(got)
              /\ Range(got) = {k \in (a + 1)..(a + m) : stream[k] = "data"}
<1> DEFINE frames == [i \in 1..m |-> a + i]
           got == DataOf(stream, frames)
           kept == {i \in 1..m : stream[a + i] = "data"}
           upto == [i \in 1..m |-> {j \in kept : j <= i}]
           place == [k \in 1..Cardinality(kept) |->
                        CHOOSE i \in kept : Cardinality({j \in kept : j <= i}) = k]
<1>0. \A i \in kept : i \in 1..m /\ i \in Nat /\ 1 <= i /\ i <= m /\ stream[a + i] = "data"
    OBVIOUS
<1>1. got = [k \in 1..Cardinality(kept) |-> a + place[k]]
    <2> DEFINE Kept == {i \in DOMAIN frames : stream[frames[i]] = "data"}
    <2>1. Kept = kept
        OBVIOUS
    <2>2. got = [k \in 1..Cardinality(kept) |->
                   frames[CHOOSE i \in kept : Cardinality({j \in kept : j <= i}) = k]]
        <3> HIDE DEF kept, frames
        <3>1. got = [k \in 1..Cardinality(Kept) |->
                       frames[CHOOSE i \in Kept : Cardinality({j \in Kept : j <= i}) = k]]
            BY Zenon DEF DataOf
        <3> HIDE DEF Kept, got
        <3>. QED  BY <2>1, <3>1, SMT
    <2>3. \A k \in 1..Cardinality(kept) : place[k] \in kept
        <3> HIDE DEF kept
        <3>1. kept \subseteq 1..m
            BY <1>0
        <3>. QED  BY <3>1, KthPosition
    <2>4. \A k \in 1..Cardinality(kept) : frames[place[k]] = a + place[k]
        <3> HIDE DEF kept, place
        <3>. QED  BY <1>0, <2>3
    <2> HIDE DEF kept, frames, got
    <2>. QED  BY <2>2, <2>4
<1>2. /\ IsFiniteSet(kept) /\ Cardinality(kept) \in Nat
      /\ \A i \in kept : /\ upto[i] \in SUBSET kept /\ IsFiniteSet(upto[i])
                         /\ Cardinality(upto[i]) \in 1..Cardinality(kept)
    <2>1. IsFiniteSet(kept)
        <3>1. IsFiniteSet(1..m) /\ kept \in SUBSET (1..m)
            BY FS_Interval
        <3>. QED  BY <3>1, FS_Subset
    <2>2. ASSUME NEW i \in kept
          PROVE  upto[i] \in SUBSET kept /\ i \in upto[i]
        BY <1>0
    <2> HIDE DEF upto, kept
    <2>3. Cardinality(kept) \in Nat
        BY <2>1, FS_CardinalityType
    <2>4. ASSUME NEW i \in kept
          PROVE  IsFiniteSet(upto[i]) /\ Cardinality(upto[i]) \in 1..Cardinality(kept)
        <3>1. IsFiniteSet(upto[i]) /\ Cardinality(upto[i]) <= Cardinality(kept)
            BY <2>1, <2>2, FS_Subset
        <3>2. Cardinality(upto[i]) \in Nat /\ Cardinality(upto[i]) # 0
            BY <2>2, <3>1, FS_CardinalityType, FS_EmptySet
        <3>. QED  BY <2>3, <3>1, <3>2
    <2>. QED  BY <2>1, <2>2, <2>3, <2>4
<1>3. ASSUME NEW k \in 1..Cardinality(kept)
      PROVE  place[k] \in kept /\ Cardinality(upto[place[k]]) = k
    <2>0. \A i \in kept : upto[i] = {j \in kept : j <= i}
        BY <1>0
    <2>1. kept \subseteq 1..m
        BY <1>0
    <2> HIDE DEF upto, kept, place, got, frames
    <2>2. \E i \in kept : Cardinality({j \in kept : j <= i}) = k
        <3>1. \A l \in 1..Cardinality(kept) :
                  \E i \in kept : Cardinality({j \in kept : j <= i}) = l
            BY <2>1, KthPosition
        <3>. QED  BY <3>1
    <2> USE DEF place
    <2>3. place[k] \in kept /\ Cardinality({j \in kept : j <= place[k]}) = k
        BY <2>2
    <2>. QED  BY <2>0, <2>3
<1>4. \A i, j \in kept : /\ i <= j => upto[i] \in SUBSET upto[j]
                         /\ i < j => j \in upto[j] /\ j \notin upto[i]
    <2>1. \A i \in kept : upto[i] = {j \in kept : j <= i}
        BY <1>0
    <2> HIDE DEF upto, kept
    <2>. QED  BY <1>0, <2>1
<1> HIDE DEF upto, kept, place, got
<1>5. ASSUME NEW k \in 1..Cardinality(kept), NEW l \in 1..Cardinality(kept), k < l
      PROVE  place[k] < place[l]
    <2>1. SUFFICES ASSUME place[l] <= place[k] PROVE FALSE
        BY <1>0, <1>3
    <2>2. upto[place[l]] \in SUBSET upto[place[k]]
        BY <1>3, <1>4, <2>1
    <2>3. Cardinality(upto[place[l]]) <= Cardinality(upto[place[k]])
        BY <1>2, <1>3, <2>2, FS_Subset
    <2>. QED  BY <1>2, <1>3, <1>5, <2>3
<1>6. ASSUME NEW i \in kept
      PROVE  place[Cardinality(upto[i])] = i
    <2> DEFINE p == place[Cardinality(upto[i])]
    <2>1. p \in kept /\ Cardinality(upto[p]) = Cardinality(upto[i])
        BY <1>2, <1>3
    <2> HIDE DEF p
    <2>2. p <= i => upto[p] = upto[i]
        <3>1. p <= i => upto[p] \in SUBSET upto[i]
            BY <1>4, <2>1
        <3>. QED  BY <1>2, <2>1, <3>1, FS_Subset
    <2>3. i <= p => upto[p] = upto[i]
        <3>1. i <= p => upto[i] \in SUBSET upto[p]
            BY <1>4, <2>1
        <3>. QED  BY <1>2, <2>1, <3>1, FS_Subset
    <2>4. ~(p < i) /\ ~(i < p)
        <3>1. p \in Nat /\ i \in Nat
            BY <1>0, <2>1
        <3>2. /\ p < i => i \in upto[i] /\ i \notin upto[p]
              /\ i < p => p \in upto[p] /\ p \notin upto[i]
            BY <1>4, <2>1
        <3>. QED  BY <2>2, <2>3, <3>1, <3>2
    <2>5. p = i
        BY <1>0, <2>1, <2>4
    <2>. QED  BY <2>5 DEF p
<1>7. got \in Seq(Nat) /\ DOMAIN got = 1..Cardinality(kept)
    BY <1>0, <1>1, <1>2, <1>3
<1>8. Increasing(got)
    <2>1. \A k \in DOMAIN got : k \in 1..Cardinality(kept) /\ got[k] = a + place[k]
        BY <1>1, <1>7
    <2>. QED  BY <1>0, <1>3, <1>5, <2>1 DEF Increasing
<1>9. ASSUME NEW x
      PROVE  x \in Range(got) <=> x \in {k \in (a + 1)..(a + m) : stream[k] = "data"}
    <2>1. ASSUME x \in Range(got)
          PROVE  x \in (a + 1)..(a + m) /\ stream[x] = "data"
        <3>1. PICK k \in 1..Cardinality(kept) : x = a + place[k]
            BY <1>1, <2>1 DEF Range
        <3>. QED  BY <1>0, <1>3, <3>1
    <2>2. ASSUME x \in (a + 1)..(a + m), stream[x] = "data"
          PROVE  x \in Range(got)
        <3>1. x - a \in kept /\ a + (x - a) = x
            BY <2>2 DEF kept
        <3>2. Cardinality(upto[x - a]) \in DOMAIN got
            BY <1>2, <1>7, <3>1
        <3>3. got[Cardinality(upto[x - a])] = x
            BY <1>1, <1>6, <1>7, <3>1, <3>2
        <3>. QED  BY <3>2, <3>3 DEF Range
    <2>. QED  BY <2>1, <2>2
<1>10. Range(got) = {k \in (a + 1)..(a + m) : stream[k] = "data"}
    BY <1>9
<1>. QED  BY <1>7, <1>8, <1>10 DEF got, frames
\* What a connection has handed on: data frames of its stream in order, without
\* a gap.
InSequence(stream, got) ==
    LET data == {i \in DOMAIN stream : stream[i] = "data"}
    IN /\ \A i, j \in DOMAIN got : i < j => got[i] < got[j]
       /\ \A i \in DOMAIN got : /\ got[i] \in data
                               /\ \A k \in data : k < got[i] => k \in Range(got)

DataUpTo(stream, done) == {k \in 1..done : stream[k] = "data"}

\* The data frames of a stream up to a frame, in order, are without a gap.
LEMMA InSequenceUpTo ==
    ASSUME NEW stream \in Seq(Frame), NEW done \in Nat, done <= Len(stream),
           NEW got \in Seq(Nat), Increasing(got), Range(got) = DataUpTo(stream, done)
    PROVE  InSequence(stream, got)
<1> DEFINE data == {i \in DOMAIN stream : stream[i] = "data"}
<1>1. \A k \in 1..done : k \in DOMAIN stream
    OBVIOUS
<1>2. ASSUME NEW i \in DOMAIN got
      PROVE  /\ got[i] \in data
             /\ \A k \in data : k < got[i] => k \in Range(got)
    <2>1. got[i] \in Range(got)
        BY DEF Range
    <2>2. got[i] \in 1..done /\ stream[got[i]] = "data"
        BY <2>1 DEF DataUpTo
    <2>3. ASSUME NEW k \in data, k < got[i]
          PROVE  k \in Range(got)
        <3>1. k \in 1..done /\ stream[k] = "data"
            BY <2>2, <2>3
        <3>. QED  BY <3>1 DEF DataUpTo
    <2>. QED  BY <1>1, <2>2, <2>3
<1>. QED  BY <1>2 DEF InSequence, Increasing

\* Handing on the data frames that follow.
LEMMA HandingOn ==
    ASSUME NEW stream \in Seq(Frame), NEW done \in Nat, NEW n \in Nat,
           done + n <= Len(stream),
           NEW got \in Seq(Nat), Increasing(got), Range(got) = DataUpTo(stream, done)
    PROVE  LET more == got \o DataOf(stream, [i \in 1..n |-> done + i])
           IN /\ more \in Seq(Nat) /\ Increasing(more)
              /\ Range(more) = DataUpTo(stream, done + n)
<1> DEFINE next == DataOf(stream, [i \in 1..n |-> done + i])
           more == got \o next
<1>1. /\ next \in Seq(Nat) /\ Increasing(next)
      /\ Range(next) = {k \in (done + 1)..(done + n) : stream[k] = "data"}
    BY DataOfRun
<1> HIDE DEF next
<1>2. /\ more \in Seq(Nat) /\ Len(more) = Len(got) + Len(next)
      /\ \A i \in 1..(Len(got) + Len(next)) :
             more[i] = IF i <= Len(got) THEN got[i] ELSE next[i - Len(got)]
    BY <1>1, ConcatProperties
<1> HIDE DEF more
<1> DEFINE a == Len(got)
           b == Len(next)
<1>2a. /\ a \in Nat /\ b \in Nat
      /\ DOMAIN got = 1..a /\ DOMAIN next = 1..b /\ DOMAIN more = 1..(a + b)
      /\ \A i \in 1..(a + b) : more[i] = IF i <= a THEN got[i] ELSE next[i - a]
    BY <1>1, <1>2
<1> HIDE DEF a, b
<1>2b. /\ \A i \in 1..(a + b) : /\ i \in Int
                                /\ i <= a => i \in 1..a /\ more[i] = got[i]
                                /\ i > a => i - a \in 1..b /\ more[i] = next[i - a]
       /\ \A i \in 1..a : i \in 1..(a + b) /\ more[i] = got[i]
       /\ \A i \in 1..b : a + i \in 1..(a + b) /\ more[a + i] = next[i]
    <2>1. \A i \in 1..b : (a + i) - a = i /\ ~(a + i <= a) /\ a + i \in 1..(a + b)
        BY <1>2a
    <2>. QED  BY <1>2a, <2>1
<1>3. \A i \in DOMAIN got : got[i] \in Nat /\ got[i] <= done
    <2>1. \A i \in DOMAIN got : got[i] \in Range(got)
        BY DEF Range
    <2>. QED  BY <2>1 DEF DataUpTo
<1>4. \A i \in DOMAIN next : next[i] \in Nat /\ next[i] > done
    <2>1. \A i \in DOMAIN next : next[i] \in Range(next)
        BY DEF Range
    <2>. QED  BY <1>1, <2>1
<1>5. Increasing(more)
    <2>1. ASSUME NEW i \in DOMAIN more, NEW j \in DOMAIN more, i < j
          PROVE  more[i] < more[j]
        <3>1. CASE j <= a
            <4>1. i \in DOMAIN got /\ j \in DOMAIN got /\ more[i] = got[i] /\ more[j] = got[j]
                BY <1>2a, <1>2b, <2>1, <3>1
            <4>. QED  BY <2>1, <4>1 DEF Increasing
        <3>2. CASE i <= a /\ j > a
            <4>1. /\ i \in DOMAIN got /\ j - a \in DOMAIN next
                  /\ more[i] = got[i] /\ more[j] = next[j - a]
                BY <1>2a, <1>2b, <2>1, <3>2
            <4>. QED  BY <1>3, <1>4, <4>1
        <3>3. CASE i > a
            <4>1. /\ i - a \in DOMAIN next /\ j - a \in DOMAIN next
                  /\ more[i] = next[i - a] /\ more[j] = next[j - a]
                  /\ i - a < j - a
                BY <1>2a, <1>2b, <2>1, <3>3
            <4>. QED  BY <1>1, <4>1 DEF Increasing
        <3>. QED  BY <1>2a, <1>2b, <2>1, <3>1, <3>2, <3>3
    <2>. QED  BY <2>1 DEF Increasing
<1>6. ASSUME NEW x
      PROVE  x \in Range(more) <=> x \in Range(got) \/ x \in Range(next)
    <2>1. ASSUME x \in Range(more)
          PROVE  x \in Range(got) \/ x \in Range(next)
        <3>1. PICK i \in DOMAIN more : x = more[i]
            BY <2>1 DEF Range
        <3>2. \/ i \in DOMAIN got /\ x = got[i]
              \/ i - a \in DOMAIN next /\ x = next[i - a]
            BY <1>2a, <1>2b, <3>1
        <3>. QED  BY <3>2 DEF Range
    <2>2. ASSUME x \in Range(got)
          PROVE  x \in Range(more)
        <3>1. PICK i \in DOMAIN got : x = got[i]
            BY <2>2 DEF Range
        <3>2. i \in DOMAIN more /\ more[i] = x
            BY <1>2a, <1>2b, <3>1
        <3>. QED  BY <3>2 DEF Range
    <2>3. ASSUME x \in Range(next)
          PROVE  x \in Range(more)
        <3>1. PICK i \in DOMAIN next : x = next[i]
            BY <2>3 DEF Range
        <3>2. a + i \in DOMAIN more /\ more[a + i] = x
            BY <1>2a, <1>2b, <3>1
        <3>. QED  BY <3>2 DEF Range
    <2>. QED  BY <2>1, <2>2, <2>3
<1>7. \A x : x \in Range(more) <=> x \in DataUpTo(stream, done + n)
    BY <1>1, <1>6 DEF DataUpTo
<1>8. Range(more) = DataUpTo(stream, done + n)
    BY <1>7
<1>. QED  BY <1>2, <1>5, <1>8 DEF more, next
-----------------------------------------------------------------------------
(* What a connection remembers *)

\* A connection whose frames are still parsed knows how far it is; that of a
\* WebSocket is always between two frames.
Positioned(r) ==
    r.sock = "open" /\ r.parser =>
        /\ 2 * r.done <= r.read /\ r.read <= 2 * Len(r.stream)
        /\ Range(r.got) = DataUpTo(r.stream, r.done)
        /\ r.kind = "ws" => r.read = 2 * r.done

Fits(r) == r \in Connection /\ InSequence(r.stream, r.got) /\ Positioned(r)

\* Nothing has arrived yet.
Blank(r) == r.sock = "none" /\ r.read = 0 /\ r.done = 0 /\ r.got = <<>>

Sound(r) == Fits(r) /\ (r.call # "over" => Blank(r))

\* If s is among the connections of a transport then r was.
NotListed(r, s) == s.listed => r.listed /\ s.gen = r.gen /\ s.kind = r.kind

LEMMA NothingInSequence == \A stream : InSequence(stream, <<>>)
BY DEF InSequence

LEMMA UnusedIsSound == Sound(Unused)
<1>1. Unused \in Connection
    BY NetworkAssumption DEF Unused, Connection, Kinds, NetworkAssumption
<1>2. Blank(Unused)
    BY DEF Unused, Blank
<1>. QED  BY <1>1, <1>2, NothingInSequence DEF Sound, Fits, Positioned, Blank

LEMMA ReleasedIsSound ==
    ASSUME NEW r, r \in Connection, InSequence(r.stream, r.got)
    PROVE  Sound(Released(r)) /\ ~Released(r).listed
<1> DEFINE stream == r.stream
           got == r.got
           s == [Unused EXCEPT !.call = "over", !.sock = "closed",
                               !.stream = stream, !.got = got]
<1>1. Released(r) = s
    BY DEF Released
<1>2. stream \in Seq(Frame) /\ got \in Seq(Nat) /\ InSequence(stream, got)
    BY DEF Connection
<1>3. Unused \in Connection /\ ~Unused.listed
    BY UnusedIsSound DEF Sound, Fits, Unused
<1> HIDE DEF stream, got
<1>4. s \in Connection
    BY <1>2, <1>3 DEF Connection
<1>5. /\ s.call = "over" /\ s.sock = "closed" /\ s.stream = stream /\ s.got = got
      /\ ~s.listed
    BY <1>3 DEF Connection
<1> HIDE DEF s
<1>6. Sound(s)
    BY <1>2, <1>4, <1>5 DEF Sound, Fits, Positioned
<1>. QED  BY <1>1, <1>5, <1>6

\* Changing fields that no frame depends on.
LEMMA OtherFieldsAreFree ==
    ASSUME NEW r, Sound(r), NEW s \in Connection,
           s.call = r.call \/ s.call = "over",
           s.sock = r.sock \/ (r.call = "over" /\ s.sock # "open"),
           s.parser => r.parser,
           s.kind = r.kind \/ Blank(r), s.stream = r.stream, s.read = r.read,
           s.done = r.done, s.got = r.got
    PROVE  Sound(s)
BY DEF Sound, Fits, Positioned, Blank

LEMMA ClosedIsSound ==
    ASSUME NEW r, Fits(r)
    PROVE  /\ Fits(Closed(r)) /\ ~Closed(r).listed
           /\ Sound(r) => Sound(Closed(r))
<1>1. CASE r.kind = "tcp"
    <2>1. Closed(r) = Released(r)
        BY <1>1 DEF Closed
    <2>. QED  BY <2>1, ReleasedIsSound DEF Sound, Fits
<1>2. CASE r.kind # "tcp"
    <2> DEFINE s == [r EXCEPT !.state = "disconnected", !.listed = FALSE]
    <2>1. Closed(r) = s
        BY <1>2 DEF Closed
    <2>2. r \in Connection
        BY DEF Fits
    <2>3. /\ s \in Connection /\ ~s.listed
          /\ s.call = r.call /\ s.sock = r.sock /\ s.parser = r.parser
          /\ s.kind = r.kind /\ s.stream = r.stream /\ s.read = r.read
          /\ s.done = r.done /\ s.got = r.got
        BY <2>2 DEF Connection
    <2> HIDE DEF s
    <2>4. Fits(s) /\ (Sound(r) => Sound(s))
        BY <2>3 DEF Sound, Fits, Positioned, Blank
    <2>. QED  BY <2>1, <2>3, <2>4
<1>. QED  BY <1>1, <1>2

LEMMA CreatedFits ==
    ASSUME NEW r \in Connection, r.read = 0, r.done = 0, r.got = <<>>,
           NEW stream \in Seq(Frame)
    PROVE  LET s == Created(r, stream)
           IN Fits(s) /\ s.call = r.call /\ s.gen = r.gen /\ s.kind = r.kind
<1> DEFINE ping == (r.kind = "ws")
           activity == IF r.kind = "tcp" THEN "recent" ELSE "never"
           s == [r EXCEPT !.state = "connected", !.sock = "open", !.listed = TRUE,
                          !.parser = TRUE, !.ping = ping, !.stream = stream,
                          !.activity = activity]
<1>1. Created(r, stream) = s
    BY DEF Created
<1>2. ping \in BOOLEAN /\ activity \in {"never", "recent", "old"}
    OBVIOUS
<1> HIDE DEF ping, activity
<1>3. s \in Connection
    BY <1>2 DEF Connection
<1>4. /\ s.call = r.call /\ s.gen = r.gen /\ s.kind = r.kind
      /\ s.stream = stream /\ s.read = 0 /\ s.done = 0 /\ s.got = <<>>
    BY DEF Connection
<1> HIDE DEF s
<1>5. DataUpTo(stream, 0) = {} /\ Range(<<>>) = {}
    BY DEF DataUpTo, Range
<1>6. Positioned(s)
    <2>1. Range(s.got) = DataUpTo(s.stream, s.done)
        BY <1>4, <1>5, Zenon
    <2>2. Len(stream) \in Nat
        OBVIOUS
    <2>. QED  BY <1>4, <2>1, <2>2 DEF Positioned
<1>. QED  BY <1>1, <1>3, <1>4, <1>6, NothingInSequence DEF Fits
-----------------------------------------------------------------------------
(* Parsing *)

\* The frames after the first `done' ones, up to the last complete one.
TakesAll(fed, stream, done, read) ==
    /\ fed.done \in Nat /\ done <= fed.done /\ fed.done <= Len(stream)
    /\ 2 * fed.done <= read /\ read < 2 * fed.done + 2
    /\ fed.frames = [i \in 1..(fed.done - done) |-> done + i]

\* Without a fault feed() returns the frames up to the last complete one.
LEMMA FeedTakesAll ==
    ASSUME NEW stream, NEW done \in Nat, NEW read \in Nat, Len(stream) \in Nat,
           2 * done <= read, read <= 2 * Len(stream),
           ~feed(stream, done, read).error
    PROVE  TakesAll(feed(stream, done, read), stream, done, read)
<1> DEFINE fed == feed(stream, done, read)
           Faults == {i \in Faulty(stream, read) : i > done}
           Parsed == {i \in Complete(stream, read) : i > done /\ \A j \in Faults : i < j}
           last == read \div 2
<1>1. /\ fed.frames = [i \in 1..Cardinality(Parsed) |-> done + i]
      /\ fed.error = (Faults # {})
      /\ fed.done = IF Faults = {} THEN done + Cardinality(Parsed) ELSE read \div 2
    BY DEF feed
<1>2. Faults = {}
    BY <1>1
<1>3. /\ last \in Nat /\ done <= last /\ last <= Len(stream)
      /\ 2 * last <= read /\ read < 2 * last + 2
    OBVIOUS
<1>4. Parsed = (done + 1)..last
    <2>1. \A i \in 1..Len(stream) : read >= 2 * i <=> i <= last
        BY <1>3
    <2>2. Parsed = {i \in 1..Len(stream) : read >= 2 * i /\ i > done}
        BY <1>2 DEF Complete
    <2> HIDE DEF Parsed, last
    <2>3. \A i : i \in Parsed <=> i \in (done + 1)..last
        BY <1>3, <2>1, <2>2
    <2>. QED  BY <2>3
<1>5. Cardinality((done + 1)..last) = last - done
    <2> HIDE DEF last
    <2>1. done + 1 \in Int /\ last \in Int
        BY <1>3
    <2>2. Cardinality((done + 1)..last) =
              IF done + 1 > last THEN 0 ELSE last - (done + 1) + 1
        BY <2>1, FS_Interval
    <2>. QED  BY <1>3, <2>2
<1> HIDE DEF last, Parsed, fed, Faults
<1>6. fed.done = last /\ fed.frames = [i \in 1..(last - done) |-> done + i]
    <2>1. Cardinality(Parsed) = last - done
        BY <1>4, <1>5
    <2>. QED  BY <1>1, <1>2, <1>3, <2>1
<1>7. fed.frames = [i \in 1..(fed.done - done) |-> done + i]
    BY <1>6
<1>. QED  BY <1>3, <1>6, <1>7 DEF fed, TakesAll

\* After a fault the buffer is empty; the fault lies behind what was handed on.
LEMMA FeedDropsFault ==
    ASSUME NEW stream, NEW done \in Nat, NEW read \in Nat,
           feed(stream, done, read).error
    PROVE  /\ feed(stream, done, read).done = read \div 2
           /\ \E i \in 1..Len(stream) : /\ i > done /\ read >= 2 * i - 1
                                        /\ stream[i] # "data"
<1> DEFINE fed == feed(stream, done, read)
           Faults == {i \in Faulty(stream, read) : i > done}
           Parsed == {i \in Complete(stream, read) : i > done /\ \A j \in Faults : i < j}
<1>1. /\ fed.error = (Faults # {})
      /\ fed.done = IF Faults = {} THEN done + Cardinality(Parsed) ELSE read \div 2
    BY DEF feed
<1>2. PICK i \in Faults : TRUE
    BY <1>1
<1>3. i \in Faulty(stream, read) /\ i > done
    BY <1>2
<1> HIDE DEF Faults, Parsed
<1>4. i \in 1..Len(stream) /\ read >= 2 * i - 1 /\ stream[i] # "data"
    BY <1>3 DEF Faulty
<1>. QED  BY <1>1, <1>2, <1>3, <1>4

\* What a connection makes of a chunk, before it may be closed.
Taken(r, n, activity) ==
    LET fed == feed(r.stream, r.done, r.read + n)
    IN [r EXCEPT !.read = r.read + n, !.activity = activity,
                 !.done = IF r.parser THEN fed.done ELSE r.done,
                 !.got = IF r.parser /\ ~fed.error
                         THEN r.got \o DataOf(r.stream, fed.frames) ELSE r.got]

\* A fault closes a connection that is not disconnected.
FaultCloses(r, n) ==
    r.parser /\ feed(r.stream, r.done, r.read + n).error /\ r.state # "disconnected"

LEMMA DataIsSound ==
    ASSUME NEW r, Sound(r), Owned(r), r.sock = "open", NEW n \in Nat,
           r.read + n <= 2 * Len(r.stream), r.kind = "ws" => n = 2,
           NEW activity \in {"never", "recent", "old"}
    PROVE  LET taken == Taken(r, n, activity)
           IN /\ NotListed(r, taken)
              /\ \/ Sound(taken) /\ Sound(Closed(taken))
                 \/ FaultCloses(r, n) /\ Sound(Closed(taken))
              /\ ~Closed(taken).listed
<1> DEFINE stream == r.stream
           read == r.read + n
           fed == feed(stream, r.done, read)
           done == IF r.parser THEN fed.done ELSE r.done
           got == IF r.parser /\ ~fed.error
                  THEN r.got \o DataOf(stream, fed.frames) ELSE r.got
           taken == [r EXCEPT !.read = read, !.activity = activity,
                              !.done = done, !.got = got]
<1>0. taken = Taken(r, n, activity)
    BY DEF Taken
<1>1. /\ r \in Connection /\ InSequence(stream, r.got) /\ Positioned(r)
      /\ r.call = "over"
    BY DEF Sound, Fits, Blank
<1>2. /\ stream \in Seq(Frame) /\ Len(stream) \in Nat /\ r.done \in Nat /\ r.read \in Nat
      /\ read \in Nat /\ r.got \in Seq(Nat) /\ Increasing(r.got)
      /\ read <= 2 * Len(stream)
    BY <1>1 DEF Connection, InSequence, Increasing
<1> HIDE DEF stream, read, fed
<1>3. CASE ~r.parser
    <2>1. done = r.done /\ got = r.got
        BY <1>3
    <2> HIDE DEF done, got
    <2>2. taken \in Connection
        BY <1>1, <1>2, <2>1 DEF Connection
    <2>3. /\ taken.call = "over" /\ taken.parser = r.parser /\ taken.stream = stream
          /\ taken.got = r.got /\ NotListed(r, taken)
        BY <1>1, <2>1 DEF Connection, NotListed, stream
    <2> HIDE DEF taken
    <2>4. Sound(taken)
        BY <1>1, <1>3, <2>2, <2>3 DEF Sound, Fits, Positioned
    <2>5. Sound(Closed(taken)) /\ ~Closed(taken).listed
        BY <2>4, ClosedIsSound DEF Sound
    <2>. QED  BY <1>0, <2>3, <2>4, <2>5
<1>4. CASE r.parser
    <2>0. /\ 2 * r.done <= r.read
          /\ Range(r.got) = DataUpTo(stream, r.done)
          /\ r.kind = "ws" => r.read = 2 * r.done
        BY <1>1, <1>4 DEF Positioned, stream
    <2>1. /\ done = fed.done /\ 2 * r.done <= read
          /\ r.kind = "ws" => read = 2 * r.done + 2
        BY <1>2, <1>4, <2>0 DEF read
    <2>2. CASE ~fed.error
        <3>1. /\ done \in Nat /\ r.done <= done /\ done <= Len(stream)
              /\ 2 * done <= read /\ read < 2 * done + 2
              /\ fed.frames = [i \in 1..(done - r.done) |-> r.done + i]
            <4>1. /\ fed.done \in Nat /\ r.done <= fed.done /\ fed.done <= Len(stream)
                  /\ 2 * fed.done <= read /\ read < 2 * fed.done + 2
                  /\ fed.frames = [i \in 1..(fed.done - r.done) |-> r.done + i]
                <5>1. r.done \in Nat /\ read \in Nat /\ Len(stream) \in Nat
                    BY <1>2
                <5>2. 2 * r.done <= read /\ read <= 2 * Len(stream)
                    BY <1>2, <2>1
                <5>3. TakesAll(fed, stream, r.done, read)
                    BY <2>2, <5>1, <5>2, FeedTakesAll, Zenon DEF fed
                <5>. QED  BY <5>3 DEF TakesAll
            <4>2. done = fed.done
                BY <2>1
            <4> HIDE DEF done
            <4>. QED  BY <4>1, <4>2
        <3>2. got = r.got \o DataOf(stream, fed.frames)
            BY <1>4, <2>2
        <3> HIDE DEF done, got
        <3>3. got \in Seq(Nat) /\ Increasing(got) /\ Range(got) = DataUpTo(stream, done)
            <4> DEFINE more == done - r.done
            <4>1. more \in Nat /\ r.done + more = done /\ r.done + more <= Len(stream)
                BY <1>2, <3>1
            <4>2. got = r.got \o DataOf(stream, [i \in 1..more |-> r.done + i])
                BY <3>1, <3>2
            <4> HIDE DEF more
            <4>. QED  BY <1>2, <2>0, <4>1, <4>2, HandingOn
        <3>4. InSequence(stream, got)
            BY <1>2, <3>1, <3>3, InSequenceUpTo
        <3>5. taken \in Connection
            BY <1>1, <1>2, <3>1, <3>3 DEF Connection
        <3>6. /\ taken.call = "over" /\ taken.stream = stream /\ taken.read = read
              /\ taken.done = done /\ taken.got = got /\ taken.kind = r.kind
              /\ NotListed(r, taken)
            BY <1>1 DEF Connection, NotListed, stream
        <3> HIDE DEF taken
        <3>7. Positioned(taken)
            <4>1. r.kind = "ws" => read = 2 * done
                <5>1. r.kind = "ws" => read = 2 * r.done + 2
                    BY <2>1
                <5>. QED  BY <1>2, <3>1, <5>1
            <4>2. Range(taken.got) = DataUpTo(taken.stream, taken.done)
                BY <3>3, <3>6, Zenon
            <4>. QED  BY <1>2, <3>1, <3>6, <4>1, <4>2 DEF Positioned
        <3>8. Sound(taken)
            BY <3>4, <3>5, <3>6, <3>7 DEF Sound, Fits
        <3>9. Sound(Closed(taken)) /\ ~Closed(taken).listed
            BY <3>8, ClosedIsSound DEF Sound
        <3>. QED  BY <1>0, <3>6, <3>8, <3>9
    <2>3. CASE fed.error
        <3>1. /\ done = read \div 2 /\ done \in Nat /\ got = r.got
              /\ \E i \in 1..Len(stream) : /\ i > r.done /\ read >= 2 * i - 1
                                           /\ stream[i] # "data"
            <4>1. /\ fed.done = read \div 2
                  /\ \E i \in 1..Len(stream) : /\ i > r.done /\ read >= 2 * i - 1
                                               /\ stream[i] # "data"
                BY <1>2, <2>3, FeedDropsFault, Zenon DEF fed
            <4>2. done = fed.done /\ got = r.got
                BY <2>1, <2>3
            <4> HIDE DEF done, got
            <4>. QED  BY <1>2, <4>1, <4>2
        <3> HIDE DEF done, got
        <3>2. taken \in Connection
            BY <1>1, <1>2, <3>1 DEF Connection
        <3>3. /\ taken.call = "over" /\ taken.stream = stream /\ taken.read = read
              /\ taken.done = done /\ taken.got = r.got /\ taken.kind = r.kind
              /\ taken.sock = "open" /\ taken.state = r.state
              /\ NotListed(r, taken)
            BY <1>1, <3>1 DEF Connection, NotListed, stream
        <3> HIDE DEF taken
        <3>4. CASE r.kind = "tcp"
            <4>1. r.state # "disconnected"
                BY <3>4 DEF Owned, Wired, Known
            <4>2. Closed(taken) = Released(taken)
                BY <3>3, <3>4 DEF Closed
            <4>3. Sound(Closed(taken)) /\ ~Closed(taken).listed
                BY <1>1, <3>2, <3>3, <4>2, ReleasedIsSound
            <4>4. FaultCloses(r, n)
                BY <1>4, <2>3, <4>1 DEF FaultCloses, fed, read, stream
            <4>. QED  BY <1>0, <3>3, <4>3, <4>4
        <3>5. CASE r.kind = "ws"
            <4>1. done = r.done + 1 /\ read = 2 * done
                BY <1>2, <2>1, <3>1, <3>5
            <4>2. done <= Len(stream) /\ stream[done] # "data"
                BY <1>2, <3>1, <4>1
            <4>3. DataUpTo(stream, done) = DataUpTo(stream, r.done)
                <5>1. \A k \in 1..done : k \in 1..r.done \/ k = done
                    BY <1>2, <4>1
                <5>2. \A k \in 1..r.done : k \in 1..done
                    BY <1>2, <4>1
                <5>. QED  BY <4>2, <5>1, <5>2 DEF DataUpTo
            <4>4. Positioned(taken)
                BY <1>2, <2>0, <3>3, <4>1, <4>2, <4>3 DEF Positioned
            <4>5. Sound(taken)
                BY <1>1, <3>2, <3>3, <4>4 DEF Sound, Fits
            <4>6. Sound(Closed(taken)) /\ ~Closed(taken).listed
                BY <4>5, ClosedIsSound DEF Sound
            <4>. QED  BY <1>0, <3>3, <4>5, <4>6
        <3>6. r.kind \in {"tcp", "ws"}
            BY <1>1 DEF Connection, Kinds
        <3>. QED  BY <3>4, <3>5, <3>6
    <2>. QED  BY <2>2, <2>3
<1>. QED  BY <1>3, <1>4
-----------------------------------------------------------------------------
(* Types and limits *)

ManagerTyped ==
    /\ started \in BOOLEAN
    /\ pool \in 0..MaxStarts
    /\ trans \in [Kinds -> 0..MaxStarts]
    /\ starts \in [Gens -> {"none", "listening", "preparing", "done", "failed"}]
    /\ stops \in [Gens -> [at : {"none", "services", "tcp", "ws", "done"}, gen : 0..MaxStarts]]
    /\ server \in [0..MaxStarts -> [Kinds -> [bound : {"no", "port", "any"},
                                              listening : BOOLEAN, started : BOOLEAN]]]
    /\ timer \in [0..MaxStarts -> BOOLEAN]

\* Within its limit, a set is finite.
Within(S, limit) == IsFiniteSet(S) /\ Cardinality(S) <= limit

TypeInv ==
    /\ ManagerTyped
    /\ conn = [c \in Conns |-> conn[c]] /\ \A c \in Conns : Sound(conn[c])
    /\ pooled \in [Pools -> SUBSET Conns]
    /\ \A g \in Pools : Within(pooled[g], POOL_MAX)
    /\ \A g \in Pools, k \in Kinds : Within(connections(g, k), MAX_CONNECTIONS)

\* Connections cs in which no transport has more connections than before.
Shrunk(cs) ==
    /\ cs = [c \in Conns |-> cs[c]]
    /\ \A c \in Conns : Sound(cs[c]) /\ NotListed(conn[c], cs[c])

\* A transport that is not full may get a connection.
ConnsStep ==
    \/ Shrunk(conn')
    \/ \E c \in Conns :
          \E r : /\ conn' = [conn EXCEPT ![c] = r]
                 /\ Sound(r) /\ ~TransportFull(r.gen, r.kind)

PoolsStep ==
    \/ /\ pooled' \in [Pools -> SUBSET Conns]
       /\ \A g \in Pools : pooled'[g] \subseteq pooled[g]
    \/ /\ ~PoolFull
       /\ \E c \in Conns : pooled' = [pooled EXCEPT ![pool] = @ \cup {c}]

LEMMA TypesInitially == Init => TypeInv
<1> SUFFICES ASSUME Init
             PROVE  TypeInv
    OBVIOUS
<1>1. ManagerTyped
    <2>1. Down \in [bound : {"no", "port", "any"}, listening : BOOLEAN, started : BOOLEAN]
        BY DEF Down
    <2>2. server = [g \in 0..MaxStarts |-> [k \in Kinds |-> Down]]
        BY DEF Init
    <2>3. server \in [0..MaxStarts -> [Kinds -> [bound : {"no", "port", "any"},
                                               listening : BOOLEAN, started : BOOLEAN]]]
        BY <2>1, <2>2
    <2>4. 0 \in 0..MaxStarts
        BY NetworkAssumption DEF NetworkAssumption
    <2>. QED  BY <2>3, <2>4 DEF Init, ManagerTyped
<1>2. conn = [c \in Conns |-> Unused] /\ pooled = [g \in Pools |-> {}]
    BY DEF Init, Pools
<1>3. /\ conn = [c \in Conns |-> conn[c]] /\ \A c \in Conns : Sound(conn[c])
      /\ \A c \in Conns : ~conn[c].listed
    BY <1>2, UnusedIsSound DEF Unused
<1>4. \A g, k : connections(g, k) = {}
    BY <1>3 DEF connections
<1>5. \A limit \in Nat : Within({}, limit)
    BY FS_EmptySet DEF Within
<1>. QED  BY <1>1, <1>2, <1>3, <1>4, <1>5, NetworkAssumption DEF TypeInv, NetworkAssumption

\* A set within a limit that it has not reached may get an element.
LEMMA OneMore ==
    ASSUME NEW limit \in Nat, NEW S, Within(S, limit), ~(Cardinality(S) >= limit), NEW x
    PROVE  Within(S \cup {x}, limit)
<1>1. IsFiniteSet(S) /\ Cardinality(S) \in Nat
    BY FS_CardinalityType DEF Within
<1>2. /\ IsFiniteSet(S \cup {x})
      /\ Cardinality(S \cup {x}) = IF x \in S THEN Cardinality(S) ELSE Cardinality(S) + 1
    BY <1>1, FS_AddElement
<1>. QED  BY <1>1, <1>2 DEF Within

LEMMA Fewer ==
    ASSUME NEW limit \in Nat, NEW S, Within(S, limit), NEW T, T \subseteq S
    PROVE  Within(T, limit)
<1>1. IsFiniteSet(S) /\ T \in SUBSET S /\ Cardinality(S) <= limit
    BY DEF Within
<1>2. IsFiniteSet(T) /\ Cardinality(T) <= Cardinality(S)
    BY <1>1, FS_Subset
<1>3. Cardinality(S) \in Nat /\ Cardinality(T) \in Nat
    BY <1>1, <1>2, FS_CardinalityType
<1>. QED  BY <1>1, <1>2, <1>3 DEF Within

LEMMA PoolsStepKeepsTypes ==
    ASSUME TypeInv, PoolsStep
    PROVE  /\ pooled' \in [Pools -> SUBSET Conns]
           /\ \A g \in Pools : Within(pooled'[g], POOL_MAX)
<1>1. /\ POOL_MAX \in Nat /\ pool \in Pools
      /\ pooled \in [Pools -> SUBSET Conns]
      /\ \A g \in Pools : Within(pooled[g], POOL_MAX)
    BY NetworkAssumption DEF TypeInv, ManagerTyped, Pools, NetworkAssumption
<1>2. CASE /\ pooled' \in [Pools -> SUBSET Conns]
           /\ \A g \in Pools : pooled'[g] \subseteq pooled[g]
    <2>1. ASSUME NEW g \in Pools, NEW S, S = pooled'[g]
          PROVE  Within(S, POOL_MAX)
        BY <1>1, <1>2, <2>1, Fewer
    <2>. QED  BY <1>2, <2>1
<1>3. ASSUME ~PoolFull, NEW c \in Conns,
             pooled' = [pooled EXCEPT ![pool] = @ \cup {c}]
      PROVE  /\ pooled' \in [Pools -> SUBSET Conns]
             /\ \A g \in Pools : Within(pooled'[g], POOL_MAX)
    <2>1. /\ pooled' \in [Pools -> SUBSET Conns]
          /\ \A g \in Pools : pooled'[g] = IF g = pool THEN pooled[pool] \cup {c}
                                           ELSE pooled[g]
        BY <1>1, <1>3
    <2>2. Within(pooled[pool] \cup {c}, POOL_MAX)
        BY <1>1, <1>3, OneMore DEF PoolFull
    <2>. QED  BY <1>1, <2>1, <2>2
<1>. QED  BY <1>2, <1>3 DEF PoolsStep

LEMMA ConnsStepKeepsTypes ==
    ASSUME TypeInv, ConnsStep
    PROVE  /\ conn' = [c \in Conns |-> conn'[c]] /\ \A c \in Conns : Sound(conn'[c])
           /\ \A g \in Pools, k \in Kinds : Within(connections(g, k)', MAX_CONNECTIONS)
<1>1. /\ MAX_CONNECTIONS \in Nat
      /\ conn = [c \in Conns |-> conn[c]] /\ \A c \in Conns : Sound(conn[c])
      /\ \A g \in Pools, k \in Kinds : Within(connections(g, k), MAX_CONNECTIONS)
    BY NetworkAssumption DEF TypeInv, NetworkAssumption
<1>2. \A g, k : connections(g, k)' = {c \in Conns : /\ conn'[c].gen = g /\ conn'[c].kind = k
                                                   /\ conn'[c].listed}
    BY DEF connections
<1>3. CASE Shrunk(conn')
    <2>1. ASSUME NEW g \in Pools, NEW k \in Kinds, NEW S, S = connections(g, k)'
          PROVE  Within(S, MAX_CONNECTIONS)
        <3>1. S \subseteq connections(g, k)
            BY <1>2, <1>3, <2>1 DEF Shrunk, NotListed, connections
        <3>. QED  BY <1>1, <3>1, Fewer
    <2>. QED  BY <1>3, <2>1 DEF Shrunk
<1>4. ASSUME NEW c \in Conns, NEW r, conn' = [conn EXCEPT ![c] = r],
             Sound(r), ~TransportFull(r.gen, r.kind)
      PROVE  /\ conn' = [d \in Conns |-> conn'[d]] /\ \A d \in Conns : Sound(conn'[d])
             /\ \A g \in Pools, k \in Kinds : Within(connections(g, k)', MAX_CONNECTIONS)
    <2>1. conn' = [d \in Conns |-> IF d = c THEN r ELSE conn[d]]
        BY <1>1, <1>4
    <2>2. ASSUME NEW g \in Pools, NEW k \in Kinds, NEW S, S = connections(g, k)'
          PROVE  Within(S, MAX_CONNECTIONS)
        <3>1. CASE r.gen = g /\ r.kind = k
            <4>1. S \subseteq connections(g, k) \cup {c}
                BY <1>2, <2>1, <2>2 DEF connections
            <4>2. Within(connections(g, k) \cup {c}, MAX_CONNECTIONS)
                BY <1>1, <1>4, <3>1, OneMore DEF TransportFull
            <4>. QED  BY <1>1, <4>1, <4>2, Fewer
        <3>2. CASE ~(r.gen = g /\ r.kind = k)
            <4>1. S \subseteq connections(g, k)
                BY <1>2, <2>1, <2>2, <3>2 DEF connections
            <4>. QED  BY <1>1, <4>1, Fewer
        <3>. QED  BY <3>1, <3>2
    <2>. QED  BY <1>1, <1>4, <2>1, <2>2
<1>. QED  BY <1>3, <1>4 DEF ConnsStep
-----------------------------------------------------------------------------
(* Each action is a step of these kinds *)

LEMMA OneIsSound ==
    ASSUME TypeInv, NEW c \in Conns, NEW r, conn' = [conn EXCEPT ![c] = r],
           Sound(r), NotListed(conn[c], r)
    PROVE  ConnsStep
<1>1. conn' = [d \in Conns |-> IF d = c THEN r ELSE conn[d]]
    BY DEF TypeInv
<1>. QED  BY <1>1 DEF TypeInv, ConnsStep, Shrunk, NotListed

LEMMA ConnIsShrunk == TypeInv => Shrunk(conn)
BY DEF TypeInv, Shrunk, NotListed

LEMMA CloseInShrinks ==
    ASSUME NEW cs, Shrunk(cs), NEW S
    PROVE  Shrunk(CloseIn(S, cs))
<1> DEFINE after == CloseIn(S, cs)
<1>1. after = [c \in Conns |-> IF c \in S /\ cs[c].state # "disconnected"
                               THEN Closed(cs[c]) ELSE cs[c]]
    BY DEF CloseIn
<1> HIDE DEF after
<1>2. ASSUME NEW c \in Conns
      PROVE  Sound(after[c]) /\ NotListed(conn[c], after[c])
    <2>1. Sound(cs[c]) /\ Fits(cs[c]) /\ NotListed(conn[c], cs[c])
        BY DEF Shrunk, Sound
    <2>2. Sound(Closed(cs[c])) /\ ~Closed(cs[c]).listed
        BY <2>1, ClosedIsSound
    <2>. QED  BY <1>1, <2>1, <2>2 DEF NotListed
<1>3. after = [c \in Conns |-> after[c]]
    BY <1>1
<1>. QED  BY <1>2, <1>3 DEF Shrunk, after

LEMMA ShutShrinks ==
    ASSUME NEW cs, Shrunk(cs), NEW g, NEW k
    PROVE  Shrunk(Shut(g, k, cs))
<1> DEFINE after == Shut(g, k, cs)
           Dropped(r) == [r EXCEPT !.parser = FALSE, !.ping = FALSE]
<1>1. after = [c \in Conns |-> IF cs[c].gen = g /\ cs[c].kind = k
                               THEN Dropped(cs[c]) ELSE cs[c]]
    BY DEF Shut
<1> HIDE DEF after
<1>2. ASSUME NEW r, Sound(r)
      PROVE  /\ Sound(Dropped(r)) /\ Dropped(r).listed = r.listed
             /\ Dropped(r).gen = r.gen /\ Dropped(r).kind = r.kind
    <2> DEFINE s == Dropped(r)
    <2>1. r \in Connection
        BY <1>2 DEF Sound, Fits
    <2>2. /\ s \in Connection /\ s.call = r.call /\ s.sock = r.sock /\ ~s.parser
          /\ s.kind = r.kind /\ s.stream = r.stream /\ s.read = r.read
          /\ s.done = r.done /\ s.got = r.got /\ s.listed = r.listed /\ s.gen = r.gen
        BY <2>1 DEF Connection
    <2> HIDE DEF s
    <2>3. Sound(s)
        BY <1>2, <2>2, OtherFieldsAreFree
    <2>. QED  BY <2>2, <2>3 DEF s
<1> HIDE DEF Dropped
<1>3. ASSUME NEW c \in Conns
      PROVE  Sound(after[c]) /\ NotListed(conn[c], after[c])
    <2>1. Sound(cs[c]) /\ NotListed(conn[c], cs[c])
        BY DEF Shrunk
    <2>. QED  BY <1>1, <1>2, <2>1 DEF NotListed
<1>4. after = [c \in Conns |-> after[c]]
    BY <1>1
<1>. QED  BY <1>3, <1>4 DEF Shrunk, after

\* Taking connections out of pools.
LEMMA WithoutIsPoolsStep ==
    ASSUME TypeInv, NEW S, pooled' = Without(S, pooled)
    PROVE  PoolsStep
<1>1. pooled \in [Pools -> SUBSET Conns]
    BY DEF TypeInv
<1>2. pooled' = [g \in Pools |-> pooled[g] \ S]
    BY DEF Without, Pools
<1>. QED  BY <1>1, <1>2 DEF PoolsStep

LEMMA SamePoolsIsPoolsStep ==
    ASSUME TypeInv, pooled' = pooled
    PROVE  PoolsStep
BY DEF TypeInv, PoolsStep

LEMMA PoolRemoveIsStep ==
    ASSUME TypeInv, NEW g, NEW S, PoolRemove(g, S)
    PROVE  ConnsStep /\ PoolsStep
<1> DEFINE T == {c \in S : conn[c].state = "connected"}
<1>1. conn' = CloseIn(T, conn) /\ pooled' = [pooled EXCEPT ![g] = @ \ S]
    BY DEF PoolRemove
<1> HIDE DEF T
<1>2. Shrunk(CloseIn(T, conn))
    BY ConnIsShrunk, CloseInShrinks
<1>3. pooled \in [Pools -> SUBSET Conns]
    BY DEF TypeInv
<1>4. /\ pooled' \in [Pools -> SUBSET Conns]
      /\ \A h \in Pools : pooled'[h] \subseteq pooled[h]
    BY <1>1, <1>3
<1>. QED  BY <1>1, <1>2, <1>4 DEF ConnsStep, PoolsStep

\* What the stop() of the transports and the pool does to connections.
LEMMA TcpClosedIsStep ==
    ASSUME TypeInv, NEW t, TcpClosed(t)
    PROVE  ConnsStep /\ PoolsStep
<1> DEFINE own == connections(stops[t].gen, "tcp")
<1>1. /\ conn' = Shut(trans["ws"], "ws", CloseIn(own, conn))
      /\ pooled' = Without(own, pooled)
    BY DEF TcpClosed
<1> HIDE DEF own
<1>2. Shrunk(Shut(trans["ws"], "ws", CloseIn(own, conn)))
    BY ConnIsShrunk, CloseInShrinks, ShutShrinks
<1>. QED  BY <1>1, <1>2, WithoutIsPoolsStep DEF ConnsStep

LEMMA WsClosedIsStep ==
    ASSUME TypeInv, NEW t, WsClosed(t)
    PROVE  ConnsStep /\ PoolsStep
<1> DEFINE own == connections(stops[t].gen, "ws")
           closed == CloseIn(own, conn)
           cs == [c \in Conns |-> IF c \in own
                                  THEN [closed[c] EXCEPT !.listed = FALSE]
                                  ELSE conn[c]]
           gone == {c \in own : conn[c].state # "disconnected"}
           rest == {c \in pooled[pool] : cs[c].state = "connected"}
<1>1. /\ conn' = CloseIn(rest, cs)
      /\ pooled' = [Without(gone, pooled) EXCEPT ![pool] = {}]
    BY DEF WsClosed
<1>2. Shrunk(conn) /\ Shrunk(closed)
    <2> HIDE DEF own
    <2>. QED  BY ConnIsShrunk, CloseInShrinks
<1> HIDE DEF own, closed
<1>3. ASSUME NEW c \in Conns
      PROVE  Sound(cs[c]) /\ NotListed(conn[c], cs[c])
    <2>1. CASE c \in own
        <3> DEFINE r == closed[c]
                   s == [r EXCEPT !.listed = FALSE]
        <3>1. cs[c] = s
            BY <2>1
        <3>2. Sound(r) /\ r \in Connection
            BY <1>2 DEF Shrunk, Sound, Fits
        <3> HIDE DEF r
        <3>3. /\ s \in Connection /\ s.call = r.call /\ s.sock = r.sock
              /\ s.parser = r.parser /\ s.kind = r.kind /\ s.stream = r.stream
              /\ s.read = r.read /\ s.done = r.done /\ s.got = r.got /\ ~s.listed
            BY <3>2 DEF Connection
        <3> HIDE DEF s
        <3>4. Sound(s)
            BY <3>2, <3>3, OtherFieldsAreFree
        <3> HIDE DEF cs
        <3>. QED  BY <3>1, <3>3, <3>4 DEF NotListed
    <2>2. CASE c \notin own
        BY <1>2, <2>2 DEF Shrunk
    <2>. QED  BY <2>1, <2>2
<1>4. Shrunk(cs)
    <2>1. cs = [c \in Conns |-> cs[c]]
        OBVIOUS
    <2> HIDE DEF cs
    <2>. QED  BY <1>3, <2>1 DEF Shrunk
<1> HIDE DEF cs, rest, gone
<1>5. ConnsStep
    BY <1>1, <1>4, CloseInShrinks DEF ConnsStep
<1>6. pooled \in [Pools -> SUBSET Conns]
    BY DEF TypeInv
<1>7. Without(gone, pooled) = [g \in Pools |-> pooled[g] \ gone]
    BY DEF Without, Pools
<1>8. /\ pooled' \in [Pools -> SUBSET Conns]
      /\ \A h \in Pools : pooled'[h] \subseteq pooled[h]
    BY <1>1, <1>6, <1>7
<1>. QED  BY <1>5, <1>8 DEF PoolsStep
-----------------------------------------------------------------------------
(* Steps of one connection *)

LEMMA EndedCallIsSound ==
    ASSUME NEW r, Fits(r), NEW s \in Connection, s.call = "over", s.sock = r.sock,
           s.parser => r.parser, s.kind = r.kind, s.stream = r.stream,
           s.read = r.read, s.done = r.done, s.got = r.got
    PROVE  Sound(s)
BY DEF Sound, Fits, Positioned

LEMMA AcceptIsStep ==
    ASSUME TypeInv, NEW c \in Conns, NEW g \in Gens, NEW k \in Kinds,
           NEW stream \in Streams[c], Accept(c, g, k, stream)
    PROVE  ConnsStep /\ PoolsStep
<1> DEFINE new == [Unused EXCEPT !.call = "over", !.incoming = TRUE,
                                 !.kind = k, !.gen = g]
           r == Created(new, stream)
<1>1. stream \in Seq(Frame) /\ g \in 0..MaxStarts
    BY NetworkAssumption DEF NetworkAssumption, Gens
<1>2. Unused \in Connection /\ Unused.read = 0 /\ Unused.done = 0 /\ Unused.got = <<>>
    BY UnusedIsSound DEF Sound, Fits, Unused
<1>3. /\ new \in Connection /\ new.call = "over" /\ new.gen = g /\ new.kind = k
      /\ new.read = 0 /\ new.done = 0 /\ new.got = <<>>
    BY <1>1, <1>2 DEF Connection
<1>4. /\ \/ conn' = [conn EXCEPT ![c] = Released(r)] /\ pooled' = pooled
         \/ conn' = [conn EXCEPT ![c] = Closed(r)] /\ pooled' = pooled
         \/ /\ ~TransportFull(g, k) /\ ~PoolFull
            /\ conn' = [conn EXCEPT ![c] = r]
            /\ pooled' = [pooled EXCEPT ![pool] = @ \cup {c}]
    BY DEF Accept
<1> HIDE DEF new
<1>5. Fits(r) /\ r.call = "over" /\ r.gen = g /\ r.kind = k
    BY <1>1, <1>3, CreatedFits
<1> HIDE DEF r
<1>6. Sound(r)
    BY <1>5 DEF Sound
<1>7. /\ Sound(Released(r)) /\ NotListed(conn[c], Released(r))
      /\ Sound(Closed(r)) /\ NotListed(conn[c], Closed(r))
    BY <1>5, <1>6, ReleasedIsSound, ClosedIsSound DEF Fits, NotListed
<1>8. CASE conn' = [conn EXCEPT ![c] = Released(r)] /\ pooled' = pooled
    BY <1>7, <1>8, OneIsSound, SamePoolsIsPoolsStep
<1>9. CASE conn' = [conn EXCEPT ![c] = Closed(r)] /\ pooled' = pooled
    BY <1>7, <1>9, OneIsSound, SamePoolsIsPoolsStep
<1>10. CASE /\ ~TransportFull(g, k) /\ ~PoolFull
            /\ conn' = [conn EXCEPT ![c] = r]
            /\ pooled' = [pooled EXCEPT ![pool] = @ \cup {c}]
    BY <1>5, <1>6, <1>10 DEF ConnsStep, PoolsStep
<1>. QED  BY <1>4, <1>8, <1>9, <1>10

LEMMA ConnectIsStep ==
    ASSUME TypeInv, NEW c \in Conns, NEW k \in Kinds, Connect(c, k)
    PROVE  ConnsStep /\ PoolsStep
<1>1. PICK call \in {"listening", "opening"} :
          conn' = [conn EXCEPT ![c].kind = k, ![c].gen = trans[k], ![c].call = call]
    BY DEF Connect
<1>2. conn[c] = Unused /\ pooled' = pooled
    BY DEF Connect
<1> DEFINE r == [Unused EXCEPT !.kind = k, !.gen = trans[k], !.call = call]
<1>3. conn' = [conn EXCEPT ![c] = r]
    BY <1>1, <1>2 DEF TypeInv
<1>4. Unused \in Connection /\ Blank(Unused) /\ ~Unused.listed
    BY UnusedIsSound DEF Sound, Fits, Blank, Unused
<1>5. trans[k] \in 0..MaxStarts
    BY DEF TypeInv, ManagerTyped
<1>6. r \in Connection /\ Blank(r) /\ ~r.listed
    BY <1>4, <1>5 DEF Connection, Blank
<1> HIDE DEF r
<1>7. Sound(r) /\ NotListed(conn[c], r)
    BY <1>6, NothingInSequence DEF Sound, Fits, Positioned, Blank, NotListed
<1>. QED  BY <1>2, <1>3, <1>7, OneIsSound, SamePoolsIsPoolsStep

\* Steps that set fields which no frame depends on.
LEMMA FieldIsStep ==
    ASSUME TypeInv, NEW c \in Conns,
           AutoListening(c) \/ Send(c) \/ TimePasses(c) \/ SocketFails(c)
    PROVE  ConnsStep /\ PoolsStep
<1> DEFINE r == conn[c]
<1>1. Sound(r) /\ r \in Connection
    BY DEF TypeInv, Sound, Fits
<1>2. pooled' = pooled
    BY DEF AutoListening, Send, TimePasses, SocketFails
<1>3. PICK s : /\ conn' = [conn EXCEPT ![c] = s]
               /\ \/ s = [r EXCEPT !.call = "opening"] /\ r.call = "listening"
                  \/ \E a \in {"recent", "old"} : s = [r EXCEPT !.activity = a]
                  \/ s = [r EXCEPT !.sock = "failed", !.state = "error"] /\ r.sock = "open"
    BY DEF AutoListening, Send, TimePasses, SocketFails
<1> HIDE DEF r
<1>4. Sound(s) /\ NotListed(r, s)
    <2>1. CASE s = [r EXCEPT !.call = "opening"] /\ r.call = "listening"
        <3>1. Blank(r)
            BY <1>1, <2>1 DEF Sound
        <3>2. s \in Connection /\ Blank(s) /\ NotListed(r, s)
            BY <1>1, <2>1, <3>1 DEF Connection, Blank, NotListed
        <3>. QED  BY <3>2, NothingInSequence DEF Sound, Fits, Positioned, Blank
    <2>2. CASE \E a \in {"recent", "old"} : s = [r EXCEPT !.activity = a]
        <3>1. /\ s \in Connection /\ s.call = r.call /\ s.sock = r.sock
              /\ s.parser = r.parser /\ s.kind = r.kind /\ s.stream = r.stream
              /\ s.read = r.read /\ s.done = r.done /\ s.got = r.got
              /\ NotListed(r, s)
            BY <1>1, <2>2 DEF Connection, NotListed
        <3>. QED  BY <1>1, <3>1, OtherFieldsAreFree
    <2>3. CASE s = [r EXCEPT !.sock = "failed", !.state = "error"] /\ r.sock = "open"
        <3>1. r.call = "over"
            BY <1>1, <2>3 DEF Sound, Blank
        <3>2. /\ s \in Connection /\ s.call = r.call /\ s.sock = "failed"
              /\ s.parser = r.parser /\ s.kind = r.kind /\ s.stream = r.stream
              /\ s.read = r.read /\ s.done = r.done /\ s.got = r.got
              /\ NotListed(r, s)
            BY <1>1, <2>3 DEF Connection, NotListed
        <3>. QED  BY <1>1, <3>1, <3>2, OtherFieldsAreFree
    <2>. QED  BY <1>3, <2>1, <2>2, <2>3
<1>. QED  BY <1>2, <1>3, <1>4, OneIsSound, SamePoolsIsPoolsStep DEF r

LEMMA ConnectedIsStep ==
    ASSUME TypeInv, NEW c \in Conns, NEW stream \in Streams[c], Connected(c, stream)
    PROVE  ConnsStep /\ PoolsStep
<1> DEFINE r == Created(conn[c], stream)
           kept == [r EXCEPT !.call = "over"]
           closed == Closed(r)
           shut == [closed EXCEPT !.call = "over", !.parser = FALSE, !.ping = FALSE]
<1>1. stream \in Seq(Frame)
    BY NetworkAssumption DEF NetworkAssumption
<1>2. conn[c] \in Connection /\ Blank(conn[c])
    BY DEF TypeInv, Sound, Fits, Connected
<1>3. \/ conn' = [conn EXCEPT ![c] = shut] /\ pooled' = pooled
      \/ /\ ~TransportFull(r.gen, r.kind)
         /\ conn' = [conn EXCEPT ![c] = kept]
         /\ \/ pooled' = pooled
            \/ ~PoolFull /\ pooled' = [pooled EXCEPT ![pool] = @ \cup {c}]
    BY DEF Connected
<1>4. Fits(r)
    BY <1>1, <1>2, CreatedFits DEF Blank
<1> HIDE DEF r
<1>5. Fits(closed) /\ ~closed.listed
    BY <1>4, ClosedIsSound
<1> HIDE DEF closed
<1>6. Sound(kept) /\ kept.gen = r.gen /\ kept.kind = r.kind
    <2>1. r \in Connection
        BY <1>4 DEF Fits
    <2>2. /\ kept \in Connection /\ kept.call = "over" /\ kept.sock = r.sock
          /\ kept.parser = r.parser /\ kept.kind = r.kind /\ kept.stream = r.stream
          /\ kept.read = r.read /\ kept.done = r.done /\ kept.got = r.got
          /\ kept.gen = r.gen
        BY <2>1 DEF Connection
    <2> HIDE DEF kept
    <2>. QED  BY <1>4, <2>2, EndedCallIsSound
<1>7. Sound(shut) /\ NotListed(conn[c], shut)
    <2>1. closed \in Connection
        BY <1>5 DEF Fits
    <2>2. /\ shut \in Connection /\ shut.call = "over" /\ shut.sock = closed.sock
          /\ ~shut.parser /\ shut.kind = closed.kind /\ shut.stream = closed.stream
          /\ shut.read = closed.read /\ shut.done = closed.done /\ shut.got = closed.got
          /\ ~shut.listed
        BY <1>5, <2>1 DEF Connection
    <2> HIDE DEF shut
    <2>. QED  BY <1>5, <2>2, EndedCallIsSound DEF NotListed
<1> HIDE DEF kept, shut
<1>8. CASE conn' = [conn EXCEPT ![c] = shut] /\ pooled' = pooled
    BY <1>7, <1>8, OneIsSound, SamePoolsIsPoolsStep
<1>9. CASE /\ ~TransportFull(r.gen, r.kind)
           /\ conn' = [conn EXCEPT ![c] = kept]
           /\ \/ pooled' = pooled
              \/ ~PoolFull /\ pooled' = [pooled EXCEPT ![pool] = @ \cup {c}]
    <2>1. ConnsStep
        BY <1>6, <1>9 DEF ConnsStep
    <2>2. PoolsStep
        BY <1>9, SamePoolsIsPoolsStep DEF PoolsStep
    <2>. QED  BY <2>1, <2>2
<1>. QED  BY <1>3, <1>8, <1>9

LEMMA ReleaseIsSound ==
    ASSUME TypeInv, NEW c \in Conns
    PROVE  Sound(Released(conn[c])) /\ NotListed(conn[c], Released(conn[c]))
BY ReleasedIsSound DEF TypeInv, Sound, Fits, NotListed

LEMMA ConnectFailsIsStep ==
    ASSUME TypeInv, NEW c \in Conns, ConnectFails(c)
    PROVE  ConnsStep /\ PoolsStep
<1>1. conn' = [conn EXCEPT ![c] = Released(conn[c])] /\ pooled' = pooled
    BY DEF ConnectFails
<1>. QED  BY <1>1, ReleaseIsSound, OneIsSound, SamePoolsIsPoolsStep

LEMMA DataIsStep ==
    ASSUME TypeInv, NEW c \in Conns, Owned(conn[c]),
           NEW n \in 1..(2 * Len(conn[c].stream)), Data(c, n)
    PROVE  ConnsStep /\ PoolsStep
<1> DEFINE r == conn[c]
           fed == feed(r.stream, r.done, r.read + n)
           has(type) == \E i \in ToSet(fed.frames) : r.stream[i] = type
           active == r.kind = "tcp" \/ (r.parser /\ ~fed.error /\ has("ping") /\ r.listed)
           activity == IF active THEN "recent" ELSE r.activity
           done == IF r.parser THEN fed.done ELSE r.done
           got == IF r.parser /\ ~fed.error
                  THEN r.got \o DataOf(r.stream, fed.frames)
                  ELSE r.got
           closes == /\ r.parser /\ r.state # "disconnected"
                     /\ fed.error \/ has("disconnect")
           taken == [r EXCEPT !.read = r.read + n, !.activity = activity,
                              !.done = done, !.got = got]
<1>1. /\ conn' = [conn EXCEPT ![c] = IF closes THEN Closed(taken) ELSE taken]
      /\ pooled' = IF closes THEN Without({c}, pooled) ELSE pooled
    BY DEF Data
<1>2. /\ r.sock = "open" /\ r.read + n <= 2 * Len(r.stream)
      /\ r.kind = "ws" => n = 2
    BY DEF Data
<1>3. Sound(r) /\ r \in Connection
    BY DEF TypeInv, Sound, Fits
<1>4. n \in Nat
    <2>1. Len(r.stream) \in Nat
        BY <1>3 DEF Connection
    <2>. QED  BY <2>1
<1>5. activity \in {"never", "recent", "old"}
    <2>1. r.activity \in {"never", "recent", "old"}
        BY <1>3 DEF Connection
    <2> HIDE DEF active
    <2>. QED  BY <2>1
<1>6. FaultCloses(r, n) => closes
    BY DEF FaultCloses
<1>0. taken = Taken(r, n, activity)
    BY DEF Taken
<1> HIDE DEF activity, closes, taken
<1>7. /\ NotListed(r, taken)
      /\ \/ Sound(taken) /\ Sound(Closed(taken))
         \/ FaultCloses(r, n) /\ Sound(Closed(taken))
      /\ ~Closed(taken).listed
    <2> HIDE DEF r
    <2>1. Owned(r)
        BY DEF r
    <2>. QED  BY <1>0, <1>2, <1>3, <1>4, <1>5, <2>1, DataIsSound
<1>8. CASE closes
    <2>1. /\ conn' = [conn EXCEPT ![c] = Closed(taken)]
          /\ pooled' = Without({c}, pooled)
        BY <1>1, <1>8
    <2>2. Sound(Closed(taken)) /\ NotListed(conn[c], Closed(taken))
        BY <1>7 DEF NotListed
    <2>. QED  BY <2>1, <2>2, OneIsSound, WithoutIsPoolsStep
<1>9. CASE ~closes
    <2>1. conn' = [conn EXCEPT ![c] = taken] /\ pooled' = pooled
        BY <1>1, <1>9
    <2>2. Sound(taken) /\ NotListed(conn[c], taken)
        BY <1>6, <1>7, <1>9
    <2>. QED  BY <2>1, <2>2, OneIsSound, SamePoolsIsPoolsStep
<1>. QED  BY <1>8, <1>9

LEMMA PingTickIsStep ==
    ASSUME TypeInv, NEW c \in Conns, PingTick(c)
    PROVE  ConnsStep /\ PoolsStep
<1>1. PICK cs : /\ cs = conn \/ cs = CloseIn({c}, conn)
                /\ conn' = [cs EXCEPT ![c] = [cs[c] EXCEPT !.ping = FALSE]]
    BY DEF PingTick
<1>2. Shrunk(cs)
    BY <1>1, ConnIsShrunk, CloseInShrinks
<1> DEFINE r == cs[c]
           s == [r EXCEPT !.ping = FALSE]
<1>3. Sound(r) /\ r \in Connection /\ NotListed(conn[c], r)
    BY <1>2 DEF Shrunk, Sound, Fits
<1> HIDE DEF r
<1>4. /\ s \in Connection /\ s.call = r.call /\ s.sock = r.sock
      /\ s.parser = r.parser /\ s.kind = r.kind /\ s.stream = r.stream
      /\ s.read = r.read /\ s.done = r.done /\ s.got = r.got
      /\ s.listed = r.listed /\ s.gen = r.gen
    BY <1>3 DEF Connection
<1>5. conn' = [cs EXCEPT ![c] = s]
    BY <1>1 DEF r
<1> HIDE DEF s
<1>6. Sound(s) /\ NotListed(conn[c], s)
    BY <1>3, <1>4, OtherFieldsAreFree DEF NotListed
<1>7. conn' = [d \in Conns |-> IF d = c THEN s ELSE cs[d]]
    BY <1>2, <1>5 DEF Shrunk
<1>8. Shrunk(conn')
    BY <1>2, <1>6, <1>7 DEF Shrunk
<1>9. PoolsStep
    BY WithoutIsPoolsStep, SamePoolsIsPoolsStep DEF PingTick
<1>. QED  BY <1>8, <1>9 DEF ConnsStep

LEMMA HandleCloseIsStep ==
    ASSUME TypeInv, NEW c \in Conns, HandleClose(c), conn[c].call = "over"
    PROVE  ConnsStep /\ PoolsStep
<1>1. CASE conn[c].kind = "ws"
    <2> DEFINE r == conn[c]
               s == [r EXCEPT !.sock = "closed", !.state = "disconnected"]
    <2>1. conn' = [conn EXCEPT ![c] = s] /\ pooled' = pooled
        BY <1>1 DEF HandleClose
    <2>2. Sound(r) /\ r \in Connection /\ r.call = "over"
        BY DEF TypeInv, Sound, Fits
    <2> HIDE DEF r
    <2>3. /\ s \in Connection /\ s.call = r.call /\ s.sock = "closed"
          /\ s.parser = r.parser /\ s.kind = r.kind /\ s.stream = r.stream
          /\ s.read = r.read /\ s.done = r.done /\ s.got = r.got
          /\ s.listed = r.listed /\ s.gen = r.gen
        BY <2>2 DEF Connection
    <2> HIDE DEF s
    <2>4. Sound(s) /\ NotListed(r, s)
        BY <2>2, <2>3, OtherFieldsAreFree DEF NotListed
    <2>. QED  BY <2>1, <2>4, OneIsSound, SamePoolsIsPoolsStep DEF r
<1>2. CASE conn[c].kind # "ws"
    <2>1. /\ conn' = [conn EXCEPT ![c] = Released(conn[c])]
          /\ pooled' = Without({c}, pooled)
        BY <1>2 DEF HandleClose
    <2>. QED  BY <2>1, ReleaseIsSound, OneIsSound, WithoutIsPoolsStep
<1>. QED  BY <1>1, <1>2
-----------------------------------------------------------------------------
(* The manager, its servers and its timers *)

LEMMA ManagerKeepsTypes ==
    ASSUME TypeInv, [Next]_vars
    PROVE  ManagerTyped'
<1> DEFINE Side == [bound : {"no", "port", "any"}, listening : BOOLEAN, started : BOOLEAN]
<1>1. /\ ManagerTyped /\ Gens \subseteq 0..MaxStarts /\ 0 \in 0..MaxStarts
      /\ Kinds = {"tcp", "ws"} /\ Down \in Side
    BY NetworkAssumption DEF TypeInv, Gens, Kinds, NetworkAssumption, Down
<1>2. /\ server \in [0..MaxStarts -> [Kinds -> Side]]
      /\ \A k \in Kinds : trans[k] \in 0..MaxStarts
      /\ \A s \in Gens : stops[s].gen \in 0..MaxStarts
      /\ pool \in 0..MaxStarts
    BY <1>1 DEF ManagerTyped
<1> HIDE DEF Side
<1>3. CASE UNCHANGED <<managerVars, server, timer>>
    BY <1>1, <1>3 DEF ManagerTyped, managerVars
<1>4. ASSUME NEW g \in Gens,
             Start(g) \/ ListenFails(g) \/ Started(g) \/ Stop(g)
      PROVE  ManagerTyped'
    <2>1. g \in 0..MaxStarts /\ UNCHANGED <<trans, server>>
        BY <1>1, <1>4 DEF Start, ListenFails, Started, Stop
    <2>2. CASE Start(g)
        BY <1>1, <2>1, <2>2 DEF ManagerTyped, Start
    <2>3. CASE ListenFails(g)
        BY <1>1, <2>1, <2>3 DEF ManagerTyped, ListenFails
    <2>4. CASE Started(g)
        BY <1>1, <2>1, <2>4 DEF ManagerTyped, Started
    <2>5. CASE Stop(g)
        BY <1>1, <2>1, <2>5 DEF ManagerTyped, Stop
    <2>. QED  BY <1>4, <2>2, <2>3, <2>4, <2>5
<1>5. ASSUME NEW g \in Gens, Listening(g)
      PROVE  ManagerTyped'
    <2>1. PICK b \in {"no", "port"} :
              server' = [server EXCEPT ![g] =
                  [tcp |-> [bound |-> "port", listening |-> TRUE, started |-> TRUE],
                   ws |-> [bound |-> b, listening |-> TRUE, started |-> TRUE]]]
        BY <1>5 DEF Listening
    <2> DEFINE t == [bound |-> "port", listening |-> TRUE, started |-> TRUE]
               w == [bound |-> b, listening |-> TRUE, started |-> TRUE]
               sides == [tcp |-> t, ws |-> w]
    <2>2. t \in Side /\ w \in Side
        BY DEF Side
    <2>3. server' = [server EXCEPT ![g] = sides]
        BY <2>1
    <2> HIDE DEF t, w
    <2>4. sides \in [Kinds -> Side]
        BY <1>1, <2>2
    <2> HIDE DEF sides
    <2>5. server' \in [0..MaxStarts -> [Kinds -> Side]]
        BY <1>1, <1>2, <2>3, <2>4
    <2>6. /\ trans' \in [Kinds -> 0..MaxStarts]
          /\ UNCHANGED <<started, pool, stops, timer>>
          /\ starts' = [starts EXCEPT ![g] = "preparing"]
        BY <1>1, <1>5 DEF Listening
    <2>. QED  BY <1>1, <2>5, <2>6 DEF ManagerTyped, Side
<1>6. ASSUME NEW g \in Gens, CloseTcp(g)
      PROVE  ManagerTyped'
    <2> DEFINE h == trans["tcp"]
               side == [server[h]["tcp"] EXCEPT !.bound = "no"]
    <2>1. h \in 0..MaxStarts
        BY <1>1, <1>2
    <2>2. /\ server' = [server EXCEPT ![h]["tcp"] = side]
          /\ stops' = [stops EXCEPT ![g] = [at |-> "tcp", gen |-> h]]
          /\ UNCHANGED <<started, pool, trans, starts, timer>>
        BY <1>6 DEF CloseTcp
    <2>3. side \in Side
        BY <1>1, <1>2, <2>1 DEF Side
    <2> HIDE DEF h, side
    <2>4. server' \in [0..MaxStarts -> [Kinds -> Side]]
        BY <1>1, <1>2, <2>1, <2>2, <2>3
    <2>. QED  BY <1>1, <2>1, <2>2, <2>4 DEF ManagerTyped, Side
<1>7. ASSUME NEW g \in Gens, TcpClosed(g)
      PROVE  ManagerTyped'
    <2> DEFINE own == stops[g].gen
               h == trans["ws"]
               mid == [server EXCEPT ![own]["tcp"] = Down]
               side == [mid[h]["ws"] EXCEPT !.bound = "no"]
    <2>1. own \in 0..MaxStarts /\ h \in 0..MaxStarts
        BY <1>1, <1>2
    <2>2. /\ server' = [mid EXCEPT ![h]["ws"] = side]
          /\ stops' = [stops EXCEPT ![g] = [at |-> "ws", gen |-> h]]
          /\ UNCHANGED <<started, pool, trans, starts, timer>>
        BY <1>7 DEF TcpClosed
    <2> HIDE DEF own, h
    <2>3. mid \in [0..MaxStarts -> [Kinds -> Side]]
        BY <1>1, <1>2, <2>1
    <2> HIDE DEF mid
    <2>4. side \in Side
        BY <1>1, <2>1, <2>3 DEF Side
    <2> HIDE DEF side
    <2>5. server' \in [0..MaxStarts -> [Kinds -> Side]]
        BY <1>1, <2>1, <2>2, <2>3, <2>4
    <2>. QED  BY <1>1, <2>1, <2>2, <2>5 DEF ManagerTyped, Side
<1>8. ASSUME NEW g \in Gens, WsClosed(g)
      PROVE  ManagerTyped'
    <2> DEFINE own == stops[g].gen
    <2>1. own \in 0..MaxStarts
        BY <1>2
    <2>2. /\ server' = [server EXCEPT ![own]["ws"] = Down]
          /\ stops' = [stops EXCEPT ![g].at = "done"]
          /\ trans' = [k \in Kinds |-> 0]
          /\ timer' = [timer EXCEPT ![pool] = FALSE]
          /\ UNCHANGED <<started, pool, starts>>
        BY <1>8 DEF WsClosed
    <2> HIDE DEF own
    <2>3. server' \in [0..MaxStarts -> [Kinds -> Side]]
        BY <1>1, <1>2, <2>1, <2>2
    <2>4. stops' \in [Gens -> [at : {"none", "services", "tcp", "ws", "done"},
                              gen : 0..MaxStarts]]
        BY <1>1, <2>2 DEF ManagerTyped
    <2>5. trans' \in [Kinds -> 0..MaxStarts] /\ timer' \in [0..MaxStarts -> BOOLEAN]
        BY <1>1, <1>2, <2>2 DEF ManagerTyped
    <2>. QED  BY <1>1, <2>2, <2>3, <2>4, <2>5 DEF ManagerTyped, Side
<1>9. ASSUME NEW g \in 0..MaxStarts, NEW k \in Kinds, NEW side \in Side,
             server' = [server EXCEPT ![g][k] = side], UNCHANGED <<managerVars, timer>>
      PROVE  ManagerTyped'
    <2>1. server' \in [0..MaxStarts -> [Kinds -> Side]]
        BY <1>2, <1>9
    <2>. QED  BY <1>1, <1>9, <2>1 DEF ManagerTyped, managerVars, Side
<1>10. ASSUME NEW c \in Conns, NEW k \in Kinds, Connect(c, k)
       PROVE  ManagerTyped'
    <2> DEFINE g == trans[k]
    <2>1. PICK b \in BOOLEAN : server' = [server EXCEPT ![g][k].started = b]
        <3>1. server[g][k] \in Side
            BY <1>1, <1>2
        <3>2. server[g][k].started \in BOOLEAN
            BY <3>1 DEF Side
        <3>. QED  BY <1>10, <3>2 DEF Connect
    <2> DEFINE side == [server[g][k] EXCEPT !.started = b]
    <2>2. g \in 0..MaxStarts
        BY <1>2
    <2>3. side \in Side
        BY <1>1, <1>2, <2>2 DEF Side
    <2>4. server' = [server EXCEPT ![g][k] = side]
        BY <2>1
    <2>5. UNCHANGED <<managerVars, timer>>
        BY <1>10 DEF Connect
    <2> HIDE DEF g, side
    <2>. QED  BY <1>9, <2>2, <2>3, <2>4, <2>5
<1>11. ASSUME NEW c \in Conns, AutoListening(c)
       PROVE  ManagerTyped'
    <2> DEFINE side == [bound |-> "any", listening |-> TRUE, started |-> TRUE]
    <2>1. conn[c].gen \in 0..MaxStarts
        BY DEF TypeInv, Sound, Fits, Connection
    <2>2. side \in Side /\ "tcp" \in Kinds
        BY <1>1 DEF Side
    <2>3. server' = [server EXCEPT ![conn[c].gen]["tcp"] = side]
        BY <1>11 DEF AutoListening
    <2>4. UNCHANGED <<managerVars, timer>>
        BY <1>11 DEF AutoListening
    <2> HIDE DEF side
    <2>. QED  BY <1>9, <2>1, <2>2, <2>3, <2>4
<1>12. ASSUME NEW c \in Conns,
              \/ \E g \in Gens, k \in Kinds, stream \in Streams[c] : Accept(c, g, k, stream)
              \/ \E stream \in Streams[c] : Connected(c, stream)
              \/ ConnectFails(c)
              \/ \E n \in 1..(2 * Len(conn[c].stream)) : Data(c, n)
              \/ Send(c) \/ Disconnect(c) \/ TimePasses(c) \/ PingTick(c)
              \/ RemoteEnds(c) \/ SocketFails(c) \/ SocketCloses(c)
       PROVE  UNCHANGED <<managerVars, server, timer>>
    BY <1>12 DEF Accept, Connected, ConnectFails, Data, Send, Disconnect, TimePasses,
                 PingTick, RemoteEnds, SocketFails, SocketCloses, HandleClose
<1>13. ASSUME NEW g \in Gens, CheckIdle(g)
       PROVE  UNCHANGED <<managerVars, server, timer>>
    BY <1>13 DEF CheckIdle
<1>14. CASE UNCHANGED vars
    BY <1>3, <1>14 DEF vars
<1>. QED  BY <1>3, <1>4, <1>5, <1>6, <1>7, <1>8, <1>10, <1>11, <1>12, <1>13, <1>14 DEF Next

LEMMA ConnectionsAndPoolsStep ==
    ASSUME TypeInv, NetInv, [Next]_vars
    PROVE  ConnsStep /\ PoolsStep
<1>1. ASSUME UNCHANGED <<pooled, conn>>
      PROVE  ConnsStep /\ PoolsStep
    BY <1>1, ConnIsShrunk, SamePoolsIsPoolsStep DEF ConnsStep, Shrunk
<1>2. CASE UNCHANGED vars
    BY <1>1, <1>2 DEF vars
<1>3. ASSUME NEW g \in Gens,
             \/ Start(g) \/ Listening(g) \/ ListenFails(g) \/ Started(g)
             \/ Stop(g) \/ CloseTcp(g) \/ TcpClosed(g) \/ WsClosed(g) \/ CheckIdle(g)
      PROVE  ConnsStep /\ PoolsStep
    <2>1. CASE Start(g) \/ Listening(g) \/ ListenFails(g) \/ Started(g) \/ Stop(g)
        BY <1>1, <2>1 DEF Start, Listening, ListenFails, Started, Stop
    <2>2. CASE CloseTcp(g)
        <3>1. PICK h : conn' = Shut(h, "tcp", conn) /\ pooled' = pooled
            BY <2>2 DEF CloseTcp
        <3>. QED  BY <3>1, ConnIsShrunk, ShutShrinks, SamePoolsIsPoolsStep DEF ConnsStep
    <2>3. CASE CheckIdle(g)
        BY <2>3, PoolRemoveIsStep DEF CheckIdle
    <2>. QED  BY <1>3, <2>1, <2>2, <2>3, TcpClosedIsStep, WsClosedIsStep
<1>4. ASSUME NEW c \in Conns,
             \/ \E g \in Gens, k \in Kinds, stream \in Streams[c] : Accept(c, g, k, stream)
             \/ \E k \in Kinds : Connect(c, k)
             \/ AutoListening(c)
             \/ \E stream \in Streams[c] : Connected(c, stream)
             \/ ConnectFails(c)
             \/ \E n \in 1..(2 * Len(conn[c].stream)) : Data(c, n)
             \/ Send(c) \/ Disconnect(c) \/ TimePasses(c) \/ PingTick(c)
             \/ RemoteEnds(c) \/ SocketFails(c) \/ SocketCloses(c)
      PROVE  ConnsStep /\ PoolsStep
    <2>1. CASE \/ \E g \in Gens, k \in Kinds, stream \in Streams[c] : Accept(c, g, k, stream)
               \/ \E k \in Kinds : Connect(c, k)
               \/ \E stream \in Streams[c] : Connected(c, stream)
               \/ ConnectFails(c)
        BY <2>1, AcceptIsStep, ConnectIsStep, ConnectedIsStep, ConnectFailsIsStep
    <2>2. CASE \E n \in 1..(2 * Len(conn[c].stream)) : Data(c, n)
        <3>1. Owned(conn[c])
            BY DEF NetInv, ConnsOK
        <3>. QED  BY <2>2, <3>1, DataIsStep
    <2>3. CASE AutoListening(c) \/ Send(c) \/ TimePasses(c) \/ SocketFails(c)
        BY <2>3, FieldIsStep
    <2>4. CASE Disconnect(c)
        BY <2>4, PoolRemoveIsStep DEF Disconnect
    <2>5. CASE RemoteEnds(c) \/ SocketCloses(c)
        <3>1. Sound(conn[c]) /\ conn[c].sock # "none"
            BY <2>5 DEF TypeInv, RemoteEnds, SocketCloses
        <3>2. conn[c].call = "over"
            BY <3>1 DEF Sound, Blank
        <3>. QED  BY <2>5, <3>2, HandleCloseIsStep DEF RemoteEnds, SocketCloses
    <2>. QED  BY <1>4, <2>1, <2>2, <2>3, <2>4, <2>5, PingTickIsStep
<1>. QED  BY <1>2, <1>3, <1>4 DEF Next

LEMMA TypeInvPreserved == TypeInv /\ NetInv /\ [Next]_vars => TypeInv'
<1> SUFFICES ASSUME TypeInv, NetInv, [Next]_vars
             PROVE  TypeInv'
    OBVIOUS
<1>1. ConnsStep /\ PoolsStep /\ ManagerTyped'
    BY ConnectionsAndPoolsStep, ManagerKeepsTypes
<1>. QED  BY <1>1, ConnsStepKeepsTypes, PoolsStepKeepsTypes DEF TypeInv

LEMMA TypeInvariant == Spec => []TypeInv
<1>. QED  BY TypesInitially, NetworkInvariant, TypeInvPreserved, PTL DEF Spec

\* Every variable has its type, and no pool and no transport ever has more
\* connections than its limit, whatever accepts, connects and starts overlap.
THEOREM LimitsAreKept == Spec => []TypeOK
<1>1. TypeInv => TypeOK
    <2> SUFFICES ASSUME TypeInv
                 PROVE  TypeOK
        OBVIOUS
    <2>1. /\ ManagerTyped /\ pooled \in [Pools -> SUBSET Conns]
          /\ conn = [c \in Conns |-> conn[c]] /\ \A c \in Conns : Sound(conn[c])
          /\ \A g \in Pools : Within(pooled[g], POOL_MAX)
          /\ \A g \in Pools, k \in Kinds : Within(connections(g, k), MAX_CONNECTIONS)
        BY DEF TypeInv
    <2>2. \A c \in Conns : conn[c] \in Connection
        BY <2>1 DEF Sound, Fits
    <2>3. conn \in [Conns -> Connection]
        BY <2>1, <2>2
    <2>4. \A g \in Gens : g \in Pools
        BY NetworkAssumption DEF Gens, Pools, NetworkAssumption
    <2>5. /\ \A g \in Gens : Cardinality(pooled[g]) <= POOL_MAX
          /\ \A g \in Gens, k \in Kinds : Cardinality(connections(g, k)) <= MAX_CONNECTIONS
        BY <2>1, <2>4 DEF Within
    <2>. QED  BY <2>1, <2>3, <2>5 DEF TypeOK, ManagerTyped, Pools
<1>. QED  BY <1>1, TypeInvariant, PTL

\* However the bytes of a stream are cut into chunks, the data frames of the
\* peer are handed on in order and without a gap, for streams of any length.
THEOREM FramesStayInOrder == Spec => []FramesInOrder
<1>1. TypeInv => FramesInOrder
    <2> SUFFICES ASSUME TypeInv, NEW c \in Conns
                 PROVE  InSequence(conn[c].stream, conn[c].got)
        BY DEF FramesInOrder, InSequence
    <2>. QED  BY DEF TypeInv, Sound, Fits
<1>. QED  BY <1>1, TypeInvariant, PTL

=============================================================================
