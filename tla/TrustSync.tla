----------------------------- MODULE TrustSync ------------------------------
(* Trust synchronisation (core/trust/sync.js): every node keeps a trust list *)
(* and a bounded log of updates it made or applied, and asks others for the  *)
(* updates it misses.  Handlers are async functions: between two awaits a    *)
(* node may run other handlers, so signing an update and processing a        *)
(* response take several steps.  The transport belongs to the application:   *)
(* messages may be lost, repeated and reordered.  An update is known by its  *)
(* id; ids count creations and stand for time stamps too.                    *)
EXTENDS Integers, FiniteSets, Sequences, SequencesExt

CONSTANTS Nodes,
          Links,        \* who asks whom, for updates and for its trust state
          Identified,   \* nodes with an identity: they sign what they create
          Lax,          \* nodes with requireSignature = false
          Subjects,     \* peer ids updates are about
          Levels,       \* trust levels that updates give
          Times,        \* explicit lastSyncTime arguments of a request
          MaxPerSync,   \* options.maxUpdatesPerSync
          Recent,       \* length of the log slices exported and searched: 100
          Quota,        \* updates each node creates (bound of the model)
          MaxTasks,     \* responses a node processes at once (bound)
          MaxNet,       \* messages in flight (bound)
          None

ASSUME TrustAssumption == /\ Links \subseteq Nodes \X Nodes
                          /\ Identified \subseteq Nodes
                          /\ Lax \subseteq Nodes
                          /\ MaxPerSync \in Nat \ {0}
                          /\ Recent \in Nat \ {0}
                          /\ Levels \subseteq 1..4 /\ Times \subseteq Nat
                          /\ Quota \in [Nodes -> Nat] /\ MaxTasks \in Nat /\ MaxNet \in Nat
                          /\ None \notin Nodes \cup Nat

VARIABLES made,      \* all updates ever created, in order
          trust,     \* localTrust.peers: trust level of each listed subject
          store,     \* updateStore: ids of the updates it holds
          log,       \* updateLog
          sequence,  \* localSequence
          lastHash,  \* lastHash, as the update it is the hash of
          remote,    \* remoteSequences
          signing,   \* creations that wait for identity.sign()
          tasks,     \* processSyncResponse() calls in progress, per node
          net,       \* requests and responses in flight
          imported   \* nodes that called importTrust() (history)

vars == <<made, trust, store, log, sequence, lastHash, remote, signing,
          tasks, net, imported>>

Absent == 0
LOW == 1
MEDIUM == 2
HIGH == 3

Types == {"peer:add", "peer:remove", "trust:level"}

Ids == DOMAIN made

Update == [type : Types, subject : Subjects, level : 1..4, sequence : Nat,
           prevHash : Nat \cup {None}, creator : Nodes,
           signer : Identified \cup {None}]

Request == [type : {"request"}, from : Nodes, to : Nodes,
            since : Nat, sequence : Nat]

\* Ids and JSON texts of updates; nonce says whether the nonce is in the text.
Copy == [id : Nat, nonce : BOOLEAN]

Response == [type : {"response"}, from : Nodes, to : Nodes,
             updates : Seq(Copy), last : Nat]

Verdicts == {"valid", "bad signature", "no signature", "untrusted",
             "duplicate", "conflict"}

\* A processSyncResponse() call: updates left, and the verdict on the first.
Task == [from : Nodes, last : Nat, rest : Seq(Copy), verdict : Verdicts]

Init ==
    /\ made = <<>>
    /\ trust \in [Nodes -> [Subjects -> {Absent, HIGH}]]
    /\ store = [n \in Nodes |-> {}]
    /\ log = [n \in Nodes |-> <<>>]
    /\ sequence = [n \in Nodes |-> 0]
    /\ lastHash = [n \in Nodes |-> None]
    /\ remote = [n \in Nodes |-> [m \in Identified |-> 0]]
    /\ signing = {}
    /\ tasks = [n \in Nodes |-> <<>>]
    /\ net = {}
    /\ imported = {}

-----------------------------------------------------------------------------
(* Storage *)

\* ids.slice(-k)
LastOf(ids, k) == SubSeq(ids, IF Len(ids) > k THEN Len(ids) - k + 1 ELSE 1, Len(ids))

\* The ids _storeUpdate() shifts out of a log that got too long.
Dropped(ids) == ToSet(SubSeq(ids, 1, Len(ids) - 2 * MaxPerSync))

\* Faulty variant: dropped ids stay in updateStore.
StoreUpdateLeaks(n, id) ==
    LET ids == Append(log[n], id)
    IN /\ log' = [log EXCEPT ![n] = LastOf(ids, 2 * MaxPerSync)]
       /\ store' = [store EXCEPT ![n] = @ \cup {id}]

\* Faulty variant: the log is trimmed before the new id is pushed.
StoreUpdateLong(n, id) ==
    /\ log' = [log EXCEPT ![n] = Append(LastOf(@, 2 * MaxPerSync), id)]
    /\ store' = [store EXCEPT ![n] = (@ \cup {id}) \ Dropped(log[n])]

\* _storeUpdate(): the log keeps the last 2 * maxUpdatesPerSync ids.
StoreUpdate(n, id) ==
    LET ids == Append(log[n], id)
    IN /\ log' = [log EXCEPT ![n] = LastOf(ids, 2 * MaxPerSync)]
       /\ store' = [store EXCEPT ![n] = (@ \cup {id}) \ Dropped(ids)]

-----------------------------------------------------------------------------
(* Creation *)

\* A removal has no level: its update gets the default one.
LevelsOf(type) == IF type = "peer:remove" THEN {MEDIUM} ELSE Levels

NewUpdate(n, type, s, level) ==
    [type |-> type, subject |-> s, level |-> level,
     sequence |-> sequence[n] + 1, prevHash |-> lastHash[n], creator |-> n,
     signer |-> IF n \in Identified THEN n ELSE None]

\* createPeerAdd(), createPeerRemove(), createTrustLevelUpdate(): the sequence
\* number and the previous hash are taken before the signature is awaited; the
\* trust list of the creator stays as it is.
Create(n, type, s, level) ==
    LET id == Len(made) + 1
    IN /\ sequence[n] < Quota[n]
       /\ made' = Append(made, NewUpdate(n, type, s, level))
       /\ sequence' = [sequence EXCEPT ![n] = @ + 1]
       /\ IF n \in Identified
          THEN /\ signing' = signing \cup {id}
               /\ UNCHANGED <<store, log, lastHash>>
          ELSE /\ StoreUpdate(n, id)
               /\ lastHash' = [lastHash EXCEPT ![n] = id]
               /\ UNCHANGED signing
       /\ UNCHANGED <<trust, remote, tasks, net, imported>>

\* identity.sign() resolves.
Signed(id) ==
    LET n == made[id].creator
    IN /\ id \in signing
       /\ signing' = signing \ {id}
       /\ lastHash' = [lastHash EXCEPT ![n] = id]
       /\ StoreUpdate(n, id)
       /\ UNCHANGED <<made, trust, sequence, remote, tasks, net, imported>>

\* identity.sign() rejects: the sequence number stays used.
SignFails(id) ==
    /\ id \in signing
    /\ signing' = signing \ {id}
    /\ UNCHANGED <<made, trust, store, log, sequence, lastHash, remote,
                   tasks, net, imported>>

-----------------------------------------------------------------------------
(* Requests and responses *)

\* _getLastSyncTime(): the time stamp of the last logged update; none when the
\* log is empty or the update is not in the store.
LastSyncTime(n) ==
    IF log[n] # <<>> /\ Last(log[n]) \in store[n] THEN Last(log[n]) ELSE 0

\* createSyncRequest(): the time is the caller's if one is given, the sequence
\* number is the node's own.
SendRequest(n, m, since) ==
    /\ Cardinality(net) < MaxNet
    /\ net' = net \cup {[type |-> "request", from |-> n, to |-> m,
                         since |-> IF since = 0 THEN LastSyncTime(n) ELSE since,
                         sequence |-> sequence[n]]}
    /\ UNCHANGED <<made, trust, store, log, sequence, lastHash, remote,
                   signing, tasks, imported>>

\* Stored updates newer than a time (0: any) with a higher sequence number, in
\* the order of the log: the k-th is at the position that makes k of them.
UpdatesSince(n, since, seq) ==
    LET asked == {i \in DOMAIN log[n] : /\ log[n][i] \in store[n] /\ log[n][i] > since
                                        /\ made[log[n][i]].sequence > seq}
        position(k) == CHOOSE i \in asked : Cardinality({j \in asked : j <= i}) = k
    IN [k \in 1..Cardinality(asked) |-> log[n][position(k)]]

\* update.toJSON() has no nonce.
toJSON(id) == [id |-> id, nonce |-> FALSE]

\* processSyncRequest(): the request may arrive again later.
Answer(m, again) ==
    LET n == m.to
        ids == UpdatesSince(n, m.since, m.sequence)
        count == IF Len(ids) > MaxPerSync THEN MaxPerSync ELSE Len(ids)
        answer == [type |-> "response", from |-> n, to |-> m.from,
                   updates |-> [i \in 1..count |-> toJSON(ids[i])],
                   last |-> sequence[n]]
    IN /\ m \in net /\ m.type = "request"
       /\ net' = (IF again THEN net ELSE net \ {m}) \cup {answer}
       /\ Cardinality(net') <= MaxNet
       /\ UNCHANGED <<made, trust, store, log, sequence, lastHash, remote,
                      signing, tasks, imported>>

\* A message is lost.
Lose(m) ==
    /\ m \in net
    /\ net' = net \ {m}
    /\ UNCHANGED <<made, trust, store, log, sequence, lastHash, remote,
                   signing, tasks, imported>>

-----------------------------------------------------------------------------
(* validateUpdate() *)

\* update.verify() of the copy TrustUpdate.fromJSON() makes: the nonce is part
\* of the signed text, and a copy whose JSON lacks it draws a new one.
verify(copy) == copy.nonce

\* A listed node is trusted from MEDIUM on; a node trusts itself.
TrustedSigner(n, signer) ==
    \/ signer = n
    \/ signer \in Subjects /\ trust[n][signer] >= MEDIUM

\* Known by its id, or not newer than what the signer is known to have.
isDuplicate(n, id) ==
    \/ id \in store[n]
    \/ /\ made[id].signer # None
       /\ made[id].sequence <= remote[n][made[id].signer]

\* A newer update of the same type about the same subject in the recent log.
Conflict(n, id) ==
    \E other \in ToSet(LastOf(log[n], Recent)) \cap store[n] :
        /\ made[other].subject = made[id].subject
        /\ made[other].type = made[id].type
        /\ other > id

Validate(n, copy) ==
    LET signer == made[copy.id].signer
    IN CASE signer = None /\ n \notin Lax -> "no signature"
         [] signer # None /\ ~verify(copy) -> "bad signature"
         [] OTHER ->
              CASE signer # None /\ ~TrustedSigner(n, signer) -> "untrusted"
                [] OTHER ->
                     IF isDuplicate(n, copy.id) THEN "duplicate"
                     ELSE IF Conflict(n, copy.id) THEN "conflict" ELSE "valid"

-----------------------------------------------------------------------------
(* processSyncResponse() *)

\* The call begins and validates the first update; a response that holds none
\* is done at once, and the response may arrive again.
Receive(m, again) ==
    LET n == m.to
        task == [from |-> m.from, last |-> m.last, rest |-> m.updates,
                 verdict |-> Validate(n, Head(m.updates))]
    IN /\ m \in net /\ m.type = "response"
       /\ net' = IF again THEN net ELSE net \ {m}
       /\ IF m.updates = <<>>
          THEN /\ remote' = IF m.last # 0 /\ m.from \in Identified
                            THEN [remote EXCEPT ![n][m.from] = m.last] ELSE remote
               /\ UNCHANGED tasks
          ELSE /\ Len(tasks[n]) < MaxTasks
               /\ tasks' = [tasks EXCEPT ![n] = Append(@, task)]
               /\ UNCHANGED remote
       /\ UNCHANGED <<made, trust, store, log, sequence, lastHash, signing,
                      imported>>

\* Faulty variant: an add of a listed peer overwrites it.
AppliesAlways(n, id) == TRUE

\* _applyPeerAdd() throws for a peer that is listed already.
Applies(n, id) ==
    made[id].type = "peer:add" => trust[n][made[id].subject] = Absent

\* The level of the subject after _applyPeerAdd(), _applyPeerRemove() or
\* _applyTrustLevel().
LevelAfter(u, level) ==
    CASE u.type = "peer:add" -> u.level
      [] u.type = "peer:remove" -> Absent
      [] u.type = "trust:level" -> IF level = Absent THEN Absent ELSE u.level

\* Replay protection: the highest sequence number applied from a signer.
SeenSequence(n, u) ==
    IF u.signer # None /\ u.sequence > remote[n][u.signer]
    THEN [remote EXCEPT ![n][u.signer] = u.sequence]
    ELSE remote

\* The loop goes on to the next update, which is validated against what the
\* node knows by now; after the last one the sender's sequence number is noted,
\* whatever became of its updates.  seen is remoteSequences so far.
Continue(n, i, seen) ==
    LET t == tasks[n][i]
        rest == Tail(t.rest)
    IN IF rest = <<>>
       THEN /\ tasks' = [tasks EXCEPT ![n] = RemoveAt(@, i)]
            /\ remote' = IF t.last # 0 /\ t.from \in Identified
                         THEN [seen EXCEPT ![n][t.from] = t.last] ELSE seen
       ELSE /\ remote' = seen
            /\ \E next \in {Head(rest)} :
                  tasks' = [tasks EXCEPT ![n][i] =
                      [@ EXCEPT !.rest = rest, !.verdict = Validate(n, next)']]

\* Faulty variant: an update is stored before it is applied.
ProcessStoresFirst(n, i) ==
    LET t == tasks[n][i]
        id == Head(t.rest).id
        u == made[id]
    IN /\ UNCHANGED <<made, sequence, lastHash, signing, net, imported>>
       /\ IF t.verdict = "valid"
          THEN /\ trust' = IF Applies(n, id)
                           THEN [trust EXCEPT ![n][u.subject] = LevelAfter(u, @)]
                           ELSE trust
               /\ StoreUpdate(n, id)
               /\ Continue(n, i, SeenSequence(n, u))
          ELSE /\ UNCHANGED <<trust, store, log>>
               /\ Continue(n, i, remote)

\* The call resumes after the validation of its first update.  applyUpdate()
\* changes the trust list, awaits once, and stores the update: updates are
\* stored in the order they were applied, so the two are one step.
Process(n, i) ==
    LET t == tasks[n][i]
        id == Head(t.rest).id
        u == made[id]
    IN /\ UNCHANGED <<made, sequence, lastHash, signing, net, imported>>
       /\ IF t.verdict = "valid" /\ Applies(n, id)
          THEN /\ trust' = [trust EXCEPT ![n][u.subject] = LevelAfter(u, @)]
               /\ StoreUpdate(n, id)
               /\ Continue(n, i, SeenSequence(n, u))
          ELSE /\ UNCHANGED <<trust, store, log>>
               /\ Continue(n, i, remote)

\* importTrust() of what exportTrust() of another node returned: trust list and
\* log are replaced, the update store is not.
Import(n, m) ==
    /\ trust' = [trust EXCEPT ![n] = trust[m]]
    /\ log' = [log EXCEPT ![n] = LastOf(log[m], Recent)]
    /\ imported' = imported \cup {n}
    /\ UNCHANGED <<made, store, sequence, lastHash, remote, signing, tasks, net>>

Next ==
    \/ \E n \in Nodes, type \in Types, s \in Subjects :
           \E level \in LevelsOf(type) : Create(n, type, s, level)
    \/ \E id \in signing : Signed(id) \/ SignFails(id)
    \/ \E link \in Links, since \in Times \cup {0} :
           SendRequest(link[1], link[2], since)
    \/ \E m \in net, again \in BOOLEAN : Answer(m, again) \/ Receive(m, again)
    \/ \E m \in net : Lose(m)
    \/ \E n \in Nodes : \E i \in DOMAIN tasks[n] : Process(n, i)
    \/ \E link \in Links : Import(link[1], link[2])

Spec == Init /\ [][Next]_vars

-----------------------------------------------------------------------------
(* Properties *)

TypeOK ==
    /\ made \in Seq(Update)
    /\ trust \in [Nodes -> [Subjects -> 0..4]]
    /\ store \in [Nodes -> SUBSET Ids]
    /\ log \in [Nodes -> Seq(Ids)]
    /\ \A n \in Nodes : Len(log[n]) <= 2 * MaxPerSync
    /\ sequence \in [Nodes -> Nat]
    /\ lastHash \in [Nodes -> Ids \cup {None}]
    /\ remote \in [Nodes -> [Identified -> Nat]]
    /\ signing \subseteq Ids
    /\ tasks \in [Nodes -> Seq(Task)]
    /\ \A n \in Nodes : \A t \in Range(tasks[n]) :
           t.rest # <<>> /\ \A i \in DOMAIN t.rest : t.rest[i].id \in Ids
    /\ net \subseteq Request \cup Response
    /\ \A m \in net : m.type = "response" =>
           \A i \in DOMAIN m.updates : m.updates[i].id \in Ids
    /\ imported \subseteq Nodes

\* updateStore does not leak: whatever order responses, creations and trims
\* come in, an update the store holds is in the log, from which trimming will
\* find it, unless importTrust() has replaced the log (_storeUpdate).
StoredIsLogged ==
    \A n \in Nodes \ imported : store[n] \subseteq ToSet(log[n])

LevelChangesAreNoAdds ==
    \A n \in Nodes \ imported', s \in Subjects :
        trust[n][s] # Absent /\ trust'[n][s] # trust[n][s]
        => \E t \in Range(tasks[n]) :
              LET u == made[Head(t.rest).id]
              IN t.verdict = "valid" /\ u.type # "peer:add" /\ u.subject = s

\* Two responses that add the same peer may both be validated before either is
\* applied, and still the level of a listed peer is changed by no peer:add,
\* only by a level or a remove update, or by an import (_applyPeerAdd).
AddNeverOverwrites == [][LevelChangesAreNoAdds]_vars

\* What an update says of the level of its subject.
Agrees(u, level) ==
    CASE u.type = "peer:add" -> level = u.level
      [] u.type = "peer:remove" -> level = Absent
      [] u.type = "trust:level" -> level \in {Absent, u.level}

\* The log explains the trust list: for a node that created no update and
\* imported nothing, the last update logged about a subject says whether the
\* subject is listed and at which level, through rejected, repeated and
\* overtaking responses and trims (applyUpdate).
TrustFollowsLog ==
    \A n \in Nodes \ imported, s \in Subjects :
        LET about == {i \in DOMAIN log[n] : made[log[n][i]].subject = s}
            last == CHOOSE i \in about : \A j \in about : j <= i
        IN sequence[n] = 0 /\ about # {} => Agrees(made[log[n][last]], trust[n][s])

\* Trust updates are signed so that other nodes can verify them: what a node
\* signed and an unaltered response carried is never found to have a bad
\* signature (toJSON, fromJSON, verify).
SignedUpdatesVerify ==
    \A n \in Nodes : \A t \in Range(tasks[n]) : t.verdict # "bad signature"

=============================================================================
