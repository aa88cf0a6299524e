----------------------------- MODULE NodeServices -----------------------------
(* What a node runs and keeps: autonomous services, healing and optimization,*)
(* channels and sessions, authentication and roles, the logins of the APIs,  *)
(* the files of the environment, the store and backups.                      *)
(* They share no state, so that none can notice how the steps of another     *)
(* fall between its own: a behaviour of this module explores one of them,    *)
(* which `part' names.                                                       *)
EXTENDS Integers, FiniteSets, Sequences

\* The constants of the modules.  Where two modules use one name for different
\* things, one of them is renamed here.
CONSTANTS Services, Dependencies, Priority, Manual, Policy, Monitored, Threshold,
          MaxRestarts, Parallel, ManagerCalls, MaxManagerCalls,
          Checks, Critical, HealRules, Remedies, Weights, Rounds, Workers, MaxFailures,
          Events, MaxEvents,
          ScaleRules, minScale, maxScale, Readings, Lowest, Highest, Stride, Scalers, Tuners,
          Metrics, Warmup, MaxAdvice, MaxStrategies,
          Peers, Channels, HasIdentity, MaxEpoch, MaxSends, Sides, CounterLimit,
          MaxTimers, MaxKeys, MaxNonce, MessageStreams,
          Ips, ApiKeyIds, MaxAttempts, maxBlacklist, Logins, MaxTokens, Saves,
          Permissions, RoleNames, BuiltIn, UserIds, Policies, MaxStorageCalls,
          StoreKeys, Values, StoreCalls, cacheMaxSize,
          MaxBackups, BackupTasks, maxBackups, MaxBackupTime,
          ApiLogins, MaxGuesses, Lockout, MaxLoginTime, Conns, Chunks,
          MaxFresh

\* The messages of a channel stay below the range of a counter, where it would
\* begin again, and those of a session within the range of a nonce.
ASSUME MessagesFit ==
    /\ MaxSends \in Nat /\ CounterLimit \in Nat /\ MaxSends < CounterLimit
    /\ MaxNonce \in Nat

ASSUME StreamsTyped == MessageStreams \subseteq Seq(STRING)

\* A scale and a parameter have limits, and begin within them.
ASSUME LimitsFit ==
    /\ minScale \in Int /\ maxScale \in Int /\ minScale <= maxScale
    /\ \A i \in DOMAIN ScaleRules : ScaleRules[i].scaleChange \in Int
    /\ Lowest \in Int /\ Highest \in Int /\ Lowest <= Highest /\ Stride \in Int

ASSUME RestartsFit == MaxRestarts \in Nat

\* 0 is what a hook that no call awaits has for one.
ASSUME ServicesFit == Dependencies \in [Services -> Seq(Services)] /\ 0 \notin ManagerCalls

\* The rules have names; "none" is what a call without a rule has for one.
ASSUME RulesFit ==
    /\ HealRules \in Seq({r \in {HealRules[i] : i \in DOMAIN HealRules} : r.id # "none"})
    /\ Remedies \in Seq({r \in {Remedies[i] : i \in DOMAIN Remedies} : r.id # "none"})

ASSUME ListFits == maxBlacklist \in Nat

ASSUME GuessesFit ==
    /\ IsFiniteSet(ApiLogins) /\ MaxGuesses \in Nat \ {0} /\ Lockout \in Nat \ {0}

\* No value of the store reads as a missing or a torn file.
ASSUME StoreFits ==
    Values \cap {"none", "torn"} = {} /\ cacheMaxSize \in Nat /\ maxBackups \in Nat

\* Roles, users and policies are kept in maps of their own, here in one.
ASSUME NamesApart ==
    /\ IsFiniteSet(DOMAIN BuiltIn) /\ BuiltIn \in [DOMAIN BuiltIn -> SUBSET Permissions]
    /\ (DOMAIN BuiltIn \cup RoleNames) \cap (UserIds \cup DOMAIN Policies) = {}
    /\ UserIds \cap DOMAIN Policies = {}

VARIABLES part,
          registered, svc, hooks, calls, started, startupOrder, used, clean,
          failures, status, rounds, workers, active, enabled, threats, responses,
          currentScale, cooling, latest, scalers, current, actual, tuners, tuning,
          counts, advice, strategies,
          channel, map, closing, side, boxes,
          hs, cipher, sealed, wire,
          attempts, login, tokens, blacklist, dropped, revoked, apiKeys, saving, file,
          overlapped,
          held, order, store, storageCalls, task,
          disk, tmp, cache, call, agreed, mixed,
          now, env, backups, made, lastFull, files, saved, backupTask, concurrent,
          clock, http, mgr, logins, ipc, tried, conns,
          home, pc, work, fresh, promised, cut

managerVars == <<registered, svc, hooks, calls, started, startupOrder, used, clean>>
healingVars == <<failures, status, rounds, workers, active, enabled, threats, responses>>
scaleVars == <<currentScale, cooling, latest, scalers>>
tuneVars == <<current, actual, tuners, tuning>>
adviceVars == <<counts, advice, strategies>>
channelVars == <<channel, map, closing, side, boxes>>
authVars == <<attempts, login, tokens, blacklist, dropped, revoked, apiKeys, saving, file,
              overlapped>>
roleVars == <<held, order, store, storageCalls, task>>
storeVars == <<disk, tmp, cache, call, agreed, mixed>>
backupVars == <<now, env, backups, made, lastFull, files, saved, backupTask, concurrent>>
accessVars == <<clock, http, mgr, logins, ipc, tried, conns>>
startupVars == <<home, pc, work, fresh, promised, cut>>
vars == <<part, managerVars, healingVars, scaleVars, tuneVars, adviceVars, channelVars,
          hs, cipher, sealed, wire, authVars, roleVars, storeVars, backupVars,
          accessVars, startupVars>>

Manager == INSTANCE AutonomousManager WITH
    Calls <- ManagerCalls, MaxCalls <- MaxManagerCalls, Checked <- Monitored

Healing == INSTANCE SelfHealing

Tuning == INSTANCE Optimization WITH enabled <- tuning

Channel == INSTANCE SecureChannels WITH Keyed <- HasIdentity

Session == INSTANCE SessionProtocol WITH Streams <- MessageStreams

Auth == INSTANCE Authentication WITH Keys <- ApiKeyIds

Roles == INSTANCE RoleAccess WITH MaxCalls <- MaxStorageCalls, calls <- storageCalls

Store == INSTANCE SecureStore WITH Keys <- StoreKeys, Calls <- StoreCalls

Back == INSTANCE Backup WITH
    Tasks <- BackupTasks, MaxTime <- MaxBackupTime, task <- backupTask, overlapped <- concurrent

Access == INSTANCE ApiAccess WITH
    Logins <- ApiLogins, MaxAttempts <- MaxGuesses, MaxTime <- MaxLoginTime

Start == INSTANCE Startup WITH disk <- home

Parts == {"manager", "healing", "scaling", "tuning", "advice", "channels", "pair",
          "handshake", "cipher", "wire", "logins", "keys", "roles", "store", "backups",
          "http", "ipc", "startup"}

Init ==
    /\ part \in Parts
    /\ Manager!Init /\ Healing!Init /\ Tuning!Init /\ Channel!Init /\ Session!Init
    /\ Auth!Init /\ Roles!Init /\ Store!Init /\ Back!Init
    /\ Access!Init /\ Start!Init
    /\ part # "startup" => home.env
    /\ part # "wire" => wire.stream = CHOOSE s \in MessageStreams : TRUE

\* A step of part p, that leaves the state of the other parts alone.
Only(p) ==
    /\ part = p /\ UNCHANGED part
    /\ p # "manager" => UNCHANGED managerVars
    /\ p # "healing" => UNCHANGED healingVars
    /\ p # "scaling" => UNCHANGED scaleVars
    /\ p # "tuning" => UNCHANGED tuneVars
    /\ p # "advice" => UNCHANGED adviceVars
    /\ p \notin {"channels", "pair"} => UNCHANGED channelVars
    /\ p # "handshake" => UNCHANGED hs
    /\ p # "cipher" => UNCHANGED <<cipher, sealed>>
    /\ p # "wire" => UNCHANGED wire
    /\ p \notin {"logins", "keys"} => UNCHANGED authVars
    /\ p # "roles" => UNCHANGED roleVars
    /\ p # "store" => UNCHANGED storeVars
    /\ p # "backups" => UNCHANGED backupVars
    /\ p \notin {"http", "ipc"} => UNCHANGED accessVars
    /\ p # "startup" => UNCHANGED startupVars

\* Bounds of three: an epoch of a channel has one nonce, calls overlap on one
\* key of the store only, and neither a crash nor a change of the files follows
\* calls for backups that overlapped.
Next ==
    \/ Only("manager") /\ Manager!Next
    \/ Only("healing") /\ Healing!Next
    \/ Only("scaling") /\ Tuning!ScaleNext
    \/ Only("tuning") /\ Tuning!TuneNext
    \/ Only("advice") /\ Tuning!AdviceNext
    \/ Only("channels") /\ Channel!ManagerNext /\ \A c \in Channels : channel'[c].nonce < 2
    \/ Only("pair") /\ Channel!PairNext
    \/ Only("handshake") /\ Session!HandshakeNext
    \/ Only("cipher") /\ Session!CipherNext
    \/ Only("wire") /\ Session!WireNext
    \/ Only("logins") /\ Auth!LoginNext
    \/ Only("keys") /\ Auth!KeyNext
    \/ Only("roles") /\ Roles!Next
    \/ Only("store") /\ Store!Next /\ mixed' # StoreKeys
    \/ Only("http") /\ Access!LoginNext
    \/ Only("ipc") /\ Access!IpcNext
    \/ Only("startup") /\ Start!Next
    \/ Only("backups") /\ Back!Next /\ (concurrent => ~Back!Crash /\ env' = env)

Spec == Init /\ [][Next]_vars

\* Of the part that takes the steps; the others are as they were at first.
TypesOK ==
    /\ part = "manager" => Manager!TypeOK
    /\ part = "healing" => Healing!TypeOK
    /\ part \in {"scaling", "tuning", "advice"} => Tuning!TypeOK
    /\ part \in {"channels", "pair"} => Channel!TypeOK
    /\ part \in {"handshake", "cipher", "wire"} => Session!TypeOK
    /\ part \in {"logins", "keys"} => Auth!TypeOK
    /\ part = "roles" => Roles!TypeOK
    /\ part = "store" => Store!TypeOK
    /\ part = "backups" => Back!TypeOK
    /\ part \in {"http", "ipc"} => Access!TypeOK
    /\ part = "startup" => Start!TypeOK

\* Whatever crashes, checks and calls overlap: a service is not restarted more
\* often by itself than its limit, a remedy runs once at a time, and the scale
\* and the parameters keep within their limits.
WithinLimits ==
    /\ part = "manager" => Manager!RestartsBounded
    /\ part = "healing" => Healing!OneAtATime
    /\ part \in {"scaling", "tuning", "advice"} => Tuning!WithinLimits

\* When nothing fails, startAll() has started all that it may start.
StartAllComplete == part = "manager" => Manager!StartAllComplete

\* No key and nonce are used for two messages, by a shared channel however its
\* ends rekey, and by the encryptor of a session however its intervals rotate.
NonceFresh ==
    /\ part \in {"channels", "pair"} => Channel!NonceFresh
    /\ part = "cipher" => Session!NonceFresh

\* A closed channel holds no key, a handshake that waits has a timer, and the
\* messages of a stream are returned in order, however it is cut up.
SessionsAreSound ==
    /\ part \in {"channels", "pair"} => Channel!ClosedIsClean
    /\ part = "handshake" => Session!WaitHasTimer
    /\ part = "wire" => Session!MessagesInOrder

\* Who was logged out, revoked, denied or deleted stays so, also after a save,
\* a load or a restart; the answers about a user agree; and however requests
\* overlap, no more than so many guesses of a password or token are compared.
AccessIsSound ==
    /\ part \in {"http", "ipc"} => Access!GuessesBounded
    /\ part = "logins" => Auth!RevokedIsRefused
    /\ part = "keys" => Auth!KeysAreSaved
    /\ part = "roles" => Roles!AnswersAgree /\ Roles!DeletedStaysDeleted

\* What was stored and backed up is on the disk, whole, wherever a crash falls;
\* so is the phrase that a migration took on, and the keys come from one phrase.
StoredIsKept ==
    /\ part = "startup" => Start!SeedKept /\ Start!KeysAgree
    /\ part = "store" => Store!Durable
    /\ part = "backups" => Back!IncrementalIsComplete /\ Back!MetadataMatchesFiles

===============================================================================
