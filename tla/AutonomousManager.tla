-------------------------- MODULE AutonomousManager -------------------------
(* Autonomous services (core/autonomous/manager.js): AutonomousService, which*)
(* extends the Service of the lifecycle, and AutonomousManager.  Every await *)
(* of a hook is a place where other calls, restart timers and health checks  *)
(* run.  A hook that exceeds its time limit fails, so hooks always end.      *)
EXTENDS Integers, FiniteSets, Sequences, SequencesExt, BagsExt

CONSTANTS Services,
          Dependencies,  \* options.dependencies of each service, a sequence
          Priority,      \* options.startupPriority
          Manual,        \* services whose autoStartPolicy is NEVER
          Policy,        \* options.restartPolicy of each service
          Checked,       \* services with an onHealthCheck handler
          Threshold,     \* options.unhealthyThreshold
          MaxRestarts,   \* options.maxRestarts
          Parallel,      \* options.parallelStartup
          Calls,         \* calls to the manager at once (bound of the model)
          MaxCalls       \* calls and crashes in a behaviour (bound)

VARIABLES registered,    \* the names in the map, in the order they came
          svc,           \* the service objects, that outlive their entry
          hooks,         \* a bag of hooks that run
          calls,         \* what each call to the manager is doing
          started,       \* isRunning
          startupOrder,
          used,          \* calls so far
          clean          \* only one startAll() and no failure (history)

vars == <<registered, svc, hooks, calls, started, startupOrder, used, clean>>

NoCall == [op |-> "none", name |-> "none", todo |-> <<>>, then |-> <<>>, waiting |-> {}]
Call(op, name, todo) ==
  [op |-> op, name |-> name, todo |-> todo, then |-> <<>>, waiting |-> {}]

\* pending counts the timers of _attemptRestart(), checks the health checks in
\* progress, attempts (history) the automatic restarts.
AutonomousService ==
    [state |-> "CREATED", failures |-> 0, unhealthy |-> 0, restarts |-> 0,
     timer |-> "none", pending |-> 0, checks |-> 0, attempts |-> 0,
     dependents |-> <<>>]

Init ==
    /\ registered = <<>>
    /\ svc = [n \in Services |-> AutonomousService]
    /\ hooks = [h \in {} |-> 1]
    /\ calls = [c \in Calls |-> NoCall]
    /\ started = FALSE
    /\ startupOrder = <<>>
    /\ used = 0
    /\ clean = TRUE

Known(n) == Contains(registered, n)
isRunning(n) == Known(n) /\ svc[n].state = "RUNNING"

-----------------------------------------------------------------------------
(* AutonomousService over Service: each operator gives the service after the *)
(* part of the method before, or after, its hook.                            *)

\* start() that succeeded.  The check of Service takes the timer first, so
\* that the one of AutonomousService is only set if start() found it RUNNING.
Running(n) ==
    [svc[n] EXCEPT !.state = "RUNNING", !.failures = 0,
                   !.timer = IF n \notin Checked \/ @ # "none" THEN @
                             ELSE IF svc[n].state = "RUNNING" THEN "auto" ELSE "base"]

mayStart(n) == svc[n].state \in {"READY", "STOPPED"}

\* Faulty variant: counts the failures, which a start that succeeds clears.
_shouldRestartByFailures(n, crashed) ==
    /\ Policy[n] \in {"always", "on-failure"}
    /\ crashed.failures <= MaxRestarts

\* crash() leaves the state alone, which is never CRASHED, so that the policy
\* "on-abort" never restarts.  Delays are left out: a timer may fire any time.
_shouldRestart(n, crashed) ==
    /\ Policy[n] \in {"always", "on-failure"}
    /\ crashed.restarts < MaxRestarts

crash(s, n) ==
    LET crashed == [s EXCEPT !.failures = @ + 1, !.restarts = @ + 1, !.timer = "none"]
    IN IF _shouldRestart(n, crashed) THEN [crashed EXCEPT !.pending = @ + 1] ELSE crashed

Hook(c, n, h) == [call |-> c, name |-> n, hook |-> h]

\* _attemptRestart(): whatever the service does, unless it is RUNNING, it is
\* set to READY and started.
AttemptRestart(n) ==
    /\ svc[n].pending > 0
    /\ LET s == [svc[n] EXCEPT !.pending = @ - 1]
       IN IF s.state = "RUNNING"
          THEN svc' = [svc EXCEPT ![n] = s] /\ UNCHANGED hooks
          ELSE /\ svc' = [svc EXCEPT ![n] = [s EXCEPT !.state = "STARTING",
                                                      !.attempts = @ + 1]]
               /\ hooks' = BagAdd(hooks, Hook(0, n, "start"))
    /\ UNCHANGED <<registered, calls, started, startupOrder, used, clean>>

\* A tick of the interval of AutonomousService; one check at a time is a bound.
BeginCheck(n) ==
    /\ svc[n].timer = "auto" /\ svc[n].state = "RUNNING" /\ svc[n].checks = 0
    /\ svc' = [svc EXCEPT ![n].checks = 1]
    /\ UNCHANGED <<registered, hooks, calls, started, startupOrder, used, clean>>

\* The handler's answer: the state is not looked at again.
EndCheck(n, healthy) ==
    /\ svc[n].checks > 0
    /\ LET s == [svc[n] EXCEPT !.checks = 0,
                               !.unhealthy = IF healthy THEN 0 ELSE @ + 1]
       IN svc' = [svc EXCEPT ![n] =
                    IF ~healthy /\ s.unhealthy >= Threshold THEN crash(s, n) ELSE s]
    /\ healthy \/ used < MaxCalls
    /\ used' = IF healthy THEN used ELSE used + 1
    /\ clean' = FALSE
    /\ UNCHANGED <<registered, hooks, calls, started, startupOrder>>

\* crash() called by the owner of the service.
Crash(n) ==
    /\ Known(n)
    /\ used < MaxCalls /\ used' = used + 1
    /\ svc' = [svc EXCEPT ![n] = crash(@, n)]
    /\ clean' = FALSE
    /\ UNCHANGED <<registered, hooks, calls, started, startupOrder>>

-----------------------------------------------------------------------------
(* Registration and orders *)

\* A dependency that is not registered yet never learns of its dependent.
Register(n) ==
    /\ ~Known(n)
    /\ svc[n] = AutonomousService
    /\ registered' = Append(registered, n)
    /\ svc' = [m \in Services |->
                 IF Known(m) /\ Contains(Dependencies[n], m)
                 THEN [svc[m] EXCEPT !.dependents = Append(@, n)] ELSE svc[m]]
    /\ clean' = (clean /\ \A c \in Calls : calls[c] = NoCall)
    /\ UNCHANGED <<hooks, calls, started, startupOrder, used>>

\* The names in the map by priority, those of one priority as they came.
sorted ==
    LET before(i, j) == \/ Priority[registered[i]] < Priority[registered[j]]
                        \/ Priority[registered[i]] = Priority[registered[j]] /\ i < j
        at(k) == CHOOSE i \in DOMAIN registered :
                   Cardinality({j \in DOMAIN registered : before(j, i)}) = k - 1
    IN [k \in 1..Len(registered) |-> registered[at(k)]]

\* What visit() has visited, and the order that it makes.
Walks == [visited : SUBSET Services, order : Seq(Services)]

\* A loop that visits those of some names that are in the map, one by one.
VisitEach(visit, names, w) ==
    LET after[i \in Nat] == IF i = 0 THEN w
                            ELSE IF Known(names[i]) THEN visit[names[i], after[i - 1]]
                            ELSE after[i - 1]
    IN after[Len(names)]

\* visit(), where visit makes the calls inside it; fuel bounds their depth,
\* which is below the number of names, as each is visited once.
VisitWith(visit, n, w) ==
    IF n \in w.visited THEN w
    ELSE LET below == VisitEach(visit, Dependencies[n], [w EXCEPT !.visited = @ \cup {n}])
         IN [below EXCEPT !.order = Append(@, n)]

Visit[fuel \in Nat] ==
    [v \in Services \X Walks |->
       IF fuel = 0 THEN v[2] ELSE VisitWith(Visit[fuel - 1], v[1], v[2])]

\* Faulty variant: by priority alone.
_calculateByPriority == sorted

_calculateStartupOrder ==
    VisitEach(Visit[Len(registered)], sorted, [visited |-> {}, order |-> <<>>]).order

\* Neighbours of equal priority form a group.
_groupServicesByPriority(order) ==
    FoldLeft(LAMBDA groups, n :
               IF groups # <<>> /\ Priority[n] = Priority[Last(Last(groups))]
               THEN [groups EXCEPT ![Len(groups)] = Append(@, n)]
               ELSE Append(groups, <<n>>),
             <<>>, order)

groupsOf(order) == IF Parallel THEN _groupServicesByPriority(order)
                   ELSE [i \in DOMAIN order |-> <<order[i]>>]

_getAllDependents(n) ==
    LET all[list \in Seq(Services), m \in Services] ==
          FoldLeft(LAMBDA l, d : IF Contains(l, d) THEN l ELSE all[Append(l, d), d],
                   list, IF Known(m) THEN svc[m].dependents ELSE <<>>)
    IN all[<<>>, n]

-----------------------------------------------------------------------------
(* Calls: a call starts a hook and goes on when the hook ends. *)

Issue(c, call, good) ==
    /\ calls[c] = NoCall
    /\ used < MaxCalls /\ used' = used + 1
    /\ calls' = [calls EXCEPT ![c] = call]
    /\ clean' = (clean /\ good)

Begin(c, n, h, state, call) ==
    /\ svc' = [svc EXCEPT ![n].state = state, ![n].timer = IF h = "stop" THEN "none" ELSE @]
    /\ hooks' = BagAdd(hooks, Hook(c, n, h))
    /\ calls' = [calls EXCEPT ![c] = [call EXCEPT !.waiting = {n}]]

StartAll(c) ==
    /\ ~started
    /\ Issue(c, Call("startAll", "none", groupsOf(_calculateStartupOrder)), used = 0)
    /\ started' = TRUE
    /\ startupOrder' = _calculateStartupOrder
    /\ UNCHANGED <<registered, svc, hooks>>

\* _startService() for a group: policy, then dependencies, then init().  No hook of
\* the call runs as it comes to a group.
StartGroup(c) ==
    /\ calls[c].op = "startAll" /\ calls[c].waiting = {} /\ calls[c].todo # <<>>
    /\ LET ready(n) == /\ Known(n) /\ n \notin Manual
                       /\ \A d \in ToSet(Dependencies[n]) : Known(d) => isRunning(d)
                       /\ svc[n].state = "CREATED"
           go == {n \in ToSet(Head(calls[c].todo)) : ready(n)}
           begun == {Hook(c, n, "init") : n \in go}
       IN /\ svc' = [n \in Services |-> IF n \in go THEN [svc[n] EXCEPT !.state = "INITIALIZING"]
                                        ELSE svc[n]]
          /\ hooks' = [h \in DOMAIN hooks \cup begun |-> IF h \in begun THEN 1 ELSE hooks[h]]
          /\ calls' = [calls EXCEPT ![c].waiting = go, ![c].todo = Tail(@)]
    /\ UNCHANGED <<registered, started, startupOrder, used, clean>>

StopAll(c) ==
    /\ started
    /\ Issue(c, Call("stopAll", "none", Reverse(startupOrder)), FALSE)
    /\ UNCHANGED <<registered, svc, hooks, started, startupOrder>>

RestartService(c, n) ==
    /\ Known(n)
    /\ LET dependents == _getAllDependents(n)
       IN Issue(c, [Call("restartStops", n, Reverse(dependents)) EXCEPT !.then = dependents],
                FALSE)
    /\ UNCHANGED <<registered, svc, hooks, started, startupOrder>>

\* stopAll(), and restartService() before the service itself.
StopNext(c) ==
    /\ calls[c].op \in {"stopAll", "restartStops"}
    /\ calls[c].waiting = {} /\ calls[c].todo # <<>>
    /\ LET n == Head(calls[c].todo)
           rest == [calls[c] EXCEPT !.todo = Tail(@)]
       IN IF isRunning(n) THEN Begin(c, n, "stop", "STOPPING", rest)
          ELSE calls' = [calls EXCEPT ![c] = rest] /\ UNCHANGED <<svc, hooks>>
    /\ UNCHANGED <<registered, started, startupOrder, used, clean>>

\* Service.restart(): stop, which may find nothing to do, ...
RestartSelf(c) ==
    /\ calls[c].op = "restartStops" /\ calls[c].waiting = {} /\ calls[c].todo = <<>>
    /\ LET n == calls[c].name
           next == [calls[c] EXCEPT !.op = "restartStart"]
       IN IF svc[n].state = "RUNNING" THEN Begin(c, n, "stop", "STOPPING", next)
          ELSE calls' = [calls EXCEPT ![c] = next] /\ UNCHANGED <<svc, hooks>>
    /\ UNCHANGED <<registered, started, startupOrder, used, clean>>

\* ... then start, which throws in a state that neither restart() resets.
RestartStart(c) ==
    /\ calls[c].op = "restartStart" /\ calls[c].waiting = {}
    /\ LET n == calls[c].name
           next == Call("restartStarts", n, calls[c].then)
       IN IF svc[n].state = "ERROR" \/ mayStart(n)
          THEN Begin(c, n, "start", "STARTING", next)
          ELSE IF svc[n].state = "RUNNING"
          THEN /\ svc' = [svc EXCEPT ![n] = Running(n)]
               /\ calls' = [calls EXCEPT ![c] = next] /\ UNCHANGED hooks
          ELSE calls' = [calls EXCEPT ![c] = NoCall] /\ UNCHANGED <<svc, hooks>>
    /\ UNCHANGED <<registered, started, startupOrder, used, clean>>

\* The dependents again, and start() that the owner of a service calls.
StartNext(c) ==
    /\ calls[c].op \in {"restartStarts", "start"}
    /\ calls[c].waiting = {} /\ calls[c].todo # <<>>
    /\ LET n == Head(calls[c].todo)
           rest == [calls[c] EXCEPT !.todo = Tail(@)]
           refused == \/ calls[c].op = "restartStarts" /\ (~Known(n) \/ n \in Manual)
                      \/ ~mayStart(n) /\ svc[n].state # "RUNNING"
       IN IF refused THEN calls' = [calls EXCEPT ![c] = rest] /\ UNCHANGED <<svc, hooks>>
          ELSE IF mayStart(n) THEN Begin(c, n, "start", "STARTING", rest)
          ELSE /\ svc' = [svc EXCEPT ![n] = Running(n)]
               /\ calls' = [calls EXCEPT ![c] = rest] /\ UNCHANGED hooks
    /\ UNCHANGED <<registered, started, startupOrder, used, clean>>

Start(c, n) ==
    /\ Known(n)
    /\ Issue(c, Call("start", n, <<n>>), FALSE)
    /\ UNCHANGED <<registered, svc, hooks, started, startupOrder>>

\* stop() and unregister(): the timer goes even if there is nothing to stop.
Stop(c, n, op) ==
    /\ Known(n)
    /\ op \in {"stop", "unregister"}
    /\ calls[c] = NoCall
    /\ used < MaxCalls /\ used' = used + 1
    /\ IF isRunning(n) THEN Begin(c, n, "stop", "STOPPING", Call(op, n, <<>>))
       ELSE /\ svc' = [svc EXCEPT ![n].timer = IF op = "stop" THEN "none" ELSE @]
            /\ calls' = [calls EXCEPT ![c] = Call(op, n, <<>>)] /\ UNCHANGED hooks
    /\ clean' = FALSE
    /\ UNCHANGED <<registered, started, startupOrder>>

\* A call has nothing left to do.
Return(c) ==
    LET k == calls[c]
    IN /\ k.op \notin {"none", "restartStops", "restartStart"}
       /\ k.waiting = {} /\ k.todo = <<>>
       /\ calls' = [calls EXCEPT ![c] = NoCall]
       /\ IF k.op = "unregister"
          THEN /\ registered' = Remove(registered, k.name)
               /\ svc' = [n \in Services |->
                            IF Known(n) THEN [svc[n] EXCEPT !.dependents = Remove(@, k.name)]
                            ELSE svc[n]]
          ELSE UNCHANGED <<registered, svc>>
       /\ started' = (started /\ k.op # "stopAll")
       /\ UNCHANGED <<hooks, startupOrder, used, clean>>

\* A hook ends, or its time is up, and the call that awaits it goes on; only
\* startAll(), stopAll() and the dependents' starts survive a failure.
EndHook(h, ok) ==
    /\ h \in DOMAIN hooks
    /\ LET n == h.name  c == h.call
           k == IF c = 0 THEN NoCall ELSE [calls[c] EXCEPT !.waiting = @ \ {n}]
           survives == \/ k.op \in {"startAll", "stopAll"}
                       \/ k.op = "restartStarts" /\ n # k.name
           goesOn == h.hook = "init" /\ ok
           after == CASE ~ok -> [svc[n] EXCEPT !.state = "ERROR"]
                      [] goesOn -> [svc[n] EXCEPT !.state = "STARTING"]
                      [] h.hook = "start" /\ ok -> Running(n)
                      [] OTHER -> [svc[n] EXCEPT !.state = "STOPPED"]
           rest == BagRemove(hooks, h)
       IN /\ svc' = [svc EXCEPT ![n] = after]
          /\ hooks' = IF goesOn THEN BagAdd(rest, Hook(c, n, "start")) ELSE rest
          /\ calls' = IF c = 0 \/ goesOn THEN calls
                      ELSE [calls EXCEPT ![c] = IF ok \/ survives THEN k ELSE NoCall]
    /\ clean' = (clean /\ ok)
    /\ UNCHANGED <<registered, started, startupOrder, used>>

Next ==
    \/ \E n \in Services :
         \/ Register(n) \/ Crash(n) \/ AttemptRestart(n) \/ BeginCheck(n)
         \/ \E healthy \in BOOLEAN : EndCheck(n, healthy)
    \/ \E c \in Calls :
         \/ StartAll(c) \/ StartGroup(c) \/ StopAll(c) \/ StopNext(c)
         \/ RestartSelf(c) \/ RestartStart(c) \/ StartNext(c) \/ Return(c)
         \/ \E n \in Services :
              \/ RestartService(c, n) \/ Start(c, n)
              \/ \E op \in {"stop", "unregister"} : Stop(c, n, op)
    \/ \E h \in DOMAIN hooks, ok \in BOOLEAN : EndHook(h, ok)

Spec == Init /\ [][Next]_vars

-----------------------------------------------------------------------------
TypeOK ==
    /\ \A n \in Services :
         /\ svc[n].state \in {"CREATED", "INITIALIZING", "READY", "STARTING", "RUNNING",
                               "STOPPING", "STOPPED", "ERROR"}
         /\ svc[n].timer \in {"none", "base", "auto"}
         /\ svc[n].timer # "none" => n \in Checked
         /\ ToSet(svc[n].dependents) \subseteq Services
    /\ ToSet(startupOrder) \cup ToSet(registered) \subseteq Services
    /\ \A c \in Calls : calls[c].waiting \subseteq Services

\* However crashes, failing hooks and restart timers follow each other, a
\* service is never restarted more often by itself than maxRestarts says
\* (_shouldRestart() counts what crash() schedules, and nothing cancels it).
RestartsBounded ==
    \A n \in Services : svc[n].attempts + svc[n].pending <= MaxRestarts

\* When startAll() starts the services one by one and no hook fails, each
\* service of the order runs at its end, whatever priorities say, unless its
\* policy is NEVER or one of its dependencies does not run.
StartAllComplete ==
    (clean /\ ~Parallel /\ started /\ \A c \in Calls : calls[c] = NoCall) =>
        \A n \in ToSet(startupOrder) :
            \/ svc[n].state = "RUNNING" \/ n \in Manual
            \/ \E d \in ToSet(Dependencies[n]) : Known(d) /\ ~isRunning(d)

=============================================================================
