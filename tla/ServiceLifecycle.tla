-------------------------- MODULE ServiceLifecycle --------------------------
(***************************************************************************)
(* Services and the ServiceManager of core/lifecycle/manager.js.           *)
(*                                                                         *)
(* A task is one call of the manager's asynchronous interface.  JavaScript *)
(* runs a task until it awaits: `thread' is the task that holds the one    *)
(* thread of control, NoTask between two turns of the event loop.  A task  *)
(* either walks the dependency graph (pc = "walk", holding the thread),    *)
(* awaits a lifecycle hook of its target (pc = the hook's name), or has    *)
(* its service call settled and its continuation queued (pc = "ok" or      *)
(* "failed").                                                              *)
(*                                                                         *)
(* Registering a name again creates a new Service object, and a task that  *)
(* holds the old object goes on with it: an object is a name and the       *)
(* number of its registration.                                             *)
(***************************************************************************)
EXTENDS Naturals, Sequences, FiniteSets, SequencesExt, FiniteSetsExt

CONSTANTS
  Services,              \* service names
  Tasks,                 \* concurrent calls of the manager
  NoTask,                \* the event loop is between two turns
  NoObject,              \* a task that calls no service
  InitialRegistry,       \* names registered at start-up, in order
  MaxGen,                \* bound on the registrations of each name
  Deps,                  \* options.dependencies of each name
  Hooks,                 \* the hooks a name defines: "init", "start", "stop"
  HealthChecked,         \* names with an onHealthCheck hook
  RestartOnCrash,        \* names with restartOnCrash
  MaxRestarts,           \* options.maxRestarts
  MaxCrashes,            \* bound on the crash() calls, all objects together
  AutoStartDependencies, \* the manager's option of that name
  MaxStack,              \* frames of start() the call stack holds
  Ops                    \* the operations each task's caller uses

Objects == UNION {{n} \X (1..MaxGen[n]) : n \in Services}
Phases == {"init", "start", "stop"}
States == {"created", "initializing", "ready", "starting", "running",
           "stopping", "stopped", "error", "crashed"}
AllOps == {"initAll", "startAll", "stopAll"}
TaskOps == AllOps \cup {"start", "stop", "restart", "restarting",
                        "unregister", "crash"}

ASSUME ServicesAssumption ==
  /\ IsFiniteSet(Services)
  /\ NoTask \notin Tasks
  /\ NoObject \notin Objects
  /\ MaxGen \in [Services -> Nat \ {0}]
  /\ InitialRegistry \in Seq(Services)
  /\ Deps \in [Services -> Seq(Services)]
  /\ Hooks \in [Services -> SUBSET Phases]
  /\ HealthChecked \subseteq Services
  /\ RestartOnCrash \subseteq Services
  /\ MaxRestarts \in Nat
  /\ MaxCrashes \in Nat
  /\ MaxStack \in Nat \ {0}
  /\ AutoStartDependencies \in BOOLEAN
  /\ Ops \in [Tasks -> SUBSET TaskOps]

VARIABLES
  registry,   \* the keys of manager.services, in insertion order
  gen,        \* registrations made of each name so far
  state,      \* state of each object
  timer,      \* whether the object's health-check interval is set
  restarts,   \* restartCount of each object
  op,         \* operation each task executes, "idle" when none
  pc,         \* where the task is
  target,     \* object whose method the task called last
  frames,     \* call stack of the recursive manager.start()
  order,      \* names an initAll/startAll/stopAll has still to visit
  thread      \* task that runs, NoTask when every task awaits

svcVars  == <<state, timer>>
regVars  == <<registry, gen>>
taskVars == <<op, pc, target, frames, order, thread>>
vars == <<regVars, svcVars, restarts, taskVars>>

Name(o) == o[1]
Registered == Range(registry)
Current(n) == <<n, gen[n]>>
IsRunning(n) == n \in Registered /\ state[Current(n)] = "running"
Created(o) == o[2] <= gen[Name(o)]

(***************************************************************************)
(* _getInitializationOrder: the names in the order a depth-first walk of   *)
(* the dependencies, roots taken in registration order, leaves them.       *)
(* seen is `visited' and out is `order'; fuel bounds the depth of the walk.*)
(***************************************************************************)
Walks == [seen : SUBSET Services, out : Seq(Services)]

(* The loop over names: the registered ones are visited one by one. *)
VisitEach(visit, names, w) ==
  LET after[i \in Nat] == IF i = 0 THEN w
                          ELSE IF names[i] \in Registered THEN visit[names[i], after[i - 1]]
                          ELSE after[i - 1]
  IN  after[Len(names)]

(* visit(n), where visit makes the calls inside it. *)
VisitWith(visit, n, w) ==
  IF n \in w.seen THEN w
  ELSE LET below == VisitEach(visit, Deps[n], [seen |-> w.seen \cup {n}, out |-> w.out])
       IN  [seen |-> below.seen, out |-> Append(below.out, n)]

Visit[fuel \in Nat] ==
  [v \in Services \X Walks |-> IF fuel = 0 THEN v[2] ELSE VisitWith(Visit[fuel - 1], v[1], v[2])]

(* Faulty variant: the order of registration, dependencies ignored. *)
RegistrationOrder == registry

InitializationOrder ==
  VisitEach(Visit[Cardinality(Services)], registry, [seen |-> {}, out |-> <<>>]).out

---------------------------------------------------------------------------
Init ==
  /\ registry = InitialRegistry
  /\ gen = [n \in Services |-> IF n \in Range(InitialRegistry) THEN 1 ELSE 0]
  /\ state = [o \in Objects |-> "created"]
  /\ timer = [o \in Objects |-> FALSE]
  /\ restarts = [o \in Objects |-> 0]
  /\ op = [t \in Tasks |-> "idle"]
  /\ pc = [t \in Tasks |-> "idle"]
  /\ target = [t \in Tasks |-> NoObject]
  /\ frames = [t \in Tasks |-> <<>>]
  /\ order = [t \in Tasks |-> <<>>]
  /\ thread = NoTask

(* The service call on o settles with result r, or o's hook p is awaited:  *)
(* either way the task gives the thread back.                              *)
Yield(t, o, p) ==
  /\ pc' = [pc EXCEPT ![t] = p]
  /\ target' = [target EXCEPT ![t] = o]
  /\ thread' = NoTask

Finish(t) ==
  /\ op' = [op EXCEPT ![t] = "idle"]
  /\ Yield(t, NoObject, "idle")
  /\ frames' = [frames EXCEPT ![t] = <<>>]
  /\ order' = [order EXCEPT ![t] = <<>>]

(* Faulty variant: _stopHealthCheck forgets clearInterval. *)
BecomesTimerKept(o, s, tm) ==
  /\ state' = [state EXCEPT ![o] = s]
  /\ timer' = [timer EXCEPT ![o] = @ \/ tm]

(* The state of o becomes s and its interval is set or cleared as tm says. *)
Becomes(o, s, tm) ==
  /\ state' = [state EXCEPT ![o] = s]
  /\ timer' = [timer EXCEPT ![o] = tm]

(* Faulty variant: start() does not refuse a service that is starting. *)
StartableTwice == {"ready", "stopped", "starting"}

Startable == {"ready", "stopped"}

(* Service.start() called on o when its state is s and its interval tm:    *)
(* the caller may just have reset the state (restart, crash).              *)
StartFrom(t, o, s, tm) ==
  \/ /\ s = "running"
     /\ Becomes(o, s, tm) /\ Yield(t, o, "ok")
  \/ /\ s \notin Startable \cup {"running"}
     /\ Becomes(o, s, tm) /\ Yield(t, o, "failed")
  \/ /\ s \in Startable /\ "start" \in Hooks[Name(o)]
     /\ Becomes(o, "starting", tm) /\ Yield(t, o, "start")
  \/ /\ s \in Startable /\ "start" \notin Hooks[Name(o)]
     /\ Becomes(o, "running", tm \/ Name(o) \in HealthChecked)
     /\ Yield(t, o, "ok")

StartService(t, o) == StartFrom(t, o, state[o], timer[o])

(* Service.stop() called on o *)
StopService(t, o) ==
  \/ /\ state[o] # "running"
     /\ Yield(t, o, "ok") /\ UNCHANGED svcVars
  \/ /\ state[o] = "running" /\ "stop" \in Hooks[Name(o)]
     /\ Becomes(o, "stopping", FALSE) /\ Yield(t, o, "stop")
  \/ /\ state[o] = "running" /\ "stop" \notin Hooks[Name(o)]
     /\ Becomes(o, "stopped", FALSE) /\ Yield(t, o, "ok")

(* Service.init() called on o, which initAll does only for created objects *)
InitService(t, o) ==
  \/ /\ "init" \in Hooks[Name(o)]
     /\ Becomes(o, "initializing", timer[o]) /\ Yield(t, o, "init")
  \/ /\ "init" \notin Hooks[Name(o)]
     /\ Becomes(o, "ready", timer[o]) /\ Yield(t, o, "ok")

---------------------------------------------------------------------------
(* Hooks settle: _executeWithTimeout and the code after the await          *)

Awaiting(t) == pc[t] \in Phases
Settled(t) == pc[t] \in {"ok", "failed"}

(* Faulty variant: stop() records the name of the operation for the state. *)
StateAfterTypo == [init |-> "ready", start |-> "running", stop |-> "stop"]

StateAfter == [init |-> "ready", start |-> "running", stop |-> "stopped"]

HookResolves(t) ==
  /\ thread = NoTask
  /\ Awaiting(t)
  /\ Becomes(target[t], StateAfter[pc[t]],
             timer[target[t]] \/ (pc[t] = "start" /\ Name(target[t]) \in HealthChecked))
  /\ pc' = [pc EXCEPT ![t] = "ok"]
  /\ UNCHANGED <<regVars, restarts, op, target, frames, order, thread>>

(* Faulty variant: the catch clause does not record the error. *)
HookFailsSilently(t) ==
  /\ thread = NoTask
  /\ Awaiting(t)
  /\ pc' = [pc EXCEPT ![t] = "failed"]
  /\ UNCHANGED <<regVars, svcVars, restarts, op, target, frames, order, thread>>

HookFails(t) ==
  /\ thread = NoTask
  /\ Awaiting(t)
  /\ Becomes(target[t], "error", timer[target[t]])
  /\ pc' = [pc EXCEPT ![t] = "failed"]
  /\ UNCHANGED <<regVars, restarts, op, target, frames, order, thread>>

HookRejects(t) == HookFails(t)
(* Faulty variant: hooks are awaited with no timeout. *)
NeverTimesOut(t) == FALSE /\ HookFails(t)

HookTimesOut(t) == HookFails(t)

---------------------------------------------------------------------------
(* manager.register(): synchronous, throws when the name is taken *)
Register(n) ==
  /\ thread = NoTask
  /\ n \notin Registered
  /\ gen[n] < MaxGen[n]
  /\ registry' = Append(registry, n)
  /\ gen' = [gen EXCEPT ![n] = @ + 1]
  /\ UNCHANGED <<svcVars, restarts, taskVars>>

Calls(t, o) ==
  /\ thread = NoTask
  /\ op[t] = "idle"
  /\ o \in Ops[t]

CallStart(t, n) ==
  /\ Calls(t, "start")
  /\ n \in Registered
  /\ op' = [op EXCEPT ![t] = "start"]
  /\ pc' = [pc EXCEPT ![t] = "walk"]
  /\ frames' = [frames EXCEPT ![t] = <<[obj |-> Current(n), dep |-> 0]>>]
  /\ thread' = t
  /\ UNCHANGED <<regVars, svcVars, restarts, target, order>>

(* Faulty variant: the walk passes over the first dependency. *)
MissingFromSecond(o, i) ==
  {j \in (i + 2)..Len(Deps[Name(o)]) :
     /\ AutoStartDependencies
     /\ Deps[Name(o)][j] \in Registered
     /\ ~IsRunning(Deps[Name(o)][j])}

(* The dependencies after the i-th of o's that manager.start() must start *)
Missing(o, i) ==
  {j \in (i + 1)..Len(Deps[Name(o)]) :
     /\ AutoStartDependencies
     /\ Deps[Name(o)][j] \in Registered
     /\ ~IsRunning(Deps[Name(o)][j])}

(* One step of the recursion: enter the next dependency that is not        *)
(* running, or start the service itself when none is left.  On a cycle of  *)
(* dependencies the recursion ends in a RangeError, which every frame      *)
(* rethrows.                                                               *)
Walk(t) ==
  LET top == Last(frames[t])
      missing == Missing(top.obj, top.dep)
  IN /\ thread = t
     /\ pc[t] = "walk"
     /\ \/ /\ Len(frames[t]) < MaxStack
           /\ \E j \in missing :
                /\ \A i \in missing : j <= i
                /\ frames' = [frames EXCEPT ![t] = Append(Front(@) \o <<[top EXCEPT !.dep = j]>>,
                     [obj |-> Current(Deps[Name(top.obj)][j]), dep |-> 0])]
           /\ UNCHANGED <<regVars, svcVars, restarts, op, pc, target, order, thread>>
        \/ /\ missing # {}
           /\ Len(frames[t]) >= MaxStack
           /\ Finish(t)
           /\ UNCHANGED <<regVars, svcVars, restarts>>
        \/ /\ missing = {}
           /\ StartService(t, top.obj)
           /\ UNCHANGED <<regVars, restarts, op, frames, order>>

ResumeStart(t) ==
  /\ thread = NoTask
  /\ op[t] = "start" /\ Settled(t)
  /\ \/ /\ pc[t] = "failed" \/ Len(frames[t]) = 1
        /\ Finish(t)
        /\ UNCHANGED <<regVars, svcVars, restarts>>
     \/ /\ pc[t] = "ok" /\ Len(frames[t]) > 1
        /\ frames' = [frames EXCEPT ![t] = Front(@)]
        /\ pc' = [pc EXCEPT ![t] = "walk"]
        /\ thread' = t
        /\ UNCHANGED <<regVars, svcVars, restarts, op, target, order>>

---------------------------------------------------------------------------
(* manager.stop() *)
CallStop(t, n) ==
  /\ Calls(t, "stop")
  /\ n \in Registered
  /\ op' = [op EXCEPT ![t] = "stop"]
  /\ StopService(t, Current(n))
  /\ UNCHANGED <<regVars, restarts, frames, order>>

(* Service.restart(), after the stop if there was one *)
ResetAndStart(t, o) ==
  /\ op' = [op EXCEPT ![t] = "restarting"]
  /\ StartFrom(t, o, IF state[o] \in {"stopped", "error"} THEN "ready" ELSE state[o],
               timer[o])

(* manager.restart() *)
CallRestart(t, n) ==
  /\ Calls(t, "restart")
  /\ n \in Registered
  /\ \/ /\ IsRunning(n)
        /\ op' = [op EXCEPT ![t] = "restart"]
        /\ StopService(t, Current(n))
     \/ /\ ~IsRunning(n)
        /\ ResetAndStart(t, Current(n))
  /\ UNCHANGED <<regVars, restarts, frames, order>>

ResumeRestart(t) ==
  /\ thread = NoTask
  /\ op[t] = "restart" /\ pc[t] = "ok"
  /\ ResetAndStart(t, target[t])
  /\ UNCHANGED <<regVars, restarts, frames, order>>

(* Map.delete(name): whatever object the name denotes by now *)
Delete(n) ==
  /\ registry' = IF n \in Registered
                 THEN RemoveAt(registry, CHOOSE i \in DOMAIN registry : registry[i] = n)
                 ELSE registry
  /\ UNCHANGED gen

(* manager.unregister() *)
CallUnregister(t, n) ==
  /\ Calls(t, "unregister")
  /\ n \in Registered
  /\ \/ /\ IsRunning(n)
        /\ op' = [op EXCEPT ![t] = "unregister"]
        /\ StopService(t, Current(n))
        /\ UNCHANGED <<regVars, frames, order>>
     \/ /\ ~IsRunning(n)
        /\ Delete(n)
        /\ UNCHANGED <<svcVars, taskVars>>
  /\ UNCHANGED restarts

ResumeUnregister(t) ==
  /\ thread = NoTask
  /\ op[t] = "unregister" /\ pc[t] = "ok"
  /\ Delete(Name(target[t]))
  /\ Finish(t)
  /\ UNCHANGED <<svcVars, restarts>>

(* The call that awaited a stop, a start or a failed step returns *)
Return(t) ==
  /\ thread = NoTask
  /\ \/ op[t] \in {"stop", "restarting", "crash"} /\ Settled(t)
     \/ op[t] \in {"restart", "unregister"} /\ pc[t] = "failed"
  /\ Finish(t)
  /\ UNCHANGED <<regVars, svcVars, restarts>>

---------------------------------------------------------------------------
(* initAll, startAll, stopAll: the order is computed once; each name is    *)
(* looked up and its state tested when its turn comes, failures are noted  *)
(* and passed over.                                                        *)
Takes == [initAll  |-> {"created"},
          startAll |-> {"ready", "stopped"},
          stopAll  |-> {"running"}]

CallService(t, which, o) ==
  CASE which = "initAll"  -> InitService(t, o)
    [] which = "startAll" -> StartService(t, o)
    [] which = "stopAll"  -> StopService(t, o)

Eligible(which, ord) ==
  {j \in DOMAIN ord : /\ ord[j] \in Registered
                      /\ state[Current(ord[j])] \in Takes[which]}

Proceed(t, which, ord) ==
  \/ /\ Eligible(which, ord) = {}
     /\ Finish(t)
     /\ UNCHANGED svcVars
  \/ \E j \in Eligible(which, ord) :
       /\ \A i \in Eligible(which, ord) : j <= i
       /\ op' = [op EXCEPT ![t] = which]
       /\ order' = [order EXCEPT ![t] = SubSeq(ord, j + 1, Len(ord))]
       /\ CallService(t, which, Current(ord[j]))
       /\ UNCHANGED frames

(* Faulty variant: stopAll forgets to reverse the order. *)
OrderForwards(which) == InitializationOrder

OrderOf(which) ==
  IF which = "stopAll" THEN Reverse(InitializationOrder) ELSE InitializationOrder

CallAll(t, which) ==
  /\ Calls(t, which)
  /\ Proceed(t, which, OrderOf(which))
  /\ UNCHANGED <<regVars, restarts>>

ResumeAll(t) ==
  /\ thread = NoTask
  /\ op[t] \in AllOps /\ Settled(t)
  /\ Proceed(t, op[t], order[t])
  /\ UNCHANGED <<regVars, restarts>>

---------------------------------------------------------------------------
(* Service.crash(), from whatever detects the crash, in any state *)
Crash(t, o) ==
  /\ Calls(t, "crash")
  /\ Created(o)
  /\ MapThenSumSet(LAMBDA p : restarts[p], Objects) < MaxCrashes
  /\ restarts' = [restarts EXCEPT ![o] = @ + 1]
  /\ \/ /\ Name(o) \in RestartOnCrash /\ restarts'[o] <= MaxRestarts
        /\ op' = [op EXCEPT ![t] = "crash"]
        /\ StartFrom(t, o, "ready", FALSE)
        /\ UNCHANGED <<frames, order>>
     \/ /\ ~(Name(o) \in RestartOnCrash /\ restarts'[o] <= MaxRestarts)
        /\ Becomes(o, "crashed", FALSE)
        /\ UNCHANGED taskVars
  /\ UNCHANGED regVars

---------------------------------------------------------------------------
Call(t) ==
  \/ \E n \in Services :
       \/ CallStart(t, n) \/ CallStop(t, n)
       \/ CallRestart(t, n) \/ CallUnregister(t, n)
  \/ \E which \in AllOps : CallAll(t, which)
  \/ \E o \in Objects : Crash(t, o)

Resume(t) ==
  \/ ResumeStart(t) \/ ResumeRestart(t) \/ ResumeUnregister(t)
  \/ ResumeAll(t) \/ Return(t)

Next ==
  \/ \E n \in Services : Register(n)
  \/ \E t \in Tasks :
       \/ Call(t) \/ Walk(t) \/ Resume(t)
       \/ HookResolves(t) \/ HookRejects(t) \/ HookTimesOut(t)

Spec == Init /\ [][Next]_vars

(* The event loop runs every queued continuation and every expired timer,  *)
(* first come first served; nothing makes a hook settle, or a caller call. *)
Fairness ==
  \A t \in Tasks : /\ WF_vars(Walk(t))
                   /\ SF_vars(Resume(t))
                   /\ SF_vars(HookTimesOut(t))

FairSpec == Spec /\ Fairness

---------------------------------------------------------------------------
(* Types of the variables; that of `order' follows from what the walk of   *)
(* the dependencies returns.                                               *)
Frame == [obj : Objects, dep : Nat]

OrderOK == order \in [Tasks -> Seq(Services)]

RegistryType ==
  /\ registry \in Seq(Services)
  /\ gen \in [Services -> Nat]
  /\ \A n \in Services : gen[n] <= MaxGen[n]
  /\ \A n \in Registered : gen[n] > 0

ServiceType ==
  /\ state \in [Objects -> States]
  /\ timer \in [Objects -> BOOLEAN]
  /\ restarts \in [Objects -> Nat]

TaskType ==
  /\ op \in [Tasks -> TaskOps \cup {"idle"}]
  /\ pc \in [Tasks -> Phases \cup {"idle", "walk", "ok", "failed"}]
  /\ target \in [Tasks -> Objects \cup {NoObject}]
  /\ frames \in [Tasks -> Seq(Frame)]
  /\ thread \in Tasks \cup {NoTask}
  /\ \A t \in Tasks :
       /\ op[t] = "idle" <=> pc[t] = "idle"
       /\ pc[t] \notin {"idle", "walk"} => target[t] \in Objects
       /\ pc[t] = "walk" <=> thread = t
       /\ pc[t] = "walk" => op[t] = "start"
       /\ op[t] = "start" => frames[t] # <<>>

(* Every variable has its type; a registered name has a registered object; *)
(* a task that awaits or walks has what it needs, and the task that walks  *)
(* is the one that holds the thread.                                       *)
TypeOK == RegistryType /\ ServiceType /\ TaskType

TypesOK == TypeOK /\ OrderOK

(* The state in which a service is while each of its hooks is awaited. *)
During == [init |-> "initializing", start |-> "starting", stop |-> "stopping"]
Transitional == {"initializing", "starting", "stopping"}

(* Lifecycle operations exclude each other on a service that never         *)
(* crashed: a task that awaits a hook of it is the only one, and the       *)
(* service's state says which hook.  Crashed or not, no service is left    *)
(* behind in a transitional state that no task is going to end.            *)
Exclusive ==
  /\ \A t \in Tasks :
       Awaiting(t) /\ restarts[target[t]] = 0 =>
         /\ state[target[t]] = During[pc[t]]
         /\ \A u \in Tasks \ {t} : Awaiting(u) => target[u] # target[t]
  /\ \A o \in Objects :
       state[o] \in Transitional => \E t \in Tasks : Awaiting(t) /\ target[t] = o

(* A running service with a health check is monitored, and one that never  *)
(* crashed is monitored only while it runs: no path through start, stop,   *)
(* restart and their failures leaks or loses the interval.                 *)
Monitored ==
  \A o \in Objects :
    /\ state[o] = "running" /\ Name(o) \in HealthChecked => timer[o]
    /\ timer[o] /\ restarts[o] = 0 => state[o] = "running"

(* manager.start() begins to start a service only when each dependency     *)
(* registered all along, and never reported crashed, has been started      *)
(* before, however many starts, stops and failures run at the same time.   *)
(* (A crash restarts a service under a pending init hook, whose end makes  *)
(* it ready again.)                                                        *)
BeginsStart(o) ==
  state[o] \in Startable /\ state'[o] \in {"starting", "running"}

HasStarted(o) == state[o] \notin {"created", "initializing", "ready"}

StartsAfterDependencies ==
  [][\A t \in Tasks, o \in Objects :
       op[t] = "start" /\ pc[t] = "walk" /\ pc'[t] # "walk" /\ BeginsStart(o)
         /\ AutoStartDependencies =>
           \A d \in Range(Deps[Name(o)]) \cap Range(InitialRegistry) \cap Registered :
             gen[d] = 1 /\ restarts[Current(d)] = 0 => HasStarted(Current(d))]_vars

(* Every call of the manager returns: a hook that never settles is cut off *)
(* by its timeout, and every continuation gets its turn.                   *)
CallsReturn == \A t \in Tasks : op[t] # "idle" ~> op[t] = "idle"

(* The order of initAll and startAll holds every registered service once   *)
(* and, unless dependencies form a longer cycle, each after the other      *)
(* registered services it depends on.                                      *)
Topological ==
  LET ord == InitializationOrder
  IN /\ IsInjective(ord)
     /\ Range(ord) = Registered
     /\ \A i, j \in DOMAIN ord : i # j /\ ord[i] \in Range(Deps[ord[j]]) => i < j

(* With no other call in progress and no crash so far, stopAll ends a      *)
(* service only when no other registered service that depends on it runs,  *)
(* and leaves none running.                                                *)
StopAllInOrder ==
  [][\A t \in Tasks : "stopAll" \in {op[t], op'[t]} /\ (\A o \in Objects : restarts'[o] = 0) =>
       /\ \A n \in Registered :
            IsRunning(n) /\ ~IsRunning(n)' =>
              \A m \in Registered \ {n} : n \in Range(Deps[m]) => ~IsRunning(m)
       /\ op'[t] = "idle" => \A n \in Registered : ~IsRunning(n)']_vars

(* The task that awaits a hook of o, if any. *)
Owner(o) ==
  IF \E t \in Tasks : Awaiting(t) /\ target[t] = o
  THEN CHOOSE t \in Tasks : Awaiting(t) /\ target[t] = o
  ELSE NoTask

Contract == INSTANCE ServiceContract WITH
  Nobody <- NoTask, st <- state, owner <- [o \in Objects |-> Owner(o)]

(* The services, as long as none crashes, keep the contract of             *)
(* ServiceContract: each awaited operation has one owner, and begins and   *)
(* ends in the states the contract allows.                                 *)
KeepsContract == Contract!Spec
=============================================================================
