----------------------- MODULE ServiceLifecycleProofs -----------------------
(***************************************************************************)
(* Proofs about ServiceLifecycle, for any services, dependencies, hooks    *)
(* and number of concurrent calls.  TypeOK is inductive by itself; the     *)
(* exclusion of lifecycle operations and the monitoring of running         *)
(* services are then preserved together: that a settling start or stop     *)
(* finds the timer as it left it depends on no other operation having      *)
(* touched the service meanwhile.                                          *)
(***************************************************************************)
EXTENDS ServiceLifecycle, FiniteSetTheorems, SequenceTheorems, WellFoundedInduction, TLAPS

(* A registered name denotes an object; an object has a service's name. *)
LEMMA CurrentIsObject ==
  ASSUME TypeOK, NEW n \in Registered
  PROVE  n \in Services /\ Current(n) \in Objects /\ Name(Current(n)) = n
<1>1. n \in Services
  BY RangeOfSeq DEF TypeOK, RegistryType, Registered
<1>2. gen[n] \in 1..MaxGen[n]
  BY <1>1, ServicesAssumption DEF TypeOK, RegistryType
<1> QED
  BY <1>1, <1>2 DEF Objects, Current, Name

LEMMA NameOfObject ==
  ASSUME NEW o \in Objects
  PROVE  Name(o) \in Services
BY DEF Objects, Name

---------------------------------------------------------------------------
(* What the building blocks of the actions do to the variables' types *)

LEMMA BecomesType ==
  ASSUME ServiceType, NEW o \in Objects, NEW s \in States, NEW tm \in BOOLEAN,
         Becomes(o, s, tm)
  PROVE  state' \in [Objects -> States] /\ timer' \in [Objects -> BOOLEAN]
BY DEF ServiceType, Becomes

(* A task that calls a service's method, or ends, gives the thread back. *)
LEMMA YieldType ==
  ASSUME TypeOK, NEW t \in Tasks, thread \in {t, NoTask},
         NEW o \in Objects, NEW p \in Phases \cup {"ok", "failed"},
         NEW x \in TaskOps, op' = [op EXCEPT ![t] = x],
         Yield(t, o, p), UNCHANGED frames, x = "start" => frames[t] # <<>>
  PROVE  TaskType'
BY ServicesAssumption DEF TypeOK, TaskType, Yield, Phases, TaskOps, AllOps

LEMMA FinishType ==
  ASSUME TypeOK, NEW t \in Tasks, thread \in {t, NoTask}, Finish(t)
  PROVE  TaskType'
<1>1. <<>> \in Seq(Frame)
  OBVIOUS
<1> QED
  BY <1>1, ServicesAssumption DEF TypeOK, TaskType, Finish, Yield, Phases, TaskOps, AllOps

LEMMA StartFromType ==
  ASSUME TypeOK, NEW t \in Tasks, NEW o \in Objects, NEW s \in States,
         NEW tm \in BOOLEAN, StartFrom(t, o, s, tm)
  PROVE  /\ state' \in [Objects -> States] /\ timer' \in [Objects -> BOOLEAN]
         /\ \E p \in Phases \cup {"ok", "failed"} : Yield(t, o, p)
<1>1. (tm \/ Name(o) \in HealthChecked) \in BOOLEAN
  OBVIOUS
<1>2. PICK r \in States, b \in BOOLEAN : Becomes(o, r, b)
  BY <1>1 DEF StartFrom, States
<1>3. state' \in [Objects -> States] /\ timer' \in [Objects -> BOOLEAN]
  BY <1>2, BecomesType DEF TypeOK
<1>4. \E p \in Phases \cup {"ok", "failed"} : Yield(t, o, p)
  BY DEF StartFrom, Phases
<1> QED
  BY <1>3, <1>4

LEMMA StopServiceType ==
  ASSUME TypeOK, NEW t \in Tasks, NEW o \in Objects, StopService(t, o)
  PROVE  /\ state' \in [Objects -> States] /\ timer' \in [Objects -> BOOLEAN]
         /\ \E p \in Phases \cup {"ok", "failed"} : Yield(t, o, p)
BY BecomesType DEF TypeOK, ServiceType, StopService, svcVars, States, Phases

LEMMA InitServiceType ==
  ASSUME TypeOK, NEW t \in Tasks, NEW o \in Objects, InitService(t, o)
  PROVE  /\ state' \in [Objects -> States] /\ timer' \in [Objects -> BOOLEAN]
         /\ \E p \in Phases \cup {"ok", "failed"} : Yield(t, o, p)
BY BecomesType DEF TypeOK, ServiceType, InitService, States, Phases

LEMMA ResetAndStartType ==
  ASSUME TypeOK, NEW t \in Tasks, NEW o \in Objects, thread \in {t, NoTask},
         ResetAndStart(t, o), UNCHANGED <<restarts, frames>>
  PROVE  ServiceType' /\ TaskType'
<1> DEFINE s == IF state[o] \in {"stopped", "error"} THEN "ready" ELSE state[o]
<1>1. s \in States /\ timer[o] \in BOOLEAN
  BY DEF TypeOK, ServiceType, States
<1>2. StartFrom(t, o, s, timer[o])
  BY DEF ResetAndStart
<1> HIDE DEF s
<1>3. PICK p \in Phases \cup {"ok", "failed"} : Yield(t, o, p)
  BY <1>1, <1>2, StartFromType
<1>4. ServiceType'
  BY <1>1, <1>2, StartFromType DEF TypeOK, ServiceType
<1> QED
  BY <1>3, <1>4, YieldType DEF ResetAndStart, TaskOps

---------------------------------------------------------------------------
(* One lemma per operation *)

LEMMA TypeRegister ==
  ASSUME TypeOK, NEW n \in Services, Register(n)
  PROVE  TypeOK'
<1>1. Registered' = Registered \cup {n}
  <2>1. registry \in Seq(Services) /\ <<n>> \in Seq(Services)
    BY DEF TypeOK, RegistryType
  <2>2. registry' = registry \o <<n>>
    BY <2>1, AppendIsConcat DEF Register
  <2>3. Range(<<n>>) = {n}
    BY DEF Range
  <2>4. Range(registry \o <<n>>) = Range(registry) \cup Range(<<n>>)
    BY <2>1, RangeConcatenation
  <2> QED
    BY <2>2, <2>3, <2>4 DEF Registered
<1>2. RegistryType'
  <2>1. registry' \in Seq(Services)
    BY DEF TypeOK, RegistryType, Register
  <2>2. gen[n] \in Nat /\ MaxGen[n] \in Nat
    BY ServicesAssumption DEF TypeOK, RegistryType
  <2>3. gen' \in [Services -> Nat] /\ \A m \in Services : gen'[m] <= MaxGen[m]
    BY <2>2 DEF TypeOK, RegistryType, Register
  <2>4. \A m \in Registered' : gen'[m] > 0
    BY <1>1, <2>2, CurrentIsObject DEF TypeOK, RegistryType, Register
  <2> QED
    BY <2>1, <2>3, <2>4 DEF RegistryType
<1>3. ServiceType'
  BY DEF TypeOK, ServiceType, Register, svcVars
<1>4. TaskType'
  BY DEF TypeOK, TaskType, Register, taskVars
<1> QED
  BY <1>2, <1>3, <1>4 DEF TypeOK

LEMMA DeleteShrinks ==
  ASSUME TypeOK, NEW n, Delete(n)
  PROVE  registry' \in Seq(Services) /\ Registered' \subseteq Registered
<1>1. CASE n \notin Registered
  BY <1>1 DEF TypeOK, RegistryType, Delete, Registered
<1>2. CASE n \in Registered
  <2> DEFINE i == CHOOSE i \in DOMAIN registry : registry[i] = n
  <2>1. i \in 1..Len(registry) /\ registry \in Seq(Services)
    BY <1>2 DEF TypeOK, RegistryType, Registered, Range
  <2>2. registry' = SubSeq(registry, 1, i - 1) \o SubSeq(registry, i + 1, Len(registry))
    BY <1>2 DEF Delete, RemoveAt
  <2> HIDE DEF i
  <2>3. Range(registry') \subseteq Range(registry)
    <3> DEFINE u == SubSeq(registry, 1, i - 1)
               v == SubSeq(registry, i + 1, Len(registry))
               T == Range(registry)
    <3>1. \A j \in 1..Len(registry) : registry[j] \in T
      BY <2>1 DEF Range
    <3>2. u \in Seq(T) /\ v \in Seq(T)
      BY <2>1, <3>1, SubSeqProperties
    <3> HIDE DEF u, v, T
    <3>3. Range(u \o v) \subseteq T
      BY <3>2, ConcatProperties, RangeOfSeq
    <3>4. registry' = u \o v
      BY <2>2 DEF u, v
    <3> QED
      BY <3>3, <3>4 DEF T
  <2>4. registry' \in Seq(Services)
    BY <2>1, <2>2, SubSeqProperties
  <2> QED
    BY <2>3, <2>4 DEF Registered
<1> QED
  BY <1>1, <1>2

LEMMA TypeDelete ==
  ASSUME TypeOK, NEW n, Delete(n)
  PROVE  RegistryType'
BY DeleteShrinks DEF TypeOK, RegistryType, Delete

LEMMA TypeCallStart ==
  ASSUME TypeOK, NEW t \in Tasks, NEW n \in Services, CallStart(t, n)
  PROVE  TypeOK'
<1>1. Current(n) \in Objects
  BY CurrentIsObject DEF CallStart
<1>2. <<[obj |-> Current(n), dep |-> 0]>> \in Seq(Frame) \ {<<>>}
  BY <1>1 DEF Frame
<1>3. TaskType'
  BY <1>2, ServicesAssumption
  DEF TypeOK, TaskType, CallStart, Calls, Phases, TaskOps, AllOps
<1> QED
  BY <1>3 DEF TypeOK, RegistryType, ServiceType, CallStart, regVars, svcVars, Registered

(* The walk's next dependency is registered, so it denotes an object. *)
LEMMA TypeWalk ==
  ASSUME TypeOK, NEW t \in Tasks, Walk(t)
  PROVE  TypeOK'
<1> DEFINE top == Last(frames[t])
           missing == Missing(top.obj, top.dep)
<1>1. /\ thread = t /\ pc[t] = "walk" /\ op[t] = "start"
      /\ frames[t] \in Seq(Frame) /\ frames[t] # <<>>
  BY DEF Walk, TypeOK, TaskType
<1>2. top \in Frame
  BY <1>1 DEF Last
<1>3. RegistryType'
  BY DEF Walk, TypeOK, RegistryType, regVars, Registered
<1>4. CASE missing # {} /\ Len(frames[t]) < MaxStack
  <2> DEFINE fs(j) == Append(Front(frames[t]) \o <<[top EXCEPT !.dep = j]>>,
                             [obj |-> Current(Deps[Name(top.obj)][j]), dep |-> 0])
  <2>0. ~(Len(frames[t]) >= MaxStack)
    BY <1>1, <1>4, ServicesAssumption
  <2>1. PICK j \in missing : frames' = [frames EXCEPT ![t] = fs(j)]
    BY <1>4, <2>0, Zenon DEF Walk
  <2>2. Deps[Name(top.obj)][j] \in Registered /\ j \in Nat
    BY <1>2, <2>1 DEF Missing, Frame
  <2>3. [obj |-> Current(Deps[Name(top.obj)][j]), dep |-> 0] \in Frame
    BY <2>2, CurrentIsObject DEF Frame
  <2>4. [top EXCEPT !.dep = j] \in Frame
    BY <1>2, <2>2 DEF Frame
  <2>5. Front(frames[t]) \in Seq(Frame)
    BY <1>1 DEF Front
  <2>6. fs(j) \in Seq(Frame) /\ fs(j) # <<>>
    BY <2>3, <2>4, <2>5, AppendProperties
  <2> HIDE DEF fs
  <2>7. TaskType'
    BY <1>1, <1>4, <2>1, <2>6, ServicesAssumption DEF Walk, TypeOK, TaskType
  <2> QED
    BY <1>3, <1>4, <2>7 DEF Walk, TypeOK, ServiceType, svcVars
<1>5. CASE missing # {} /\ Len(frames[t]) >= MaxStack
  <2>1. Finish(t) /\ UNCHANGED <<svcVars, restarts>>
    BY <1>1, <1>5, ServicesAssumption DEF Walk
  <2> QED
    BY <1>1, <1>3, <2>1, FinishType DEF TypeOK, ServiceType, svcVars
<1>6. CASE missing = {}
  <2>1. StartFrom(t, top.obj, state[top.obj], timer[top.obj])
    BY <1>6 DEF Walk, StartService
  <2>2. top.obj \in Objects /\ state[top.obj] \in States /\ timer[top.obj] \in BOOLEAN
    BY <1>2 DEF Frame, TypeOK, ServiceType
  <2>3. PICK p \in Phases \cup {"ok", "failed"} : Yield(t, top.obj, p)
    BY <2>1, <2>2, StartFromType
  <2>4. UNCHANGED <<op, frames, restarts>>
    BY <1>6 DEF Walk
  <2>5. op' = [op EXCEPT ![t] = "start"]
    BY <1>1, <2>4 DEF TypeOK, TaskType
  <2>6. TaskType'
    BY <1>1, <2>2, <2>3, <2>4, <2>5, YieldType DEF TaskOps
  <2>7. ServiceType'
    BY <2>1, <2>2, <2>4, StartFromType DEF TypeOK, ServiceType
  <2> QED
    BY <1>3, <2>6, <2>7 DEF TypeOK
<1> QED
  BY <1>4, <1>5, <1>6 DEF Walk

LEMMA TypeResumeStart ==
  ASSUME TypeOK, NEW t \in Tasks, ResumeStart(t)
  PROVE  TypeOK'
<1>1. RegistryType' /\ ServiceType'
  BY DEF ResumeStart, TypeOK, RegistryType, ServiceType, regVars, svcVars, Registered
<1>2. CASE Finish(t)
  BY <1>1, <1>2, FinishType DEF ResumeStart, TypeOK
<1>3. CASE pc[t] = "ok" /\ Len(frames[t]) > 1 /\ ~Finish(t)
  <2>1. frames[t] \in Seq(Frame) /\ Len(frames[t]) > 1
    BY <1>3 DEF TypeOK, TaskType
  <2> DEFINE below == Front(frames[t])
  <2>2. below \in Seq(Frame) /\ below # <<>>
    <3>1. below \in Seq(Frame) /\ Len(below) = Len(frames[t]) - 1
      BY <2>1, SubSeqProperties DEF Front
    <3> QED
      BY <2>1, <3>1
  <2>3. /\ thread = NoTask /\ op[t] = "start" /\ UNCHANGED <<op, target>>
        /\ frames' = [frames EXCEPT ![t] = below]
        /\ pc' = [pc EXCEPT ![t] = "walk"] /\ thread' = t
    BY <1>3 DEF ResumeStart
  <2> HIDE DEF below
  <2>4. TaskType'
    BY <2>2, <2>3, ServicesAssumption DEF TypeOK, TaskType
  <2> QED
    BY <1>1, <2>4 DEF TypeOK
<1> QED
  BY <1>2, <1>3 DEF ResumeStart

LEMMA TypeCallStop ==
  ASSUME TypeOK, NEW t \in Tasks, NEW n \in Services, CallStop(t, n)
  PROVE  TypeOK'
<1>1. Current(n) \in Objects
  BY CurrentIsObject DEF CallStop
<1>2. PICK p \in Phases \cup {"ok", "failed"} : Yield(t, Current(n), p)
  BY <1>1, StopServiceType DEF CallStop
<1>3. TaskType'
  BY <1>1, <1>2, YieldType DEF CallStop, Calls, TaskOps
<1>4. ServiceType'
  BY <1>1, StopServiceType DEF CallStop, TypeOK, ServiceType
<1> QED
  BY <1>3, <1>4 DEF CallStop, TypeOK, RegistryType, regVars, Registered

LEMMA TypeCallRestart ==
  ASSUME TypeOK, NEW t \in Tasks, NEW n \in Services, CallRestart(t, n)
  PROVE  TypeOK'
<1>1. Current(n) \in Objects
  BY CurrentIsObject DEF CallRestart
<1>2. RegistryType' /\ UNCHANGED <<restarts, frames>> /\ thread = NoTask
  BY DEF CallRestart, Calls, TypeOK, RegistryType, regVars, Registered
<1>3. CASE ResetAndStart(t, Current(n))
  BY <1>1, <1>2, <1>3, ResetAndStartType DEF TypeOK
<1>4. CASE op' = [op EXCEPT ![t] = "restart"] /\ StopService(t, Current(n))
  <2>1. PICK p \in Phases \cup {"ok", "failed"} : Yield(t, Current(n), p)
    BY <1>1, <1>4, StopServiceType
  <2>2. TaskType'
    BY <1>1, <1>2, <1>4, <2>1, YieldType DEF TaskOps
  <2>3. ServiceType'
    BY <1>1, <1>2, <1>4, StopServiceType DEF TypeOK, ServiceType
  <2> QED
    BY <1>2, <2>2, <2>3 DEF TypeOK
<1> QED
  BY <1>3, <1>4 DEF CallRestart

LEMMA TypeResumeRestart ==
  ASSUME TypeOK, NEW t \in Tasks, ResumeRestart(t)
  PROVE  TypeOK'
<1>1. target[t] \in Objects /\ thread = NoTask /\ UNCHANGED <<restarts, frames>>
  BY DEF ResumeRestart, TypeOK, TaskType
<1>2. ServiceType' /\ TaskType'
  BY <1>1, ResetAndStartType DEF ResumeRestart
<1> QED
  BY <1>2 DEF ResumeRestart, TypeOK, RegistryType, regVars, Registered

LEMMA TypeCallUnregister ==
  ASSUME TypeOK, NEW t \in Tasks, NEW n \in Services, CallUnregister(t, n)
  PROVE  TypeOK'
<1>1. Current(n) \in Objects
  BY CurrentIsObject DEF CallUnregister
<1>2. CASE Delete(n) /\ UNCHANGED <<svcVars, taskVars, restarts>>
  BY <1>2, TypeDelete DEF TypeOK, ServiceType, TaskType, svcVars, taskVars
<1>3. CASE /\ op' = [op EXCEPT ![t] = "unregister"]
           /\ StopService(t, Current(n))
           /\ UNCHANGED <<regVars, frames, order, restarts>>
  <2>1. PICK p \in Phases \cup {"ok", "failed"} : Yield(t, Current(n), p)
    BY <1>1, <1>3, StopServiceType
  <2>2. TaskType'
    BY <1>1, <1>3, <2>1, YieldType DEF TaskOps, CallUnregister, Calls
  <2>3. ServiceType'
    BY <1>1, <1>3, StopServiceType DEF TypeOK, ServiceType
  <2> QED
    BY <1>3, <2>2, <2>3 DEF TypeOK, RegistryType, regVars, Registered
<1> QED
  BY <1>2, <1>3 DEF CallUnregister

LEMMA TypeResumeUnregister ==
  ASSUME TypeOK, NEW t \in Tasks, ResumeUnregister(t)
  PROVE  TypeOK'
<1>1. RegistryType'
  BY TypeDelete DEF ResumeUnregister
<1>2. TaskType'
  BY FinishType DEF ResumeUnregister
<1> QED
  BY <1>1, <1>2 DEF ResumeUnregister, TypeOK, ServiceType, svcVars

LEMMA TypeReturn ==
  ASSUME TypeOK, NEW t \in Tasks, Return(t)
  PROVE  TypeOK'
<1>1. TaskType'
  BY FinishType DEF Return
<1> QED
  BY <1>1 DEF Return, TypeOK, RegistryType, ServiceType, regVars, svcVars, Registered

(* The visits of initAll, startAll and stopAll, wherever they stand. *)
LEMMA TypeProceed ==
  ASSUME TypeOK, NEW t \in Tasks, NEW which \in AllOps, NEW ord,
         thread = NoTask, Proceed(t, which, ord), UNCHANGED <<regVars, restarts>>
  PROVE  TypeOK'
<1>1. RegistryType'
  BY DEF TypeOK, RegistryType, regVars, Registered
<1>2. CASE Finish(t) /\ UNCHANGED svcVars
  BY <1>1, <1>2, FinishType DEF TypeOK, ServiceType, svcVars
<1>3. ASSUME NEW j \in Eligible(which, ord),
             op' = [op EXCEPT ![t] = which], UNCHANGED frames,
             CallService(t, which, Current(ord[j]))
      PROVE  TypeOK'
  <2> DEFINE o == Current(ord[j])
  <2>1. o \in Objects /\ state[o] \in States /\ timer[o] \in BOOLEAN
    BY CurrentIsObject DEF Eligible, TypeOK, ServiceType
  <2>2. \/ InitService(t, o)
        \/ StopService(t, o)
        \/ StartFrom(t, o, state[o], timer[o])
    BY <1>3 DEF CallService, StartService, AllOps
  <2> HIDE DEF o
  <2>3. /\ state' \in [Objects -> States] /\ timer' \in [Objects -> BOOLEAN]
        /\ \E p \in Phases \cup {"ok", "failed"} : Yield(t, o, p)
    BY <2>1, <2>2, InitServiceType, StopServiceType, StartFromType
  <2>4. TaskType'
    BY <1>3, <2>1, <2>3, YieldType DEF TaskOps, AllOps
  <2>5. ServiceType'
    BY <2>3 DEF TypeOK, ServiceType
  <2> QED
    BY <1>1, <2>4, <2>5 DEF TypeOK
<1> QED
  BY <1>2, <1>3 DEF Proceed

LEMMA TypeCrash ==
  ASSUME TypeOK, NEW t \in Tasks, NEW o \in Objects, Crash(t, o)
  PROVE  TypeOK'
<1>1. RegistryType' /\ restarts' \in [Objects -> Nat]
  BY DEF Crash, TypeOK, RegistryType, ServiceType, regVars, Registered
<1>2. CASE /\ op' = [op EXCEPT ![t] = "crash"]
           /\ StartFrom(t, o, "ready", FALSE)
           /\ UNCHANGED <<frames, order>>
  <2>1. "ready" \in States /\ FALSE \in BOOLEAN
    BY DEF States
  <2>2. PICK p \in Phases \cup {"ok", "failed"} : Yield(t, o, p)
    BY <1>2, <2>1, StartFromType
  <2>3. TaskType'
    BY <1>2, <2>2, YieldType DEF TaskOps, Crash, Calls
  <2> QED
    BY <1>1, <1>2, <2>1, <2>3, StartFromType DEF TypeOK, ServiceType
<1>3. CASE Becomes(o, "crashed", FALSE) /\ UNCHANGED taskVars
  <2>1. "crashed" \in States /\ FALSE \in BOOLEAN
    BY DEF States
  <2>2. state' \in [Objects -> States] /\ timer' \in [Objects -> BOOLEAN]
    BY <1>3, <2>1, BecomesType DEF TypeOK
  <2> QED
    BY <1>1, <1>3, <2>2 DEF TypeOK, ServiceType, TaskType, taskVars
<1> QED
  BY <1>2, <1>3 DEF Crash

LEMMA TypeHook ==
  ASSUME TypeOK, NEW t \in Tasks, HookResolves(t) \/ HookFails(t)
  PROVE  TypeOK'
<1>1. Awaiting(t) /\ thread = NoTask /\ UNCHANGED <<regVars, restarts, op, target, frames, thread>>
  BY DEF HookResolves, HookFails
<1>2. target[t] \in Objects /\ pc[t] \in {"init", "start", "stop"}
  BY <1>1 DEF Awaiting, Phases, TypeOK, TaskType
<1>3. StateAfter[pc[t]] \in States /\ "error" \in States
  BY <1>2 DEF StateAfter, States
<1>4. PICK s \in States, tm \in BOOLEAN : Becomes(target[t], s, tm)
  <2>1. CASE HookResolves(t)
    BY <1>2, <1>3, <2>1 DEF HookResolves, TypeOK, ServiceType
  <2>2. CASE HookFails(t)
    BY <1>2, <1>3, <2>2 DEF HookFails, TypeOK, ServiceType
  <2> QED
    BY <2>1, <2>2
<1>5. ServiceType'
  BY <1>1, <1>2, <1>4, BecomesType DEF TypeOK, ServiceType
<1>6. TaskType'
  BY <1>1, <1>2, ServicesAssumption
  DEF HookResolves, HookFails, TypeOK, TaskType, Phases
<1> QED
  BY <1>1, <1>5, <1>6 DEF TypeOK, RegistryType, regVars, Registered

---------------------------------------------------------------------------
LEMMA TypeInit == Init => TypeOK
<1> SUFFICES ASSUME Init PROVE TypeOK
  OBVIOUS
<1>1. RegistryType
  BY ServicesAssumption, RangeOfSeq DEF Init, RegistryType, Registered
<1>2. ServiceType
  BY DEF Init, ServiceType, States
<1>3. TaskType
  <2>1. <<>> \in Seq(Frame)
    OBVIOUS
  <2> QED
    BY <2>1, ServicesAssumption DEF Init, TaskType
<1> QED
  BY <1>1, <1>2, <1>3 DEF TypeOK

LEMMA TypeStep == TypeOK /\ [Next]_vars => TypeOK'
<1> SUFFICES ASSUME TypeOK, [Next]_vars PROVE TypeOK'
  OBVIOUS
<1>1. ASSUME NEW n \in Services, Register(n) PROVE TypeOK'
  BY <1>1, TypeRegister
<1>2. ASSUME NEW t \in Tasks, Call(t) PROVE TypeOK'
  <2>1. ASSUME NEW which \in AllOps, CallAll(t, which) PROVE TypeOK'
    <3>1. thread = NoTask /\ Proceed(t, which, OrderOf(which)) /\ UNCHANGED <<regVars, restarts>>
      BY <2>1 DEF CallAll, Calls
    <3> QED
      BY <3>1, TypeProceed
  <2> QED
    BY <1>2, <2>1, TypeCallStart, TypeCallStop, TypeCallRestart, TypeCallUnregister,
       TypeCrash DEF Call
<1>3. ASSUME NEW t \in Tasks, Resume(t) PROVE TypeOK'
  <2>1. ASSUME ResumeAll(t) PROVE TypeOK'
    <3>1. /\ thread = NoTask /\ op[t] \in AllOps
          /\ Proceed(t, op[t], order[t]) /\ UNCHANGED <<regVars, restarts>>
      BY <2>1 DEF ResumeAll
    <3> QED
      BY <3>1, TypeProceed
  <2> QED
    BY <1>3, <2>1, TypeResumeStart, TypeResumeRestart, TypeResumeUnregister, TypeReturn
    DEF Resume
<1>4. ASSUME NEW t \in Tasks, Walk(t) \/ HookResolves(t) \/ HookFails(t) PROVE TypeOK'
  BY <1>4, TypeWalk, TypeHook
<1>5. CASE UNCHANGED vars
  BY <1>5 DEF vars, regVars, svcVars, taskVars, TypeOK, RegistryType, ServiceType,
              TaskType, Registered
<1> QED
  BY <1>1, <1>2, <1>3, <1>4, <1>5 DEF Next, HookRejects, HookTimesOut

(* Every reachable state is well typed; in particular only the task that   *)
(* holds the thread is in the middle of the recursive manager.start().     *)
THEOREM TypeCorrect == Spec => []TypeOK
BY TypeInit, TypeStep, PTL DEF Spec

---------------------------------------------------------------------------
(* Exclusion and monitoring.  A step that moves only tasks that await no   *)
(* hook, and no service, disturbs neither.                                 *)
LEMMA QuietStep ==
  ASSUME Exclusive, Monitored, UNCHANGED <<state, timer, restarts>>,
         \A u \in Tasks : /\ Awaiting(u)' <=> Awaiting(u)
                          /\ Awaiting(u) => pc'[u] = pc[u] /\ target'[u] = target[u]
  PROVE  Exclusive' /\ Monitored'
<1>1. Exclusive'
  BY DEF Exclusive
<1>2. Monitored'
  BY DEF Monitored
<1> QED
  BY <1>1, <1>2

(* Task t, which awaits nothing, calls a method of o: o becomes s and t    *)
(* awaits hook p, or goes on at once.  restarts changes if this is a crash.*)
LEMMA CallStep ==
  ASSUME TypeOK, Exclusive, Monitored,
         NEW t \in Tasks, ~Awaiting(t), NEW o \in Objects,
         NEW s \in States, NEW tm \in BOOLEAN, NEW p \in Phases \cup {"ok", "failed"},
         Becomes(o, s, tm), Yield(t, o, p),
         \A q \in Objects \ {o} : restarts'[q] = restarts[q],
         restarts'[o] = 0 => restarts[o] = 0,
         p \in Phases => s = During[p],
         p \notin Phases => s \notin Transitional \/ s = state[o],
         restarts'[o] = 0 /\ (p \in Phases \/ s # state[o]) => state[o] \notin Transitional,
         s = "running" /\ Name(o) \in HealthChecked => tm,
         restarts'[o] = 0 /\ tm => s = "running"
  PROVE  Exclusive' /\ Monitored'
<1>1. /\ state' = [state EXCEPT ![o] = s] /\ timer' = [timer EXCEPT ![o] = tm]
      /\ pc' = [pc EXCEPT ![t] = p] /\ target' = [target EXCEPT ![t] = o]
  BY DEF Becomes, Yield
<1>2. \A u \in Tasks : Awaiting(u) =>
        target[u] \in Objects /\ During[pc[u]] \in Transitional
  BY DEF TypeOK, TaskType, Awaiting, Phases, During, Transitional
<1>3. \A u \in Tasks \ {t} : /\ Awaiting(u)' <=> Awaiting(u)
                             /\ pc'[u] = pc[u] /\ target'[u] = target[u]
  BY <1>1 DEF TypeOK, TaskType, Awaiting
<1>4. pc'[t] = p /\ target'[t] = o /\ (Awaiting(t)' <=> p \in Phases)
  BY <1>1 DEF TypeOK, TaskType, Awaiting
<1>5. /\ state'[o] = s /\ timer'[o] = tm
      /\ \A q \in Objects \ {o} : state'[q] = state[q] /\ timer'[q] = timer[q]
  BY <1>1 DEF TypeOK, ServiceType
<1>6. \A u \in Tasks : Awaiting(u)' /\ restarts'[target'[u]] = 0 =>
        /\ state'[target'[u]] = During[pc'[u]]
        /\ \A v \in Tasks \ {u} : Awaiting(v)' => target'[v] # target'[u]
  <2> SUFFICES ASSUME NEW u \in Tasks, Awaiting(u)', restarts'[target'[u]] = 0
               PROVE  /\ state'[target'[u]] = During[pc'[u]]
                      /\ \A v \in Tasks \ {u} : Awaiting(v)' => target'[v] # target'[u]
    OBVIOUS
  <2>1. CASE u = t
    <3>1. \A v \in Tasks \ {t} : Awaiting(v) => target[v] # o
      BY <1>2, <1>4, <2>1 DEF Exclusive
    <3> QED
      BY <1>3, <1>4, <1>5, <2>1, <3>1
  <2>2. CASE u # t /\ target[u] = o
    <3>1. state[o] = During[pc[u]] /\ state[o] \in Transitional
      BY <1>2, <1>3, <2>2 DEF Exclusive
    <3>2. p \notin Phases /\ s = state[o]
      BY <1>3, <2>2, <3>1
    <3>3. \A v \in Tasks \ {u} : Awaiting(v) => target[v] # o
      BY <1>3, <2>2 DEF Exclusive
    <3> QED
      BY <1>3, <1>4, <1>5, <2>2, <3>1, <3>2, <3>3
  <2>3. CASE u # t /\ target[u] # o
    <3>1. target[u] \in Objects \ {o} /\ restarts[target[u]] = 0
      BY <1>2, <1>3, <2>3
    <3>2. /\ state[target[u]] = During[pc[u]]
          /\ \A v \in Tasks \ {u} : Awaiting(v) => target[v] # target[u]
      BY <1>3, <2>3, <3>1 DEF Exclusive
    <3> QED
      BY <1>3, <1>4, <1>5, <2>3, <3>1, <3>2
  <2> QED
    BY <2>1, <2>2, <2>3
<1>7. \A q \in Objects :
        state'[q] \in Transitional => \E u \in Tasks : Awaiting(u)' /\ target'[u] = q
  <2> SUFFICES ASSUME NEW q \in Objects, state'[q] \in Transitional
               PROVE  \E u \in Tasks : Awaiting(u)' /\ target'[u] = q
    OBVIOUS
  <2>1. CASE q = o /\ p \in Phases
    BY <1>4, <2>1
  <2>2. CASE state'[q] = state[q]
    <3>1. PICK u \in Tasks : Awaiting(u) /\ target[u] = q
      BY <2>2 DEF Exclusive
    <3> QED
      BY <1>3, <3>1
  <2> QED
    BY <1>5, <2>1, <2>2
<1>8. Monitored'
  BY <1>5 DEF Monitored
<1> QED
  BY <1>6, <1>7, <1>8 DEF Exclusive

(* Service.start() on a service whose state was just reset or not *)
LEMMA StartKeeps ==
  ASSUME TypeOK, Exclusive, Monitored,
         NEW t \in Tasks, ~Awaiting(t), NEW o \in Objects,
         NEW s \in States, NEW tm \in BOOLEAN, StartFrom(t, o, s, tm),
         \A q \in Objects \ {o} : restarts'[q] = restarts[q],
         restarts'[o] = 0 => restarts[o] = 0,
         s \notin Transitional \/ s = state[o],
         restarts'[o] = 0 /\ s # state[o] => state[o] \notin Transitional,
         s = "running" /\ Name(o) \in HealthChecked => tm,
         restarts'[o] = 0 /\ tm => s = "running"
  PROVE  Exclusive' /\ Monitored'
<1>1. CASE s \notin Startable
  <2>1. \E p \in {"ok", "failed"} : Becomes(o, s, tm) /\ Yield(t, o, p)
    BY <1>1 DEF StartFrom
  <2> QED
    BY <2>1, CallStep DEF Phases
<1>2. CASE s \in Startable /\ "start" \in Hooks[Name(o)]
  <2>1. Becomes(o, "starting", tm) /\ Yield(t, o, "start")
    BY <1>2 DEF StartFrom, Startable
  <2>2. "starting" \in States /\ "start" \in Phases /\ During["start"] = "starting"
    BY DEF States, Phases, During
  <2>3. restarts'[o] = 0 => state[o] \notin Transitional
    BY <1>2 DEF Startable, Transitional
  <2>4. ~(restarts'[o] = 0 /\ tm)
    BY <1>2 DEF Startable
  <2> QED
    BY <2>1, <2>2, <2>3, <2>4, CallStep
<1>3. CASE s \in Startable /\ "start" \notin Hooks[Name(o)]
  <2> DEFINE b == tm \/ Name(o) \in HealthChecked
  <2>1. Becomes(o, "running", b) /\ Yield(t, o, "ok")
    BY <1>3 DEF StartFrom, Startable
  <2>2. "running" \in States /\ "ok" \notin Phases /\ "running" \notin Transitional
    BY DEF States, Phases, Transitional
  <2>3. restarts'[o] = 0 => state[o] \notin Transitional
    BY <1>3 DEF Startable, Transitional
  <2>4. b \in BOOLEAN /\ (Name(o) \in HealthChecked => b)
    OBVIOUS
  <2> HIDE DEF b
  <2> QED
    BY <2>1, <2>2, <2>3, <2>4, CallStep
<1> QED
  BY <1>1, <1>2, <1>3

(* What a service's state and timer say of each other while no crash *)
LEMMA MonitoredFacts ==
  ASSUME TypeOK, Monitored, NEW o \in Objects
  PROVE  /\ state[o] \in States /\ timer[o] \in BOOLEAN
         /\ state[o] = "running" /\ Name(o) \in HealthChecked => timer[o]
         /\ restarts[o] = 0 /\ timer[o] => state[o] = "running"
BY DEF TypeOK, ServiceType, Monitored

LEMMA StopKeeps ==
  ASSUME TypeOK, Exclusive, Monitored, NEW t \in Tasks, ~Awaiting(t),
         NEW o \in Objects, StopService(t, o), UNCHANGED restarts
  PROVE  Exclusive' /\ Monitored'
<1>1. CASE state[o] # "running"
  <2>1. Yield(t, o, "ok") /\ UNCHANGED svcVars
    BY <1>1 DEF StopService
  <2>2. Becomes(o, state[o], timer[o])
    BY <2>1 DEF svcVars, Becomes, TypeOK, ServiceType
  <2>3. "ok" \notin Phases
    BY DEF Phases
  <2> QED
    BY <2>1, <2>2, <2>3, MonitoredFacts, CallStep
<1>2. CASE state[o] = "running"
  <2>1. state[o] \notin Transitional /\ "stopped" \notin Transitional
    BY <1>2 DEF Transitional
  <2>2. \/ Becomes(o, "stopping", FALSE) /\ Yield(t, o, "stop")
        \/ Becomes(o, "stopped", FALSE) /\ Yield(t, o, "ok")
    BY <1>2 DEF StopService
  <2>3. /\ "stopping" \in States /\ "stopped" \in States /\ "stop" \in Phases
        /\ "ok" \notin Phases /\ During["stop"] = "stopping"
    BY DEF States, Phases, During
  <2> QED
    BY <2>1, <2>2, <2>3, CallStep
<1> QED
  BY <1>1, <1>2

LEMMA InitKeeps ==
  ASSUME TypeOK, Exclusive, Monitored, NEW t \in Tasks, ~Awaiting(t),
         NEW o \in Objects, state[o] = "created", InitService(t, o), UNCHANGED restarts
  PROVE  Exclusive' /\ Monitored'
<1>1. timer[o] \in BOOLEAN /\ ~(restarts'[o] = 0 /\ timer[o])
  BY MonitoredFacts
<1>2. \/ Becomes(o, "initializing", timer[o]) /\ Yield(t, o, "init")
      \/ Becomes(o, "ready", timer[o]) /\ Yield(t, o, "ok")
  BY DEF InitService
<1>3. /\ "initializing" \in States /\ "ready" \in States /\ "init" \in Phases
      /\ "ok" \notin Phases /\ During["init"] = "initializing"
      /\ state[o] \notin Transitional /\ "ready" \notin Transitional
  BY DEF States, Phases, During, Transitional
<1> QED
  BY <1>1, <1>2, <1>3, CallStep

LEMMA ResetAndStartKeeps ==
  ASSUME TypeOK, Exclusive, Monitored, NEW t \in Tasks, ~Awaiting(t),
         NEW o \in Objects, ResetAndStart(t, o), UNCHANGED restarts
  PROVE  Exclusive' /\ Monitored'
<1> DEFINE s == IF state[o] \in {"stopped", "error"} THEN "ready" ELSE state[o]
<1>1. StartFrom(t, o, s, timer[o])
  BY DEF ResetAndStart
<1>2. /\ s \in States /\ (s \notin Transitional \/ s = state[o])
      /\ s # state[o] => state[o] \notin Transitional
      /\ s = "running" => state[o] = "running"
      /\ state[o] = "running" => s = "running"
  BY MonitoredFacts DEF States, Transitional
<1> HIDE DEF s
<1> QED
  BY <1>1, <1>2, MonitoredFacts, StartKeeps

LEMMA HookKeeps ==
  ASSUME TypeOK, Exclusive, Monitored, NEW t \in Tasks, HookResolves(t) \/ HookFails(t)
  PROVE  Exclusive' /\ Monitored'
<1> DEFINE o == target[t]
<1>1. /\ Awaiting(t) /\ o \in Objects /\ UNCHANGED <<restarts, target>>
      /\ \A u \in Tasks \ {t} : pc'[u] = pc[u]
      /\ pc'[t] \notin Phases
  BY DEF HookResolves, HookFails, TypeOK, TaskType, Awaiting, Phases
<1>2. PICK s \in {"ready", "running", "stopped", "error"}, tm \in BOOLEAN :
        /\ Becomes(o, s, tm)
        /\ tm => timer[o] \/ s = "running"
        /\ s = "running" /\ Name(o) \in HealthChecked => tm
  <2>1. pc[t] \in {"init", "start", "stop"} /\ timer[o] \in BOOLEAN
    BY <1>1 DEF Awaiting, Phases, TypeOK, ServiceType
  <2>2. CASE HookResolves(t)
    <3> DEFINE b == timer[o] \/ (pc[t] = "start" /\ Name(o) \in HealthChecked)
    <3>1. Becomes(o, StateAfter[pc[t]], b) /\ b \in BOOLEAN
      BY <2>2 DEF HookResolves
    <3>2. /\ StateAfter[pc[t]] \in {"ready", "running", "stopped"}
          /\ StateAfter[pc[t]] = "running" <=> pc[t] = "start"
      BY <2>1 DEF StateAfter
    <3>3. /\ b => timer[o] \/ pc[t] = "start"
          /\ pc[t] = "start" /\ Name(o) \in HealthChecked => b
      OBVIOUS
    <3> HIDE DEF b, o
    <3> QED
      BY <3>1, <3>2, <3>3
  <2>3. CASE HookFails(t)
    BY <2>1, <2>3 DEF HookFails
  <2> QED
    BY <2>2, <2>3
<1>3. /\ s \notin Transitional
      /\ state'[o] = s /\ timer'[o] = tm
      /\ \A q \in Objects \ {o} : state'[q] = state[q] /\ timer'[q] = timer[q]
  BY <1>1, <1>2 DEF Becomes, TypeOK, ServiceType, Transitional
<1>4. \A u \in Tasks \ {t} : Awaiting(u)' <=> Awaiting(u)
  BY <1>1 DEF Awaiting
<1>5. ~Awaiting(t)'
  BY <1>1 DEF Awaiting
<1>6. restarts[o] = 0 =>
        /\ state[o] \in Transitional
        /\ \A u \in Tasks \ {t} : Awaiting(u) => target[u] # o
  BY <1>1 DEF Exclusive, Awaiting, Phases, During, Transitional
<1> HIDE DEF o
<1>7. \A u \in Tasks : Awaiting(u) => target[u] \in Objects
  BY DEF TypeOK, TaskType, Awaiting, Phases
<1>8. Exclusive'
  <2>1. \A u \in Tasks : Awaiting(u)' /\ restarts'[target'[u]] = 0 =>
          /\ state'[target'[u]] = During[pc'[u]]
          /\ \A v \in Tasks \ {u} : Awaiting(v)' => target'[v] # target'[u]
    <3> SUFFICES ASSUME NEW u \in Tasks, Awaiting(u)', restarts'[target'[u]] = 0
                 PROVE  /\ state'[target'[u]] = During[pc'[u]]
                        /\ \A v \in Tasks \ {u} : Awaiting(v)' => target'[v] # target'[u]
      OBVIOUS
    <3>1. u # t /\ Awaiting(u) /\ restarts[target[u]] = 0
      BY <1>1, <1>4, <1>5
    <3>2. target[u] \in Objects \ {o}
      BY <1>6, <1>7, <3>1
    <3>3. /\ state[target[u]] = During[pc[u]]
          /\ \A v \in Tasks \ {u} : Awaiting(v) => target[v] # target[u]
      BY <3>1 DEF Exclusive
    <3> QED
      BY <1>1, <1>3, <1>4, <1>5, <3>1, <3>2, <3>3
  <2>2. \A q \in Objects :
          state'[q] \in Transitional => \E u \in Tasks : Awaiting(u)' /\ target'[u] = q
    <3> SUFFICES ASSUME NEW q \in Objects, state'[q] \in Transitional
                 PROVE  \E u \in Tasks : Awaiting(u)' /\ target'[u] = q
      OBVIOUS
    <3>1. q # o /\ state[q] \in Transitional
      BY <1>3
    <3>2. PICK u \in Tasks : Awaiting(u) /\ target[u] = q
      BY <3>1 DEF Exclusive
    <3> QED
      BY <1>1, <1>4, <3>1, <3>2 DEF o
  <2> QED
    BY <2>1, <2>2 DEF Exclusive
<1>9. Monitored'
  <2>1. restarts[o] = 0 /\ timer[o] => state[o] = "running"
    BY <1>1, MonitoredFacts DEF o
  <2>2. restarts[o] = 0 => ~timer[o]
    BY <1>6, <2>1 DEF Transitional
  <2> QED
    BY <1>1, <1>2, <1>3, <2>2 DEF Monitored
<1> QED
  BY <1>8, <1>9

---------------------------------------------------------------------------
LifecycleInv == TypeOK /\ Exclusive /\ Monitored

LEMMA ExclusionInit == Init => Exclusive /\ Monitored
BY DEF Init, Exclusive, Monitored, Awaiting, Phases, Transitional

LEMMA ProceedKeeps ==
  ASSUME LifecycleInv, NEW t \in Tasks, ~Awaiting(t), NEW which \in AllOps, NEW ord,
         Proceed(t, which, ord), UNCHANGED restarts
  PROVE  Exclusive' /\ Monitored'
<1>1. CASE Finish(t) /\ UNCHANGED svcVars
  BY <1>1, QuietStep
  DEF LifecycleInv, Finish, Yield, svcVars, Awaiting, Phases, TypeOK, TaskType
<1>2. ASSUME NEW j \in Eligible(which, ord), CallService(t, which, Current(ord[j]))
      PROVE  Exclusive' /\ Monitored'
  <2> DEFINE o == Current(ord[j])
  <2>1. o \in Objects /\ state[o] \in Takes[which]
    BY CurrentIsObject DEF LifecycleInv, Eligible
  <2>2. \/ InitService(t, o) /\ state[o] = "created"
        \/ StopService(t, o)
        \/ StartFrom(t, o, state[o], timer[o])
    <3>1. CASE which = "initAll"
      BY <1>2, <2>1, <3>1 DEF CallService, Takes
    <3>2. CASE which = "startAll"
      BY <1>2, <3>2 DEF CallService, StartService
    <3>3. CASE which = "stopAll"
      BY <1>2, <3>3 DEF CallService
    <3> QED
      BY <3>1, <3>2, <3>3 DEF AllOps
  <2> HIDE DEF o
  <2> QED
    BY <2>1, <2>2, InitKeeps, StopKeeps, StartKeeps, MonitoredFacts DEF LifecycleInv
<1> QED
  BY <1>1, <1>2 DEF Proceed

LEMMA CallKeeps ==
  ASSUME LifecycleInv, NEW t \in Tasks, Call(t)
  PROVE  Exclusive' /\ Monitored'
<1>1. op[t] = "idle" /\ ~Awaiting(t)
  <2>1. op[t] = "idle"
    BY DEF Call, CallStart, CallStop, CallRestart, CallUnregister, CallAll, Crash, Calls
  <2> QED
    BY <2>1 DEF LifecycleInv, TypeOK, TaskType, Awaiting, Phases
<1>2. ASSUME NEW n \in Services, CallStart(t, n) PROVE Exclusive' /\ Monitored'
  BY <1>1, <1>2, QuietStep
  DEF LifecycleInv, CallStart, svcVars, Awaiting, Phases, TypeOK, TaskType
<1>3. ASSUME NEW n \in Services, CallStop(t, n) PROVE Exclusive' /\ Monitored'
  BY <1>1, <1>3, CurrentIsObject, StopKeeps DEF LifecycleInv, CallStop
<1>4. ASSUME NEW n \in Services, CallRestart(t, n) PROVE Exclusive' /\ Monitored'
  BY <1>1, <1>4, CurrentIsObject, StopKeeps, ResetAndStartKeeps DEF LifecycleInv, CallRestart
<1>5. ASSUME NEW n \in Services, CallUnregister(t, n) PROVE Exclusive' /\ Monitored'
  <2>1. CASE UNCHANGED <<svcVars, taskVars, restarts>>
    BY <2>1, QuietStep DEF LifecycleInv, svcVars, taskVars, Awaiting
  <2>2. CASE StopService(t, Current(n)) /\ UNCHANGED restarts
    BY <1>1, <1>5, <2>2, CurrentIsObject, StopKeeps DEF LifecycleInv, CallUnregister
  <2> QED
    BY <1>5, <2>1, <2>2 DEF CallUnregister
<1>6. ASSUME NEW which \in AllOps, CallAll(t, which) PROVE Exclusive' /\ Monitored'
  BY <1>1, <1>6, ProceedKeeps DEF CallAll
<1>7. ASSUME NEW o \in Objects, Crash(t, o) PROVE Exclusive' /\ Monitored'
  <2>1. /\ restarts'[o] # 0
        /\ \A q \in Objects \ {o} : restarts'[q] = restarts[q]
    BY <1>7 DEF Crash, LifecycleInv, TypeOK, ServiceType
  <2>2. CASE StartFrom(t, o, "ready", FALSE)
    <3>1. "ready" \in States /\ "ready" \notin Transitional /\ FALSE \in BOOLEAN
      BY DEF States, Transitional
    <3> QED
      BY <1>1, <2>1, <2>2, <3>1, StartKeeps DEF LifecycleInv
  <2>3. CASE Becomes(o, "crashed", FALSE) /\ UNCHANGED taskVars
    <3>1. /\ state'[o] = "crashed" /\ ~timer'[o]
          /\ \A q \in Objects \ {o} : state'[q] = state[q] /\ timer'[q] = timer[q]
          /\ UNCHANGED <<pc, target>>
      BY <2>3 DEF Becomes, taskVars, LifecycleInv, TypeOK, ServiceType
    <3>2. \A u \in Tasks : Awaiting(u) => target[u] \in Objects
      BY DEF LifecycleInv, TypeOK, TaskType, Awaiting, Phases
    <3>3. \A u \in Tasks : Awaiting(u)' <=> Awaiting(u)
      BY <3>1 DEF Awaiting
    <3>4. Exclusive'
      BY <2>1, <3>1, <3>2, <3>3 DEF LifecycleInv, Exclusive, Transitional
    <3>5. Monitored'
      BY <2>1, <3>1 DEF LifecycleInv, Monitored
    <3> QED
      BY <3>4, <3>5
  <2> QED
    BY <1>7, <2>2, <2>3 DEF Crash
<1> QED
  BY <1>2, <1>3, <1>4, <1>5, <1>6, <1>7 DEF Call

LEMMA ResumeKeeps ==
  ASSUME LifecycleInv, NEW t \in Tasks, Resume(t)
  PROVE  Exclusive' /\ Monitored'
<1>1. pc[t] \in {"ok", "failed"} /\ ~Awaiting(t) /\ target[t] \in Objects
  <2>1. pc[t] \in {"ok", "failed"}
    BY DEF Resume, ResumeStart, ResumeRestart, ResumeUnregister, ResumeAll, Return, Settled
  <2> QED
    BY <2>1 DEF LifecycleInv, TypeOK, TaskType, Awaiting, Phases
<1>2. CASE Finish(t) /\ UNCHANGED <<svcVars, restarts>>
  BY <1>1, <1>2, QuietStep
  DEF LifecycleInv, Finish, Yield, svcVars, Awaiting, Phases, TypeOK, TaskType
<1>3. CASE ResumeStart(t)
  BY <1>1, <1>2, <1>3, QuietStep
  DEF ResumeStart, LifecycleInv, svcVars, Awaiting, Phases, TypeOK, TaskType
<1>4. CASE ResumeRestart(t)
  BY <1>1, <1>4, ResetAndStartKeeps DEF ResumeRestart, LifecycleInv
<1>5. CASE ResumeAll(t)
  BY <1>1, <1>5, ProceedKeeps DEF ResumeAll
<1> QED
  BY <1>2, <1>3, <1>4, <1>5 DEF Resume, ResumeUnregister, Return

LEMMA WalkKeeps ==
  ASSUME LifecycleInv, NEW t \in Tasks, Walk(t)
  PROVE  Exclusive' /\ Monitored'
<1> DEFINE o == Last(frames[t]).obj
<1>1. /\ pc[t] = "walk" /\ ~Awaiting(t) /\ frames[t] \in Seq(Frame)
      /\ frames[t] # <<>>
  BY DEF Walk, LifecycleInv, TypeOK, TaskType, Awaiting, Phases
<1>2. o \in Objects
  <2>1. Last(frames[t]) \in Frame
    BY <1>1 DEF Last
  <2> QED
    BY <2>1 DEF Frame
<1>3. CASE StartService(t, o) /\ UNCHANGED restarts
  BY <1>1, <1>2, <1>3, StartKeeps, MonitoredFacts DEF StartService, LifecycleInv
<1>4. CASE Finish(t) /\ UNCHANGED <<svcVars, restarts>>
  BY <1>1, <1>4, QuietStep
  DEF LifecycleInv, Finish, Yield, svcVars, Awaiting, Phases, TypeOK, TaskType
<1>5. CASE UNCHANGED <<svcVars, restarts, pc, target>>
  BY <1>5, QuietStep DEF LifecycleInv, svcVars, Awaiting
<1> QED
  BY <1>3, <1>4, <1>5 DEF Walk

LEMMA ExclusionStep == LifecycleInv /\ [Next]_vars => Exclusive' /\ Monitored'
<1> SUFFICES ASSUME LifecycleInv, [Next]_vars PROVE Exclusive' /\ Monitored'
  OBVIOUS
<1>1. ASSUME NEW n \in Services, Register(n) PROVE Exclusive' /\ Monitored'
  BY <1>1, QuietStep DEF Register, LifecycleInv, svcVars, taskVars, Awaiting
<1>2. CASE UNCHANGED vars
  BY <1>2, QuietStep DEF vars, LifecycleInv, svcVars, taskVars, Awaiting
<1>3. ASSUME NEW t \in Tasks, HookResolves(t) \/ HookFails(t) PROVE Exclusive' /\ Monitored'
  BY <1>3, HookKeeps DEF LifecycleInv
<1> QED
  BY <1>1, <1>2, <1>3, CallKeeps, ResumeKeeps, WalkKeeps DEF Next, HookRejects, HookTimesOut

LEMMA LifecycleInvariant == Spec => []LifecycleInv
<1>1. Init => LifecycleInv
  BY TypeInit, ExclusionInit DEF LifecycleInv
<1>2. LifecycleInv /\ [Next]_vars => LifecycleInv'
  BY TypeStep, ExclusionStep DEF LifecycleInv
<1> QED
  BY <1>1, <1>2, PTL DEF Spec

(* No two lifecycle operations run at once on a service that never         *)
(* crashed, and none, crashed or not, is left in a transitional state.     *)
THEOREM OperationsExclude == Spec => []Exclusive
BY LifecycleInvariant, PTL DEF LifecycleInv

(* A running service with a health check has its interval set; one that    *)
(* never crashed has it set only while it runs.                            *)
THEOREM RunningIsMonitored == Spec => []Monitored
BY LifecycleInvariant, PTL DEF LifecycleInv

---------------------------------------------------------------------------
(***************************************************************************)
(* Refinement.  While nothing crashes, the task that awaits a hook of a    *)
(* service is its only owner, and every step is a step of ServiceContract  *)
(* or leaves services and owners alone.                                    *)
(***************************************************************************)
NoCrash == \A o \in Objects : restarts[o] = 0

owner == [o \in Objects |-> Owner(o)]

OwnerIsWhoAwaits ==
  \A o \in Objects :
    /\ \A t \in Tasks : Awaiting(t) /\ target[t] = o => Owner(o) = t
    /\ (\A t \in Tasks : ~(Awaiting(t) /\ target[t] = o)) => Owner(o) = NoTask
    /\ state[o] \notin Transitional => Owner(o) = NoTask

LEMMA OwnerFacts == LifecycleInv /\ NoCrash => OwnerIsWhoAwaits
<1> SUFFICES ASSUME LifecycleInv, NoCrash, NEW o \in Objects
             PROVE  /\ \A t \in Tasks : Awaiting(t) /\ target[t] = o => Owner(o) = t
                    /\ (\A t \in Tasks : ~(Awaiting(t) /\ target[t] = o)) => Owner(o) = NoTask
                    /\ state[o] \notin Transitional => Owner(o) = NoTask
  BY DEF OwnerIsWhoAwaits
<1>1. ASSUME NEW t \in Tasks, Awaiting(t), target[t] = o
      PROVE  Owner(o) = t /\ state[o] \in Transitional
  <2>1. state[o] = During[pc[t]] /\ \A u \in Tasks \ {t} : Awaiting(u) => target[u] # o
    BY <1>1 DEF LifecycleInv, Exclusive, NoCrash
  <2>2. During[pc[t]] \in Transitional
    BY <1>1 DEF Awaiting, Phases, During, Transitional
  <2>3. Owner(o) = t
    BY <1>1, <2>1 DEF Owner
  <2> QED
    BY <2>1, <2>2, <2>3
<1>2. (\A t \in Tasks : ~(Awaiting(t) /\ target[t] = o)) => Owner(o) = NoTask
  BY DEF Owner
<1> QED
  BY <1>1, <1>2

(* Tasks and services that do not take part keep their owners. *)
LEMMA OwnersKept ==
  ASSUME LifecycleInv, LifecycleInv', NoCrash, NoCrash', NEW q \in Objects,
         \A u \in Tasks : Awaiting(u)' /\ target'[u] = q <=> Awaiting(u) /\ target[u] = q
  PROVE  Owner(q)' = Owner(q)
<1>1. CASE \E u \in Tasks : Awaiting(u) /\ target[u] = q
  <2>1. PICK u \in Tasks : Awaiting(u) /\ target[u] = q
    BY <1>1
  <2>2. Owner(q) = u
    BY <2>1, OwnerFacts DEF OwnerIsWhoAwaits
  <2>3. Owner(q)' = u
    <3>1. Awaiting(u)' /\ target'[u] = q
      BY <2>1
    <3>2. OwnerIsWhoAwaits'
      BY OwnerFacts, PTL
    <3> QED
      BY <3>1, <3>2 DEF OwnerIsWhoAwaits
  <2> QED
    BY <2>2, <2>3
<1>2. CASE \A u \in Tasks : ~(Awaiting(u) /\ target[u] = q)
  <2>1. OwnerIsWhoAwaits'
    BY OwnerFacts, PTL
  <2> QED
    BY <1>2, <2>1, OwnerFacts DEF OwnerIsWhoAwaits
<1> QED
  BY <1>1, <1>2

LEMMA QuietRefines ==
  ASSUME LifecycleInv, LifecycleInv', NoCrash, NoCrash', UNCHANGED state,
         \A u \in Tasks : /\ Awaiting(u)' <=> Awaiting(u)
                          /\ Awaiting(u) => target'[u] = target[u]
  PROVE  UNCHANGED <<state, owner>>
<1>1. \A q \in Objects : Owner(q)' = Owner(q)
  BY OwnersKept
<1> QED
  BY <1>1 DEF owner

(* t calls a method of o: the call begins an operation and awaits its      *)
(* hook, does the operation at once, or does nothing.                      *)
LEMMA CallRefines ==
  ASSUME LifecycleInv, LifecycleInv', NoCrash, NoCrash',
         NEW t \in Tasks, ~Awaiting(t), NEW o \in Objects, NEW s \in States,
         NEW tm, NEW p \in Phases \cup {"ok", "failed"},
         Becomes(o, s, tm), Yield(t, o, p),
         p \in Phases => /\ s = During[p] /\ state[o] \in Contract!From[s]
                         /\ s \in DOMAIN Contract!From,
         p \notin Phases => \/ s = state[o]
                            \/ \E d \in DOMAIN Contract!From :
                                 state[o] \in Contract!From[d] /\ s = Contract!To[d]
  PROVE  [Contract!Next]_<<state, owner>>
<1>1. /\ state' = [state EXCEPT ![o] = s]
      /\ pc' = [pc EXCEPT ![t] = p] /\ target' = [target EXCEPT ![t] = o]
  BY DEF Becomes, Yield
<1>2. /\ \A u \in Tasks \ {t} : /\ Awaiting(u)' <=> Awaiting(u)
                                /\ target'[u] = target[u]
      /\ target'[t] = o /\ (Awaiting(t)' <=> p \in Phases)
  BY <1>1 DEF LifecycleInv, TypeOK, TaskType, Awaiting
<1>3. \A q \in Objects \ {o} : Owner(q)' = Owner(q)
  BY <1>2, OwnersKept
<1>4. state \in [Objects -> States]
  BY DEF LifecycleInv, TypeOK, ServiceType
<1>5. \A d \in DOMAIN Contract!From : Contract!From[d] \cap Transitional = {}
  BY DEF Contract!From, Transitional
<1>6. CASE p \in Phases
  <2>1. Owner(o) = NoTask
    BY <1>5, <1>6, OwnerFacts DEF OwnerIsWhoAwaits
  <2>2. Owner(o)' = t
    <3>1. OwnerIsWhoAwaits'
      BY OwnerFacts, PTL
    <3> QED
      BY <1>2, <1>6, <3>1 DEF OwnerIsWhoAwaits
  <2>3. owner' = [owner EXCEPT ![o] = t]
    BY <1>3, <2>2 DEF owner
  <2>4. Contract!Begin(o, t, s)
    BY <1>1, <1>6, <2>1, <2>3 DEF Contract!Begin, owner
  <2> QED
    BY <1>6, <2>4 DEF Contract!Next
<1>7. CASE p \notin Phases
  <2>1. Owner(o)' = Owner(o)
    BY <1>2, <1>7, OwnersKept
  <2>2. owner' = owner
    BY <1>3, <2>1 DEF owner
  <2>3. CASE s = state[o]
    BY <1>1, <1>4, <2>2, <2>3
  <2>4. ASSUME NEW d \in DOMAIN Contract!From,
               state[o] \in Contract!From[d], s = Contract!To[d]
        PROVE  Contract!Next
    <3>1. Owner(o) = NoTask
      BY <1>5, <2>4, OwnerFacts DEF OwnerIsWhoAwaits
    <3>2. Contract!AtOnce(o, d)
      BY <1>1, <2>2, <2>4, <3>1 DEF Contract!AtOnce, owner
    <3> QED
      BY <3>2 DEF Contract!Next
  <2> QED
    BY <1>7, <2>3, <2>4
<1> QED
  BY <1>6, <1>7

LEMMA HookRefines ==
  ASSUME LifecycleInv, LifecycleInv', NoCrash, NoCrash', NEW t \in Tasks,
         HookResolves(t) \/ HookFails(t)
  PROVE  [Contract!Next]_<<state, owner>>
<1>0. target[t] \in Objects
  BY DEF HookResolves, HookFails, LifecycleInv, TypeOK, TaskType, Awaiting, Phases
<1> PICK o \in Objects : o = target[t]
  BY <1>0
<1> DEFINE d == During[pc[t]]
<1>1. /\ Awaiting(t) /\ target' = target
      /\ \A u \in Tasks \ {t} : Awaiting(u)' <=> Awaiting(u)
      /\ ~Awaiting(t)'
  BY DEF HookResolves, HookFails, LifecycleInv, TypeOK, TaskType, Awaiting, Phases
<1>2. pc[t] \in {"init", "start", "stop"}
  BY <1>1 DEF Awaiting, Phases
<1>3. d \in DOMAIN Contract!From /\ StateAfter[pc[t]] = Contract!To[d]
  BY <1>2 DEF During, StateAfter, Contract!From, Contract!To
<1>4. state[o] = d /\ \A u \in Tasks \ {t} : Awaiting(u) => target[u] # o
  BY <1>1 DEF LifecycleInv, Exclusive, NoCrash
<1>5. Owner(o) = t
  BY <1>1, OwnerFacts DEF OwnerIsWhoAwaits
<1>6. Owner(o)' = NoTask
  <2>1. OwnerIsWhoAwaits'
    BY OwnerFacts, PTL
  <2>2. \A u \in Tasks : ~(Awaiting(u)' /\ target'[u] = o)
    BY <1>1, <1>4
  <2> QED
    BY <1>1, <2>1, <2>2 DEF OwnerIsWhoAwaits
<1>7. \A q \in Objects \ {o} : Owner(q)' = Owner(q)
  BY <1>1, OwnersKept
<1>8. owner' = [owner EXCEPT ![o] = NoTask]
  BY <1>6, <1>7 DEF owner
<1>9. state' \in {[state EXCEPT ![o] = Contract!To[d]], [state EXCEPT ![o] = "error"]}
  BY <1>3 DEF HookResolves, HookFails, Becomes
<1> HIDE DEF d
<1>10. Contract!End(o, t, d)
  BY <1>1, <1>4, <1>5, <1>8, <1>9 DEF Contract!End, owner
<1> QED
  BY <1>1, <1>3, <1>10 DEF Contract!Next

LEMMA StartRefines ==
  ASSUME LifecycleInv, LifecycleInv', NoCrash, NoCrash', NEW t \in Tasks, ~Awaiting(t),
         NEW o \in Objects, NEW s \in States, NEW tm, StartFrom(t, o, s, tm),
         s = state[o] \/ (state[o] \in {"stopped", "error"} /\ s = "ready")
  PROVE  [Contract!Next]_<<state, owner>>
<1>1. CASE s \notin Startable
  <2>1. \E p \in {"ok", "failed"} : Becomes(o, s, tm) /\ Yield(t, o, p)
    BY <1>1 DEF StartFrom
  <2>2. s = state[o]
    BY <1>1 DEF Startable
  <2> QED
    BY <2>1, <2>2, CallRefines DEF Phases
<1>2. CASE s \in Startable
  <2>1. state[o] \in Contract!From["starting"] /\ "starting" \in DOMAIN Contract!From
    BY <1>2 DEF Startable, Contract!From
  <2>2. /\ "starting" \in States /\ "running" \in States /\ "start" \in Phases
        /\ "ok" \notin Phases /\ During["start"] = "starting"
        /\ Contract!To["starting"] = "running"
    BY DEF States, Phases, During, Contract!To
  <2>3. \/ Becomes(o, "starting", tm) /\ Yield(t, o, "start")
        \/ \E b : Becomes(o, "running", b) /\ Yield(t, o, "ok")
    BY <1>2 DEF StartFrom, Startable
  <2> QED
    BY <2>1, <2>2, <2>3, CallRefines
<1> QED
  BY <1>1, <1>2

LEMMA StopRefines ==
  ASSUME LifecycleInv, LifecycleInv', NoCrash, NoCrash', NEW t \in Tasks, ~Awaiting(t),
         NEW o \in Objects, StopService(t, o)
  PROVE  [Contract!Next]_<<state, owner>>
<1>1. CASE state[o] # "running"
  <2>1. Yield(t, o, "ok") /\ Becomes(o, state[o], timer[o]) /\ state[o] \in States
    BY <1>1 DEF StopService, svcVars, Becomes, LifecycleInv, TypeOK, ServiceType
  <2>2. "ok" \notin Phases
    BY DEF Phases
  <2> QED
    BY <2>1, <2>2, CallRefines
<1>2. CASE state[o] = "running"
  <2>1. state[o] \in Contract!From["stopping"] /\ "stopping" \in DOMAIN Contract!From
    BY <1>2 DEF Contract!From
  <2>2. /\ "stopping" \in States /\ "stopped" \in States /\ "stop" \in Phases
        /\ "ok" \notin Phases /\ During["stop"] = "stopping"
        /\ Contract!To["stopping"] = "stopped"
    BY DEF States, Phases, During, Contract!To
  <2>3. \/ Becomes(o, "stopping", FALSE) /\ Yield(t, o, "stop")
        \/ Becomes(o, "stopped", FALSE) /\ Yield(t, o, "ok")
    BY <1>2 DEF StopService
  <2> QED
    BY <2>1, <2>2, <2>3, CallRefines
<1> QED
  BY <1>1, <1>2

LEMMA InitRefines ==
  ASSUME LifecycleInv, LifecycleInv', NoCrash, NoCrash', NEW t \in Tasks, ~Awaiting(t),
         NEW o \in Objects, state[o] = "created", InitService(t, o)
  PROVE  [Contract!Next]_<<state, owner>>
<1>1. state[o] \in Contract!From["initializing"] /\ "initializing" \in DOMAIN Contract!From
  BY DEF Contract!From
<1>2. /\ "initializing" \in States /\ "ready" \in States /\ "init" \in Phases
      /\ "ok" \notin Phases /\ During["init"] = "initializing"
      /\ Contract!To["initializing"] = "ready"
  BY DEF States, Phases, During, Contract!To
<1>3. \/ Becomes(o, "initializing", timer[o]) /\ Yield(t, o, "init")
      \/ Becomes(o, "ready", timer[o]) /\ Yield(t, o, "ok")
  BY DEF InitService
<1> QED
  BY <1>1, <1>2, <1>3, CallRefines

LEMMA ResetAndStartRefines ==
  ASSUME LifecycleInv, LifecycleInv', NoCrash, NoCrash', NEW t \in Tasks, ~Awaiting(t),
         NEW o \in Objects, ResetAndStart(t, o)
  PROVE  [Contract!Next]_<<state, owner>>
<1> DEFINE s == IF state[o] \in {"stopped", "error"} THEN "ready" ELSE state[o]
<1>1. StartFrom(t, o, s, timer[o])
  BY DEF ResetAndStart
<1>2. /\ s \in States
      /\ s = state[o] \/ (state[o] \in {"stopped", "error"} /\ s = "ready")
  BY DEF States, LifecycleInv, TypeOK, ServiceType
<1> HIDE DEF s
<1> QED
  BY <1>1, <1>2, StartRefines

LEMMA FinishRefines ==
  ASSUME LifecycleInv, LifecycleInv', NoCrash, NoCrash', NEW t \in Tasks, ~Awaiting(t),
         Finish(t), UNCHANGED svcVars
  PROVE  UNCHANGED <<state, owner>>
BY QuietRefines DEF LifecycleInv, Finish, Yield, svcVars, Awaiting, Phases, TypeOK, TaskType

LEMMA ProceedRefines ==
  ASSUME LifecycleInv, LifecycleInv', NoCrash, NoCrash', NEW t \in Tasks, ~Awaiting(t),
         NEW which \in AllOps, NEW ord, Proceed(t, which, ord)
  PROVE  [Contract!Next]_<<state, owner>>
<1>1. ASSUME NEW j \in Eligible(which, ord), CallService(t, which, Current(ord[j]))
      PROVE  [Contract!Next]_<<state, owner>>
  <2> DEFINE o == Current(ord[j])
  <2>1. o \in Objects /\ state[o] \in Takes[which] /\ state[o] \in States
    BY CurrentIsObject DEF LifecycleInv, Eligible, TypeOK, ServiceType
  <2>2. CASE which = "initAll"
    BY <1>1, <2>1, <2>2, InitRefines DEF CallService, Takes
  <2>3. CASE which = "startAll"
    BY <1>1, <2>1, <2>3, StartRefines DEF CallService, StartService
  <2>4. CASE which = "stopAll"
    BY <1>1, <2>1, <2>4, StopRefines DEF CallService
  <2> QED
    BY <2>2, <2>3, <2>4 DEF AllOps
<1> QED
  BY <1>1, FinishRefines DEF Proceed

LEMMA RefinesStep ==
  ASSUME LifecycleInv, LifecycleInv', NoCrash, NoCrash', [Next]_vars,
         \A t \in Tasks : "crash" \notin Ops[t]
  PROVE  [Contract!Next]_<<state, owner>>
<1>1. CASE UNCHANGED vars \/ \E n \in Services : Register(n)
  BY <1>1, QuietRefines DEF vars, Register, svcVars, taskVars, Awaiting
<1>2. ASSUME NEW t \in Tasks, Call(t) PROVE [Contract!Next]_<<state, owner>>
  <2>1. op[t] = "idle" /\ ~Awaiting(t)
    <3>1. op[t] = "idle"
      BY <1>2 DEF Call, CallStart, CallStop, CallRestart, CallUnregister, CallAll, Crash, Calls
    <3> QED
      BY <3>1 DEF LifecycleInv, TypeOK, TaskType, Awaiting, Phases
  <2>2. ASSUME NEW n \in Services, CallStart(t, n) PROVE UNCHANGED <<state, owner>>
    BY <2>1, <2>2, QuietRefines
    DEF LifecycleInv, CallStart, svcVars, Awaiting, Phases, TypeOK, TaskType
  <2>3. ASSUME NEW n \in Services,
               CallStop(t, n) \/ CallRestart(t, n) \/ CallUnregister(t, n)
        PROVE  [Contract!Next]_<<state, owner>>
    <3>1. Current(n) \in Objects
      BY <2>3, CurrentIsObject DEF LifecycleInv, CallStop, CallRestart, CallUnregister
    <3>2. CASE StopService(t, Current(n))
      BY <2>1, <3>1, <3>2, StopRefines
    <3>3. CASE ResetAndStart(t, Current(n))
      BY <2>1, <3>1, <3>3, ResetAndStartRefines
    <3>4. CASE UNCHANGED <<svcVars, taskVars>>
      BY <3>4, QuietRefines DEF svcVars, taskVars, Awaiting
    <3> QED
      BY <2>3, <3>2, <3>3, <3>4 DEF CallStop, CallRestart, CallUnregister
  <2>4. ASSUME NEW which \in AllOps, CallAll(t, which) PROVE [Contract!Next]_<<state, owner>>
    BY <2>1, <2>4, ProceedRefines DEF CallAll
  <2>5. ASSUME NEW o \in Objects, Crash(t, o) PROVE FALSE
    BY <2>5 DEF Crash, Calls
  <2> QED
    BY <1>2, <2>2, <2>3, <2>4, <2>5 DEF Call
<1>3. ASSUME NEW t \in Tasks, Resume(t) PROVE [Contract!Next]_<<state, owner>>
  <2>1. pc[t] \in {"ok", "failed"} /\ ~Awaiting(t) /\ target[t] \in Objects
    <3>1. pc[t] \in {"ok", "failed"}
      BY <1>3 DEF Resume, ResumeStart, ResumeRestart, ResumeUnregister, ResumeAll, Return,
                  Settled
    <3> QED
      BY <3>1 DEF LifecycleInv, TypeOK, TaskType, Awaiting, Phases
  <2>2. CASE Finish(t) /\ UNCHANGED svcVars
    BY <2>1, <2>2, FinishRefines
  <2>3. CASE ResumeStart(t)
    BY <2>1, <2>2, <2>3, QuietRefines
    DEF ResumeStart, LifecycleInv, svcVars, Awaiting, Phases, TypeOK, TaskType
  <2>4. CASE ResumeRestart(t)
    BY <2>1, <2>4, ResetAndStartRefines DEF ResumeRestart
  <2>5. CASE ResumeAll(t)
    BY <2>1, <2>5, ProceedRefines DEF ResumeAll
  <2> QED
    BY <1>3, <2>2, <2>3, <2>4, <2>5 DEF Resume, ResumeUnregister, Return
<1>4. ASSUME NEW t \in Tasks, Walk(t) PROVE [Contract!Next]_<<state, owner>>
  <2> DEFINE o == Last(frames[t]).obj
  <2>1. ~Awaiting(t) /\ Last(frames[t]) \in Frame
    BY <1>4 DEF Walk, Last, LifecycleInv, TypeOK, TaskType, Awaiting, Phases
  <2>2. o \in Objects /\ state[o] \in States
    BY <2>1 DEF Frame, LifecycleInv, TypeOK, ServiceType
  <2>3. CASE StartService(t, o)
    BY <2>1, <2>2, <2>3, StartRefines DEF StartService
  <2>4. CASE Finish(t) /\ UNCHANGED svcVars
    BY <2>1, <2>4, FinishRefines
  <2>5. CASE UNCHANGED <<svcVars, pc, target>>
    BY <2>5, QuietRefines DEF svcVars, Awaiting
  <2> QED
    BY <1>4, <2>3, <2>4, <2>5 DEF Walk
<1> QED
  BY <1>1, <1>2, <1>3, <1>4, HookRefines DEF Next, HookRejects, HookTimesOut

(* As long as no crash is reported, services and the tasks that operate on *)
(* them implement ServiceContract.                                         *)
THEOREM LifecycleKeepsContract ==
  ASSUME \A t \in Tasks : "crash" \notin Ops[t]
  PROVE  Spec => KeepsContract
<1>1. Init => NoCrash /\ Contract!Init
  <2> SUFFICES ASSUME Init PROVE NoCrash /\ Contract!Init
    OBVIOUS
  <2>1. NoCrash
    BY DEF Init, NoCrash
  <2>2. \A o \in Objects : Owner(o) = NoTask
    BY DEF Init, Owner, Awaiting, Phases
  <2> QED
    BY <2>1, <2>2 DEF Init, Contract!Init
<1>2. LifecycleInv /\ NoCrash /\ [Next]_vars => NoCrash'
  <2> SUFFICES ASSUME LifecycleInv, NoCrash, [Next]_vars PROVE NoCrash'
    OBVIOUS
  <2>1. UNCHANGED restarts
    BY DEF Next, vars, Register, Call, CallStart, CallStop, CallRestart, CallUnregister,
           CallAll, Crash, Calls, Walk, Resume, ResumeStart, ResumeRestart,
           ResumeUnregister, ResumeAll, Return, HookResolves, HookRejects, HookTimesOut,
           HookFails
  <2> QED
    BY <2>1 DEF NoCrash
<1>3. /\ LifecycleInv /\ LifecycleInv' /\ NoCrash /\ NoCrash' /\ [Next]_vars
      => [Contract!Next]_<<state, owner>>
  BY RefinesStep
<1>4. Spec => [](LifecycleInv /\ NoCrash)
  BY <1>1, <1>2, LifecycleInvariant, PTL DEF Spec
<1> QED
  BY <1>1, <1>3, <1>4, PTL DEF Spec, KeepsContract, Contract!Spec, owner
---------------------------------------------------------------------------
(***************************************************************************)
(* The order of initialization.  The walk is defined by recursion, over    *)
(* the names of a loop and over the depth of the calls; that functions so  *)
(* defined exist is proved for functions on the natural numbers once.      *)
(***************************************************************************)

(* Every non-empty set of natural numbers has a least element. *)
LEMMA LeastNumber ==
  ASSUME NEW S \in SUBSET Nat, S # {}
  PROVE  \E m \in S : \A n \in S : m <= n
<1> DEFINE R == {ss \in Nat \X Nat : ss[1] < ss[2]}
<1>1. IsWellFoundedOn(R, Nat)
  BY NatLessThanWellFounded DEF OpToRel
<1>2. \A m, n \in Nat : m < n => <<m, n>> \in R
  OBVIOUS
<1> HIDE DEF R
<1>3. \E m \in S : \A n \in S : <<n, m>> \notin R
  BY <1>1, WFMin
<1>4. PICK m \in S : \A n \in S : <<n, m>> \notin R
  BY <1>3
<1>5. \A n \in S : ~ (n < m)
  BY <1>2, <1>4
<1>6. \A n \in S : n \in Nat /\ m \in Nat
  OBVIOUS
<1>7. \A n \in S : m <= n
  BY <1>5, <1>6
<1> QED
  BY <1>7

(* f is the beginning, up to n, of what a and G define. *)
Begins(f, n, A, a, G) ==
  /\ f \in [0..n -> A]
  /\ f[0] = a
  /\ \A i \in 0..(n - 1) : f[i + 1] = G[i, f[i]]

LEMMA BeginningsExist ==
  ASSUME NEW A, NEW a \in A, NEW G \in [Nat \X A -> A]
  PROVE  \A n \in Nat : \E f : Begins(f, n, A, a, G)
<1> DEFINE S == {n \in Nat : \A f : ~Begins(f, n, A, a, G)}
<1> SUFFICES ASSUME S # {} PROVE FALSE
  OBVIOUS
<1>1. PICK m \in S : \A n \in S : m <= n
  <2>1. S \in SUBSET Nat
    OBVIOUS
  <2> HIDE DEF S
  <2> QED
    BY <2>1, LeastNumber
<1>2. m \in Nat /\ \A f : ~Begins(f, m, A, a, G)
  OBVIOUS
<1>3. CASE m = 0
  <2> DEFINE z == [i \in 0..0 |-> a]
  <2>1. 0 \in 0..0 /\ 0..(0 - 1) = {}
    OBVIOUS
  <2>2. z \in [0..0 -> A] /\ z[0] = a
    BY <2>1
  <2> HIDE DEF z
  <2>3. Begins(z, 0, A, a, G)
    BY <2>1, <2>2 DEF Begins
  <2> QED
    BY <1>2, <1>3, <2>3
<1>4. CASE m # 0
  <2>1. m - 1 \in Nat /\ m - 1 \notin S
    BY <1>1, <1>2, <1>4
  <2>2. PICK f : Begins(f, m - 1, A, a, G)
    BY <2>1
  <2>3. /\ f \in [0..(m - 1) -> A] /\ f[0] = a
        /\ \A i \in 0..(m - 2) : f[i + 1] = G[i, f[i]]
    <3>1. (m - 1) - 1 = m - 2
      BY <1>2
    <3> QED
      BY <2>2, <3>1 DEF Begins
  <2> DEFINE last == G[m - 1, f[m - 1]]
             g == [i \in 0..m |-> IF i = m THEN last ELSE f[i]]
  <2>4. f[m - 1] \in A /\ last \in A
    <3>1. m - 1 \in 0..(m - 1)
      BY <2>1
    <3>2. f[m - 1] \in A
      BY <2>3, <3>1
    <3> QED
      BY <2>1, <3>2
  <2> HIDE DEF last
  <2>5. g \in [0..m -> A]
    <3> SUFFICES ASSUME NEW i \in 0..m PROVE (IF i = m THEN last ELSE f[i]) \in A
      OBVIOUS
    <3>1. i # m => i \in 0..(m - 1)
      BY <1>2
    <3> QED
      BY <2>3, <2>4, <3>1
  <2>6. \A i \in 0..(m - 1) : g[i] = f[i]
    BY <1>2, <2>1
  <2>7. g[0] = a /\ g[m] = last
    <3>1. 0 \in 0..m /\ m \in 0..m
      BY <1>2
    <3> QED
      BY <1>4, <2>3, <3>1
  <2>8. \A i \in 0..(m - 1) : g[i + 1] = G[i, g[i]]
    <3> SUFFICES ASSUME NEW i \in 0..(m - 1) PROVE g[i + 1] = G[i, g[i]]
      OBVIOUS
    <3>1. CASE i = m - 1
      <4>1. i + 1 = m
        BY <1>2, <3>1
      <4>2. G[i, f[i]] = last
        BY <3>1 DEF last
      <4> HIDE DEF g
      <4> QED
        BY <2>6, <2>7, <4>1, <4>2
    <3>2. CASE i # m - 1
      <4>1. i \in 0..(m - 2) /\ i + 1 \in 0..(m - 1)
        BY <2>1, <3>2
      <4> HIDE DEF g
      <4> QED
        BY <2>3, <2>6, <4>1
    <3> QED
      BY <3>1, <3>2
  <2> HIDE DEF g
  <2>9. Begins(g, m, A, a, G)
    BY <2>5, <2>7, <2>8 DEF Begins
  <2> QED
    BY <1>2, <2>9
<1> QED
  BY <1>3, <1>4

LEMMA BeginningsAgree ==
  ASSUME NEW A, NEW a, NEW G, NEW m \in Nat, NEW n \in Nat, m <= n,
         NEW f, NEW g, Begins(f, m, A, a, G), Begins(g, n, A, a, G)
  PROVE  \A i \in 0..m : f[i] = g[i]
<1> DEFINE S == {i \in 0..m : f[i] # g[i]}
<1> SUFFICES ASSUME S # {} PROVE FALSE
  OBVIOUS
<1>1. PICK k \in S : \A i \in S : k <= i
  <2>1. S \in SUBSET Nat
    OBVIOUS
  <2> HIDE DEF S
  <2> QED
    BY <2>1, LeastNumber
<1>2. k \in 0..m /\ f[k] # g[k] /\ k # 0
  BY DEF Begins
<1>3. k - 1 \in 0..m /\ k - 1 \notin S
  BY <1>1, <1>2
<1>4. f[k - 1] = g[k - 1] /\ k - 1 \in 0..(m - 1) /\ k - 1 \in 0..(n - 1) /\ (k - 1) + 1 = k
  BY <1>2, <1>3
<1> HIDE DEF S
<1>5. f[k] = G[k - 1, f[k - 1]] /\ g[k] = G[k - 1, g[k - 1]]
  BY <1>4 DEF Begins
<1> QED
  BY <1>2, <1>4, <1>5

(* What starts with a and goes on by G is a function on all of Nat. *)
Continues(G, A) == G \in [Nat \X A -> A]

Iterates(f, A, a, G) ==
  f \in [Nat -> A] /\ f[0] = a /\ \A n \in Nat : f[n + 1] = G[n, f[n]]

LEMMA Recursion ==
  ASSUME NEW A, NEW a \in A, NEW G, Continues(G, A)
  PROVE  \E f : Iterates(f, A, a, G)
<1> DEFINE part(n) == CHOOSE f : Begins(f, n, A, a, G)
           h == [n \in Nat |-> part(n)[n]]
<1>1. \A n \in Nat : Begins(part(n), n, A, a, G)
  BY BeginningsExist DEF Continues
<1> HIDE DEF part
<1>2. h \in [Nat -> A]
  <2> SUFFICES ASSUME NEW n \in Nat PROVE part(n)[n] \in A
    OBVIOUS
  <2>1. part(n) \in [0..n -> A]
    BY <1>1 DEF Begins
  <2> QED
    BY <2>1
<1>3. h[0] = a
  BY <1>1 DEF Begins
<1>4. ASSUME NEW n \in Nat PROVE h[n + 1] = G[n, h[n]]
  <2>1. Begins(part(n), n, A, a, G) /\ Begins(part(n + 1), n + 1, A, a, G)
    BY <1>1
  <2>2. \A i \in 0..n : part(n)[i] = part(n + 1)[i]
    BY <2>1, BeginningsAgree
  <2>3. part(n + 1)[n + 1] = G[n, part(n + 1)[n]]
    <3>1. n \in 0..((n + 1) - 1)
      OBVIOUS
    <3> QED
      BY <2>1, <3>1 DEF Begins
  <2>4. h[n + 1] = part(n + 1)[n + 1] /\ h[n] = part(n)[n]
    OBVIOUS
  <2>5. n \in 0..n
    OBVIOUS
  <2> HIDE DEF h
  <2> QED
    BY <2>2, <2>3, <2>4, <2>5
<1> HIDE DEF h
<1> QED
  BY <1>2, <1>3, <1>4 DEF Iterates

(* The loop of the walk: where it is after the i-th name. *)
VisitType(visit) == visit \in [Services \X Walks -> Walks]

LoopOf(after, visit, names, w) ==
  /\ after \in [Nat -> Walks]
  /\ after[0] = w
  /\ \A i \in Nat : after[i + 1] = IF names[i + 1] \in Registered
                                   THEN visit[names[i + 1], after[i]] ELSE after[i]
  /\ VisitEach(visit, names, w) = after[Len(names)]

LEMMA EachLoops ==
  ASSUME RegistryType, NEW visit, VisitType(visit), NEW names, NEW w \in Walks
  PROVE  \E after : LoopOf(after, visit, names, w)
<1>1. Registered \subseteq Services
  BY RangeOfSeq DEF RegistryType, Registered
<1> DEFINE G == [p \in Nat \X Walks |-> IF names[p[1] + 1] \in Registered
                                        THEN visit[names[p[1] + 1], p[2]] ELSE p[2]]
<1>2. Continues(G, Walks)
  BY <1>1 DEF VisitType, Continues
<1>3. \A i \in Nat, v \in Walks : G[i, v] = IF names[i + 1] \in Registered
                                            THEN visit[names[i + 1], v] ELSE v
  OBVIOUS
<1> HIDE DEF G
<1>4. PICK f : Iterates(f, Walks, w, G)
  BY <1>2, Recursion
<1> USE DEF Iterates
<1>5. \A i \in Nat : f[i + 1] = IF names[i + 1] \in Registered
                                THEN visit[names[i + 1], f[i]] ELSE f[i]
  BY <1>3, <1>4
<1> DEFINE after[i \in Nat] == IF i = 0 THEN w
                               ELSE IF names[i] \in Registered THEN visit[names[i], after[i - 1]]
                               ELSE after[i - 1]
<1>6. f = [i \in Nat |-> IF i = 0 THEN w
                         ELSE IF names[i] \in Registered THEN visit[names[i], f[i - 1]]
                         ELSE f[i - 1]]
  <2>1. \A i \in Nat : f[i] = IF i = 0 THEN w
                         ELSE IF names[i] \in Registered THEN visit[names[i], f[i - 1]]
                         ELSE f[i - 1]
    <3> SUFFICES ASSUME NEW i \in Nat, i # 0
                 PROVE  f[i] = IF names[i] \in Registered THEN visit[names[i], f[i - 1]]
                               ELSE f[i - 1]
      BY <1>4
    <3>1. i - 1 \in Nat /\ (i - 1) + 1 = i
      OBVIOUS
    <3> QED
      BY <1>5, <3>1
  <2> QED
    BY <1>4, <2>1
<1>7. after = [i \in Nat |-> IF i = 0 THEN w
                         ELSE IF names[i] \in Registered THEN visit[names[i], after[i - 1]]
                         ELSE after[i - 1]]
  BY <1>6
<1>8. VisitEach(visit, names, w) = after[Len(names)]
  BY DEF VisitEach
<1> HIDE DEF after
<1>9. \A i \in Nat : after[i] = f[i]
  <2> DEFINE S == {i \in Nat : after[i] # f[i]}
  <2> SUFFICES ASSUME S # {} PROVE FALSE
    OBVIOUS
  <2>1. PICK m \in S : \A i \in S : m <= i
    <3>1. S \in SUBSET Nat
      OBVIOUS
    <3> HIDE DEF S
    <3> QED
      BY <3>1, LeastNumber
  <2>2. m \in Nat /\ after[m] # f[m]
    OBVIOUS
  <2>3. m # 0
    BY <1>4, <1>7, <2>2
  <2>4. m - 1 \in Nat /\ m - 1 \notin S
    BY <2>1, <2>2, <2>3
  <2>5. after[m - 1] = f[m - 1]
    BY <2>4
  <2>6. after[m] = f[m]
    BY <1>6, <1>7, <2>2, <2>3, <2>5
  <2> QED
    BY <2>2, <2>6
<1>10. LoopOf(after, visit, names, w)
  <2>1. after \in [Nat -> Walks]
    BY <1>4, <1>7, <1>9
  <2>2. after[0] = w
    BY <1>7
  <2>3. ASSUME NEW i \in Nat
        PROVE  after[i + 1] = IF names[i + 1] \in Registered
                              THEN visit[names[i + 1], after[i]] ELSE after[i]
    <3>1. i + 1 \in Nat
      OBVIOUS
    <3>2. after[i + 1] = f[i + 1] /\ after[i] = f[i]
      BY <1>9, <3>1
    <3> QED
      BY <1>5, <3>2
  <2> QED
    BY <1>8, <2>1, <2>2, <2>3 DEF LoopOf
<1> QED
  BY <1>10

LEMMA EachType ==
  ASSUME RegistryType, NEW visit, VisitType(visit), NEW names, NEW w \in Walks,
         Len(names) \in Nat
  PROVE  VisitEach(visit, names, w) \in Walks
<1>1. PICK after : LoopOf(after, visit, names, w)
  BY EachLoops
<1> QED
  BY <1>1 DEF LoopOf

LEMMA VisitWithType ==
  ASSUME RegistryType, NEW visit, VisitType(visit),
         NEW n \in Services, NEW w \in Walks
  PROVE  VisitWith(visit, n, w) \in Walks
<1> DEFINE start == [seen |-> w.seen \cup {n}, out |-> w.out]
           below == VisitEach(visit, Deps[n], start)
<1>1. start \in Walks
  BY DEF Walks
<1>2. Len(Deps[n]) \in Nat
  BY ServicesAssumption
<1> HIDE DEF start
<1>3. below \in Walks
  BY <1>1, <1>2, EachType
<1> HIDE DEF below
<1>4. [seen |-> below.seen, out |-> Append(below.out, n)] \in Walks
  BY <1>3 DEF Walks
<1> QED
  BY <1>4 DEF VisitWith, below, start

(* A visit with k + 1 calls left makes visits with k. *)
NextVisit(visit) == [v \in Services \X Walks |-> VisitWith(visit, v[1], v[2])]
NoVisit == [v \in Services \X Walks |-> v[2]]

LEMMA VisitEquation ==
  ASSUME RegistryType
  PROVE  /\ \A k \in Nat : VisitType(Visit[k])
         /\ Visit[0] = NoVisit
         /\ \A k \in Nat : Visit[k + 1] = NextVisit(Visit[k])
<1> DEFINE A == [Services \X Walks -> Walks]
           G == [p \in Nat \X A |-> NextVisit(p[2])]
           body(g, fuel) == [v \in Services \X Walks |->
             IF fuel = 0 THEN v[2] ELSE VisitWith(g[fuel - 1], v[1], v[2])]
<1>1. NoVisit \in A /\ \A v \in A : NextVisit(v) \in A
  <2>1. NoVisit \in A
    BY DEF NoVisit
  <2>2. ASSUME NEW v \in A PROVE NextVisit(v) \in A
    <3>1. \A n \in Services, w \in Walks : VisitWith(v, n, w) \in Walks
      BY VisitWithType DEF VisitType
    <3> QED
      BY <3>1 DEF NextVisit
  <2> QED
    BY <2>1, <2>2
<1>2. Continues(G, A)
  BY <1>1, Zenon DEF Continues
<1>3. \A i \in Nat, v \in A : G[i, v] = NextVisit(v)
  OBVIOUS
<1> HIDE DEF G
<1>4. PICK f : Iterates(f, A, NoVisit, G)
  <2> HIDE DEF A
  <2> QED
    BY <1>1, <1>2, Recursion
<1>5. f \in [Nat -> A] /\ f[0] = NoVisit /\ \A i \in Nat : f[i + 1] = NextVisit(f[i])
  <2> HIDE DEF A
  <2> QED
    BY <1>3, <1>4 DEF Iterates
<1> HIDE DEF A
<1>6. \A g : body(g, 0) = NoVisit
  BY DEF NoVisit
<1>7. \A g, i : i # 0 => body(g, i) = NextVisit(g[i - 1])
  BY DEF NextVisit
<1>8. f = [i \in Nat |-> body(f, i)]
  <2> HIDE DEF body
  <2>1. ASSUME NEW i \in Nat PROVE f[i] = body(f, i)
    <3>1. CASE i = 0
      BY <1>5, <1>6, <3>1
    <3>2. CASE i # 0
      <4>1. i - 1 \in Nat /\ (i - 1) + 1 = i
        BY <3>2
      <4> QED
        BY <1>5, <1>7, <3>2, <4>1
    <3> QED
      BY <3>1, <3>2
  <2> QED
    BY <1>5, <2>1
<1>9. Visit = [i \in Nat |-> body(Visit, i)]
  BY <1>8, Zenon DEF Visit
<1> HIDE DEF body
<1>10. \A i \in Nat : Visit[i] = f[i]
  <2> DEFINE S == {i \in Nat : Visit[i] # f[i]}
  <2> SUFFICES ASSUME S # {} PROVE FALSE
    OBVIOUS
  <2>1. PICK m \in S : \A i \in S : m <= i
    <3>1. S \in SUBSET Nat
      OBVIOUS
    <3> HIDE DEF S
    <3> QED
      BY <3>1, LeastNumber
  <2>2. m \in Nat /\ Visit[m] # f[m]
    OBVIOUS
  <2>3. Visit[m] = body(Visit, m) /\ f[m] = body(f, m)
    BY <1>8, <1>9, <2>2
  <2>4. m # 0
    BY <1>6, <2>2, <2>3
  <2>5. m - 1 \in Nat /\ m - 1 \notin S
    BY <2>1, <2>2, <2>4
  <2>6. Visit[m - 1] = f[m - 1]
    BY <2>5
  <2> QED
    BY <1>7, <2>2, <2>3, <2>4, <2>6
<1>11. \A k \in Nat : VisitType(Visit[k])
  BY <1>5, <1>10 DEF A, VisitType
<1>12. \A k \in Nat : k + 1 \in Nat /\ 0 \in Nat
  OBVIOUS
<1> QED
  BY <1>5, <1>10, <1>11, <1>12

LEMMA OrderType ==
  ASSUME RegistryType, IsFiniteSet(Services)
  PROVE  InitializationOrder \in Seq(Services)
<1> DEFINE w == [seen |-> {}, out |-> <<>>]
           visit == Visit[Cardinality(Services)]
           v == VisitEach(visit, registry, w)
<1>1. w \in Walks
  BY DEF Walks
<1>2. Cardinality(Services) \in Nat
  BY FS_CardinalityType
<1>3. VisitType(visit)
  BY <1>2, VisitEquation
<1>4. Len(registry) \in Nat
  BY DEF RegistryType
<1> HIDE DEF visit, w
<1>5. v \in Walks
  BY <1>1, <1>3, <1>4, EachType
<1> HIDE DEF v
<1>6. v.out \in Seq(Services)
  BY <1>5 DEF Walks
<1> QED
  BY <1>6 DEF InitializationOrder, v, visit, w


---------------------------------------------------------------------------
(* What the walk keeps: no name twice, each after the registered names it   *)
(* depends on; the names seen and not yet in the order are those above.     *)
Grey(w) == w.seen \ Range(w.out)

NeedsOf(n) == (Range(Deps[n]) \cap Registered) \ {n}

GoodWalk(w) ==
  /\ w \in Walks
  /\ Range(w.out) \subseteq w.seen
  /\ w.seen \subseteq Registered
  /\ \A i, j \in 1..Len(w.out) : w.out[i] = w.out[j] => i = j
  /\ \A j \in 1..Len(w.out) : \A d \in NeedsOf(w.out[j]) : \E i \in 1..(j - 1) : w.out[i] = d

GoesOn(v, w) ==
  /\ GoodWalk(v)
  /\ w.seen \subseteq v.seen
  /\ Range(w.out) \subseteq Range(v.out)
  /\ Grey(v) = Grey(w)

(* Dependencies form no cycle, but for services that depend on themselves:  *)
(* each service has a higher rank than those it depends on.                 *)
Ranks(rank) ==
  /\ rank \in [Services -> Nat]
  /\ \A n \in Services : \A d \in Range(Deps[n]) \ {n} : rank[d] < rank[n]

Acyclic == \E rank : Ranks(rank)

Below(rank, n, w) == \A g \in Grey(w) : rank[n] < rank[g]

VisitsWell(visit, k, rank) ==
  /\ VisitType(visit)
  /\ \A n \in Registered, w \in Walks :
       GoodWalk(w) =>
         /\ n \in w.seen => visit[n, w] = w
         /\ Below(rank, n, w) /\ Cardinality(Services \ w.seen) <= k =>
              GoesOn(visit[n, w], w) /\ n \in Range(visit[n, w].out)

LEMMA EachGoesOn ==
  ASSUME RegistryType, IsFiniteSet(Services), NEW visit, NEW k \in Nat, NEW rank,
         VisitsWell(visit, k, rank), NEW names \in Seq(Services), NEW w \in Walks, GoodWalk(w),
         Cardinality(Services \ w.seen) <= k,
         \A n \in Range(names) \cap Registered : n \in Grey(w) \/ Below(rank, n, w)
  PROVE  /\ GoesOn(VisitEach(visit, names, w), w)
         /\ \A n \in Range(names) \cap Registered :
              n \in Grey(w) \/ n \in Range(VisitEach(visit, names, w).out)
<1>1. PICK after : LoopOf(after, visit, names, w)
  BY EachLoops DEF VisitsWell
<1>0. /\ after \in [Nat -> Walks]
      /\ after[0] = w
      /\ \A i \in Nat : after[i + 1] = IF names[i + 1] \in Registered
                                       THEN visit[names[i + 1], after[i]] ELSE after[i]
      /\ VisitEach(visit, names, w) = after[Len(names)]
  BY <1>1 DEF LoopOf
<1> DEFINE Fine(i) ==
      /\ GoesOn(after[i], w)
      /\ \A j \in 1..i : names[j] \in Registered =>
           names[j] \in Grey(w) \/ names[j] \in Range(after[i].out)
<1>2. Fine(0)
  <2>1. GoesOn(w, w)
    BY DEF GoesOn
  <2>2. 1..0 = {}
    OBVIOUS
  <2> QED
    BY <1>0, <2>1, <2>2
<1>3. ASSUME NEW i \in Nat, i + 1 <= Len(names), Fine(i)
      PROVE  Fine(i + 1)
  <2> DEFINE v == after[i]
             n == names[i + 1]
  <2>1. v \in Walks /\ GoesOn(v, w)
    BY <1>0, <1>3
  <2>2. i + 1 \in 1..Len(names) /\ n \in Range(names)
    BY <1>3, RangeOfSeq DEF Range
  <2>3. CASE n \notin Registered
    <3>1. after[i + 1] = v
      BY <1>0, <2>3
    <3> QED
      BY <1>3, <2>3, <3>1
  <2>4. CASE n \in Grey(w)
    <3>1. n \in v.seen /\ n \in Registered
      BY <2>1, <2>4 DEF GoesOn, Grey, GoodWalk
    <3>2. after[i + 1] = v
      BY <1>0, <2>1, <3>1 DEF VisitsWell, GoesOn
    <3> QED
      BY <1>3, <2>4, <3>2
  <2>5. CASE n \in Registered /\ n \notin Grey(w)
    <3>1. Below(rank, n, v)
      BY <2>1, <2>2, <2>5 DEF Below, GoesOn
    <3>2. Cardinality(Services \ v.seen) <= k
      <4>1. (Services \ v.seen) \subseteq (Services \ w.seen)
        BY <2>1 DEF GoesOn
      <4>2. IsFiniteSet(Services \ w.seen)
        BY FS_Subset
      <4>3. /\ Cardinality(Services \ v.seen) <= Cardinality(Services \ w.seen)
            /\ IsFiniteSet(Services \ v.seen)
        BY <4>1, <4>2, FS_Subset
      <4>4. Cardinality(Services \ v.seen) \in Nat /\ Cardinality(Services \ w.seen) \in Nat
        BY <4>2, <4>3, FS_CardinalityType
      <4> QED
        BY <4>3, <4>4
    <3> DEFINE u == visit[n, v]
    <3>3. GoesOn(u, v) /\ n \in Range(u.out)
      BY <2>1, <2>5, <3>1, <3>2 DEF VisitsWell, GoesOn
    <3>4. after[i + 1] = u
      BY <1>0, <2>5
    <3> HIDE DEF u, v
    <3>5. GoesOn(u, w)
      BY <2>1, <3>3 DEF GoesOn
    <3>6. \A j \in 1..i : names[j] \in Registered => names[j] \in Grey(w) \/ names[j] \in Range(u.out)
      BY <1>3, <3>3 DEF GoesOn, v
    <3> QED
      BY <3>3, <3>4, <3>5, <3>6
  <2> QED
    BY <2>3, <2>4, <2>5
<1>4. ASSUME NEW i \in Nat, i <= Len(names)
      PROVE  Fine(i)
  <2> DEFINE S == {j \in Nat : j <= Len(names) /\ ~Fine(j)}
  <2> SUFFICES ASSUME S # {} PROVE FALSE
    BY <1>4
  <2>1. PICK m \in S : \A j \in S : m <= j
    <3>1. S \in SUBSET Nat
      OBVIOUS
    <3> HIDE DEF S
    <3> QED
      BY <3>1, LeastNumber
  <2>2. m \in Nat /\ m <= Len(names) /\ ~Fine(m)
    OBVIOUS
  <2> HIDE DEF Fine
  <2>3. m # 0
    BY <1>2, <2>2
  <2>4. m - 1 \in Nat /\ m - 1 \notin S /\ (m - 1) + 1 = m
    BY <2>1, <2>2, <2>3
  <2>5. Len(names) \in Nat
    OBVIOUS
  <2>6. Fine(m - 1)
    BY <2>2, <2>4, <2>5
  <2> HIDE DEF S
  <2> QED
    BY <1>3, <2>2, <2>4, <2>6
<1>5. Len(names) \in Nat
  OBVIOUS
<1>6. Fine(Len(names))
  <2> HIDE DEF Fine
  <2> QED
    BY <1>4, <1>5
<1>7. \A n \in Range(names) : \E j \in 1..Len(names) : names[j] = n
  BY DEF Range
<1> QED
  BY <1>0, <1>5, <1>6, <1>7

LEMMA VisitsWellStep ==
  ASSUME RegistryType, IsFiniteSet(Services), NEW k \in Nat, NEW rank, Ranks(rank),
         VisitsWell(Visit[k], k, rank)
  PROVE  VisitsWell(Visit[k + 1], k + 1, rank)
<1> DEFINE visit == Visit[k + 1]
<1>1. /\ Registered \subseteq Services
      /\ VisitType(visit)
      /\ \A n \in Services, w \in Walks : visit[n, w] = VisitWith(Visit[k], n, w)
  <2>1. Registered \subseteq Services
    BY RangeOfSeq DEF RegistryType, Registered
  <2>2. k + 1 \in Nat
    OBVIOUS
  <2>3. VisitType(visit) /\ visit = NextVisit(Visit[k])
    BY <2>2, VisitEquation
  <2> HIDE DEF visit
  <2> QED
    BY <2>1, <2>3 DEF NextVisit
<1>2. ASSUME NEW n \in Registered, NEW w \in Walks, GoodWalk(w), n \in w.seen
      PROVE  visit[n, w] = w
  BY <1>1, <1>2 DEF VisitWith
<1>3. ASSUME NEW n \in Registered, NEW w \in Walks, GoodWalk(w), Below(rank, n, w),
             n \in w.seen
      PROVE  GoesOn(visit[n, w], w) /\ n \in Range(visit[n, w].out)
  <2>1. n \notin Grey(w)
    <3>1. rank[n] \in Nat
      BY <1>1 DEF Ranks
    <3> QED
      BY <1>3, <3>1 DEF Below
  <2> QED
    BY <1>2, <1>3, <2>1 DEF GoesOn, Grey
<1>4. ASSUME NEW n \in Registered, NEW w \in Walks, GoodWalk(w), Below(rank, n, w),
             n \notin w.seen, Cardinality(Services \ w.seen) <= k + 1
      PROVE  GoesOn(visit[n, w], w) /\ n \in Range(visit[n, w].out)
  <2> DEFINE start == [seen |-> w.seen \cup {n}, out |-> w.out]
             below == VisitEach(Visit[k], Deps[n], start)
             v == [seen |-> below.seen, out |-> Append(below.out, n)]
  <2>1. visit[n, w] = v
    BY <1>1, <1>4 DEF VisitWith
  <2>2. n \in Services /\ Deps[n] \in Seq(Services)
    BY <1>1, ServicesAssumption
  <2>3. start \in Walks /\ start.seen = w.seen \cup {n} /\ start.out = w.out
    BY <2>2 DEF Walks
  <2>4. GoodWalk(start) /\ Grey(start) = Grey(w) \cup {n}
    <3>1. n \notin Range(w.out)
      BY <1>4 DEF GoodWalk
    <3> HIDE DEF start
    <3>2. Grey(start) = Grey(w) \cup {n}
      BY <2>3, <3>1 DEF Grey
    <3>3. GoodWalk(start)
      BY <1>4, <2>3 DEF GoodWalk
    <3> QED
      BY <3>2, <3>3
  <2>5. Cardinality(Services \ start.seen) <= k
    <3> DEFINE T == Services \ w.seen
    <3>1. IsFiniteSet(T) /\ n \in T /\ Services \ start.seen = T \ {n}
      BY <1>4, <2>2, <2>3, FS_Subset
    <3> HIDE DEF T
    <3>2. Cardinality(T \ {n}) = Cardinality(T) - 1 /\ Cardinality(T) \in Nat
      BY <3>1, FS_RemoveElement, FS_CardinalityType
    <3> QED
      BY <1>4, <3>1, <3>2 DEF T
  <2>6. \A d \in NeedsOf(n) : Below(rank, d, start)
    <3> SUFFICES ASSUME NEW d \in NeedsOf(n), NEW g \in Grey(start)
                 PROVE  rank[d] < rank[g]
      BY DEF Below
    <3>1. rank[d] < rank[n] /\ rank[d] \in Nat /\ rank[n] \in Nat
      BY <1>1, <2>2 DEF NeedsOf, Ranks
    <3>2. g \in Services
      BY <2>3, <2>4, <1>1 DEF Grey, GoodWalk
    <3>3. g = n \/ rank[n] < rank[g]
      BY <1>4, <2>4 DEF Below
    <3>4. rank[g] \in Nat
      BY <3>2 DEF Ranks
    <3> QED
      BY <3>1, <3>3, <3>4
  <2>7. \A d \in Range(Deps[n]) \cap Registered : d \in Grey(start) \/ Below(rank, d, start)
    BY <2>4, <2>6 DEF NeedsOf
  <2> HIDE DEF start, below
  <2>8. /\ GoesOn(below, start)
        /\ \A d \in Range(Deps[n]) \cap Registered : d \in Grey(start) \/ d \in Range(below.out)
    BY <2>2, <2>3, <2>4, <2>5, <2>7, EachGoesOn DEF below
  <2>9. /\ below \in Walks /\ below.out \in Seq(Services) /\ Len(below.out) \in Nat
        /\ GoodWalk(below)
    BY <2>8 DEF GoesOn, GoodWalk, Walks
  <2>10. n \notin Range(below.out)
    BY <2>4, <2>8 DEF GoesOn, Grey
  <2>11. \A d \in NeedsOf(n) : d \in Range(below.out)
    <3> SUFFICES ASSUME NEW d \in NeedsOf(n) PROVE d \notin Grey(start)
      BY <2>8 DEF NeedsOf
    <3>1. rank[d] \in Nat
      BY <1>1 DEF NeedsOf, Ranks
    <3> QED
      BY <2>6, <3>1 DEF Below
  <2> DEFINE out == below.out
             L == Len(below.out)
  <2>12. /\ v \in Walks /\ v.seen = below.seen /\ v.out = Append(out, n)
         /\ Len(v.out) = L + 1 /\ v.out[L + 1] = n /\ \A j \in 1..L : v.out[j] = out[j]
    BY <2>2, <2>9 DEF Walks
  <2>13. Range(v.out) = Range(out) \cup {n}
    <3>1. 1..(L + 1) = (1..L) \cup {L + 1}
      BY <2>9
    <3>2. DOMAIN v.out = 1..(L + 1) /\ DOMAIN out = 1..L
      <4>1. v.out \in Seq(Services)
        BY <2>12 DEF Walks
      <4> QED
        BY <2>9, <2>12, <4>1
    <3> HIDE DEF v
    <3> QED
      BY <2>12, <3>1, <3>2 DEF Range
  <2> HIDE DEF v
  <2>14. Grey(v) = Grey(w) /\ n \in Range(v.out) /\ Range(w.out) \subseteq Range(v.out)
    <3>1. n \notin Grey(w)
      BY <1>4 DEF Grey
    <3>2. Grey(below) = Grey(w) \cup {n} /\ Range(w.out) \subseteq Range(out)
      BY <2>3, <2>4, <2>8 DEF GoesOn
    <3> QED
      BY <2>12, <2>13, <3>1, <3>2 DEF Grey
  <2>15. w.seen \subseteq v.seen /\ n \in v.seen /\ v.seen \subseteq Registered
         /\ Range(v.out) \subseteq v.seen
    BY <2>3, <2>8, <2>9, <2>12, <2>13 DEF GoesOn, GoodWalk
  <2>16. ASSUME NEW i \in 1..(L + 1), NEW j \in 1..(L + 1), v.out[i] = v.out[j]
         PROVE  i = j
    <3>1. \A m \in 1..L : out[m] # n
      BY <2>10 DEF Range
    <3>2. \A m \in 1..(L + 1) : m = L + 1 \/ m \in 1..L
      BY <2>9
    <3>3. \A l, m \in 1..L : out[l] = out[m] => l = m
      BY <2>9 DEF GoodWalk
    <3> QED
      BY <2>12, <2>16, <3>1, <3>2, <3>3
  <2>17. ASSUME NEW j \in 1..(L + 1), NEW d \in NeedsOf(v.out[j])
         PROVE  \E i \in 1..(j - 1) : v.out[i] = d
    <3>1. CASE j = L + 1
      <4>1. d \in Range(out)
        BY <2>11, <2>12, <2>17, <3>1
      <4>2. PICK i \in 1..L : out[i] = d
        BY <4>1 DEF Range
      <4>3. i \in 1..(j - 1)
        BY <2>9, <3>1
      <4> QED
        BY <2>12, <4>2, <4>3
    <3>2. CASE j # L + 1
      <4>1. j \in 1..L
        BY <2>9, <3>2
      <4>2. d \in NeedsOf(out[j])
        BY <2>12, <2>17, <4>1
      <4>3. PICK i \in 1..(j - 1) : out[i] = d
        BY <2>9, <4>1, <4>2 DEF GoodWalk
      <4>4. i \in 1..L
        BY <2>9, <4>1
      <4> QED
        BY <2>12, <4>3, <4>4
    <3> QED
      BY <3>1, <3>2
  <2>18. GoodWalk(v)
    BY <2>12, <2>15, <2>16, <2>17 DEF GoodWalk
  <2> QED
    BY <2>1, <2>14, <2>15, <2>18 DEF GoesOn
<1> HIDE DEF visit
<1> QED
  BY <1>1, <1>2, <1>3, <1>4 DEF VisitsWell, visit

LEMMA VisitsWellStart ==
  ASSUME RegistryType, IsFiniteSet(Services), NEW rank, Ranks(rank)
  PROVE  VisitsWell(Visit[0], 0, rank)
<1>1. Registered \subseteq Services
  BY RangeOfSeq DEF RegistryType, Registered
<1>2. VisitType(Visit[0]) /\ \A n \in Services, w \in Walks : Visit[0][n, w] = w
  <2>1. 0 \in Nat
    OBVIOUS
  <2>2. VisitType(Visit[0]) /\ Visit[0] = NoVisit
    BY <2>1, VisitEquation
  <2> QED
    BY <2>2 DEF NoVisit
<1>3. ASSUME NEW n \in Registered, NEW w \in Walks, GoodWalk(w), Below(rank, n, w),
             Cardinality(Services \ w.seen) <= 0
      PROVE  GoesOn(w, w) /\ n \in Range(w.out)
  <2>1. IsFiniteSet(Services \ w.seen)
    BY FS_Subset
  <2>2. Cardinality(Services \ w.seen) = 0
    BY <1>3, <2>1, FS_CardinalityType
  <2>3. Services \ w.seen = {}
    BY <2>1, <2>2, FS_EmptySet
  <2>4. n \in w.seen
    BY <1>1, <2>3
  <2>5. rank[n] \in Nat
    BY <1>1 DEF Ranks
  <2>6. n \notin Grey(w)
    BY <1>3, <2>5 DEF Below
  <2> QED
    BY <1>3, <2>4, <2>6 DEF GoesOn, Grey
<1> QED
  BY <1>1, <1>2, <1>3 DEF VisitsWell

LEMMA VisitsAreGood ==
  ASSUME RegistryType, IsFiniteSet(Services), NEW rank, Ranks(rank), NEW k \in Nat
  PROVE  VisitsWell(Visit[k], k, rank)
<1> DEFINE S == {j \in Nat : ~VisitsWell(Visit[j], j, rank)}
<1> SUFFICES ASSUME S # {} PROVE FALSE
  OBVIOUS
<1>1. PICK m \in S : \A j \in S : m <= j
  <2>1. S \in SUBSET Nat
    OBVIOUS
  <2> HIDE DEF S
  <2> QED
    BY <2>1, LeastNumber
<1>2. m \in Nat /\ ~VisitsWell(Visit[m], m, rank)
  OBVIOUS
<1>3. m # 0
  BY <1>2, VisitsWellStart
<1>4. m - 1 \in Nat /\ m - 1 \notin S /\ (m - 1) + 1 = m
  BY <1>1, <1>2, <1>3
<1>5. VisitsWell(Visit[m - 1], m - 1, rank)
  BY <1>4
<1> HIDE DEF S
<1>6. VisitsWell(Visit[(m - 1) + 1], (m - 1) + 1, rank)
  BY <1>4, <1>5, VisitsWellStep
<1> QED
  BY <1>2, <1>4, <1>6

(* The order that every walk from nothing makes. *)
LEMMA OrderIsGood ==
  ASSUME RegistryType, IsFiniteSet(Services), Acyclic
  PROVE  /\ InitializationOrder \in Seq(Services)
         /\ Range(InitializationOrder) = Registered
         /\ \A i, j \in DOMAIN InitializationOrder :
              InitializationOrder[i] = InitializationOrder[j] => i = j
         /\ \A j \in DOMAIN InitializationOrder : \A d \in NeedsOf(InitializationOrder[j]) :
              \E i \in 1..(j - 1) : InitializationOrder[i] = d
<1>1. PICK rank : Ranks(rank)
  BY DEF Acyclic
<1> DEFINE w == [seen |-> {}, out |-> <<>>]
           k == Cardinality(Services)
           v == VisitEach(Visit[k], registry, w)
<1>2. w \in Walks /\ w.seen = {} /\ w.out = <<>> /\ Range(w.out) = {}
  BY DEF Walks, Range
<1>3. k \in Nat
  BY FS_CardinalityType
<1>4. VisitsWell(Visit[k], k, rank)
  BY <1>1, <1>3, VisitsAreGood
<1>5. GoodWalk(w) /\ Grey(w) = {} /\ Services \ w.seen = Services
  BY <1>2 DEF GoodWalk, Grey
<1>6. \A n \in Range(registry) \cap Registered : n \in Grey(w) \/ Below(rank, n, w)
  BY <1>5 DEF Below
<1>7. Cardinality(Services \ w.seen) <= k
  BY <1>3, <1>5
<1>8. registry \in Seq(Services)
  BY DEF RegistryType
<1> HIDE DEF w, k
<1>9. GoesOn(v, w) /\ \A n \in Range(registry) \cap Registered : n \in Grey(w) \/ n \in Range(v.out)
  BY <1>2, <1>3, <1>4, <1>5, <1>6, <1>7, <1>8, EachGoesOn
<1>10. InitializationOrder = v.out
  BY DEF InitializationOrder, v, w, k
<1> HIDE DEF v
<1>11. v.out \in Seq(Services) /\ Range(v.out) = Registered
  BY <1>5, <1>9 DEF GoesOn, GoodWalk, Walks, Registered
<1>12. DOMAIN v.out = 1..Len(v.out)
  BY <1>11
<1> QED
  BY <1>9, <1>10, <1>11, <1>12 DEF GoesOn, GoodWalk

(* For any finite number of services whose dependencies form no cycle       *)
(* longer than one, the order in which initAll and startAll take them has   *)
(* every registered service once, each after those it depends on.           *)
THEOREM OrderIsTopological == Acyclic => (Spec => []Topological)
<1> SUFFICES ASSUME Acyclic PROVE Spec => []Topological
  OBVIOUS
<1>1. TypeOK => Topological
  <2> SUFFICES ASSUME TypeOK PROVE Topological
    OBVIOUS
  <2> DEFINE ord == InitializationOrder
  <2>1. /\ ord \in Seq(Services) /\ Range(ord) = Registered
        /\ \A i, j \in DOMAIN ord : ord[i] = ord[j] => i = j
        /\ \A j \in DOMAIN ord : \A d \in NeedsOf(ord[j]) : \E i \in 1..(j - 1) : ord[i] = d
    BY OrderIsGood, ServicesAssumption DEF TypeOK
  <2> HIDE DEF ord
  <2>2. IsInjective(ord)
    BY <2>1 DEF IsInjective
  <2>3. ASSUME NEW i \in DOMAIN ord, NEW j \in DOMAIN ord, i # j, ord[i] \in Range(Deps[ord[j]])
        PROVE  i < j
    <3>1. ord[i] \in NeedsOf(ord[j])
      BY <2>1, <2>3 DEF NeedsOf, Range
    <3>2. PICK l \in 1..(j - 1) : ord[l] = ord[i]
      BY <2>1, <3>1
    <3>3. DOMAIN ord = 1..Len(ord) /\ Len(ord) \in Nat
      BY <2>1
    <3>4. l \in DOMAIN ord
      BY <3>3
    <3>5. l = i
      BY <2>1, <3>2, <3>4
    <3> QED
      BY <3>3, <3>5
  <2> QED
    BY <2>1, <2>2, <2>3 DEF Topological, ord
<1> QED
  BY <1>1, TypeCorrect, PTL


---------------------------------------------------------------------------
(* What manager.start() relies on.  A service that has started, and was    *)
(* never reported crashed, is not made ready again: only the pending init  *)
(* hook of a service that crashed does that.                               *)
LEMMA StartedByStart ==
  ASSUME TypeOK, NEW t \in Tasks, NEW o \in Objects, NEW s \in States, NEW tm,
         StartFrom(t, o, s, tm), s = state[o] \/ s \in Startable,
         NEW q \in Objects, HasStarted(q)
  PROVE  HasStarted(q)'
<1>1. PICK z \in States : state' = [state EXCEPT ![o] = z] /\ (z = state[o] \/ z \in {"starting", "running"})
  BY DEF StartFrom, Becomes, Startable, States
<1> QED
  BY <1>1 DEF HasStarted, TypeOK, ServiceType

LEMMA StartedByStop ==
  ASSUME TypeOK, NEW t \in Tasks, NEW o \in Objects, StopService(t, o),
         NEW q \in Objects, HasStarted(q)
  PROVE  HasStarted(q)'
BY DEF StopService, Becomes, svcVars, HasStarted, TypeOK, ServiceType

LEMMA StartedByInit ==
  ASSUME TypeOK, NEW t \in Tasks, NEW o \in Objects, InitService(t, o), state[o] = "created",
         NEW q \in Objects, HasStarted(q)
  PROVE  HasStarted(q)'
BY DEF InitService, Becomes, HasStarted, TypeOK, ServiceType

LEMMA StartedByReset ==
  ASSUME TypeOK, NEW t \in Tasks, NEW o \in Objects, ResetAndStart(t, o),
         NEW q \in Objects, HasStarted(q)
  PROVE  HasStarted(q)'
<1> DEFINE s == IF state[o] \in {"stopped", "error"} THEN "ready" ELSE state[o]
<1>1. StartFrom(t, o, s, timer[o])
  BY DEF ResetAndStart
<1>2. s \in States /\ (s = state[o] \/ s \in Startable)
  BY DEF States, Startable, TypeOK, ServiceType
<1> HIDE DEF s
<1> QED
  BY <1>1, <1>2, StartedByStart

LEMMA StartedByProceed ==
  ASSUME TypeOK, NEW t \in Tasks, NEW which \in AllOps, NEW ord, Proceed(t, which, ord),
         NEW q \in Objects, HasStarted(q)
  PROVE  HasStarted(q)'
<1>1. CASE UNCHANGED svcVars
  BY <1>1 DEF svcVars, HasStarted
<1>2. ASSUME NEW j \in Eligible(which, ord), CallService(t, which, Current(ord[j]))
      PROVE  HasStarted(q)'
  <2> DEFINE o == Current(ord[j])
  <2>1. o \in Objects /\ state[o] \in Takes[which] /\ state[o] \in States
    BY CurrentIsObject DEF Eligible, TypeOK, ServiceType
  <2>2. \/ InitService(t, o) /\ state[o] = "created"
        \/ StopService(t, o)
        \/ StartFrom(t, o, state[o], timer[o])
    <3>1. CASE which = "initAll"
      BY <1>2, <2>1, <3>1 DEF CallService, Takes
    <3>2. CASE which = "startAll"
      BY <1>2, <3>2 DEF CallService, StartService
    <3>3. CASE which = "stopAll"
      BY <1>2, <3>3 DEF CallService
    <3> QED
      BY <3>1, <3>2, <3>3 DEF AllOps
  <2> HIDE DEF o
  <2> QED
    BY <2>1, <2>2, StartedByInit, StartedByStop, StartedByStart
<1> QED
  BY <1>1, <1>2 DEF Proceed

LEMMA StartedByHook ==
  ASSUME LifecycleInv, NEW t \in Tasks, HookResolves(t) \/ HookFails(t),
         NEW q \in Objects, HasStarted(q), restarts[q] = 0
  PROVE  HasStarted(q)'
<1> DEFINE o == target[t]
<1>1. Awaiting(t) /\ pc[t] \in Phases
  BY DEF HookResolves, HookFails, Awaiting
<1>2. PICK z \in {"ready", "running", "stopped", "error"} :
        state' = [state EXCEPT ![o] = z] /\ (z = "ready" => pc[t] = "init")
  BY <1>1 DEF HookResolves, HookFails, Becomes, StateAfter, Phases
<1>3. CASE z = "ready"
  <2>1. restarts[o] = 0 => state[o] = "initializing"
    BY <1>1, <1>2, <1>3 DEF LifecycleInv, Exclusive, During
  <2>2. q # o
    BY <2>1 DEF HasStarted
  <2> QED
    BY <1>2, <2>2 DEF HasStarted, LifecycleInv, TypeOK, ServiceType
<1>4. CASE z # "ready"
  BY <1>2, <1>4 DEF HasStarted, LifecycleInv, TypeOK, ServiceType
<1> QED
  BY <1>3, <1>4

(* The counts of crashes only grow. *)
LEMMA CrashesAreCounted ==
  ASSUME TypeOK, [Next]_vars, NEW q \in Objects
  PROVE  restarts'[q] \in Nat /\ restarts'[q] >= restarts[q]
<1>1. restarts[q] \in Nat
  BY DEF TypeOK, ServiceType
<1>2. CASE UNCHANGED restarts
  BY <1>1, <1>2
<1>3. ASSUME NEW t \in Tasks, NEW o \in Objects, Crash(t, o)
      PROVE  restarts'[q] \in Nat /\ restarts'[q] >= restarts[q]
  BY <1>1, <1>3 DEF Crash, TypeOK, ServiceType
<1>4. ASSUME NEW t \in Tasks, NEW n \in Services,
             CallStart(t, n) \/ CallStop(t, n) \/ CallRestart(t, n) \/ CallUnregister(t, n)
      PROVE  UNCHANGED restarts
  BY <1>4 DEF CallStart, CallStop, CallRestart, CallUnregister
<1>5. ASSUME NEW t \in Tasks, NEW which \in AllOps, CallAll(t, which)
      PROVE  UNCHANGED restarts
  BY <1>5 DEF CallAll
<1>6. ASSUME NEW t \in Tasks, Resume(t)
      PROVE  UNCHANGED restarts
  BY <1>6 DEF Resume, ResumeStart, ResumeRestart, ResumeUnregister, ResumeAll, Return
<1>7. ASSUME NEW t \in Tasks, Walk(t)
      PROVE  UNCHANGED restarts
  BY <1>7 DEF Walk
<1>8. ASSUME NEW t \in Tasks, HookResolves(t) \/ HookFails(t)
      PROVE  UNCHANGED restarts
  BY <1>8 DEF HookResolves, HookFails
<1>9. ASSUME NEW n \in Services, Register(n)
      PROVE  UNCHANGED restarts
  BY <1>9 DEF Register
<1>10. UNCHANGED vars => UNCHANGED restarts
  BY DEF vars
<1> QED
  BY <1>2, <1>3, <1>4, <1>5, <1>6, <1>7, <1>8, <1>9, <1>10
  DEF Next, Call, HookRejects, HookTimesOut

LEMMA StartedStays ==
  ASSUME LifecycleInv, [Next]_vars, NEW q \in Objects, HasStarted(q), restarts'[q] = 0
  PROVE  HasStarted(q)' /\ restarts[q] = 0
<1>1. restarts[q] = 0
  BY CrashesAreCounted DEF LifecycleInv, TypeOK, ServiceType
<1>2. CASE UNCHANGED state
  BY <1>1, <1>2 DEF HasStarted
<1>3. ASSUME NEW t \in Tasks, NEW n \in Services,
             CallStart(t, n) \/ CallStop(t, n) \/ CallRestart(t, n) \/ CallUnregister(t, n)
      PROVE  HasStarted(q)'
  <2>1. n \in Registered /\ (\/ UNCHANGED state \/ StopService(t, Current(n))
                             \/ ResetAndStart(t, Current(n)))
    BY <1>3 DEF CallStart, CallStop, CallRestart, CallUnregister, svcVars
  <2> QED
    BY <2>1, CurrentIsObject, StartedByStop, StartedByReset DEF HasStarted, LifecycleInv
<1>4. ASSUME NEW t \in Tasks, NEW which \in AllOps, CallAll(t, which)
      PROVE  HasStarted(q)'
  BY <1>4, StartedByProceed DEF CallAll, LifecycleInv
<1>5. ASSUME NEW t \in Tasks, NEW o \in Objects, Crash(t, o)
      PROVE  HasStarted(q)'
  <2>1. CASE StartFrom(t, o, "ready", FALSE)
    <3>1. "ready" \in States /\ "ready" \in Startable
      BY DEF States, Startable
    <3> QED
      BY <2>1, <3>1, StartedByStart DEF LifecycleInv
  <2>2. CASE Becomes(o, "crashed", FALSE)
    BY <2>2 DEF Becomes, HasStarted, LifecycleInv, TypeOK, ServiceType
  <2> QED
    BY <1>5, <2>1, <2>2 DEF Crash
<1>6. ASSUME NEW t \in Tasks, Resume(t)
      PROVE  HasStarted(q)'
  <2>1. CASE ResumeRestart(t)
    <3>1. target[t] \in Objects /\ ResetAndStart(t, target[t])
      BY <2>1 DEF ResumeRestart, LifecycleInv, TypeOK, TaskType
    <3> QED
      BY <3>1, StartedByReset DEF LifecycleInv
  <2>2. CASE ResumeAll(t)
    <3>1. op[t] \in AllOps /\ Proceed(t, op[t], order[t])
      BY <2>2 DEF ResumeAll
    <3> QED
      BY <3>1, StartedByProceed DEF LifecycleInv
  <2>3. CASE ResumeStart(t) \/ ResumeUnregister(t) \/ Return(t)
    BY <1>2, <2>3 DEF ResumeStart, ResumeUnregister, Return, svcVars
  <2> QED
    BY <1>6, <2>1, <2>2, <2>3 DEF Resume
<1>7. ASSUME NEW t \in Tasks, Walk(t)
      PROVE  HasStarted(q)'
  <2> DEFINE o == Last(frames[t]).obj
  <2>1. CASE UNCHANGED svcVars
    BY <1>2, <2>1 DEF svcVars
  <2>2. CASE StartService(t, o)
    <3>1. Last(frames[t]) \in Frame
      BY <1>7 DEF Walk, LifecycleInv, TypeOK, TaskType, Last
    <3>2. o \in Objects /\ state[o] \in States
      BY <3>1 DEF Frame, LifecycleInv, TypeOK, ServiceType
    <3> HIDE DEF o
    <3> QED
      BY <2>2, <3>2, StartedByStart DEF StartService, LifecycleInv
  <2> QED
    BY <1>7, <2>1, <2>2 DEF Walk
<1>8. ASSUME NEW t \in Tasks, HookResolves(t) \/ HookFails(t)
      PROVE  HasStarted(q)'
  BY <1>1, <1>8, StartedByHook
<1>9. ASSUME NEW n \in Services, Register(n)
      PROVE  HasStarted(q)'
  BY <1>2, <1>9 DEF Register, svcVars
<1>10. UNCHANGED vars => UNCHANGED state
  BY DEF vars, svcVars
<1> QED
  BY <1>1, <1>2, <1>3, <1>4, <1>5, <1>6, <1>7, <1>8, <1>9, <1>10
  DEF Next, Call, HookRejects, HookTimesOut


---------------------------------------------------------------------------
(* Registrations.  Only register() makes an object; whoever calls or awaits *)
(* one has one that was made, and an object not yet made is in its first   *)
(* state.                                                                  *)
LEMMA RegistrySteps ==
  ASSUME TypeOK, [Next]_vars
  PROVE  \/ \E n \in Services : Register(n)
         \/ gen' = gen /\ Registered' \subseteq Registered
<1>1. UNCHANGED regVars => gen' = gen /\ Registered' \subseteq Registered
  BY DEF regVars, Registered
<1>2. ASSUME NEW n, Delete(n) PROVE gen' = gen /\ Registered' \subseteq Registered
  BY <1>2, DeleteShrinks DEF Delete
<1>3. ASSUME NEW t \in Tasks, NEW n \in Services,
             CallStart(t, n) \/ CallStop(t, n) \/ CallRestart(t, n) \/ CallUnregister(t, n)
      PROVE  UNCHANGED regVars \/ Delete(n)
  BY <1>3 DEF CallStart, CallStop, CallRestart, CallUnregister
<1>4. ASSUME NEW t \in Tasks, NEW which \in AllOps, CallAll(t, which)
      PROVE  UNCHANGED regVars
  BY <1>4 DEF CallAll
<1>5. ASSUME NEW t \in Tasks, NEW o \in Objects, Crash(t, o)
      PROVE  UNCHANGED regVars
  BY <1>5 DEF Crash
<1>6. ASSUME NEW t \in Tasks, Resume(t)
      PROVE  UNCHANGED regVars \/ Delete(Name(target[t]))
  BY <1>6 DEF Resume, ResumeStart, ResumeRestart, ResumeUnregister, ResumeAll, Return
<1>7. ASSUME NEW t \in Tasks, Walk(t)
      PROVE  UNCHANGED regVars
  BY <1>7 DEF Walk
<1>8. ASSUME NEW t \in Tasks, HookResolves(t) \/ HookFails(t)
      PROVE  UNCHANGED regVars
  BY <1>8 DEF HookResolves, HookFails
<1>9. UNCHANGED vars => UNCHANGED regVars
  BY DEF vars
<1> QED
  BY <1>1, <1>2, <1>3, <1>4, <1>5, <1>6, <1>7, <1>8, <1>9
  DEF Next, Call, HookRejects, HookTimesOut

FirstExist == \A n \in Range(InitialRegistry) : gen[n] > 0
TargetsExist == \A t \in Tasks : target[t] \in Objects => Created(target[t])
FramesExist == \A t \in Tasks : \A k \in 1..Len(frames[t]) : Created(frames[t][k].obj)

CreatedInv ==
  /\ FirstExist /\ TargetsExist /\ FramesExist
  /\ \A o \in Objects : state[o] # "created" => Created(o)

LEMMA CurrentIsCreated ==
  ASSUME TypeOK, NEW n \in Registered
  PROVE  Current(n) \in Objects /\ Created(Current(n))
<1>1. gen[n] \in Nat
  BY CurrentIsObject DEF TypeOK, RegistryType
<1> QED
  BY <1>1, CurrentIsObject DEF Created, Current, Name

LEMMA GenerationsGrow ==
  ASSUME TypeOK, [Next]_vars
  PROVE  /\ \A n \in Services : gen[n] \in Nat /\ gen'[n] \in Nat /\ gen'[n] >= gen[n]
         /\ \A o \in Objects : Created(o) => Created(o)'
<1>1. \A n \in Services : gen[n] \in Nat /\ gen'[n] \in Nat /\ gen'[n] >= gen[n]
  BY RegistrySteps DEF Register, TypeOK, RegistryType
<1>2. \A o \in Objects : Name(o) \in Services /\ o[2] \in Nat
  BY ServicesAssumption DEF Objects, Name
<1> QED
  BY <1>1, <1>2 DEF Created

LEMMA FirstExistStep ==
  ASSUME TypeOK, FirstExist, [Next]_vars
  PROVE  FirstExist'
<1>1. Range(InitialRegistry) \subseteq Services
  BY ServicesAssumption, RangeOfSeq
<1>2. \A n \in Services : gen[n] \in Nat /\ gen'[n] \in Nat /\ gen'[n] >= gen[n]
  BY GenerationsGrow
<1>3. ASSUME NEW n \in Range(InitialRegistry) PROVE gen'[n] > 0
  <2>1. n \in Services /\ gen[n] > 0
    BY <1>1 DEF FirstExist
  <2> QED
    BY <1>2, <2>1
<1> QED
  BY <1>3 DEF FirstExist

(* Task t calls a method of o, which exists; frames are as they were. *)
LEMMA CreatedByCall ==
  ASSUME TypeOK, CreatedInv, [Next]_vars, NEW t \in Tasks, NEW o \in Objects, Created(o),
         NEW s, NEW tm, NEW p, Becomes(o, s, tm), Yield(t, o, p), UNCHANGED frames
  PROVE  CreatedInv'
<1>1. \A q \in Objects : Created(q) => Created(q)'
  BY GenerationsGrow
<1>2. FirstExist'
  BY FirstExistStep DEF CreatedInv
<1>3. \A q \in Objects : state'[q] # "created" => Created(q)'
  BY <1>1 DEF CreatedInv, Becomes, TypeOK, ServiceType
<1>4. TargetsExist'
  BY <1>1 DEF CreatedInv, TargetsExist, Created, Yield, TypeOK, TaskType
<1>5. \A u \in Tasks : \A k \in 1..Len(frames[u]) : frames[u][k].obj \in Objects
  <2> SUFFICES ASSUME NEW u \in Tasks, NEW k \in 1..Len(frames[u])
               PROVE  frames[u][k].obj \in Objects
    OBVIOUS
  <2>1. frames[u] \in Seq(Frame)
    BY DEF TypeOK, TaskType
  <2>2. frames[u][k] \in Frame
    BY <2>1
  <2> QED
    BY <2>2 DEF Frame
<1>6. FramesExist'
  BY <1>1, <1>5 DEF CreatedInv, FramesExist, Created
<1> QED
  BY <1>2, <1>3, <1>4, <1>6 DEF CreatedInv

(* No service changes; new frames are frames of objects that exist. *)
LEMMA CreatedByStep ==
  ASSUME TypeOK, CreatedInv, [Next]_vars, UNCHANGED svcVars,
         \A u \in Tasks : \/ frames'[u] = frames[u]
                         \/ \A k \in 1..Len(frames'[u]) :
                              frames'[u][k].obj \in Objects /\ Created(frames'[u][k].obj),
         \A u \in Tasks : target'[u] \in {target[u], NoObject}
  PROVE  CreatedInv'
<1>1. \A q \in Objects : Created(q) => Created(q)'
  BY GenerationsGrow
<1>2. FirstExist'
  BY FirstExistStep DEF CreatedInv
<1>3. \A q \in Objects : state'[q] # "created" => Created(q)'
  BY <1>1 DEF CreatedInv, svcVars
<1>4. TargetsExist'
  BY <1>1, ServicesAssumption DEF CreatedInv, TargetsExist, Created
<1>5. \A u \in Tasks : \A k \in 1..Len(frames[u]) : frames[u][k].obj \in Objects
  <2> SUFFICES ASSUME NEW u \in Tasks, NEW k \in 1..Len(frames[u])
               PROVE  frames[u][k].obj \in Objects
    OBVIOUS
  <2>1. frames[u] \in Seq(Frame)
    BY DEF TypeOK, TaskType
  <2>2. frames[u][k] \in Frame
    BY <2>1
  <2> QED
    BY <2>2 DEF Frame
<1>6. FramesExist'
  BY <1>1, <1>5 DEF CreatedInv, FramesExist, Created
<1> QED
  BY <1>2, <1>3, <1>4, <1>6 DEF CreatedInv

(* A call of a service's method, in whatever state, leaves it in some state. *)
LEMMA CallBecomes ==
  ASSUME TypeOK, NEW t \in Tasks, NEW o \in Objects,
         \/ StopService(t, o) \/ InitService(t, o) \/ ResetAndStart(t, o)
         \/ StartService(t, o) \/ StartFrom(t, o, "ready", FALSE)
  PROVE  \E s, tm, p : Becomes(o, s, tm) /\ Yield(t, o, p)
<1>1. ASSUME NEW s, NEW tm, StartFrom(t, o, s, tm)
      PROVE  \E z, b, p : Becomes(o, z, b) /\ Yield(t, o, p)
  BY <1>1 DEF StartFrom
<1>2. UNCHANGED svcVars => Becomes(o, state[o], timer[o])
  BY DEF svcVars, Becomes, TypeOK, ServiceType
<1>3. CASE StopService(t, o)
  BY <1>2, <1>3 DEF StopService
<1>4. CASE InitService(t, o)
  BY <1>4 DEF InitService
<1> QED
  BY <1>1, <1>3, <1>4 DEF ResetAndStart, StartService

LEMMA CreatedByCalling ==
  ASSUME TypeOK, CreatedInv, [Next]_vars, NEW t \in Tasks, NEW o \in Objects, Created(o),
         \/ StopService(t, o) \/ InitService(t, o) \/ ResetAndStart(t, o)
         \/ StartService(t, o) \/ StartFrom(t, o, "ready", FALSE),
         UNCHANGED frames
  PROVE  CreatedInv'
BY CallBecomes, CreatedByCall

LEMMA CreatedByFinish ==
  ASSUME TypeOK, CreatedInv, [Next]_vars, NEW t \in Tasks, Finish(t), UNCHANGED svcVars
  PROVE  CreatedInv'
<1>1. /\ \A u \in Tasks : frames'[u] = IF u = t THEN <<>> ELSE frames[u]
      /\ \A u \in Tasks : target'[u] \in {target[u], NoObject}
  BY DEF Finish, Yield, TypeOK, TaskType
<1>2. 1..Len(<<>>) = {}
  OBVIOUS
<1>3. \A u \in Tasks : \/ frames'[u] = frames[u]
                       \/ \A k \in 1..Len(frames'[u]) :
                            frames'[u][k].obj \in Objects /\ Created(frames'[u][k].obj)
  BY <1>1, <1>2
<1> QED
  BY <1>1, <1>3, CreatedByStep

LEMMA CreatedByProceed ==
  ASSUME TypeOK, CreatedInv, [Next]_vars, NEW t \in Tasks, NEW which \in AllOps, NEW ord,
         Proceed(t, which, ord)
  PROVE  CreatedInv'
<1>1. CASE Finish(t) /\ UNCHANGED svcVars
  BY <1>1, CreatedByFinish
<1>2. ASSUME NEW j \in Eligible(which, ord), CallService(t, which, Current(ord[j])),
             UNCHANGED frames
      PROVE  CreatedInv'
  <2> DEFINE o == Current(ord[j])
  <2>1. o \in Objects /\ Created(o)
    BY CurrentIsCreated DEF Eligible
  <2>2. InitService(t, o) \/ StopService(t, o) \/ StartService(t, o)
    BY <1>2 DEF CallService, AllOps
  <2> HIDE DEF o
  <2> QED
    BY <1>2, <2>1, <2>2, CreatedByCalling
<1> QED
  BY <1>1, <1>2 DEF Proceed

(* The top of the stack replaced, and another frame on it. *)
LEMMA PushProperties ==
  ASSUME NEW S, NEW s \in Seq(S), s # <<>>, NEW g \in S, NEW h \in S
  PROVE  LET p == Append(Front(s) \o <<g>>, h)
             L == Len(s)
         IN  /\ Len(p) = L + 1 /\ p[L + 1] = h /\ p[L] = g
             /\ \A k \in 1..(L - 1) : p[k] = s[k]
<1> DEFINE L == Len(s)
           u == Front(s)
           v == u \o <<g>>
<1>1. L \in Nat \ {0}
  OBVIOUS
<1>2. u \in Seq(S) /\ Len(u) = L - 1 /\ \A k \in 1..(L - 1) : u[k] = s[k]
  <2>1. u = SubSeq(s, 1, L - 1)
    BY DEF Front
  <2>2. \A k \in 1..(L - 1) : s[k] \in S
    BY <1>1
  <2> HIDE DEF u, L
  <2> QED
    BY <1>1, <2>1, <2>2, SubSeqProperties
<1> HIDE DEF L, u
<1>3. <<g>> \in Seq(S) /\ Len(<<g>>) = 1 /\ <<g>>[1] = g
  OBVIOUS
<1>4. v \in Seq(S) /\ Len(v) = L
  BY <1>1, <1>2, <1>3, ConcatProperties
<1>5. v[L] = g /\ \A k \in 1..(L - 1) : v[k] = u[k]
  BY <1>1, <1>2, <1>3
<1> HIDE DEF v
<1>6. Len(Append(v, h)) = L + 1 /\ Append(v, h)[L + 1] = h /\ \A k \in 1..L : Append(v, h)[k] = v[k]
  BY <1>1, <1>4
<1>7. L \in 1..L /\ \A k \in 1..(L - 1) : k \in 1..L
  BY <1>1
<1> QED
  BY <1>2, <1>5, <1>6, <1>7 DEF u, v, L

LEMMA CreatedStep == TypeOK /\ CreatedInv /\ [Next]_vars => CreatedInv'
<1> SUFFICES ASSUME TypeOK, CreatedInv, [Next]_vars PROVE CreatedInv'
  OBVIOUS
<1>1. CASE UNCHANGED <<svcVars, frames, target>>
  <2>1. \A u \in Tasks : target'[u] \in {target[u], NoObject} /\ frames'[u] = frames[u]
    BY <1>1
  <2> QED
    BY <1>1, <2>1, CreatedByStep
<1>2. ASSUME NEW t \in Tasks, NEW n \in Services,
             CallStop(t, n) \/ CallRestart(t, n) \/ CallUnregister(t, n)
      PROVE  CreatedInv'
  <2>1. n \in Registered
    BY <1>2 DEF CallStop, CallRestart, CallUnregister
  <2>2. \/ UNCHANGED frames /\ (StopService(t, Current(n)) \/ ResetAndStart(t, Current(n)))
        \/ UNCHANGED <<svcVars, frames, target>>
    BY <1>2 DEF CallStop, CallRestart, CallUnregister, taskVars
  <2> QED
    BY <1>1, <2>1, <2>2, CurrentIsCreated, CreatedByCalling
<1>3. ASSUME NEW t \in Tasks, NEW n \in Services, CallStart(t, n)
      PROVE  CreatedInv'
  <2>1. Current(n) \in Objects /\ Created(Current(n))
    BY <1>3, CurrentIsCreated DEF CallStart
  <2> DEFINE f == [obj |-> Current(n), dep |-> 0]
  <2>2. \A u \in Tasks : frames'[u] = IF u = t THEN <<f>> ELSE frames[u]
    BY <1>3 DEF CallStart, TypeOK, TaskType
  <2>3. f.obj = Current(n)
    OBVIOUS
  <2> HIDE DEF f
  <2>4. 1..Len(<<f>>) = {1} /\ <<f>>[1] = f
    OBVIOUS
  <2>5. \A u \in Tasks : \/ frames'[u] = frames[u]
                         \/ \A k \in 1..Len(frames'[u]) :
                              frames'[u][k].obj \in Objects /\ Created(frames'[u][k].obj)
    BY <2>1, <2>2, <2>3, <2>4
  <2>6. \A u \in Tasks : target'[u] \in {target[u], NoObject}
    BY <1>3 DEF CallStart
  <2>7. UNCHANGED svcVars
    BY <1>3 DEF CallStart
  <2> QED
    BY <2>5, <2>6, <2>7, CreatedByStep
<1>4. ASSUME NEW t \in Tasks, NEW which \in AllOps, CallAll(t, which)
      PROVE  CreatedInv'
  BY <1>4, CreatedByProceed DEF CallAll
<1>5. ASSUME NEW t \in Tasks, NEW o \in Objects, Crash(t, o)
      PROVE  CreatedInv'
  <2>1. CASE StartFrom(t, o, "ready", FALSE) /\ UNCHANGED frames
    BY <1>5, <2>1, CreatedByCalling DEF Crash
  <2>2. CASE Becomes(o, "crashed", FALSE) /\ UNCHANGED taskVars
    <3>1. \A q \in Objects : Created(q) => Created(q)'
      BY GenerationsGrow
    <3>2. \A q \in Objects : state'[q] # "created" => Created(q)'
      BY <1>5, <2>2, <3>1 DEF CreatedInv, Crash, Becomes, TypeOK, ServiceType
    <3>3. UNCHANGED regVars /\ UNCHANGED <<frames, target>>
      BY <1>5, <2>2 DEF Crash, taskVars
    <3>4. FirstExist' /\ TargetsExist' /\ FramesExist'
      BY <3>3 DEF CreatedInv, FirstExist, TargetsExist, FramesExist, Created, regVars
    <3> QED
      BY <3>2, <3>4 DEF CreatedInv
  <2> QED
    BY <1>5, <2>1, <2>2 DEF Crash
<1>6. ASSUME NEW t \in Tasks, Resume(t)
      PROVE  CreatedInv'
  <2>1. CASE ResumeRestart(t)
    <3>1. target[t] \in Objects /\ Created(target[t])
      BY <2>1 DEF ResumeRestart, TypeOK, TaskType, CreatedInv, TargetsExist
    <3> QED
      BY <2>1, <3>1, CreatedByCalling DEF ResumeRestart
  <2>2. CASE ResumeAll(t)
    <3>1. op[t] \in AllOps /\ Proceed(t, op[t], order[t])
      BY <2>2 DEF ResumeAll
    <3> QED
      BY <3>1, CreatedByProceed
  <2>3. CASE Finish(t) /\ UNCHANGED svcVars
    BY <2>3, CreatedByFinish
  <2>4. CASE frames' = [frames EXCEPT ![t] = Front(@)] /\ UNCHANGED <<svcVars, target>> /\ Len(frames[t]) > 1
    <3>1. frames[t] \in Seq(Frame)
      BY DEF TypeOK, TaskType
    <3>2. /\ Len(Front(frames[t])) = Len(frames[t]) - 1
          /\ \A k \in 1..(Len(frames[t]) - 1) : Front(frames[t])[k] = frames[t][k]
      BY <2>4, <3>1 DEF Front
    <3>3. \A k \in 1..Len(frames[t]) : frames[t][k].obj \in Objects /\ Created(frames[t][k].obj)
      <4>1. \A k \in 1..Len(frames[t]) : frames[t][k] \in Frame
        BY <3>1
      <4> QED
        BY <4>1 DEF Frame, CreatedInv, FramesExist
    <3>4. \A u \in Tasks : frames'[u] = IF u = t THEN Front(frames[t]) ELSE frames[u]
      BY <2>4 DEF TypeOK, TaskType
    <3>5. \A k \in 1..Len(Front(frames[t])) : k \in 1..(Len(frames[t]) - 1) /\ k \in 1..Len(frames[t])
      BY <3>1, <3>2
    <3>6. \A u \in Tasks : \/ frames'[u] = frames[u]
                           \/ \A k \in 1..Len(frames'[u]) :
                                frames'[u][k].obj \in Objects /\ Created(frames'[u][k].obj)
      BY <3>2, <3>3, <3>4, <3>5
    <3>7. \A u \in Tasks : target'[u] \in {target[u], NoObject}
      BY <2>4
    <3> QED
      BY <2>4, <3>6, <3>7, CreatedByStep
  <2> QED
    BY <1>6, <2>1, <2>2, <2>3, <2>4 DEF Resume, ResumeStart, ResumeUnregister, Return
<1>7. ASSUME NEW t \in Tasks, Walk(t)
      PROVE  CreatedInv'
  <2> DEFINE top == Last(frames[t])
  <2>1. /\ frames[t] \in Seq(Frame) /\ frames[t] # <<>> /\ Len(frames[t]) \in Nat \ {0}
        /\ top = frames[t][Len(frames[t])]
    BY <1>7 DEF Walk, TypeOK, TaskType, Last
  <2>2. \A k \in 1..Len(frames[t]) : frames[t][k].obj \in Objects /\ Created(frames[t][k].obj)
    <3>1. \A k \in 1..Len(frames[t]) : frames[t][k] \in Frame
      BY <2>1
    <3> QED
      BY <3>1 DEF Frame, CreatedInv, FramesExist
  <2>3. top \in Frame /\ top.obj \in Objects /\ Created(top.obj)
    BY <2>1, <2>2
  <2>4. CASE Finish(t) /\ UNCHANGED svcVars
    BY <2>4, CreatedByFinish
  <2>5. CASE StartService(t, top.obj) /\ UNCHANGED frames
    <3> HIDE DEF top
    <3> QED
      BY <2>3, <2>5, CreatedByCalling
  <2>6. ASSUME NEW j \in Missing(top.obj, top.dep),
               frames' = [frames EXCEPT ![t] = Append(Front(@) \o <<[top EXCEPT !.dep = j]>>,
                     [obj |-> Current(Deps[Name(top.obj)][j]), dep |-> 0])],
               UNCHANGED <<svcVars, target>>
        PROVE  CreatedInv'
    <3> DEFINE d == Deps[Name(top.obj)][j]
               g == [top EXCEPT !.dep = j]
               h == [obj |-> Current(d), dep |-> 0]
               fs == Append(Front(frames[t]) \o <<g>>, h)
               L == Len(frames[t])
    <3>1. Current(d) \in Objects /\ Created(Current(d))
      BY <2>6, CurrentIsCreated DEF Missing
    <3>2. g.obj = top.obj /\ h.obj = Current(d) /\ g \in Frame /\ h \in Frame
      BY <2>3, <2>6, <3>1 DEF Frame, Missing
    <3> HIDE DEF d, g, h, top
    <3>3. /\ Len(fs) = L + 1 /\ fs[L + 1] = h /\ fs[L] = g
          /\ \A k \in 1..(L - 1) : fs[k] = frames[t][k]
      <4> DEFINE z == frames[t]
      <4>1. z \in Seq(Frame) /\ z # <<>> /\ L = Len(z) /\ fs = Append(Front(z) \o <<g>>, h)
        BY <2>1
      <4> HIDE DEF z, fs, L
      <4>2. /\ Len(fs) = L + 1 /\ fs[L + 1] = h /\ fs[L] = g
            /\ \A k \in 1..(L - 1) : fs[k] = z[k]
        BY <3>2, <4>1, PushProperties
      <4> QED
        BY <4>2 DEF z
    <3>4. \A u \in Tasks : frames'[u] = IF u = t THEN fs ELSE frames[u]
      BY <2>6 DEF TypeOK, TaskType, d, g, h, top
    <3> HIDE DEF fs
    <3>5. \A k \in 1..Len(fs) : k \in 1..(L - 1) \/ k = L \/ k = L + 1
      BY <2>1, <3>3
    <3>6. \A k \in 1..Len(fs) : fs[k].obj \in Objects /\ Created(fs[k].obj)
      <4>1. \A k \in 1..(L - 1) : k \in 1..L
        BY <2>1
      <4> QED
        BY <2>2, <2>3, <3>1, <3>2, <3>3, <3>5, <4>1
    <3>7. \A u \in Tasks : \/ frames'[u] = frames[u]
                           \/ \A k \in 1..Len(frames'[u]) :
                                frames'[u][k].obj \in Objects /\ Created(frames'[u][k].obj)
      BY <3>4, <3>6
    <3>8. \A u \in Tasks : target'[u] \in {target[u], NoObject}
      BY <2>6
    <3> QED
      BY <2>6, <3>7, <3>8, CreatedByStep
  <2> QED
    BY <1>7, <2>4, <2>5, <2>6 DEF Walk
<1>8. ASSUME NEW t \in Tasks, HookResolves(t) \/ HookFails(t)
      PROVE  CreatedInv'
  <2> DEFINE o == target[t]
  <2>1. o \in Objects /\ Created(o)
    BY <1>8 DEF HookResolves, HookFails, Awaiting, Phases, TypeOK, TaskType, CreatedInv, TargetsExist
  <2>2. \A q \in Objects : Created(q) => Created(q)'
    BY GenerationsGrow
  <2>3. UNCHANGED regVars /\ UNCHANGED <<frames, target>> /\ \A q \in Objects \ {o} : state'[q] = state[q]
    BY <1>8 DEF HookResolves, HookFails, Becomes, TypeOK, ServiceType
  <2> HIDE DEF o
  <2>4. \A q \in Objects : state'[q] # "created" => Created(q)'
    BY <2>1, <2>2, <2>3 DEF CreatedInv
  <2>5. FirstExist' /\ TargetsExist' /\ FramesExist'
    BY <2>3 DEF CreatedInv, FirstExist, TargetsExist, FramesExist, Created, regVars
  <2> QED
    BY <2>4, <2>5 DEF CreatedInv
<1>9. ASSUME NEW n \in Services, Register(n)
      PROVE  CreatedInv'
  BY <1>1, <1>9 DEF Register, taskVars
<1>10. CASE UNCHANGED vars
  BY <1>1, <1>10 DEF vars, taskVars
<1> QED
  BY <1>2, <1>3, <1>4, <1>5, <1>6, <1>7, <1>8, <1>9, <1>10
  DEF Next, Call, HookRejects, HookTimesOut

LEMMA CreatedInit == Init => CreatedInv
<1> SUFFICES ASSUME Init PROVE CreatedInv
  OBVIOUS
<1>1. FirstExist
  BY ServicesAssumption, RangeOfSeq DEF Init, FirstExist
<1>2. TargetsExist
  BY ServicesAssumption DEF Init, TargetsExist
<1>3. FramesExist
  <2>1. 1..Len(<<>>) = {}
    OBVIOUS
  <2> QED
    BY <2>1 DEF Init, FramesExist
<1> QED
  BY <1>1, <1>2, <1>3 DEF Init, CreatedInv


---------------------------------------------------------------------------
(* The frames of a manager.start(): each but the last waits for the service *)
(* of the next one, and the dependencies before that, of those that were   *)
(* registered all along and never crashed, have started.                   *)
StillFirst(d) ==
  d \in Range(InitialRegistry) /\ d \in Registered /\ gen[d] = 1 /\ restarts[<<d, 1>>] = 0

Passed(n, i) ==
  \A j \in 1..i : StillFirst(Deps[n][j]) => HasStarted(<<Deps[n][j], 1>>)

FrameOK(fs, k) ==
  LET n == Name(fs[k].obj)
  IN  /\ fs[k].dep \in 0..Len(Deps[n])
      /\ k = Len(fs) => Passed(n, fs[k].dep)
      /\ k # Len(fs) => /\ fs[k].dep # 0
                        /\ Name(fs[k + 1].obj) = Deps[n][fs[k].dep]
                        /\ Passed(n, fs[k].dep - 1)

StartOK(t) ==
  op[t] = "start" =>
    /\ pc[t] \in {"walk", "start", "ok", "failed"}
    /\ pc[t] # "walk" => target[t] = Last(frames[t]).obj
    /\ pc[t] = "ok" /\ restarts[target[t]] = 0 => HasStarted(target[t])
    /\ \A k \in 1..Len(frames[t]) : FrameOK(frames[t], k)

StartsInv == \A t \in Tasks : StartOK(t)

LEMMA FirstIsObject ==
  ASSUME NEW d \in Services
  PROVE  <<d, 1>> \in Objects
<1>1. 1 \in 1..MaxGen[d]
  BY ServicesAssumption
<1> QED
  BY <1>1 DEF Objects

LEMMA FirstStays ==
  ASSUME TypeOK, CreatedInv, [Next]_vars, NEW d, StillFirst(d)'
  PROVE  d \in Services /\ StillFirst(d)
<1>1. d \in Range(InitialRegistry) /\ d \in Registered' /\ gen'[d] = 1 /\ restarts'[<<d, 1>>] = 0
  BY DEF StillFirst
<1>2. d \in Services /\ gen[d] > 0 /\ gen[d] \in Nat
  BY <1>1, ServicesAssumption, RangeOfSeq DEF CreatedInv, FirstExist, TypeOK, RegistryType
<1>3. <<d, 1>> \in Objects /\ restarts[<<d, 1>>] \in Nat
  BY <1>2, FirstIsObject DEF TypeOK, ServiceType
<1>4. restarts[<<d, 1>>] = 0
  BY <1>1, <1>3, CrashesAreCounted
<1>5. CASE \E n \in Services : Register(n)
  <2>1. PICK n \in Services : Register(n)
    BY <1>5
  <2>2. Registered' = Registered \cup {n}
    <3>1. registry \in Seq(Services) /\ <<n>> \in Seq(Services)
      BY DEF TypeOK, RegistryType
    <3>2. registry' = registry \o <<n>>
      BY <2>1, <3>1, AppendIsConcat DEF Register
    <3>3. Range(<<n>>) = {n}
      BY DEF Range
    <3>4. Range(registry \o <<n>>) = Range(registry) \cup Range(<<n>>)
      BY <3>1, RangeConcatenation
    <3> QED
      BY <3>2, <3>3, <3>4 DEF Registered
  <2>3. gen'[d] = IF d = n THEN gen[d] + 1 ELSE gen[d]
    BY <1>2, <2>1 DEF Register, TypeOK, RegistryType
  <2>4. d # n
    BY <1>1, <1>2, <2>3
  <2> QED
    BY <1>1, <1>2, <1>4, <2>2, <2>3, <2>4 DEF StillFirst
<1>6. CASE gen' = gen /\ Registered' \subseteq Registered
  BY <1>1, <1>2, <1>4, <1>6 DEF StillFirst
<1> QED
  BY <1>5, <1>6, RegistrySteps

LEMMA PassedStays ==
  ASSUME LifecycleInv, CreatedInv, [Next]_vars, NEW n \in Services, NEW i, Passed(n, i)
  PROVE  Passed(n, i)'
<1> SUFFICES ASSUME NEW j \in 1..i, StillFirst(Deps[n][j])'
             PROVE  HasStarted(<<Deps[n][j], 1>>)'
  BY DEF Passed
<1> DEFINE d == Deps[n][j]
<1>1. d \in Services /\ StillFirst(d)
  BY FirstStays DEF LifecycleInv
<1>2. <<d, 1>> \in Objects /\ HasStarted(<<d, 1>>) /\ restarts'[<<d, 1>>] = 0
  BY <1>1, FirstIsObject DEF Passed, StillFirst
<1> QED
  BY <1>2, StartedStays

(* A task that stays where it is has frames as good as before. *)
LEMMA FrameOKStays ==
  ASSUME LifecycleInv, CreatedInv, [Next]_vars, NEW fs \in Seq(Frame), NEW k \in 1..Len(fs),
         FrameOK(fs, k)
  PROVE  FrameOK(fs, k)'
<1>1. fs[k] \in Frame
  OBVIOUS
<1>2. Name(fs[k].obj) \in Services
  BY <1>1, NameOfObject DEF Frame
<1> QED
  BY <1>2, PassedStays DEF FrameOK

LEMMA StartOKStays ==
  ASSUME LifecycleInv, CreatedInv, [Next]_vars, NEW t \in Tasks, StartOK(t),
         op'[t] = op[t], pc'[t] = pc[t], target'[t] = target[t], frames'[t] = frames[t]
  PROVE  StartOK(t)'
<1> SUFFICES ASSUME op[t] = "start" PROVE StartOK(t)'
  BY DEF StartOK
<1>1. PICK fs : fs = frames[t]
  OBVIOUS
<1>2. fs \in Seq(Frame) /\ \A k \in 1..Len(fs) : FrameOK(fs, k)
  BY <1>1 DEF StartOK, LifecycleInv, TypeOK, TaskType
<1>3. \A k \in 1..Len(fs) : FrameOK(fs, k)'
  BY <1>2, FrameOKStays
<1>4. \A k \in 1..Len(frames'[t]) : FrameOK(frames[t], k)'
  BY <1>1, <1>3 DEF FrameOK
<1>5. pc[t] = "ok" /\ restarts'[target[t]] = 0 => HasStarted(target[t])'
  <2>1. PICK q : q = target[t]
    OBVIOUS
  <2> SUFFICES ASSUME pc[t] = "ok", restarts'[q] = 0 PROVE HasStarted(q)'
    BY <2>1 DEF HasStarted
  <2>2. q \in Objects
    BY <2>1 DEF LifecycleInv, TypeOK, TaskType
  <2>3. restarts[q] = 0
    BY <2>2, CrashesAreCounted DEF LifecycleInv, TypeOK, ServiceType
  <2>4. HasStarted(q)
    BY <2>1, <2>3 DEF StartOK
  <2> QED
    BY <2>2, <2>4, StartedStays
<1> QED
  BY <1>4, <1>5 DEF StartOK

(* A task that is not, or no longer, in manager.start() has nothing to keep. *)
LEMMA StartsByOther ==
  ASSUME LifecycleInv, CreatedInv, StartsInv, [Next]_vars, NEW t \in Tasks,
         \A u \in Tasks \ {t} : /\ op'[u] = op[u] /\ pc'[u] = pc[u]
                                /\ target'[u] = target[u] /\ frames'[u] = frames[u],
         StartOK(t)'
  PROVE  StartsInv'
<1>1. ASSUME NEW u \in Tasks, u # t PROVE StartOK(u)'
  BY <1>1, StartOKStays DEF StartsInv
<1> QED
  BY <1>1 DEF StartsInv

LEMMA StartsByAnother ==
  ASSUME LifecycleInv, CreatedInv, StartsInv, [Next]_vars, NEW t \in Tasks,
         NEW x, op' = [op EXCEPT ![t] = x], x # "start",
         NEW o, NEW p, Yield(t, o, p),
         \A u \in Tasks \ {t} : frames'[u] = frames[u]
  PROVE  StartsInv'
<1>1. \A u \in Tasks \ {t} : op'[u] = op[u] /\ pc'[u] = pc[u] /\ target'[u] = target[u]
  BY DEF Yield, LifecycleInv, TypeOK, TaskType
<1>2. op'[t] # "start"
  BY DEF LifecycleInv, TypeOK, TaskType
<1> QED
  BY <1>1, <1>2, StartsByOther DEF StartOK

LEMMA StartsByFinish ==
  ASSUME LifecycleInv, CreatedInv, StartsInv, [Next]_vars, NEW t \in Tasks, Finish(t)
  PROVE  StartsInv'
<1>1. \A u \in Tasks \ {t} : frames'[u] = frames[u]
  BY DEF Finish, LifecycleInv, TypeOK, TaskType
<1> QED
  BY <1>1, StartsByAnother DEF Finish

LEMMA StartsByProceed ==
  ASSUME LifecycleInv, CreatedInv, StartsInv, [Next]_vars, NEW t \in Tasks,
         NEW which \in AllOps, NEW ord, Proceed(t, which, ord)
  PROVE  StartsInv'
<1>1. CASE Finish(t)
  BY <1>1, StartsByFinish
<1>2. ASSUME NEW j \in Eligible(which, ord), CallService(t, which, Current(ord[j])),
             op' = [op EXCEPT ![t] = which], UNCHANGED frames
      PROVE  StartsInv'
  <2> DEFINE o == Current(ord[j])
  <2>1. o \in Objects
    BY CurrentIsObject DEF Eligible, LifecycleInv
  <2>2. InitService(t, o) \/ StopService(t, o) \/ StartService(t, o)
    BY <1>2 DEF CallService, AllOps
  <2>3. which # "start"
    BY DEF AllOps
  <2> HIDE DEF o
  <2>4. \E p : Yield(t, o, p)
    BY <2>1, <2>2, CallBecomes DEF LifecycleInv
  <2> QED
    BY <1>2, <2>3, <2>4, StartsByAnother
<1> QED
  BY <1>1, <1>2 DEF Proceed

LEMMA StartsByCalling ==
  ASSUME LifecycleInv, CreatedInv, StartsInv, [Next]_vars, NEW t \in Tasks, NEW o \in Objects,
         StopService(t, o) \/ ResetAndStart(t, o) \/ StartFrom(t, o, "ready", FALSE),
         NEW x, op' = [op EXCEPT ![t] = x], x # "start", UNCHANGED frames
  PROVE  StartsInv'
<1>1. \E p : Yield(t, o, p)
  BY CallBecomes DEF LifecycleInv
<1> QED
  BY <1>1, StartsByAnother

LEMMA StartsByCallStart ==
  ASSUME LifecycleInv, CreatedInv, StartsInv, [Next]_vars, NEW t \in Tasks, NEW n \in Services,
         CallStart(t, n)
  PROVE  StartsInv'
<1>1. n \in Registered /\ Name(Current(n)) = n
  BY CurrentIsObject DEF CallStart, LifecycleInv
<1>2. /\ op'[t] = "start" /\ pc'[t] = "walk"
      /\ frames'[t] = <<[obj |-> Current(n), dep |-> 0]>>
      /\ \A u \in Tasks \ {t} : /\ op'[u] = op[u] /\ pc'[u] = pc[u]
                                /\ target'[u] = target[u] /\ frames'[u] = frames[u]
  BY DEF CallStart, LifecycleInv, TypeOK, TaskType
<1>3. PICK fs : fs = frames'[t]
  OBVIOUS
<1>4. fs = <<fs[1]>> /\ fs[1].dep = 0 /\ Name(fs[1].obj) = n /\ Len(fs) = 1
  BY <1>1, <1>2, <1>3
<1>5. FrameOK(fs, 1)'
  <2>1. 0 \in 0..Len(Deps[n]) /\ 1..0 = {}
    BY ServicesAssumption
  <2>2. Passed(n, 0)'
    BY <2>1 DEF Passed
  <2>3. Name(fs[1].obj) = n /\ fs[1].dep = 0 /\ Len(fs) = 1
    BY <1>4
  <2> QED
    BY <2>1, <2>2, <2>3 DEF FrameOK
<1>6. \A k \in 1..Len(frames'[t]) : FrameOK(frames[t], k)'
  <2>1. 1..Len(frames'[t]) = {1}
    BY <1>3, <1>4
  <2>2. FrameOK(frames[t], 1)'
    BY <1>3, <1>5 DEF FrameOK
  <2> QED
    BY <2>1, <2>2
<1>7. StartOK(t)'
  BY <1>2, <1>6 DEF StartOK
<1> QED
  BY <1>2, <1>7, StartsByOther

(* Where a task in manager.start() is before it moves. *)
LEMMA TopFrame ==
  ASSUME LifecycleInv, CreatedInv, StartsInv, NEW t \in Tasks, op[t] = "start"
  PROVE  /\ frames[t] \in Seq(Frame) /\ Len(frames[t]) \in Nat \ {0}
         /\ Last(frames[t]) = frames[t][Len(frames[t])]
         /\ \A k \in 1..Len(frames[t]) : /\ frames[t][k] \in Frame /\ frames[t][k].obj \in Objects
                                         /\ Created(frames[t][k].obj) /\ FrameOK(frames[t], k)
<1>1. frames[t] \in Seq(Frame) /\ frames[t] # <<>>
  BY DEF LifecycleInv, TypeOK, TaskType
<1>2. \A k \in 1..Len(frames[t]) : frames[t][k] \in Frame
  BY <1>1
<1>3. Len(frames[t]) \in Nat \ {0}
  BY <1>1
<1> QED
  BY <1>1, <1>2, <1>3 DEF Last, Frame, CreatedInv, FramesExist, StartsInv, StartOK

LEMMA StartsByHook ==
  ASSUME LifecycleInv, CreatedInv, StartsInv, [Next]_vars, NEW t \in Tasks,
         HookResolves(t) \/ HookFails(t)
  PROVE  StartsInv'
<1>1. /\ Awaiting(t) /\ UNCHANGED <<op, target, frames>> /\ pc[t] \in Phases
      /\ \A u \in Tasks \ {t} : pc'[u] = pc[u]
  BY DEF HookResolves, HookFails, Awaiting, LifecycleInv, TypeOK, TaskType
<1>2. StartOK(t)'
  <2> SUFFICES ASSUME op[t] = "start" PROVE StartOK(t)'
    BY <1>1 DEF StartOK
  <2>1. PICK fs : fs = frames[t]
    OBVIOUS
  <2>2. fs \in Seq(Frame) /\ \A k \in 1..Len(fs) : FrameOK(fs, k)
    BY <2>1, TopFrame
  <2>3. \A k \in 1..Len(fs) : FrameOK(fs, k)'
    BY <2>2, FrameOKStays
  <2>4. \A k \in 1..Len(frames'[t]) : FrameOK(frames[t], k)'
    BY <1>1, <2>1, <2>3 DEF FrameOK
  <2>5. pc[t] = "start" /\ target[t] = Last(frames[t]).obj /\ target[t] \in Objects
    BY <1>1 DEF StartsInv, StartOK, Phases, LifecycleInv, TypeOK, TaskType
  <2>6. \/ pc'[t] = "ok" /\ state'[target[t]] = "running"
        \/ pc'[t] = "failed"
    BY <2>5 DEF HookResolves, HookFails, Becomes, StateAfter, LifecycleInv, TypeOK, TaskType, ServiceType
  <2> QED
    BY <1>1, <2>4, <2>5, <2>6 DEF StartOK, HasStarted
<1> QED
  BY <1>1, <1>2, StartsByOther


(* The dependencies the walk does not enter are not registered or run. *)
LEMMA PassedOver ==
  ASSUME TypeOK, NEW o \in Objects, NEW e \in Nat, Passed(Name(o), e), AutoStartDependencies,
         NEW i \in 0..Len(Deps[Name(o)]), \A k \in (e + 1)..i : k \notin Missing(o, e)
  PROVE  Passed(Name(o), i)
<1> DEFINE n == Name(o)
<1>1. n \in Services /\ Len(Deps[n]) \in Nat
  BY NameOfObject, ServicesAssumption
<1> SUFFICES ASSUME NEW k \in 1..i, StillFirst(Deps[n][k]) PROVE HasStarted(<<Deps[n][k], 1>>)
  BY DEF Passed
<1>2. CASE k \in 1..e
  BY <1>2 DEF Passed
<1>3. CASE k \in (e + 1)..i
  <2>1. k \notin Missing(o, e)
    BY <1>3
  <2>2. k \in (e + 1)..Len(Deps[n]) /\ Deps[n][k] \in Registered
    BY <1>1, <1>3 DEF StillFirst
  <2>3. IsRunning(Deps[n][k])
    BY <2>1, <2>2 DEF Missing
  <2>4. Current(Deps[n][k]) = <<Deps[n][k], 1>>
    BY DEF StillFirst, Current
  <2> QED
    BY <2>3, <2>4 DEF IsRunning, HasStarted
<1>4. k \in 1..e \/ k \in (e + 1)..i
  OBVIOUS
<1> QED
  BY <1>2, <1>3, <1>4

LEMMA PassedNone == \A n : Passed(n, 0)
<1>1. 1..0 = {}
  OBVIOUS
<1> QED
  BY <1>1 DEF Passed

(* manager.start() enters the j-th dependency of the service on top. *)
LEMMA StartsByEntering ==
  ASSUME LifecycleInv, CreatedInv, StartsInv, [Next]_vars, NEW t \in Tasks, op[t] = "start",
         NEW top, top = Last(frames[t]), NEW j \in Missing(top.obj, top.dep),
         \A i \in Missing(top.obj, top.dep) : j <= i,
         pc[t] = "walk", UNCHANGED <<op, pc, target>>,
         frames' = [frames EXCEPT ![t] = Append(Front(@) \o <<[top EXCEPT !.dep = j]>>,
                      [obj |-> Current(Deps[Name(top.obj)][j]), dep |-> 0])]
  PROVE  StartsInv'
<1>0. PICK f : f = frames[t]
  OBVIOUS
<1> DEFINE L == Len(f)
           n == Name(top.obj)
           d == Deps[n][j]
<1>a. PICK c : c = Current(d)
  OBVIOUS
<1> DEFINE g == [top EXCEPT !.dep = j]
           h == [obj |-> c, dep |-> 0]
<1>1. /\ f \in Seq(Frame) /\ L \in Nat \ {0} /\ top = f[L]
      /\ \A k \in 1..L : f[k] \in Frame /\ f[k].obj \in Objects /\ FrameOK(f, k)
  BY <1>0, TopFrame
<1>2. top \in Frame /\ top.obj \in Objects /\ top.dep \in Nat /\ n \in Services
  BY <1>1, NameOfObject DEF Frame
<1>3. top.dep \in 0..Len(Deps[n]) /\ Passed(n, top.dep)
  <2>1. L \in 1..L
    BY <1>1
  <2>2. FrameOK(f, L)
    BY <1>1, <2>1
  <2> QED
    BY <1>1, <2>2 DEF FrameOK
<1>4. /\ j \in (top.dep + 1)..Len(Deps[n]) /\ AutoStartDependencies
      /\ d \in Registered /\ Len(Deps[n]) \in Nat
  BY <1>2, ServicesAssumption DEF Missing
<1>5. Passed(n, j - 1)
  <2> DEFINE i == j - 1
  <2>1. i \in 0..Len(Deps[n]) /\ \A k \in (top.dep + 1)..i : ~(j <= k)
    BY <1>2, <1>4
  <2>2. \A k \in (top.dep + 1)..i : k \notin Missing(top.obj, top.dep)
    BY <2>1
  <2> HIDE DEF i
  <2>3. Passed(n, i)
    BY <1>2, <1>3, <1>4, <2>1, <2>2, PassedOver DEF LifecycleInv
  <2> QED
    BY <2>3 DEF i
<1>6. Name(c) = d /\ c \in Objects
  BY <1>4, <1>a, CurrentIsObject DEF LifecycleInv, Current, Name
<1>7. /\ g \in Frame /\ h \in Frame /\ g.obj = top.obj /\ g.dep = j
      /\ Name(h.obj) = d /\ h.dep = 0
  BY <1>2, <1>4, <1>6 DEF Frame
<1>8. PICK p : p = frames'[t]
  OBVIOUS
<1>9. p = Append(Front(f) \o <<g>>, h)
  BY <1>0, <1>8, <1>a DEF LifecycleInv, TypeOK, TaskType
<1> HIDE DEF g, h, L
<1>10. /\ Len(p) = L + 1 /\ p[L + 1] = h /\ p[L] = g
       /\ \A k \in 1..(L - 1) : p[k] = f[k]
  <2>1. f # <<>>
    BY <1>1 DEF L
  <2> QED
    BY <1>1, <1>7, <1>9, <2>1, PushProperties DEF L
<1> HIDE DEF n, d
<1>11. FrameOK(p, L + 1)'
  <2>1. 0 \in 0..Len(Deps[d])
    BY <1>4, ServicesAssumption, CurrentIsObject DEF LifecycleInv
  <2>2. Passed(d, 0)'
    <3>1. 1..0 = {}
      OBVIOUS
    <3> QED
      BY <3>1 DEF Passed
  <2> QED
    BY <1>1, <1>7, <1>10, <2>1, <2>2 DEF FrameOK
<1>12. FrameOK(p, L)'
  <2>1. Passed(n, j - 1)'
    BY <1>2, <1>5, PassedStays
  <2>2. L # Len(p) /\ j # 0 /\ j \in 0..Len(Deps[n]) /\ Name(p[L].obj) = n
    BY <1>1, <1>2, <1>4, <1>7, <1>10 DEF n
  <2> QED
    BY <1>7, <1>10, <2>1, <2>2 DEF FrameOK, d
<1>13. ASSUME NEW k \in 1..(L - 1) PROVE FrameOK(p, k)'
  <2>1. k \in 1..L /\ k # L /\ k # Len(p) /\ k \in Nat /\ (k + 1 \in 1..(L - 1) \/ k + 1 = L)
    BY <1>1, <1>10
  <2>2. f[k] \in Frame /\ f[k].obj \in Objects /\ FrameOK(f, k) /\ Name(f[k].obj) \in Services
    BY <1>1, <2>1, NameOfObject
  <2>3. p[k] = f[k] /\ p[k + 1].obj = f[k + 1].obj
    BY <1>1, <1>7, <1>10, <2>1
  <2>4. /\ f[k].dep \in 0..Len(Deps[Name(f[k].obj)]) /\ f[k].dep # 0
        /\ Name(f[k + 1].obj) = Deps[Name(f[k].obj)][f[k].dep]
        /\ Passed(Name(f[k].obj), f[k].dep - 1)
    BY <2>1, <2>2 DEF FrameOK, L
  <2>5. Passed(Name(f[k].obj), f[k].dep - 1)'
    BY <2>2, <2>4, PassedStays
  <2> QED
    BY <2>1, <2>3, <2>4, <2>5 DEF FrameOK
<1>14. \A k \in 1..Len(p) : FrameOK(p, k)'
  BY <1>1, <1>10, <1>11, <1>12, <1>13
<1>15. \A k \in 1..Len(frames'[t]) : FrameOK(frames[t], k)'
  BY <1>8, <1>14 DEF FrameOK
<1>16. StartOK(t)'
  BY <1>15 DEF StartOK
<1>17. \A u \in Tasks \ {t} : frames'[u] = frames[u]
  BY DEF LifecycleInv, TypeOK, TaskType
<1> QED
  BY <1>16, <1>17, StartsByOther

(* start() is called on the service on top, whose dependencies have passed. *)
LEMMA StartsByStarting ==
  ASSUME LifecycleInv, CreatedInv, StartsInv, [Next]_vars, NEW t \in Tasks, op[t] = "start",
         NEW o, o = Last(frames[t]).obj, StartService(t, o), UNCHANGED <<op, frames>>
  PROVE  StartsInv'
<1>1. o \in Objects
  <2>1. Len(frames[t]) \in 1..Len(frames[t])
    BY TopFrame
  <2> QED
    BY <2>1, TopFrame
<1>2. \A u \in Tasks \ {t} : pc'[u] = pc[u] /\ target'[u] = target[u]
  BY DEF StartService, StartFrom, Yield, LifecycleInv, TypeOK, TaskType
<1>3. /\ target'[t] = o
      /\ \/ pc'[t] \in {"start", "failed"}
         \/ pc'[t] = "ok" /\ state'[o] = "running"
  BY <1>1 DEF StartService, StartFrom, Becomes, Yield, LifecycleInv, TypeOK, TaskType, ServiceType
<1>4. PICK fs : fs = frames[t]
  OBVIOUS
<1>5. fs \in Seq(Frame) /\ \A k \in 1..Len(fs) : FrameOK(fs, k)
  BY <1>4, TopFrame
<1>6. \A k \in 1..Len(fs) : FrameOK(fs, k)'
  BY <1>5, FrameOKStays
<1>7. \A k \in 1..Len(frames'[t]) : FrameOK(frames[t], k)'
  BY <1>4, <1>6 DEF FrameOK
<1>8. StartOK(t)'
  BY <1>3, <1>7 DEF StartOK, HasStarted
<1> QED
  BY <1>2, <1>8, StartsByOther

LEMMA StartsByWalk ==
  ASSUME LifecycleInv, CreatedInv, StartsInv, [Next]_vars, NEW t \in Tasks, Walk(t)
  PROVE  StartsInv'
<1>1. op[t] = "start" /\ pc[t] = "walk"
  BY DEF Walk, LifecycleInv, TypeOK, TaskType
<1>2. PICK top : top = Last(frames[t])
  OBVIOUS
<1>3. CASE Finish(t)
  BY <1>3, StartsByFinish
<1>4. CASE StartService(t, top.obj) /\ UNCHANGED <<op, frames>>
  BY <1>1, <1>2, <1>4, StartsByStarting
<1>5. ASSUME NEW j \in Missing(top.obj, top.dep), \A i \in Missing(top.obj, top.dep) : j <= i,
             frames' = [frames EXCEPT ![t] = Append(Front(@) \o <<[top EXCEPT !.dep = j]>>,
                          [obj |-> Current(Deps[Name(top.obj)][j]), dep |-> 0])],
             UNCHANGED <<op, pc, target>>
      PROVE  StartsInv'
  BY <1>1, <1>2, <1>5, StartsByEntering
<1> QED
  BY <1>2, <1>3, <1>4, <1>5 DEF Walk

(* The service on top has started, and its caller goes on with the next. *)
LEMMA StartsByLeaving ==
  ASSUME LifecycleInv, CreatedInv, StartsInv, [Next]_vars, NEW t \in Tasks, op[t] = "start",
         pc[t] = "ok", Len(frames[t]) > 1, frames' = [frames EXCEPT ![t] = Front(@)],
         pc' = [pc EXCEPT ![t] = "walk"], UNCHANGED <<op, target>>
  PROVE  StartsInv'
<1>0. PICK f : f = frames[t]
  OBVIOUS
<1> DEFINE L == Len(f)
           M == L - 1
<1>1. /\ f \in Seq(Frame) /\ L \in Nat /\ L > 1 /\ Last(f) = f[L]
      /\ \A k \in 1..L : /\ f[k] \in Frame /\ f[k].obj \in Objects /\ Created(f[k].obj)
                         /\ FrameOK(f, k)
  BY <1>0, TopFrame
<1>2. M \in 1..L /\ M # L /\ M + 1 = L /\ L \in 1..L /\ M \in Nat
  BY <1>1
<1>3. PICK p : p = frames'[t]
  OBVIOUS
<1>4. p = Front(f)
  BY <1>0, <1>3 DEF LifecycleInv, TypeOK, TaskType
<1>5. Len(p) = M /\ \A k \in 1..M : p[k] = f[k]
  <2>1. f \in Seq(Frame) /\ f # <<>> /\ p = SubSeq(f, 1, L - 1)
    BY <1>1, <1>4 DEF Front
  <2> QED
    BY <1>1, <2>1
<1> DEFINE n == Name(f[M].obj)
           e == f[M].dep
           q == f[L].obj
<1>6. /\ n \in Services /\ q \in Objects /\ Created(q) /\ target[t] = q
      /\ restarts[q] = 0 => HasStarted(q)
  BY <1>0, <1>1, <1>2, NameOfObject DEF StartsInv, StartOK
<1>7. e \in 0..Len(Deps[n]) /\ e # 0 /\ Name(q) = Deps[n][e] /\ Passed(n, e - 1)
  <2>1. FrameOK(f, M)
    BY <1>1, <1>2
  <2> QED
    BY <1>2, <2>1 DEF FrameOK
<1> HIDE DEF L, M, n, e, q
<1>8. Passed(n, e)
  <2> SUFFICES ASSUME NEW j \in 1..e, StillFirst(Deps[n][j]) PROVE HasStarted(<<Deps[n][j], 1>>)
    BY DEF Passed
  <2>1. CASE j \in 1..(e - 1)
    BY <1>7, <2>1 DEF Passed
  <2>2. CASE j = e
    <3>1. gen[Name(q)] = 1 /\ restarts[<<Name(q), 1>>] = 0
      BY <1>7, <2>2 DEF StillFirst
    <3>2. q = <<Name(q), q[2]>> /\ q[2] \in Nat /\ q[2] >= 1
      <4>1. PICK m \in Services : q \in {m} \X (1..MaxGen[m])
        BY <1>6 DEF Objects
      <4>2. q = <<q[1], q[2]>> /\ q[2] \in 1..MaxGen[m] /\ MaxGen[m] \in Nat
        BY <4>1, ServicesAssumption
      <4> QED
        BY <4>2 DEF Name
    <3>3. q[2] <= 1
      BY <1>6, <3>1 DEF Created
    <3>4. q = <<Name(q), 1>>
      BY <3>2, <3>3
    <3> QED
      BY <1>6, <1>7, <2>2, <3>1, <3>4
  <2>3. j \in 1..(e - 1) \/ j = e
    BY <1>7
  <2> QED
    BY <2>1, <2>2, <2>3
<1>9. FrameOK(p, M)'
  <2>1. Passed(n, e)'
    BY <1>6, <1>8, PassedStays
  <2>2. p[M] = f[M] /\ M = Len(p)
    BY <1>2, <1>5
  <2> QED
    BY <1>7, <2>1, <2>2 DEF FrameOK, n, e
<1>10. ASSUME NEW k \in 1..M, k # M PROVE FrameOK(p, k)'
  <2>1. k \in 1..L /\ k # L /\ k # Len(p) /\ k + 1 \in 1..M
    <3>1. M \in Nat /\ L = M + 1 /\ Len(p) = M
      BY <1>2, <1>5
    <3> QED
      BY <3>1, <1>10
  <2>2. f[k].obj \in Objects /\ FrameOK(f, k) /\ Name(f[k].obj) \in Services
    BY <1>1, <2>1, NameOfObject
  <2>3. p[k] = f[k] /\ p[k + 1] = f[k + 1]
    BY <1>5, <2>1
  <2>4. /\ f[k].dep \in 0..Len(Deps[Name(f[k].obj)]) /\ f[k].dep # 0
        /\ Name(f[k + 1].obj) = Deps[Name(f[k].obj)][f[k].dep]
        /\ Passed(Name(f[k].obj), f[k].dep - 1)
    BY <2>1, <2>2 DEF FrameOK, L
  <2>5. Passed(Name(f[k].obj), f[k].dep - 1)'
    BY <2>2, <2>4, PassedStays
  <2> QED
    BY <2>1, <2>3, <2>4, <2>5 DEF FrameOK
<1>11. \A k \in 1..Len(p) : FrameOK(p, k)'
  BY <1>5, <1>9, <1>10
<1>12. \A k \in 1..Len(frames'[t]) : FrameOK(frames[t], k)'
  BY <1>3, <1>11 DEF FrameOK
<1>13. pc'[t] = "walk" /\ \A u \in Tasks \ {t} : pc'[u] = pc[u] /\ frames'[u] = frames[u]
  BY DEF LifecycleInv, TypeOK, TaskType
<1>14. StartOK(t)'
  BY <1>12, <1>13 DEF StartOK
<1> QED
  BY <1>13, <1>14, StartsByOther

LEMMA StartsByKeeping ==
  ASSUME LifecycleInv, CreatedInv, StartsInv, [Next]_vars, UNCHANGED <<op, pc, target, frames>>
  PROVE  StartsInv'
BY StartOKStays DEF StartsInv

LEMMA StartsStep ==
  LifecycleInv /\ CreatedInv /\ StartsInv /\ [Next]_vars => StartsInv'
<1> SUFFICES ASSUME LifecycleInv, CreatedInv, StartsInv, [Next]_vars PROVE StartsInv'
  OBVIOUS
<1>1. ASSUME NEW t \in Tasks, NEW n \in Services,
             CallStop(t, n) \/ CallRestart(t, n) \/ CallUnregister(t, n)
      PROVE  StartsInv'
  <2>1. n \in Registered /\ Current(n) \in Objects
    BY <1>1, CurrentIsObject DEF CallStop, CallRestart, CallUnregister, LifecycleInv
  <2>2. \/ UNCHANGED taskVars
        \/ /\ UNCHANGED frames /\ (StopService(t, Current(n)) \/ ResetAndStart(t, Current(n)))
           /\ \/ op' = [op EXCEPT ![t] = "stop"] \/ op' = [op EXCEPT ![t] = "restart"]
              \/ op' = [op EXCEPT ![t] = "restarting"] \/ op' = [op EXCEPT ![t] = "unregister"]
    BY <1>1 DEF CallStop, CallRestart, CallUnregister, ResetAndStart
  <2> QED
    BY <2>1, <2>2, StartsByKeeping, StartsByCalling DEF taskVars
<1>2. ASSUME NEW t \in Tasks, NEW n \in Services, CallStart(t, n)
      PROVE  StartsInv'
  BY <1>2, StartsByCallStart
<1>3. ASSUME NEW t \in Tasks, NEW which \in AllOps, CallAll(t, which)
      PROVE  StartsInv'
  BY <1>3, StartsByProceed DEF CallAll
<1>4. ASSUME NEW t \in Tasks, NEW o \in Objects, Crash(t, o)
      PROVE  StartsInv'
  BY <1>4, StartsByKeeping, StartsByCalling DEF Crash, taskVars
<1>5. ASSUME NEW t \in Tasks, Resume(t)
      PROVE  StartsInv'
  <2>1. CASE ResumeRestart(t)
    <3>1. target[t] \in Objects
      BY <2>1 DEF ResumeRestart, LifecycleInv, TypeOK, TaskType
    <3>2. op' = [op EXCEPT ![t] = "restarting"] /\ ResetAndStart(t, target[t]) /\ UNCHANGED frames
      BY <2>1 DEF ResumeRestart, ResetAndStart
    <3> QED
      BY <3>1, <3>2, StartsByCalling
  <2>2. CASE ResumeAll(t)
    <3>1. op[t] \in AllOps /\ Proceed(t, op[t], order[t])
      BY <2>2 DEF ResumeAll
    <3> QED
      BY <3>1, StartsByProceed
  <2>3. CASE ResumeStart(t) /\ ~Finish(t)
    BY <2>3, StartsByLeaving DEF ResumeStart
  <2>4. CASE Finish(t)
    BY <2>4, StartsByFinish
  <2> QED
    BY <1>5, <2>1, <2>2, <2>3, <2>4 DEF Resume, ResumeUnregister, Return
<1>6. ASSUME NEW t \in Tasks, Walk(t)
      PROVE  StartsInv'
  BY <1>6, StartsByWalk
<1>7. ASSUME NEW t \in Tasks, HookResolves(t) \/ HookFails(t)
      PROVE  StartsInv'
  BY <1>7, StartsByHook
<1>8. ASSUME NEW n \in Services, Register(n)
      PROVE  StartsInv'
  BY <1>8, StartsByKeeping DEF Register, taskVars
<1>9. CASE UNCHANGED vars
  BY <1>9, StartsByKeeping DEF vars, taskVars
<1> QED
  BY <1>1, <1>2, <1>3, <1>4, <1>5, <1>6, <1>7, <1>8, <1>9
  DEF Next, Call, HookRejects, HookTimesOut

LEMMA StartsInit == Init => StartsInv
BY DEF Init, StartsInv, StartOK

LEMMA StartsInvariant == Spec => [](LifecycleInv /\ CreatedInv /\ StartsInv)
<1>1. Init => CreatedInv /\ StartsInv
  BY CreatedInit, StartsInit
<1>2. LifecycleInv /\ CreatedInv /\ StartsInv /\ [Next]_vars => CreatedInv' /\ StartsInv'
  BY CreatedStep, StartsStep DEF LifecycleInv
<1> QED
  BY <1>1, <1>2, LifecycleInvariant, PTL DEF Spec

(* The step in which manager.start() begins to start a service is a walk   *)
(* that finds none of its dependencies missing.                            *)
LEMMA StartsInOrderStep ==
  ASSUME LifecycleInv, CreatedInv, StartsInv, Next, AutoStartDependencies,
         NEW t \in Tasks, NEW o \in Objects, op[t] = "start", pc[t] = "walk", pc'[t] # "walk",
         BeginsStart(o),
         NEW d \in Range(Deps[Name(o)]) \cap Range(InitialRegistry) \cap Registered,
         gen[d] = 1, restarts[Current(d)] = 0
  PROVE  HasStarted(Current(d))
<1>1. Walk(t)
  <2>1. thread = t /\ thread # NoTask /\ op[t] # "idle"
    BY ServicesAssumption DEF LifecycleInv, TypeOK, TaskType
  <2>2. ASSUME NEW u \in Tasks, Walk(u) PROVE u = t
    BY <2>1, <2>2 DEF Walk
  <2> QED
    BY <2>1, <2>2 DEF Next, Call, Resume, Register, Calls, CallStart, CallStop, CallRestart,
      CallUnregister, CallAll, Crash, ResumeStart, ResumeRestart, ResumeUnregister, ResumeAll,
      Return, HookResolves, HookRejects, HookTimesOut, HookFails
<1>2. PICK top : top = Last(frames[t])
  OBVIOUS
<1>3. top.obj \in Objects /\ FrameOK(frames[t], Len(frames[t])) /\ top = frames[t][Len(frames[t])]
  <2>1. Len(frames[t]) \in 1..Len(frames[t])
    BY TopFrame
  <2> QED
    BY <1>2, <2>1, TopFrame
<1>4. Missing(top.obj, top.dep) = {} /\ StartService(t, top.obj)
  <2>1. ~UNCHANGED svcVars
    BY DEF BeginsStart, Startable, svcVars
  <2> QED
    BY <1>1, <1>2, <2>1 DEF Walk
<1>5. top.obj = o
  <2>1. \A q \in Objects \ {top.obj} : state'[q] = state[q]
    BY <1>4 DEF StartService, StartFrom, Becomes, LifecycleInv, TypeOK, ServiceType
  <2> QED
    BY <2>1 DEF BeginsStart, Startable
<1>6. Passed(Name(o), Len(Deps[Name(o)]))
  <2>1. top.dep \in 0..Len(Deps[Name(o)]) /\ Passed(Name(o), top.dep)
    BY <1>3, <1>5 DEF FrameOK
  <2>2. Len(Deps[Name(o)]) \in 0..Len(Deps[Name(o)]) /\ top.dep \in Nat
    BY <2>1, NameOfObject, ServicesAssumption
  <2> QED
    BY <1>4, <1>5, <2>1, <2>2, PassedOver DEF LifecycleInv
<1>7. PICK j \in 1..Len(Deps[Name(o)]) : d = Deps[Name(o)][j]
  <2>1. Deps[Name(o)] \in Seq(Services)
    BY NameOfObject, ServicesAssumption
  <2> QED
    BY <2>1 DEF Range
<1>8. Current(d) = <<d, 1>> /\ StillFirst(d)
  BY DEF Current, StillFirst
<1> QED
  BY <1>6, <1>7, <1>8 DEF Passed

(* manager.start() begins to start a service only after each dependency    *)
(* that is the one of the start-up and never crashed, whatever runs beside. *)
THEOREM StartsInDependencyOrder == Spec => StartsAfterDependencies
<1>1. LifecycleInv /\ CreatedInv /\ StartsInv /\ [Next]_vars =>
        [\A t \in Tasks, o \in Objects :
           op[t] = "start" /\ pc[t] = "walk" /\ pc'[t] # "walk" /\ BeginsStart(o)
             /\ AutoStartDependencies =>
               \A d \in Range(Deps[Name(o)]) \cap Range(InitialRegistry) \cap Registered :
                 gen[d] = 1 /\ restarts[Current(d)] = 0 => HasStarted(Current(d))]_vars
  BY StartsInOrderStep
<1> QED
  BY <1>1, StartsInvariant, PTL DEF Spec, StartsAfterDependencies


---------------------------------------------------------------------------
(* The names that initAll, startAll and stopAll have still to visit.       *)
LEMMA OrderByFinish ==
  ASSUME OrderOK, NEW t \in Tasks, Finish(t)
  PROVE  OrderOK'
<1>1. <<>> \in Seq(Services)
  OBVIOUS
<1> QED
  BY <1>1 DEF Finish, OrderOK

LEMMA RestOfOrder ==
  ASSUME NEW ord \in Seq(Services), NEW j \in DOMAIN ord
  PROVE  LET r == SubSeq(ord, j + 1, Len(ord))
         IN  /\ r \in Seq(Services) /\ Len(r) = Len(ord) - j
             /\ \A i \in 1..Len(r) : r[i] = ord[j + i]
<1>1. j \in 1..Len(ord) /\ Len(ord) \in Nat
  OBVIOUS
<1>2. \A i \in (j + 1)..Len(ord) : ord[i] \in Services
  BY <1>1
<1>3. j + 1 \in Int /\ Len(ord) \in Int
  BY <1>1
<1> DEFINE r == SubSeq(ord, j + 1, Len(ord))
<1>4. /\ r \in Seq(Services)
      /\ Len(r) = IF j + 1 <= Len(ord) THEN Len(ord) - (j + 1) + 1 ELSE 0
      /\ \A i \in 1..(Len(ord) - (j + 1) + 1) : r[i] = ord[(j + 1) + i - 1]
  BY <1>2, <1>3, SubSeqProperties
<1> HIDE DEF r
<1>5. Len(r) = Len(ord) - j
  BY <1>1, <1>4
<1>6. \A i \in 1..Len(r) : i \in 1..(Len(ord) - (j + 1) + 1) /\ (j + 1) + i - 1 = j + i
  BY <1>1, <1>5
<1> QED
  BY <1>4, <1>5, <1>6 DEF r

LEMMA OrderByProceed ==
  ASSUME OrderOK, NEW t \in Tasks, NEW which, NEW ord \in Seq(Services),
         Proceed(t, which, ord)
  PROVE  OrderOK'
<1>1. CASE Finish(t)
  BY <1>1, OrderByFinish
<1>2. ASSUME NEW j \in Eligible(which, ord),
             order' = [order EXCEPT ![t] = SubSeq(ord, j + 1, Len(ord))]
      PROVE  OrderOK'
  <2>1. SubSeq(ord, j + 1, Len(ord)) \in Seq(Services)
    BY RestOfOrder DEF Eligible
  <2> QED
    BY <1>2, <2>1 DEF OrderOK
<1> QED
  BY <1>1, <1>2 DEF Proceed

LEMMA ReverseOfSeq ==
  ASSUME NEW S, NEW s \in Seq(S)
  PROVE  /\ Reverse(s) \in Seq(S) /\ Len(Reverse(s)) = Len(s)
         /\ \A i \in 1..Len(s) : /\ (Len(s) - i) + 1 \in 1..Len(s)
                                 /\ Reverse(s)[i] = s[(Len(s) - i) + 1]
<1>1. \A i \in 1..Len(s) : (Len(s) - i) + 1 \in 1..Len(s)
  OBVIOUS
<1>2. \A i \in 1..Len(s) : s[(Len(s) - i) + 1] \in S
  BY <1>1
<1> QED
  BY <1>1, <1>2 DEF Reverse

LEMMA OrderOfType ==
  ASSUME TypeOK, NEW which
  PROVE  OrderOf(which) \in Seq(Services)
<1>1. InitializationOrder \in Seq(Services)
  BY OrderType, ServicesAssumption DEF TypeOK
<1> QED
  BY <1>1, ReverseOfSeq DEF OrderOf

LEMMA OrderStep == TypeOK /\ OrderOK /\ [Next]_vars => OrderOK'
<1> SUFFICES ASSUME TypeOK, OrderOK, [Next]_vars PROVE OrderOK'
  OBVIOUS
<1>1. CASE UNCHANGED order
  BY <1>1 DEF OrderOK
<1>2. ASSUME NEW t \in Tasks, NEW n \in Services,
             CallStart(t, n) \/ CallStop(t, n) \/ CallRestart(t, n) \/ CallUnregister(t, n)
      PROVE  UNCHANGED order
  BY <1>2 DEF CallStart, CallStop, CallRestart, CallUnregister, taskVars
<1>3. ASSUME NEW t \in Tasks, NEW which \in AllOps, CallAll(t, which)
      PROVE  OrderOK'
  BY <1>3, OrderOfType, OrderByProceed DEF CallAll
<1>4. ASSUME NEW t \in Tasks, NEW o \in Objects, Crash(t, o)
      PROVE  UNCHANGED order
  BY <1>4 DEF Crash, taskVars
<1>5. ASSUME NEW t \in Tasks, Resume(t)
      PROVE  OrderOK'
  <2>1. CASE ResumeAll(t)
    <3>1. order[t] \in Seq(Services) /\ Proceed(t, op[t], order[t])
      BY <2>1 DEF ResumeAll, OrderOK
    <3> QED
      BY <3>1, OrderByProceed
  <2>2. CASE Finish(t)
    BY <2>2, OrderByFinish
  <2> QED
    BY <1>1, <1>5, <2>1, <2>2
    DEF Resume, ResumeStart, ResumeRestart, ResumeUnregister, Return
<1>6. ASSUME NEW t \in Tasks, Walk(t)
      PROVE  OrderOK'
  <2>1. CASE Finish(t)
    BY <2>1, OrderByFinish
  <2> QED
    BY <1>1, <1>6, <2>1 DEF Walk
<1>7. ASSUME NEW t \in Tasks, HookResolves(t) \/ HookFails(t)
      PROVE  UNCHANGED order
  BY <1>7 DEF HookResolves, HookFails
<1>8. ASSUME NEW n \in Services, Register(n)
      PROVE  UNCHANGED order
  BY <1>8 DEF Register, taskVars
<1>9. UNCHANGED vars => UNCHANGED order
  BY DEF vars, taskVars
<1> QED
  BY <1>1, <1>2, <1>3, <1>4, <1>5, <1>6, <1>7, <1>8, <1>9
  DEF Next, Call, HookRejects, HookTimesOut

(* Every variable has its type, the names still to visit included.         *)
THEOREM TypesAreKept == Spec => []TypesOK
<1>1. Init => OrderOK
  <2>1. <<>> \in Seq(Services)
    OBVIOUS
  <2> QED
    BY <2>1 DEF Init, OrderOK
<1>2. TypeOK /\ OrderOK /\ [Next]_vars => OrderOK'
  BY OrderStep
<1>3. TypeOK /\ OrderOK => TypesOK
  BY DEF TypesOK
<1> QED
  BY <1>1, <1>2, <1>3, TypeCorrect, PTL DEF Spec

---------------------------------------------------------------------------
(* stopAll.  What it has still to visit holds every service that runs,     *)
(* none after one that depends on it.                                      *)
StopsWell(ord) ==
  /\ ord \in Seq(Services)
  /\ \A i, j \in 1..Len(ord) : i < j => ord[i] \notin Range(Deps[ord[j]])
  /\ \A n \in Registered : IsRunning(n) => n \in Range(ord)

(* The caller of the manager, beside the detectors of crashes. *)
OneCaller(c) == \A u \in Tasks \ {c} : Ops[u] \subseteq {"crash"}

StopInv(c) ==
  NoCrash =>
    /\ \A u \in Tasks \ {c} : op[u] = "idle"
    /\ op[c] = "stopAll" => pc[c] \in {"stop", "ok", "failed"} /\ StopsWell(order[c])

StopsDependentsFirst ==
  \A n \in Registered :
    IsRunning(n) /\ ~IsRunning(n)' =>
      \A m \in Registered \ {n} : n \in Range(Deps[m]) => ~IsRunning(m)

LEMMA StopOrderIsGood ==
  ASSUME TypeOK, Acyclic
  PROVE  StopsWell(OrderOf("stopAll"))
<1>1. PICK ord : ord = InitializationOrder
  OBVIOUS
<1>2. /\ ord \in Seq(Services) /\ Range(ord) = Registered
      /\ \A i, j \in DOMAIN ord : ord[i] = ord[j] => i = j
      /\ \A j \in DOMAIN ord : \A d \in NeedsOf(ord[j]) : \E i \in 1..(j - 1) : ord[i] = d
  BY <1>1, OrderIsGood, ServicesAssumption DEF TypeOK
<1>3. PICK r : r = Reverse(ord)
  OBVIOUS
<1> DEFINE L == Len(ord)
<1>4. /\ r \in Seq(Services) /\ Len(r) = L /\ L \in Nat
      /\ \A i \in 1..L : (L - i) + 1 \in 1..L /\ r[i] = ord[(L - i) + 1]
  BY <1>2, <1>3, ReverseOfSeq
<1>5. DOMAIN ord = 1..L /\ DOMAIN r = 1..L
  BY <1>2, <1>4
<1> HIDE DEF L
<1>6. ASSUME NEW n \in Registered PROVE n \in Range(r)
  <2>1. PICK a \in 1..L : ord[a] = n
    BY <1>2, <1>5 DEF Range
  <2>2. (L - a) + 1 \in 1..L /\ (L - ((L - a) + 1)) + 1 = a
    BY <1>4
  <2>3. r[(L - a) + 1] = n
    BY <1>4, <2>1, <2>2
  <2> QED
    BY <1>5, <2>2, <2>3 DEF Range
<1>7. ASSUME NEW i \in 1..L, NEW j \in 1..L, i < j, r[i] \in Range(Deps[r[j]])
      PROVE  FALSE
  <2> DEFINE a == (L - i) + 1
             b == (L - j) + 1
  <2>1. a \in 1..L /\ b \in 1..L /\ b < a /\ r[i] = ord[a] /\ r[j] = ord[b]
    BY <1>4, <1>7
  <2> HIDE DEF a, b
  <2>2. ord[a] # ord[b] /\ ord[a] \in Registered
    BY <1>2, <1>5, <2>1 DEF Range
  <2>3. ord[a] \in NeedsOf(ord[b])
    BY <1>7, <2>1, <2>2 DEF NeedsOf
  <2>4. PICK k \in 1..(b - 1) : ord[k] = ord[a]
    BY <1>2, <1>5, <2>1, <2>3
  <2>5. k \in 1..L
    BY <1>4, <2>1
  <2>6. k = a
    BY <1>2, <1>5, <2>1, <2>4, <2>5
  <2> QED
    BY <1>4, <2>1, <2>4, <2>6
<1>8. StopsWell(r)
  BY <1>4, <1>6, <1>7 DEF StopsWell
<1> QED
  BY <1>1, <1>3, <1>8 DEF OrderOf

LEMMA StopProceeds ==
  ASSUME TypeOK, OrderOK, NEW t \in Tasks, NEW ord, StopsWell(ord), Proceed(t, "stopAll", ord),
         UNCHANGED regVars
  PROVE  /\ StopsDependentsFirst
         /\ \/ /\ Finish(t)
               /\ \A n \in Registered : ~IsRunning(n)'
            \/ /\ op' = [op EXCEPT ![t] = "stopAll"] /\ pc'[t] \in {"stop", "ok"}
               /\ StopsWell(order[t])'
<1>1. PICK s : s = Eligible("stopAll", ord)
  OBVIOUS
<1>2. \A i \in s : i \in 1..Len(ord) /\ ord[i] \in Registered /\ IsRunning(ord[i])
  BY <1>1 DEF StopsWell, Eligible, Takes, IsRunning
<1>3. ASSUME NEW n \in Registered, IsRunning(n) PROVE \E i \in s : ord[i] = n
  BY <1>1, <1>3 DEF StopsWell, Eligible, Takes, IsRunning, Range
<1>4. \A n : IsRunning(n)' <=> n \in Registered /\ state'[Current(n)] = "running"
  BY DEF IsRunning, regVars, Registered, Current
<1>5. CASE s = {}
  <2>1. Finish(t) /\ UNCHANGED svcVars
    BY <1>1, <1>5 DEF Proceed
  <2>2. \A n \in Registered : ~IsRunning(n) /\ ~IsRunning(n)'
    BY <1>3, <1>4, <1>5, <2>1 DEF svcVars, IsRunning
  <2> QED
    BY <2>1, <2>2 DEF StopsDependentsFirst
<1>6. CASE s # {}
  <2>1. PICK j \in s : /\ \A i \in s : j <= i
                       /\ op' = [op EXCEPT ![t] = "stopAll"]
                       /\ order' = [order EXCEPT ![t] = SubSeq(ord, j + 1, Len(ord))]
                       /\ StopService(t, Current(ord[j]))
    BY <1>1, <1>6 DEF Proceed, CallService
  <2>2. PICK n : n = ord[j]
    OBVIOUS
  <2>3. n \in Registered /\ IsRunning(n) /\ j \in 1..Len(ord) /\ Len(ord) \in Nat
    BY <1>2, <2>2 DEF StopsWell
  <2>4. PICK o \in Objects : o = Current(n)
    BY <2>3, CurrentIsObject
  <2>5. /\ state[o] = "running" /\ StopService(t, o)
        /\ state'[o] \in {"stopping", "stopped"} /\ \A q \in Objects \ {o} : state'[q] = state[q]
        /\ pc'[t] \in {"stop", "ok"}
    BY <2>1, <2>2, <2>3, <2>4
    DEF IsRunning, StopService, Becomes, Yield, TypeOK, ServiceType, TaskType
  <2>6. ASSUME NEW m \in Registered PROVE IsRunning(m)' <=> m # n /\ IsRunning(m)
    <3>1. Current(m) \in Objects /\ (Current(m) = o => m = n)
      BY <2>3, <2>4, CurrentIsObject
    <3> QED
      BY <1>4, <2>4, <2>5, <3>1 DEF IsRunning
  <2>7. ASSUME NEW m \in Registered, IsRunning(m), m # n
        PROVE  \E i \in (j + 1)..Len(ord) : ord[i] = m
    <3>1. PICK i \in s : ord[i] = m
      BY <1>3, <2>7
    <3>2. i # j /\ j <= i /\ i \in 1..Len(ord)
      BY <1>2, <2>1, <2>2, <2>7, <3>1
    <3> QED
      BY <2>3, <3>1, <3>2
  <2>8. StopsDependentsFirst
    <3> SUFFICES ASSUME NEW m \in Registered, m # n, n \in Range(Deps[m]), IsRunning(m)
                 PROVE  FALSE
      BY <2>6 DEF StopsDependentsFirst
    <3>1. PICK i \in (j + 1)..Len(ord) : ord[i] = m
      BY <2>7
    <3>2. i \in 1..Len(ord) /\ j < i
      BY <2>3
    <3> QED
      BY <2>2, <2>3, <3>1, <3>2 DEF StopsWell
  <2>9. PICK r : r = order'[t]
    OBVIOUS
  <2>10. t \in DOMAIN order
    BY DEF OrderOK
  <2> QED
    <3>1. r = SubSeq(ord, j + 1, Len(ord))
      BY <2>1, <2>9, <2>10
    <3>2. ord \in Seq(Services) /\ j \in DOMAIN ord
      BY <2>3 DEF StopsWell
    <3>3. /\ r \in Seq(Services) /\ Len(r) = Len(ord) - j
          /\ \A i \in 1..Len(r) : r[i] = ord[j + i]
      BY <3>1, <3>2, RestOfOrder
    <3>4. ASSUME NEW a \in 1..Len(r), NEW b \in 1..Len(r), a < b
          PROVE  r[a] \notin Range(Deps[r[b]])
      <4>1. j + a \in 1..Len(ord) /\ j + b \in 1..Len(ord) /\ j + a < j + b
        BY <2>3, <3>3, <3>4
      <4> QED
        BY <3>3, <4>1 DEF StopsWell
    <3>5. ASSUME NEW m \in Registered, IsRunning(m)' PROVE m \in Range(r)
      <4>1. PICK i \in (j + 1)..Len(ord) : ord[i] = m
        BY <2>6, <2>7, <3>5
      <4>2. i - j \in 1..Len(r) /\ j + (i - j) = i
        BY <2>3, <3>3
      <4>3. r[i - j] = m /\ DOMAIN r = 1..Len(r)
        BY <3>3, <4>1, <4>2
      <4> QED
        BY <4>2, <4>3 DEF Range
    <3>6. Registered' = Registered
      BY DEF regVars, Registered
    <3>7. StopsWell(r)'
      BY <3>3, <3>4, <3>5, <3>6 DEF StopsWell
    <3>8. StopsWell(order[t])'
      BY <2>9, <3>7 DEF StopsWell
    <3> QED
      BY <2>1, <2>5, <2>8, <3>8
<1> QED
  BY <1>5, <1>6

(* While stopAll awaits a service, another registration runs nothing. *)
LEMMA StopsWellRegister ==
  ASSUME LifecycleInv, CreatedInv, NEW n \in Services, Register(n), NEW ord, StopsWell(ord)
  PROVE  StopsWell(ord)' /\ StopsDependentsFirst
<1>1. TypeOK /\ UNCHANGED state /\ TypeOK'
  BY TypeRegister DEF LifecycleInv, Register, svcVars
<1>2. Registered' = Registered \cup {n} /\ n \notin Registered
  <2>1. registry \in Seq(Services) /\ <<n>> \in Seq(Services)
    BY <1>1 DEF TypeOK, RegistryType
  <2>2. registry' = registry \o <<n>>
    BY <2>1, AppendIsConcat DEF Register
  <2>3. Range(<<n>>) = {n}
    BY DEF Range
  <2>4. Range(registry \o <<n>>) = Range(registry) \cup Range(<<n>>)
    BY <2>1, RangeConcatenation
  <2> QED
    BY <2>2, <2>3, <2>4 DEF Registered, Register
<1>3. ASSUME NEW m \in Registered PROVE IsRunning(m)' <=> IsRunning(m)
  <2>1. m # n /\ m \in Services
    BY <1>1, <1>2, CurrentIsObject
  <2>2. gen'[m] = gen[m]
    BY <1>1, <2>1 DEF Register, TypeOK, RegistryType
  <2> QED
    BY <1>1, <1>2, <2>2 DEF IsRunning, Current
<1>4. ~IsRunning(n)'
  <2>1. gen'[n] = gen[n] + 1 /\ gen[n] \in Nat
    BY <1>1 DEF Register, TypeOK, RegistryType
  <2>2. PICK o : o = <<n, gen'[n]>>
    OBVIOUS
  <2>3. o \in Objects /\ ~Created(o)
    <3>1. gen'[n] \in 1..MaxGen[n]
      BY <1>1, <2>1, ServicesAssumption DEF TypeOK, RegistryType
    <3> QED
      BY <2>1, <2>2, <3>1 DEF Objects, Created, Name
  <2>4. state[o] = "created"
    BY <2>3 DEF CreatedInv
  <2> QED
    BY <1>1, <2>2, <2>4 DEF IsRunning, Current
<1>5. \A m \in Registered' : IsRunning(m)' => m \in Range(ord)
  BY <1>2, <1>3, <1>4 DEF StopsWell
<1>6. StopsWell(ord)'
  BY <1>5 DEF StopsWell
<1> QED
  BY <1>3, <1>6 DEF StopsDependentsFirst

(* The stop hook of a service ends: it was not running, nor is it now. *)
LEMMA StopsWellHook ==
  ASSUME LifecycleInv, NoCrash, NEW t \in Tasks, HookResolves(t) \/ HookFails(t), pc[t] = "stop",
         NEW ord, StopsWell(ord)
  PROVE  StopsWell(ord)' /\ StopsDependentsFirst /\ pc'[t] \in {"ok", "failed"}
<1>1. Awaiting(t) /\ target[t] \in Objects /\ UNCHANGED regVars
  BY DEF HookResolves, HookFails, Awaiting, LifecycleInv, TypeOK, TaskType
<1>2. state[target[t]] = "stopping"
  BY <1>1 DEF LifecycleInv, Exclusive, NoCrash, During
<1>3. /\ state'[target[t]] \in {"stopped", "error"} /\ pc'[t] \in {"ok", "failed"}
      /\ \A q \in Objects \ {target[t]} : state'[q] = state[q]
  BY <1>1 DEF HookResolves, HookFails, Becomes, StateAfter, LifecycleInv, TypeOK, ServiceType, TaskType
<1>4. Registered' = Registered /\ \A n : Current(n)' = Current(n)
  BY <1>1 DEF regVars, Registered, Current
<1>5. ASSUME NEW n \in Registered PROVE IsRunning(n)' <=> IsRunning(n)
  <2>1. Current(n) \in Objects
    BY CurrentIsObject DEF LifecycleInv
  <2> QED
    BY <1>2, <1>3, <1>4, <2>1 DEF IsRunning
<1> QED
  BY <1>3, <1>4, <1>5 DEF StopsWell, StopsDependentsFirst

LEMMA StopByOther ==
  ASSUME NEW c \in Tasks, StopInv(c), op'[c] # "stopAll", NoCrash' => NoCrash,
         \A u \in Tasks \ {c} : op'[u] = op[u]
  PROVE  StopInv(c)'
BY DEF StopInv

StopStepOK(c) ==
  \A t \in Tasks :
    "stopAll" \in {op[t], op'[t]} /\ NoCrash' =>
      StopsDependentsFirst /\ (op'[t] = "idle" => \A n \in Registered : ~IsRunning(n)')

(* The caller proceeds with stopAll. *)
LEMMA StopByProceed ==
  ASSUME TypeOK, OrderOK, NEW c \in Tasks, StopInv(c), NoCrash' => NoCrash,
         NEW ord, StopsWell(ord), Proceed(c, "stopAll", ord), UNCHANGED regVars
  PROVE  StopInv(c)' /\ StopStepOK(c)
<1>1. StopsDependentsFirst
  BY StopProceeds
<1>2. CASE Finish(c) /\ \A n \in Registered : ~IsRunning(n)'
  <2>1. op'[c] = "idle" /\ \A u \in Tasks \ {c} : op'[u] = op[u]
    BY <1>2 DEF Finish, TypeOK, TaskType
  <2>2. StopInv(c)'
    BY <2>1, StopByOther
  <2> QED
    BY <1>1, <1>2, <2>2 DEF StopStepOK
<1>3. CASE /\ op' = [op EXCEPT ![c] = "stopAll"] /\ pc'[c] \in {"stop", "ok"}
           /\ StopsWell(order[c])'
  <2>1. op'[c] = "stopAll" /\ \A u \in Tasks \ {c} : op'[u] = op[u]
    BY <1>3 DEF TypeOK, TaskType
  <2>2. StopInv(c)'
    BY <1>3, <2>1 DEF StopInv
  <2>3. ASSUME NoCrash', NEW t \in Tasks PROVE op'[t] = "idle" => op[t] = "idle"
    BY <2>1, <2>3 DEF StopInv
  <2> QED
    BY <1>1, <2>1, <2>2, <2>3 DEF StopStepOK, StopInv
<1> QED
  BY <1>2, <1>3, StopProceeds

(* As long as no crash is reported, the detectors do nothing. *)
LEMMA DetectorsRest ==
  ASSUME LifecycleInv, NEW c \in Tasks, OneCaller(c), StopInv(c), NoCrash, NoCrash',
         NEW u \in Tasks \ {c},
         \/ Call(u) \/ Walk(u) \/ Resume(u) \/ HookResolves(u) \/ HookFails(u)
  PROVE  FALSE
<1>1. op[u] = "idle" /\ pc[u] = "idle" /\ Ops[u] \subseteq {"crash"}
  BY DEF StopInv, OneCaller, LifecycleInv, TypeOK, TaskType
<1>2. ~Walk(u) /\ ~HookResolves(u) /\ ~HookFails(u)
  BY <1>1 DEF Walk, HookResolves, HookFails, Awaiting, Phases
<1>3. ~Resume(u)
  BY <1>1 DEF Resume, ResumeStart, ResumeRestart, ResumeUnregister, ResumeAll, Return, Settled, AllOps
<1>4. ASSUME NEW o \in Objects, Crash(u, o) PROVE FALSE
  BY <1>4 DEF Crash, NoCrash, LifecycleInv, TypeOK, ServiceType
<1>5. ASSUME NEW n \in Services,
             CallStart(u, n) \/ CallStop(u, n) \/ CallRestart(u, n) \/ CallUnregister(u, n)
      PROVE  FALSE
  BY <1>1, <1>5 DEF CallStart, CallStop, CallRestart, CallUnregister, Calls
<1>6. ASSUME NEW which \in AllOps, CallAll(u, which) PROVE FALSE
  BY <1>1, <1>6 DEF CallAll, Calls, AllOps
<1> QED
  BY <1>2, <1>3, <1>4, <1>5, <1>6 DEF Call

(* A step of the caller that neither begins stopAll nor goes on with it. *)
LEMMA StopByAnother ==
  ASSUME TypeOK, NEW c \in Tasks, StopInv(c), op[c] # "stopAll", NoCrash' => NoCrash,
         NEW x, op' = [op EXCEPT ![c] = x], x # "stopAll"
  PROVE  StopInv(c)' /\ StopStepOK(c)
<1>1. op'[c] = x /\ \A u \in Tasks \ {c} : op'[u] = op[u]
  BY DEF TypeOK, TaskType
<1>2. StopInv(c)'
  BY <1>1, StopByOther
<1>3. ASSUME NoCrash', NEW t \in Tasks PROVE "stopAll" \notin {op[t], op'[t]}
  BY <1>1, <1>3 DEF StopInv
<1> QED
  BY <1>2, <1>3 DEF StopStepOK

(* A step that leaves every task as it is, or only the hook the caller awaits. *)
LEMMA StopByKeeping ==
  ASSUME LifecycleInv, NEW c \in Tasks, StopInv(c), NoCrash, UNCHANGED <<op, order>>,
         op[c] = "stopAll" => /\ StopsDependentsFirst /\ StopsWell(order[c])'
                              /\ pc'[c] \in {"stop", "ok", "failed"}
  PROVE  StopInv(c)' /\ StopStepOK(c)
BY DEF StopInv, StopStepOK

LEMMA StopStep ==
  ASSUME LifecycleInv, CreatedInv, OrderOK, Acyclic, NEW c \in Tasks, OneCaller(c), StopInv(c),
         [Next]_vars
  PROVE  StopInv(c)' /\ StopStepOK(c)
<1>1. CASE ~NoCrash'
  BY <1>1 DEF StopInv, StopStepOK
<1> SUFFICES ASSUME NoCrash' PROVE StopInv(c)' /\ StopStepOK(c)
  BY <1>1
<1>2. NoCrash
  <2>1. \A q \in Objects : restarts[q] \in Nat /\ restarts'[q] \in Nat /\ restarts'[q] >= restarts[q]
    BY CrashesAreCounted DEF LifecycleInv, TypeOK, ServiceType
  <2> QED
    BY <2>1 DEF NoCrash
<1>3. ASSUME NEW r, r = order[c], op[c] = "stopAll", UNCHANGED order, StopsWell(r)'
      PROVE  StopsWell(order[c])'
  BY <1>3 DEF StopsWell
<1>4. op[c] = "stopAll" => pc[c] \in {"stop", "ok", "failed"} /\ StopsWell(order[c])
  BY <1>2 DEF StopInv
<1>5. ASSUME NEW n \in Services, Register(n)
      PROVE  StopInv(c)' /\ StopStepOK(c)
  <2>1. UNCHANGED <<op, pc, order>>
    BY <1>5 DEF Register, taskVars
  <2>2. PICK r : r = order[c]
    OBVIOUS
  <2>3. op[c] = "stopAll" => StopsDependentsFirst /\ StopsWell(r)'
    BY <1>4, <1>5, <2>2, StopsWellRegister
  <2>4. op[c] = "stopAll" => StopsWell(order[c])'
    BY <1>3, <2>1, <2>2, <2>3
  <2> QED
    BY <1>2, <1>4, <2>1, <2>3, <2>4, StopByKeeping
<1>6. CASE UNCHANGED vars
  <2>1. UNCHANGED <<op, pc, order>> /\ UNCHANGED svcVars /\ UNCHANGED regVars
    BY <1>6 DEF vars, taskVars
  <2>2. UNCHANGED state /\ Registered' = Registered /\ \A n : Current(n)' = Current(n)
    BY <2>1 DEF svcVars, regVars, Registered, Current
  <2>3. \A n : IsRunning(n)' <=> IsRunning(n)
    BY <2>2 DEF IsRunning
  <2>4. StopsDependentsFirst
    BY <2>3 DEF StopsDependentsFirst
  <2>5. op[c] = "stopAll" => StopsWell(order[c])'
    BY <1>4, <2>1, <2>2, <2>3 DEF StopsWell
  <2> QED
    BY <1>2, <1>4, <2>1, <2>4, <2>5, StopByKeeping
<1>7. CASE HookResolves(c) \/ HookFails(c)
  <2>1. UNCHANGED <<op, order>> /\ Awaiting(c)
    BY <1>7 DEF HookResolves, HookFails
  <2>2. PICK r : r = order[c]
    OBVIOUS
  <2>3. op[c] = "stopAll" => pc[c] = "stop" /\ StopsWell(r)
    BY <1>4, <2>1, <2>2 DEF Awaiting, Phases
  <2>4. op[c] = "stopAll" =>
          StopsWell(r)' /\ StopsDependentsFirst /\ pc'[c] \in {"ok", "failed"}
    BY <1>2, <1>7, <2>3, StopsWellHook
  <2>5. op[c] = "stopAll" => StopsWell(order[c])'
    BY <1>3, <2>1, <2>2, <2>4
  <2> QED
    BY <1>2, <2>1, <2>4, <2>5, StopByKeeping
<1>8. CASE Call(c)
  <2>1. op[c] = "idle"
    BY <1>8 DEF Call, Calls, CallStart, CallStop, CallRestart, CallUnregister, CallAll, Crash
  <2>2. ASSUME NEW x, op' = [op EXCEPT ![c] = x], x # "stopAll"
        PROVE  StopInv(c)' /\ StopStepOK(c)
    BY <1>2, <2>1, <2>2, StopByAnother DEF LifecycleInv
  <2>3. CASE UNCHANGED op
    <3>1. op' = [op EXCEPT ![c] = "idle"]
      BY <2>1, <2>3 DEF LifecycleInv, TypeOK, TaskType
    <3> QED
      BY <2>2, <3>1
  <2>4. ASSUME NEW n \in Services,
               CallStart(c, n) \/ CallStop(c, n) \/ CallRestart(c, n) \/ CallUnregister(c, n)
        PROVE  StopInv(c)' /\ StopStepOK(c)
    BY <2>2, <2>3, <2>4
    DEF CallStart, CallStop, CallRestart, CallUnregister, ResetAndStart, taskVars
  <2>5. ASSUME NEW which \in AllOps, CallAll(c, which)
        PROVE  StopInv(c)' /\ StopStepOK(c)
    <3>1. CASE which = "stopAll"
      <4>1. Proceed(c, "stopAll", OrderOf("stopAll")) /\ UNCHANGED regVars
        BY <2>5, <3>1 DEF CallAll
      <4>2. StopsWell(OrderOf("stopAll"))
        BY StopOrderIsGood DEF LifecycleInv
      <4> QED
        BY <1>2, <4>1, <4>2, StopByProceed DEF LifecycleInv
    <3>2. CASE which # "stopAll"
      <4>1. op' = [op EXCEPT ![c] = which] \/ op' = [op EXCEPT ![c] = "idle"]
        BY <2>5 DEF CallAll, Proceed, Finish
      <4> QED
        BY <2>2, <3>2, <4>1
    <3> QED
      BY <3>1, <3>2
  <2>6. ASSUME NEW o \in Objects, Crash(c, o)
        PROVE  StopInv(c)' /\ StopStepOK(c)
    BY <2>2, <2>3, <2>6 DEF Crash, taskVars
  <2> QED
    BY <1>8, <2>4, <2>5, <2>6 DEF Call
<1>9. CASE Walk(c)
  <2>1. op[c] = "start"
    BY <1>9 DEF Walk, LifecycleInv, TypeOK, TaskType
  <2>2. op' = [op EXCEPT ![c] = "start"] \/ op' = [op EXCEPT ![c] = "idle"]
    BY <1>9, <2>1 DEF Walk, Finish, LifecycleInv, TypeOK, TaskType
  <2> QED
    BY <1>2, <2>1, <2>2, StopByAnother DEF LifecycleInv
<1>10. CASE Resume(c)
  <2>1. CASE op[c] = "stopAll"
    <3>1. ResumeAll(c)
      BY <1>10, <2>1 DEF Resume, ResumeStart, ResumeRestart, ResumeUnregister, Return
    <3>2. Proceed(c, "stopAll", order[c]) /\ UNCHANGED regVars
      BY <2>1, <3>1 DEF ResumeAll
    <3> QED
      BY <1>2, <1>4, <2>1, <3>2, StopByProceed DEF LifecycleInv
  <2>2. CASE op[c] # "stopAll"
    <3>1. \/ op' = [op EXCEPT ![c] = "idle"]
          \/ op' = [op EXCEPT ![c] = op[c]]
          \/ op' = [op EXCEPT ![c] = "restarting"]
      BY <1>10 DEF Resume, ResumeStart, ResumeRestart, ResumeUnregister, ResumeAll, Return,
        Finish, Proceed, ResetAndStart, LifecycleInv, TypeOK, TaskType
    <3> QED
      BY <1>2, <2>2, <3>1, StopByAnother DEF LifecycleInv
  <2> QED
    BY <2>1, <2>2
<1> QED
  BY <1>2, <1>5, <1>6, <1>7, <1>8, <1>9, <1>10, DetectorsRest
  DEF Next, HookRejects, HookTimesOut

(* With one caller and dependencies that form no cycle, stopAll ends a     *)
(* service only once nothing that depends on it runs, and when it returns  *)
(* none is running, as long as no crash was reported.                      *)
THEOREM StopsDependentsBefore ==
  Acyclic /\ (\E c \in Tasks : OneCaller(c)) => (Spec => StopAllInOrder)
<1> SUFFICES ASSUME Acyclic, NEW c \in Tasks, OneCaller(c) PROVE Spec => StopAllInOrder
  OBVIOUS
<1>1. Init => StopInv(c)
  BY DEF Init, StopInv
<1>2. LifecycleInv /\ CreatedInv /\ OrderOK /\ StopInv(c) /\ [Next]_vars => StopInv(c)'
  BY StopStep
<1>3. LifecycleInv /\ CreatedInv /\ OrderOK /\ StopInv(c) /\ [Next]_vars =>
        [\A t \in Tasks : "stopAll" \in {op[t], op'[t]} /\ (\A o \in Objects : restarts'[o] = 0) =>
           /\ \A n \in Registered :
                IsRunning(n) /\ ~IsRunning(n)' =>
                  \A m \in Registered \ {n} : n \in Range(Deps[m]) => ~IsRunning(m)
           /\ op'[t] = "idle" => \A n \in Registered : ~IsRunning(n)']_vars
  BY StopStep DEF StopStepOK, StopsDependentsFirst, NoCrash
<1>4. TypesOK => OrderOK
  BY DEF TypesOK
<1> QED
  BY <1>1, <1>2, <1>3, <1>4, StartsInvariant, TypesAreKept, PTL DEF Spec, StopAllInOrder
=============================================================================
