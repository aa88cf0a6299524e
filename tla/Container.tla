------------------------------ MODULE Container ------------------------------
(* The dependency container (core/container.js): a root and one scope of it, *)
(* whose resolve() falls back on the root.  Factories and the disposal of an *)
(* instance are awaited, so that calls of resolve() and dispose() overlap.   *)
(* A descriptor is an object of its own: registering a token again replaces  *)
(* the descriptor in the map, not the one that a call holds.                 *)
EXTENDS Integers

CONSTANTS Tokens,        \* what may be registered
          Singletons,    \* those registered as singletons; what others make is the caller's
          Calls,         \* calls of resolve() in progress (bound)
          MaxMade        \* instances of a run, and descriptors (bound)

VARIABLES services,      \* of each container: the descriptor of a token, or 0
          instance,      \* of each descriptor: its instance, or 0
          instances,     \* of each container: what registerInstance() was given, or 0
          made,          \* the last instance and the last descriptor
          resolving,     \* the calls of resolve(): the descriptor whose factory runs
          disposed,      \* the containers whose disposal has begun
          disposal,      \* of each container: what dispose() has yet to visit, and visits
          finished,      \* how often an instance was disposed of (history)
          excused        \* instances lost to an overlap or a failure (history)

vars == <<services, instance, instances, made, resolving, disposed, disposal, finished, excused>>

Containers == {"root", "scope"}
Ids == 1 .. MaxMade
NoCall == [on |-> "root", descriptor |-> 0, shared |-> FALSE]
Nowhere == <<"none", 0>>
Idle == [todo |-> {}, at |-> Nowhere, running |-> FALSE]

Init == /\ services = [c \in Containers |-> [t \in Tokens |-> 0]]
        /\ instance = [d \in Ids |-> 0]
        /\ instances = [c \in Containers |-> [t \in Tokens |-> 0]]
        /\ made = [instances |-> 0, descriptors |-> 0]
        /\ resolving = [k \in Calls |-> NoCall]
        /\ disposed = {}
        /\ disposal = [c \in Containers |-> Idle]
        /\ finished = [i \in Ids |-> 0]
        /\ excused = {}

InstanceOf(d) == IF d = 0 THEN {} ELSE {instance[d]} \ {0}

-----------------------------------------------------------------------------
\* register(): what the descriptor that it replaces has made is forgotten.
register(c, t) ==
    /\ c \notin disposed /\ made.descriptors < MaxMade
    /\ made' = [made EXCEPT !.descriptors = @ + 1]
    /\ services' = [services EXCEPT ![c][t] = made'.descriptors]
    /\ excused' = excused \cup InstanceOf(services[c][t])
    /\ UNCHANGED <<instance, instances, resolving, disposed, disposal, finished>>

registerInstance(c, t) ==
    /\ c \notin disposed /\ made.instances < MaxMade
    /\ made' = [made EXCEPT !.instances = @ + 1]
    /\ instances' = [instances EXCEPT ![c][t] = made'.instances]
    /\ excused' = excused \cup ({instances[c][t]} \ {0})
    /\ UNCHANGED <<services, instance, resolving, disposed, disposal, finished>>

\* The container of the chain that has the token.
Holder(c, t) == IF services[c][t] = 0 /\ instances[c][t] = 0 THEN "root" ELSE c

\* resolve() up to the factory; where there is an instance it changes nothing.
resolve(k, c, t) ==
    LET h == Holder(c, t) d == services[h][t]
    IN /\ resolving[k] = NoCall
       /\ c \notin disposed /\ h \notin disposed
       /\ instances[h][t] = 0 /\ d # 0
       /\ t \in Singletons => instance[d] = 0
       /\ resolving' = [resolving EXCEPT ![k] =
                            [on |-> h, descriptor |-> d, shared |-> t \in Singletons]]
       /\ UNCHANGED <<services, instance, instances, made, disposed, disposal, finished, excused>>

\* Faulty variant: the descriptor does not keep what its factory made.
KeepNot(d, i) == UNCHANGED instance
Keep(d, i) == instance' = [instance EXCEPT ![d] = i]

\* create() after its factory: a second one of an overlap replaces the first;
\* one that ends after dispose() has visited the descriptor, or after this was
\* replaced, keeps what nobody will dispose of.
FactoryEnds(k) ==
    LET r == resolving[k] d == r.descriptor
        late == \/ r.on \in disposed /\ <<"service", d>> \notin disposal[r.on].todo
                \/ \A t \in Tokens : services[r.on][t] # d
    IN /\ r # NoCall
       /\ resolving' = [resolving EXCEPT ![k] = NoCall]
       /\ \/ UNCHANGED <<made, instance, excused>>
          \/ /\ r.shared /\ made.instances < MaxMade
             /\ made' = [made EXCEPT !.instances = @ + 1]
             /\ Keep(d, made'.instances)
             /\ excused' = excused \cup InstanceOf(d)
                                   \cup (IF late THEN {made'.instances} ELSE {})
       /\ UNCHANGED <<services, instances, disposed, disposal, finished>>

-----------------------------------------------------------------------------
Visits(c) == {<<"service", services[c][t]>> : t \in {u \in Tokens : services[c][u] # 0}}
             \cup {<<"given", instances[c][t]>> : t \in {u \in Tokens : instances[c][u] # 0}}

\* Faulty variant: a disposal that is in progress is not noticed.
BeginsAgain(c) == disposal[c].at # Nowhere \/ c \notin disposed
Begins(c) == c \notin disposed

dispose(c) ==
    /\ Begins(c)
    /\ disposed' = disposed \cup {c}
    /\ disposal' = [disposal EXCEPT ![c] = [todo |-> Visits(c), at |-> Nowhere, running |-> TRUE]]
    /\ UNCHANGED <<services, instance, instances, made, resolving, finished, excused>>

InstanceAt(v) == CASE v[1] = "service" -> InstanceOf(v[2]) [] v[1] = "given" -> {v[2]} [] OTHER -> {}

\* The services come before the instances that were given.
Visit(c) ==
    /\ disposal[c].running /\ disposal[c].at = Nowhere
    /\ \E v \in disposal[c].todo :
          /\ v[1] = "given" => \A w \in disposal[c].todo : w[1] = "given"
          /\ disposal' = [disposal EXCEPT
                 ![c].todo = @ \ {v}, ![c].at = IF InstanceAt(v) = {} THEN Nowhere ELSE v]
          /\ finished' = [i \in Ids |-> finished[i] + IF i \in InstanceAt(v) THEN 1 ELSE 0]
    /\ UNCHANGED <<services, instance, instances, made, resolving, disposed, excused>>

\* The disposal of an instance has ended.  Had it failed, the error is emitted:
\* without a listener this throws, and nothing else is disposed of.
Visited(c) ==
    LET v == disposal[c].at
    IN /\ v # Nowhere
       /\ \/ /\ disposal' = [disposal EXCEPT ![c].at = Nowhere]
             /\ instance' = [d \in Ids |-> IF v = <<"service", d>> THEN 0 ELSE instance[d]]
             /\ UNCHANGED excused
          \/ /\ disposal' = [disposal EXCEPT ![c].at = Nowhere]
             /\ UNCHANGED <<instance, excused>>
          \/ /\ disposal' = [disposal EXCEPT ![c] = Idle]
             /\ excused' = excused \cup UNION {InstanceAt(w) : w \in disposal[c].todo}
             /\ UNCHANGED instance
       /\ UNCHANGED <<services, instances, made, resolving, disposed, finished>>

DisposeEnds(c) ==
    /\ disposal[c].running /\ disposal[c].at = Nowhere /\ disposal[c].todo = {}
    /\ disposal' = [disposal EXCEPT ![c] = Idle]
    /\ services' = [services EXCEPT ![c] = [t \in Tokens |-> 0]]
    /\ instances' = [instances EXCEPT ![c] = [t \in Tokens |-> 0]]
    /\ UNCHANGED <<instance, made, resolving, disposed, finished, excused>>

Next ==
    \/ \E c \in Containers :
          \/ dispose(c) \/ Visit(c) \/ Visited(c) \/ DisposeEnds(c)
          \/ \E t \in Tokens : register(c, t) \/ registerInstance(c, t)
          \/ \E t \in Tokens, k \in Calls : resolve(k, c, t)
    \/ \E k \in Calls : FactoryEnds(k)

-----------------------------------------------------------------------------
TypeOK ==
    /\ services \in [Containers -> [Tokens -> 0 .. MaxMade]]
    /\ instances \in [Containers -> [Tokens -> 0 .. MaxMade]]
    /\ instance \in [Ids -> 0 .. MaxMade]
    /\ made \in [instances : 0 .. MaxMade, descriptors : 0 .. MaxMade]
    /\ \A k \in Calls : resolving[k].descriptor \in 0 .. MaxMade
    /\ disposed \subseteq Containers /\ excused \subseteq Ids
    /\ \A c \in Containers : disposal[c].running \in BOOLEAN
    /\ finished \in [Ids -> Nat]

Held(i) == \E c \in Containers, t \in Tokens : i = instances[c][t] \/ i \in InstanceOf(services[c][t])

\* Whatever calls overlap, an instance is disposed of once at most; and an
\* instance that its container no longer holds was disposed of, unless two
\* factories of one token overlapped, its token was registered again, its
\* factory ended after the container had come by, or an error of another
\* disposal cut the container's short (ServiceContainer.dispose).
DisposedOnce ==
    \A i \in Ids :
        /\ finished[i] <= 1
        /\ i <= made.instances => finished[i] = 1 \/ i \in excused \/ Held(i)

=============================================================================
