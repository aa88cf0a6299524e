------------------------------ MODULE EventBus ------------------------------
(* The event bus (core/eventbus/index.js): a bounded queue with one consumer,*)
(* handlers that are awaited one after the other, deliveries by emitSync()   *)
(* that are not awaited at all, and errors that are events themselves.       *)
EXTENDS Integers, FiniteSets, Sequences, SequencesExt, Functions

CONSTANTS Types,          \* event types, with "core:error"
          Subscriptions,  \* [type, rank, once] of each; type "*" for all events,
                          \* rank 0, 1, 2 for the priorities high, normal, low
          maxQueueSize,
          MaxEvents       \* events in a behaviour (bound of the model)

VARIABLES subscribed,     \* subscriptions in the sets
          ever,           \* subscriptions made so far, in the order they came
          queue,          \* ids of events
          processing,
          events,         \* the type of each event, its id being its place
          cancelled,      \* ids of cancelled events
          deliveries,     \* what each deliver() in progress is doing
          log             \* handlers started, by subscription (history)

vars == <<subscribed, ever, queue, processing, events, cancelled, deliveries, log>>

Subs == DOMAIN Subscriptions
Error == "core:error"

Init ==
    /\ subscribed = {} /\ ever = <<>>
    /\ queue = <<>>
    /\ processing = FALSE
    /\ events = <<>>
    /\ cancelled = {}
    /\ deliveries = <<>>
    /\ log = [s \in Subs |-> <<>>]

subscribe(s) ==
    /\ ~Contains(ever, s)
    /\ ever' = Append(ever, s)
    /\ subscribed' = subscribed \cup {s}
    /\ UNCHANGED <<queue, processing, events, cancelled, deliveries, log>>

unsubscribe(s) ==
    /\ s \in subscribed
    /\ subscribed' = subscribed \ {s}
    /\ UNCHANGED <<ever, queue, processing, events, cancelled, deliveries, log>>

-----------------------------------------------------------------------------
(* deliver() on a bus b with the fields it changes *)

Bus == [deliveries |-> deliveries, log |-> log, events |-> events]

\* s comes before t: by priority, then those of the type before those of every
\* event, then as they subscribed.
Before(s, t) ==
    LET every(x) == IF Subscriptions[x].type = "*" THEN 1 ELSE 0
    IN \/ Subscriptions[s].rank < Subscriptions[t].rank
       \/ /\ Subscriptions[s].rank = Subscriptions[t].rank
          /\ \/ every(s) < every(t)
             \/ /\ every(s) = every(t)
                /\ \E i, j \in DOMAIN ever : i < j /\ ever[i] = s /\ ever[j] = t

\* The handlers of an event, in the order of their calls.
Handlers(type) ==
    LET called == {s \in subscribed : Subscriptions[s].type \in {type, "*"}}
        places == 1..Cardinality(called)
    IN CHOOSE sorted \in [places -> called] :
           \A i, j \in places : i < j => Before(sorted[i], sorted[j])

\* The next handler of a delivery is called; at the end, once handlers go.
Handle(b, id, d) ==
    IF d.todo = <<>>
    THEN [deliveries |-> Restrict(b.deliveries, DOMAIN b.deliveries \ {id}),
          log |-> b.log, events |-> b.events]
    ELSE [deliveries |-> [i \in DOMAIN b.deliveries \cup {id} |->
                            IF i = id THEN d ELSE b.deliveries[i]],
          log |-> [b.log EXCEPT ![Head(d.todo)] = Append(@, [id |-> id, queued |-> d.queued])],
          events |-> b.events]

Deliver(b, id, queued) ==
    Handle(b, id, [todo |-> Handlers(b.events[id]), done |-> {}, queued |-> queued])

\* The bus with a new event, whose id is its place.
Emitted(b, type) ==
    [deliveries |-> b.deliveries, log |-> b.log, events |-> Append(b.events, type)]

\* emitSync() outside the queue
Sync(b, type) == Deliver(Emitted(b, type), Len(b.events) + 1, FALSE)

\* handleError(): an error is an event, unless it comes from one.
handleError(b, type) == IF type = Error THEN b ELSE Sync(b, Error)

Becomes(b) ==
    /\ Len(b.events) <= MaxEvents
    /\ deliveries' = b.deliveries /\ log' = b.log /\ events' = b.events

-----------------------------------------------------------------------------
(* emit(): middleware may cancel the event, or throw and be passed over.  The*)
(* first handler is called at once if nothing else is being processed.       *)

\* Faulty variant: off by one.
OverflowsLate == Len(queue) > maxQueueSize

Overflows == Len(queue) >= maxQueueSize

Emit(type, middleware) ==
    LET b == Emitted(Bus, type)
        id == Len(b.events)
        c == IF middleware = "throws" THEN handleError(b, type) ELSE b
    IN /\ IF Overflows
          THEN Becomes(handleError(b, type)) /\ UNCHANGED <<queue, processing>>
          ELSE IF middleware = "cancels"
          THEN Becomes(b) /\ UNCHANGED <<queue, processing>>
          ELSE IF processing
          THEN Becomes(c) /\ queue' = Append(queue, id) /\ UNCHANGED processing
          ELSE Becomes(Deliver(c, id, TRUE)) /\ processing' = TRUE /\ UNCHANGED queue
       /\ UNCHANGED <<subscribed, ever, cancelled>>

EmitSync(type) ==
    /\ Becomes(Sync(Bus, type))
    /\ UNCHANGED <<subscribed, ever, queue, processing, cancelled>>

\* Faulty variant: `processing' is not reset.
DrainedUnreset == UNCHANGED <<processing, queue, events, deliveries, log>>

Drained == processing' = FALSE /\ UNCHANGED <<queue, events, deliveries, log>>

\* processQueue() after the await of a delivery.
ProcessQueue ==
    /\ processing
    /\ \A id \in DOMAIN deliveries : ~deliveries[id].queued
    /\ IF queue = <<>>
       THEN Drained
       ELSE /\ queue' = Tail(queue)
            /\ IF Head(queue) \in cancelled THEN UNCHANGED <<events, deliveries, log>>
               ELSE Becomes(Deliver(Bus, Head(queue), TRUE))
            /\ UNCHANGED processing
    /\ UNCHANGED <<subscribed, ever, cancelled>>

\* A handler settles; it may have cancelled the event, and may have thrown,
\* in which case a once handler stays.  At the end the once handlers are looked
\* for under the type of the event, where those of "*" are not found.
HandlerEnds(id, cancels, throws) ==
    LET d == deliveries[id]
        stops == cancels \/ id \in cancelled
        done == IF throws THEN d.done ELSE d.done \cup {Head(d.todo)}
        next == [todo |-> IF stops THEN <<>> ELSE Tail(d.todo), done |-> done,
                 queued |-> d.queued]
        b == IF throws THEN handleError(Bus, events[id]) ELSE Bus
        gone == {s \in done : /\ next.todo = <<>> /\ Subscriptions[s].once
                              /\ Subscriptions[s].type = events[id]}
    IN /\ Becomes(Handle(b, id, next))
       /\ cancelled' = IF cancels THEN cancelled \cup {id} ELSE cancelled
       /\ subscribed' = subscribed \ gone
       /\ UNCHANGED <<ever, queue, processing>>

Cancel(id) ==
    /\ Contains(queue, id) /\ id \notin cancelled
    /\ cancelled' = cancelled \cup {id}
    /\ UNCHANGED <<subscribed, ever, queue, processing, events, deliveries, log>>

Settle == \/ ProcessQueue
          \/ \E id \in DOMAIN deliveries : HandlerEnds(id, FALSE, FALSE)

Next ==
    \/ \E s \in Subs : subscribe(s) \/ unsubscribe(s)
    \/ \E type \in Types : \/ EmitSync(type)
                           \/ \E m \in {"passes", "cancels", "throws"} : Emit(type, m)
    \/ Settle
    \/ \E id \in DOMAIN deliveries, cancels, throws \in BOOLEAN :
           HandlerEnds(id, cancels, throws)
    \/ \E id \in 1..MaxEvents : Cancel(id)

\* Handlers settle and promises are resolved; nobody has to emit.
Spec == Init /\ [][Next]_vars /\ WF_vars(Settle)

-----------------------------------------------------------------------------
TypeOK ==
    /\ subscribed \subseteq ToSet(ever) /\ ToSet(ever) \subseteq Subs
    /\ ToSet(queue) \subseteq DOMAIN events
    /\ ~processing => queue = <<>>
    /\ \A id \in DOMAIN deliveries : deliveries[id].todo # <<>>

\* Whatever handlers do meanwhile, the events of the queue are handled one at
\* a time, each handler sees them in the order they were emitted and each once,
\* and the queue keeps its bound.
InOrder ==
    /\ \A id, other \in DOMAIN deliveries :
          deliveries[id].queued /\ deliveries[other].queued => id = other
    /\ Len(queue) <= maxQueueSize
    /\ \A s \in Subs : \A i, j \in DOMAIN log[s] :
          (i < j /\ log[s][i].queued /\ log[s][j].queued) => log[s][i].id < log[s][j].id

\* An event the queue took is processed in the end: emptying the queue neither
\* stops nor forgets that it has stopped, after whatever handlers throw.
Drains == processing ~> ~processing

=============================================================================
