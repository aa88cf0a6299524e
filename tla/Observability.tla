---------------------------- MODULE Observability ----------------------------
(* Alerts, the batch processor of trace spans, health checks and metrics     *)
(* (core/observability): AlertsNext, SpansNext, HealthNext and MetricsNext,  *)
(* which share no state.                                                     *)
EXTENDS Integers, FiniteSets, Sequences, SequencesExt, Functions

CONSTANTS AlertOrder,     \* the alerts in the order they were registered
          Inhibits,       \* inhibition rules, <<source, target>>
          Channels,       \* notification channels, a sequence
          maxQueueSize, maxBatchSize,
          Checks,         \* health checks, a sequence
          Runs,           \* overlapping runs of checks
          Counters, Gauges, MaxValue,
          MaxSpans, MaxChanges   \* bounds of the model

VARIABLES holds,          \* the condition of each alert, outside
          status,         \* currentState of each alert
          recent,         \* alerts triggered within their cooldown
          silenced,       \* alerts with a silence that is in force
          context,        \* what a checkAlerts() in progress has read
          sending,        \* notifications in progress
          raised,         \* firing and resolved events of each alert (history)
          active,         \* spans that have started and not ended
          queue,          \* of the batch processor
          scheduled,      \* _scheduled
          timers,         \* export timers set
          exporting,      \* batches of the exports in progress
          exported,       \* spans given to the exporter (history)
          spans,          \* spans started so far
          health,         \* status of each check
          at,             \* the check each run is at, 0 for none
          metrics         \* value of each metric, -1 undefined, -2 NaN

alertVars == <<holds, status, recent, silenced, context, sending, raised>>
spanVars == <<active, queue, scheduled, timers, exporting, exported, spans>>
healthVars == <<health, at>>
vars == <<alertVars, spanVars, healthVars, metrics>>

Alerts == ToSet(AlertOrder)
Metrics == Counters \cup Gauges

Init ==
    /\ holds = [a \in Alerts |-> FALSE] /\ status = [a \in Alerts |-> "pending"]
    /\ recent = {} /\ silenced = {} /\ context = <<>> /\ sending = {}
    /\ raised = [a \in Alerts |-> <<>>]
    /\ active = {} /\ queue = <<>> /\ scheduled = FALSE /\ timers = 0
    /\ exporting = {} /\ exported = <<>> /\ spans = 0
    /\ health = [c \in DOMAIN Checks |-> "unknown"] /\ at = [r \in Runs |-> 0]
    /\ metrics = [m \in Metrics |-> IF m \in Counters THEN 0 ELSE -1]

-----------------------------------------------------------------------------
(* Alerts *)

Quiet == UNCHANGED <<status, recent, sending, raised>>

Changes(a) ==
    /\ holds' = [holds EXCEPT ![a] = ~@]
    /\ UNCHANGED <<silenced, context>> /\ Quiet

\* silence() with a duration, and the end of it; without one the silence ends
\* in 1970 and has no effect.
Silence(a) ==
    /\ silenced' = IF a \in silenced THEN silenced \ {a} ELSE silenced \cup {a}
    /\ UNCHANGED <<holds, context>> /\ Quiet

\* The cooldown of an alert is over.
CoolsDown(a) ==
    /\ a \in recent /\ recent' = recent \ {a}
    /\ UNCHANGED <<holds, status, silenced, context, sending, raised>>

\* checkAlerts() reads its context, and goes on after the providers; one that
\* fails leaves its part out, and no condition holds of what is missing.
ReadContext(r) ==
    /\ r \notin DOMAIN context
    /\ \E known \in {Alerts, {}} :
         context' = [q \in DOMAIN context \cup {r} |->
                         IF q = r THEN {a \in known : holds[a]} ELSE context[q]]
    /\ UNCHANGED <<holds, silenced>> /\ Quiet

\* Faulty variant: an alert is resolved whether or not it is firing.
ResolvesAlways(a, ctx) == a \notin silenced /\ a \notin ctx

Resolves(a, ctx) == a \notin silenced /\ a \notin ctx /\ status[a] = "firing"

\* What one pass may report: nothing tells it twice that an alert fires.
Candidates(ctx) ==
    {a \in Alerts : a \notin silenced /\ a \in ctx /\ status[a] # "firing" /\ a \notin recent}

\* The alerts that fire in one pass, in order: a rule only knows the sources
\* that have fired earlier in the pass.
Firing(ctx) ==
    LET fires[i \in DOMAIN AlertOrder] ==
            /\ AlertOrder[i] \in Candidates(ctx)
            /\ \A j \in 1..i - 1 : fires[j] => <<AlertOrder[j], AlertOrder[i]>> \notin Inhibits
    IN {a \in Candidates(ctx) : \E i \in DOMAIN AlertOrder : a = AlertOrder[i] /\ fires[i]}

CheckAlerts(r) ==
    LET fired == Firing(context[r])
        resolved == {a \in Alerts : Resolves(a, context[r])}
        now(a) == IF a \in fired THEN "firing" ELSE "resolved"
    IN /\ r \in DOMAIN context /\ context' = Restrict(context, DOMAIN context \ {r})
       /\ \A a \in fired \cup resolved : Len(raised[a]) < MaxChanges
       /\ status' = [a \in Alerts |-> IF a \in fired \cup resolved THEN now(a) ELSE status[a]]
       /\ recent' = recent \cup fired
       /\ raised' = [a \in Alerts |-> IF a \in fired \cup resolved THEN Append(raised[a], now(a))
                                      ELSE raised[a]]
       /\ sending' = sending \cup
            {[alert |-> a, what |-> now(a), to |-> 1] : a \in fired \cup resolved}
       /\ UNCHANGED <<holds, silenced>>

\* A channel takes a notification, or fails; the next one follows.
Send(n) ==
    /\ sending' = (sending \ {n}) \cup
                  (IF n.to = Len(Channels) THEN {} ELSE {[n EXCEPT !.to = @ + 1]})
    /\ UNCHANGED <<holds, status, recent, silenced, context, raised>>

AlertsNext ==
    \/ \E a \in Alerts : Changes(a) \/ Silence(a) \/ CoolsDown(a)
    \/ \E r \in Runs : ReadContext(r) \/ CheckAlerts(r)
    \/ \E n \in sending : Send(n)

-----------------------------------------------------------------------------
(* Spans *)

startSpan(sampled) ==
    /\ spans < MaxSpans /\ spans' = spans + 1
    /\ active' = IF sampled THEN active \cup {spans + 1} ELSE active
    /\ UNCHANGED <<queue, scheduled, timers, exporting, exported>>

\* _scheduleExport() on what the flag says
Schedule(flag, due) ==
    /\ scheduled' = (flag \/ due)
    /\ timers' = IF due /\ ~flag THEN timers + 1 ELSE timers

\* Faulty variant: off by one.
DueLate(list) == Len(list) > maxBatchSize

\* A batch is full, and its export due.
Due(list) == Len(list) >= maxBatchSize

\* The end of a span, with the processor's onEnd(): the oldest span is dropped
\* from a full queue.
endSpan(id) ==
    /\ id \in active /\ active' = active \ {id}
    /\ queue' = Append(IF Len(queue) >= maxQueueSize THEN Tail(queue) ELSE queue, id)
    /\ Schedule(scheduled, Due(queue'))
    /\ UNCHANGED <<exporting, exported, spans>>

\* Faulty variant: a batch stays in the queue until it is exported.
RestUntouched(batch) == queue

Rest(batch) == SubSeq(queue, Len(batch) + 1, Len(queue))

\* _export() up to its await
Export ==
    LET batch == SubSeq(queue, 1, IF Len(queue) < maxBatchSize THEN Len(queue) ELSE maxBatchSize)
    IN IF queue = <<>>
       THEN scheduled' = FALSE /\ UNCHANGED <<queue, exporting, exported>>
       ELSE /\ queue' = Rest(batch)
            /\ exporting' = exporting \cup {batch}
            /\ exported' = exported \o batch
            /\ UNCHANGED scheduled

TimerFires ==
    /\ timers > 0 /\ timers' = timers - 1
    /\ Export
    /\ UNCHANGED <<active, spans>>

forceFlush == Export /\ UNCHANGED <<active, timers, spans>>

\* The exporter is done, has failed, or has not answered in time.
ExportEnds(batch) ==
    /\ exporting' = exporting \ {batch}
    /\ Schedule(FALSE, queue # <<>>)
    /\ UNCHANGED <<active, queue, exported, spans>>

Exports == TimerFires \/ \E batch \in exporting : ExportEnds(batch)

SpansNext ==
    \/ \E sampled \in BOOLEAN : startSpan(sampled)
    \/ \E id \in active : endSpan(id)
    \/ forceFlush \/ Exports

-----------------------------------------------------------------------------
(* Health checks and metrics *)

RunChecks(r) == at[r] = 0 /\ at' = [at EXCEPT ![r] = 1] /\ UNCHANGED health

\* A check answers or fails in time, or its timeout does; the next one follows.
Checked(r, result) ==
    /\ at[r] > 0
    /\ health' = [health EXCEPT ![at[r]] = result]
    /\ at' = [at EXCEPT ![r] = IF @ = Len(Checks) THEN 0 ELSE @ + 1]

HealthNext == \E r \in Runs : \/ RunChecks(r)
                              \/ \E result \in {"healthy", "unhealthy"} : Checked(r, result)

\* getStatus()
Overall ==
    LET count(s) == Cardinality({c \in DOMAIN Checks : health[c] = s})
    IN IF count("unhealthy") = 0 THEN "healthy"
       ELSE IF count("unhealthy") > count("healthy") THEN "unhealthy" ELSE "degraded"

\* A gauge that was never set has no number to add to.
inc(m) ==
    /\ metrics[m] < MaxValue
    /\ metrics' = [metrics EXCEPT ![m] = IF @ < 0 THEN -2 ELSE @ + 1]

set(m, value) == metrics' = [metrics EXCEPT ![m] = value]

MetricsNext == \E m \in Metrics : inc(m) \/ \E v \in 0..MaxValue : set(m, v)

-----------------------------------------------------------------------------
Next ==
    \/ AlertsNext /\ UNCHANGED <<spanVars, healthVars, metrics>>
    \/ SpansNext /\ UNCHANGED <<alertVars, healthVars, metrics>>
    \/ HealthNext /\ UNCHANGED <<alertVars, spanVars, metrics>>
    \/ MetricsNext /\ UNCHANGED <<alertVars, spanVars, healthVars>>

\* Timers fire, and exports end or time out.
Spec == Init /\ [][Next]_vars /\ WF_vars(Exports /\ UNCHANGED <<alertVars, healthVars, metrics>>)

TypeOK ==
    /\ \A a \in Alerts : status[a] \in {"pending", "firing", "resolved"}
    /\ recent \subseteq Alerts /\ silenced \subseteq Alerts
    /\ \A n \in sending : n.alert \in Alerts /\ n.to \in DOMAIN Channels
    /\ Len(queue) <= maxQueueSize /\ timers \in Nat
    /\ \A r \in Runs : at[r] \in 0..Len(Checks)
    /\ Overall \in {"healthy", "degraded", "unhealthy"}
    /\ \A m \in Counters : metrics[m] >= 0

\* Checks overlap, providers fail and silences come and go, but an alert is
\* reported firing and resolved in turn.
Alternates ==
    \A a \in Alerts : \A i \in DOMAIN raised[a] :
        raised[a][i] = IF i % 2 = 1 THEN "firing" ELSE "resolved"

\* No span is exported twice, and none that is waiting has been.
ExportedOnce == IsInjective(exported \o queue)

\* A queue that has a batch to send gets smaller: with forced exports between,
\* a timer or an export in progress always is on its way.
BatchesAreSent == Len(queue) >= maxBatchSize ~> Len(queue) < maxBatchSize

=============================================================================
