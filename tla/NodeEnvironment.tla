--------------------------- MODULE NodeEnvironment ---------------------------
(* The parts by which a node deals with its surroundings: events, signals,   *)
(* observation, discovery and address translation, plugins and the container *)
(* of what they depend on.  They share no state, so that none can notice how *)
(* the steps of another fall between its own: a behaviour of this module     *)
(* explores one of them, which `part' names.                                 *)
EXTENDS Integers, FiniteSets, Sequences

\* The constants of the modules.  Where two modules use one name for different
\* things, it is renamed here.
CONSTANTS EventTypes, Subscriptions, maxEventQueue, MaxEvents,
          CleanupHandlers, Exiting, Staying,
          AlertOrder, Inhibits, Channels, maxQueueSize, maxBatchSize, Checks, Runs,
          Counters, Gauges, MaxValue, MaxSpans, MaxChanges,
          ServiceIds, ServiceKinds, maxServices, NodeList, maxConcurrent, requiredNodes, maxRetries,
          Found, maxFound, MaxTries, MaxRegistrations,
          NodeIds, Addresses, maxPeers, peerTimeout, MaxTime, MaxMessages,
          Peers, channelMin, channelMax, MaxSockets, MaxRequests, MaxPending,
          Ports, Protocols, NatCallers, maxPunches, MaxNatCalls, MaxPunchCalls,
          Dirs, Stateful, LoaderCalls, MaxLoads,
          Tokens, Singletons, ResolveCalls, MaxMade

\* Priorities are numbers.  A table of peers and a queue of spans have limits; a
\* batch has a span.
ASSUME LimitsFit ==
    /\ CleanupHandlers \in [DOMAIN CleanupHandlers -> Int]
    /\ \A s \in DOMAIN Subscriptions : Subscriptions[s].rank \in Int
    /\ maxPeers \in Nat /\ maxEventQueue \in Nat
    /\ maxQueueSize \in Nat \ {0} /\ maxBatchSize \in Nat \ {0}
    /\ MaxSpans \in Nat /\ MaxSockets \in Nat /\ MaxMade \in Nat

VARIABLES part,
          subscribed, ever, queue, processing, events, cancelled, deliveries, log,
          registered, stage, todo, running, waited, begun, owner, caller,
          holds, status, recent, silenced, context, sending, raised,
          active, spanQueue, scheduled, timers, exporting, exported, spans,
          health, at, metrics,
          services, byType, localServices, storing, calls,
          nodeStatus, tries, dials, open, waiting, connected, bootstrap,
          peers, lookups, polling, mdns,
          nodes, pending, messages, accepting, scanning, now, received,
          socket, made, binding, closing, closed, bound, cutShort, state, permissions, channels,
          nextChannel, requests, sent, timer,
          found, listed, known, gateway, mapper, natCalls,
          sockets, current, isPunching, attempts, punch, remoteInfo, stun, asks,
          plugins, pluginState, live, pluginCalls, failed, lostPlugins,
          held, instance, instances, created, resolving, disposed, disposal, finished, excused

busVars == <<subscribed, ever, queue, processing, events, cancelled, deliveries, log>>
downVars == <<registered, stage, todo, running, waited, begun, owner, caller>>
alertVars == <<holds, status, recent, silenced, context, sending, raised>>
spanVars == <<active, spanQueue, scheduled, timers, exporting, exported, spans>>
healthVars == <<health, at>>
registryVars == <<services, byType, localServices, storing, calls>>
bootstrapVars == <<nodeStatus, tries, dials, open, waiting, connected, bootstrap>>
peerVars == <<peers, lookups, polling>>
nodeVars == <<nodes, pending, messages, accepting, scanning, now, received>>
turnVars == <<socket, made, binding, closing, closed, bound, cutShort, state, permissions, channels,
              nextChannel, requests, sent, timer>>
mapVars == <<found, listed, known, gateway, mapper>>
punchVars == <<sockets, current, isPunching, attempts, punch, remoteInfo>>
stunVars == <<stun, asks>>
pluginVars == <<plugins, pluginState, live, pluginCalls, failed, lostPlugins>>
containerVars == <<held, instance, instances, created, resolving, disposed, disposal, finished,
                   excused>>
vars == <<part, busVars, downVars, alertVars, spanVars, healthVars, metrics, registryVars,
          bootstrapVars, peerVars, mdns, nodeVars, turnVars, mapVars, punchVars, stunVars,
          natCalls, pluginVars, containerVars>>

Bus == INSTANCE EventBus WITH Types <- EventTypes, maxQueueSize <- maxEventQueue

Down == INSTANCE Shutdown WITH Handlers <- CleanupHandlers

Obs == INSTANCE Observability WITH queue <- spanQueue

Disc == INSTANCE ServiceDiscovery WITH
    Ids <- ServiceIds, Kinds <- ServiceKinds, maxPeers <- maxFound,
    MaxCalls <- MaxRegistrations, status <- nodeStatus

Node == INSTANCE NodeDiscovery WITH Ids <- NodeIds, peers <- nodes

Turn == INSTANCE TurnClient WITH running <- bound

Gate == INSTANCE NatTraversal WITH
    Calls <- NatCallers, MaxCalls <- MaxNatCalls, calls <- natCalls

Plug == INSTANCE Plugins WITH
    Calls <- LoaderCalls, state <- pluginState, calls <- pluginCalls, excused <- lostPlugins

Cont == INSTANCE Container WITH Calls <- ResolveCalls, services <- held, made <- created

Parts == {"bus", "shutdown", "alerts", "spans", "health", "metrics", "registry", "bootstrap",
          "peers", "mdns", "nodes", "turn", "mapping", "punching", "plugins", "container"}

Init ==
    /\ part \in Parts
    /\ Bus!Init /\ Down!Init /\ Obs!Init /\ Disc!Init /\ Node!Init /\ Turn!Init /\ Gate!Init
    /\ Plug!Init /\ Cont!Init

\* A step of part p, that leaves the state of the other parts alone.
Only(p) ==
    /\ part = p /\ UNCHANGED part
    /\ p # "bus" => UNCHANGED busVars
    /\ p # "shutdown" => UNCHANGED downVars
    /\ p # "alerts" => UNCHANGED alertVars
    /\ p # "spans" => UNCHANGED spanVars
    /\ p # "health" => UNCHANGED healthVars
    /\ p # "metrics" => UNCHANGED metrics
    /\ p # "registry" => UNCHANGED registryVars
    /\ p # "bootstrap" => UNCHANGED bootstrapVars
    /\ p # "peers" => UNCHANGED peerVars
    /\ p # "mdns" => UNCHANGED mdns
    /\ p # "nodes" => UNCHANGED nodeVars
    /\ p # "turn" => UNCHANGED turnVars
    /\ p \notin {"mapping", "punching"} => UNCHANGED <<mapVars, punchVars, stunVars, natCalls>>
    /\ p # "plugins" => UNCHANGED pluginVars
    /\ p # "container" => UNCHANGED containerVars

Next ==
    \/ Only("bus") /\ Bus!Next
    \/ Only("shutdown") /\ Down!Next
    \/ Only("alerts") /\ Obs!AlertsNext
    \/ Only("spans") /\ Obs!SpansNext
    \/ Only("health") /\ Obs!HealthNext
    \/ Only("metrics") /\ Obs!MetricsNext
    \/ Only("registry") /\ Disc!RegistryNext
    \/ Only("bootstrap") /\ Disc!BootstrapNext
    \/ Only("peers") /\ Disc!PeersNext
    \/ Only("mdns") /\ Disc!MdnsNext
    \/ Only("nodes") /\ Node!Next
    \/ Only("turn") /\ Turn!Next
    \/ Only("plugins") /\ Plug!Next
    \/ Only("container") /\ Cont!Next
    \/ Only("mapping") /\ Gate!MapNext
    \/ /\ Only("punching")
       /\ \/ Gate!PunchNext /\ UNCHANGED <<mapVars, stunVars>>
          \/ Gate!StunNext /\ UNCHANGED <<mapVars, punchVars>>
          \/ \E c \in NatCallers : Gate!cleanup(c)
       /\ natCalls' <= MaxPunchCalls

\* The fairness of each module: promises are resolved and timers fire.
Spec ==
    /\ Init /\ [][Next]_vars
    /\ WF_vars(Only("bus") /\ Bus!Settle)
    /\ WF_vars(Only("shutdown") /\ \E settled \in BOOLEAN : Down!After(settled))
    /\ WF_vars(Only("spans") /\ Obs!Exports)
    /\ WF_vars(Only("bootstrap") /\ Disc!Attempts)

\* Of the part that takes the steps; the others are as they were at first.
TypesOK ==
    /\ part = "bus" => Bus!TypeOK
    /\ part = "shutdown" => Down!TypeOK
    /\ part \in {"alerts", "spans", "health", "metrics"} => Obs!TypeOK
    /\ part \in {"registry", "bootstrap", "peers", "mdns"} => Disc!TypeOK
    /\ part = "nodes" => Node!TypeOK
    /\ part = "turn" => Turn!TypeOK
    /\ part \in {"mapping", "punching"} => Gate!TypeOK
    /\ part = "plugins" => Plug!TypeOK
    /\ part = "container" => Cont!TypeOK

\* Events are handled one at a time in the order they were emitted, each once;
\* cleanup handlers run once, in the order of their priorities.
InOrder ==
    /\ part = "bus" => Bus!InOrder
    /\ part = "shutdown" => Down!CleansUpInOrder

\* An alert is reported firing and resolved in turn, and a span is exported
\* once, however checks and exports overlap.
ReportedOnce ==
    /\ part = "alerts" => Obs!Alternates
    /\ part = "spans" => Obs!ExportedOnce

\* What a node says it has is there: the allocation its socket, the listed
\* mapping in the client that can remove it, the service under its type, the
\* plugin that has started in the loader that can stop it, and an instance in its
\* container until it is disposed of, which happens once.
ListedIsThere ==
    /\ part = "turn" => Turn!AllocationIsOpen
    /\ part \in {"mapping", "punching"} => Gate!ListedIsKnown
    /\ part = "registry" => Disc!ServicesAreIndexed
    /\ part = "plugins" => Plug!LiveIsListed
    /\ part = "container" => Cont!DisposedOnce

\* A known node is only dropped for a cause, and the oldest for a newer one.
DroppedForCause == Node!DroppedForCause

\* The queue of events, a shutdown, full batches of spans and a bootstrap all
\* come to an end, whatever handlers throw and whoever does not answer.
\* As one part takes all the steps, this is the conjunction of the modules' own
\* Drains, ShutdownEnds, BatchesAreSent and BootstrapEnds.
InProgress == \/ processing \/ stage = "shutting" \/ bootstrap.running
              \/ Len(spanQueue) >= maxBatchSize
Ends == InProgress ~> ~InProgress

=============================================================================
