------------------------------ MODULE Shutdown ------------------------------
(* Graceful shutdown (core/observability/shutdown.js): cleanup handlers run  *)
(* by priority, each with a timeout, for whoever calls shutdown() first;     *)
(* the handlers of signals and of uncaught errors call it too and then end   *)
(* the process.                                                              *)
EXTENDS Integers, FiniteSets, Sequences, SequencesExt

CONSTANTS Handlers,       \* with their priorities
          Exiting,        \* callers that exit when shutdown() returns: signals
          Staying         \* callers that do not: shutdown('manual')

VARIABLES registered,     \* handlers, in the order of the Map
          stage,          \* "up", "shutting", "shut", or "exited"
          todo,           \* what the shutdown in progress has still to run
          running,        \* handlers called that have not settled
          waited,         \* the one it waits for, or none
          begun,          \* handlers called, in order (history)
          owner,          \* the caller whose shutdown() runs
          caller          \* where each caller is

vars == <<registered, stage, todo, running, waited, begun, owner, caller>>

Callers == Exiting \cup Staying
Nobody == "nobody"

Init ==
    /\ registered = <<>> /\ stage = "up" /\ todo = <<>>
    /\ running = {} /\ waited = Nobody /\ begun = <<>> /\ owner = Nobody
    /\ caller = [c \in Callers |-> "idle"]

Up == stage # "exited"

register(h) ==
    /\ Up /\ ~Contains(registered, h)
    /\ registered' = Append(registered, h)
    /\ UNCHANGED <<stage, todo, running, waited, begun, owner, caller>>

unregister(h) ==
    /\ Up
    /\ \E i \in DOMAIN registered :
          registered[i] = h /\ registered' = RemoveAt(registered, i)
    /\ UNCHANGED <<stage, todo, running, waited, begun, owner, caller>>

\* Faulty variant: in the order of registration.
ByRegistration(list) == list

\* g is cleaned up before h: by priority, then as they were registered.
Before(list, g, h) ==
    \/ Handlers[g] < Handlers[h]
    \/ /\ Handlers[g] = Handlers[h]
       /\ \E i, j \in DOMAIN list : i < j /\ list[i] = g /\ list[j] = h

\* The handlers of that moment, in a stable sort by priority.
ByPriority(list) ==
    CHOOSE sorted \in [DOMAIN list -> ToSet(list)] :
        \A i, j \in DOMAIN list : i < j => Before(list, sorted[i], sorted[j])

\* c's shutdown calls the next handler, or is over; `left' are still running.
Run(c, list, left) ==
    /\ todo' = IF list = <<>> THEN <<>> ELSE Tail(list)
    /\ IF list = <<>>
       THEN /\ stage' = "shut" /\ waited' = Nobody /\ owner' = Nobody
            /\ running' = left /\ UNCHANGED begun
       ELSE /\ stage' = "shutting" /\ waited' = Head(list) /\ owner' = c
            /\ running' = left \cup {Head(list)} /\ begun' = Append(begun, Head(list))
    /\ caller' = [caller EXCEPT ![c] = IF list = <<>> THEN "returned" ELSE "awaiting"]
    /\ UNCHANGED registered

\* shutdown(): one runs at a time and one in all; the others return at once.
Call(c) ==
    /\ Up /\ caller[c] = "idle"
    /\ IF stage = "up" THEN Run(c, ByPriority(registered), running)
       ELSE /\ caller' = [caller EXCEPT ![c] = "returned"]
            /\ UNCHANGED <<registered, stage, todo, running, waited, begun, owner>>

\* Faulty variant: waits for the handler, however long it takes.
AfterWithoutTimeout(settled) ==
    /\ Up /\ waited # Nobody /\ settled /\ stage = "shut"
    /\ Run(owner, todo, running \ {waited})

\* The handler waited for settles, or takes too long, in which case it goes on.
After(settled) ==
    /\ Up /\ waited # Nobody
    /\ Run(owner, todo, IF settled THEN running \ {waited} ELSE running)

SettlesLate(h) ==
    /\ Up /\ h \in running /\ h # waited
    /\ running' = running \ {h}
    /\ UNCHANGED <<registered, stage, todo, waited, begun, owner, caller>>

\* process.exit() behind the shutdown() of a signal.
Exit(c) ==
    /\ Up /\ c \in Exiting /\ caller[c] = "returned"
    /\ stage' = "exited"
    /\ UNCHANGED <<registered, todo, running, waited, begun, owner, caller>>

Next ==
    \/ \E h \in DOMAIN Handlers : register(h) \/ unregister(h) \/ SettlesLate(h)
    \/ \E c \in Callers : Call(c) \/ Exit(c)
    \/ \E settled \in BOOLEAN : After(settled)

Spec == Init /\ [][Next]_vars /\ WF_vars(\E settled \in BOOLEAN : After(settled))

-----------------------------------------------------------------------------
TypeOK ==
    /\ stage \in {"up", "shutting", "shut", "exited"}
    /\ running \subseteq ToSet(begun) /\ ToSet(begun) \subseteq DOMAIN Handlers
    /\ (owner # Nobody) <=> (waited # Nobody)

\* Whoever calls, and whatever handlers do, every handler is called at most
\* once and never after one of a later priority.
CleansUpInOrder ==
    \A i, j \in DOMAIN begun : i < j => /\ Handlers[begun[i]] <= Handlers[begun[j]]
                                        /\ begun[i] # begun[j]

\* A shutdown ends, also if a handler never settles: its timeout does.
ShutdownEnds == stage = "shutting" ~> stage # "shutting"

\* "Shutdown already in progress": the caller that is told so must not end the
\* process under the handlers of the first one.
ExitsAfterCleanup == stage = "exited" => todo = <<>> /\ waited = Nobody

=============================================================================
