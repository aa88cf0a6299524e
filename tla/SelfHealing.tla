---------------------------- MODULE SelfHealing -----------------------------
(* The health monitor and the engine that heals (core/autonomous/healing.js),*)
(* the threat response and its remediations (core/autonomous/response.js).   *)
(* The application carries a status to checkAndHeal() and a threat to        *)
(* checkRemediation(); nothing else calls them.  Checks and actions are      *)
(* awaited, and other rounds and calls run meanwhile.                        *)
EXTENDS Integers, FiniteSets, Sequences, Functions

CONSTANTS Checks,        \* the registered checks, in their order
          Critical,      \* checks with options.critical
          HealRules,     \* the healing rules in their order: trigger and actions
          Remedies,      \* the remediations in their order: level and actions
          Weights,       \* the weights of the threat rules an event may match
          Rounds,        \* runs of runChecks() at once (bound of the model)
          Workers,       \* calls of checkAndHeal(), checkRemediation() (bound)
          MaxFailures,   \* consecutiveFailures (bound)
          Events,        \* security events: whether they name an address and a
                         \* service, and the actions whose listener throws
          MaxEvents      \* entries of threats and responses together (bound)

VARIABLES failures,      \* consecutiveFailures of each check
          status,
          rounds,        \* what each run of runChecks() is doing
          workers,       \* what each call of the engines is doing
          active,        \* activeHealing, activeRemediations
          enabled,       \* autoResponseEnabled
          threats,       \* levels of the active threats, by their id
          responses      \* responseHistory

vars == <<failures, status, rounds, workers, active, enabled, threats, responses>>

NoRound == [next |-> 0, unhealthy |-> 0, critical |-> FALSE]
NoWorker == [kind |-> "none", input |-> "none", todo |-> <<>>, rule |-> "none", left |-> 0]

Init ==
    /\ failures = [i \in DOMAIN Checks |-> 0]
    /\ status = "unknown"
    /\ rounds = [r \in Rounds |-> NoRound]
    /\ workers = [w \in Workers |-> NoWorker]
    /\ active = [heal |-> {}, remedy |-> {}]
    /\ enabled = TRUE
    /\ threats = <<>>
    /\ responses = <<>>

-----------------------------------------------------------------------------
(* HealthMonitor *)

\* runChecks(), by hand or from the interval, which does not wait for its last
\* run; start() and stop() only set and clear the interval.
RunChecks(r) ==
    /\ rounds[r] = NoRound
    /\ rounds' = [rounds EXCEPT ![r].next = 1]
    /\ UNCHANGED <<failures, status, workers, active, enabled, threats, responses>>

\* A check answers, throws or exceeds its time limit.
CheckEnds(r, ok) ==
    /\ rounds[r].next \in DOMAIN Checks
    /\ LET i == rounds[r].next
           f == IF ok THEN 0 ELSE failures[i] + 1
       IN /\ f <= MaxFailures
          /\ failures' = [failures EXCEPT ![i] = f]
          /\ rounds' = [rounds EXCEPT ![r] =
                [next |-> i + 1, unhealthy |-> IF ok THEN @.unhealthy ELSE @.unhealthy + 1,
                 critical |-> @.critical \/ (Checks[i] \in Critical /\ f >= 3)]]
    /\ UNCHANGED <<status, workers, active, enabled, threats, responses>>

Verdict(round) == CASE round.critical -> "unhealthy"
                    [] ~round.critical /\ round.unhealthy > 0 -> "degraded"
                    [] OTHER -> "healthy"

RoundEnds(r) ==
    /\ rounds[r].next = Len(Checks) + 1
    /\ status' = Verdict(rounds[r])
    /\ rounds' = [rounds EXCEPT ![r] = NoRound]
    /\ UNCHANGED <<failures, workers, active, enabled, threats, responses>>

-----------------------------------------------------------------------------
(* SelfHealing and AutoRemediation: a call goes through the rules and awaits *)
(* the actions of those that are triggered.                                  *)

Rules(kind) == IF kind = "heal" THEN HealRules ELSE Remedies

\* Faulty variant: does not ask whether the rule is active.
_shouldTriggerAlways(kind, input, rule) ==
    /\ input \in rule.on
    /\ kind = "heal" => \/ rule.minFailures = 0
                        \/ \E i \in DOMAIN Checks : failures[i] >= rule.minFailures

_shouldTrigger(kind, input, rule) ==
    /\ rule.id \notin active[kind]
    /\ input \in rule.on
    /\ kind = "heal" => \/ rule.minFailures = 0
                        \/ \E i \in DOMAIN Checks : failures[i] >= rule.minFailures

\* checkAndHeal() with the status, or checkRemediation() with a threat.
Call(w, kind, input) ==
    /\ workers[w] = NoWorker
    /\ workers' = [workers EXCEPT ![w] = [NoWorker EXCEPT !.kind = kind, !.input = input,
                                                          !.todo = Rules(kind)]]
    /\ UNCHANGED <<failures, status, rounds, active, enabled, threats, responses>>

CheckAndHeal(w) == Call(w, "heal", status)

CheckRemediation(w) == \E i \in DOMAIN threats : Call(w, "remedy", threats[i])

NextRule(w) ==
    LET k == workers[w]
        rule == Head(k.todo)
    IN /\ k.rule = "none" /\ k.todo # <<>>
       /\ IF _shouldTrigger(k.kind, k.input, rule)
          THEN /\ active' = [active EXCEPT ![k.kind] = @ \cup {rule.id}]
               /\ workers' = [workers EXCEPT ![w].todo = Tail(@), ![w].rule = rule.id,
                                             ![w].left = rule.actions]
          ELSE workers' = [workers EXCEPT ![w].todo = Tail(@)] /\ UNCHANGED active
       /\ UNCHANGED <<failures, status, rounds, enabled, threats, responses>>

\* The rule is over: its actions are done, or one threw (finally).
Finish(w, kind) ==
    /\ active' = [active EXCEPT ![kind] = @ \ {workers[w].rule}]
    /\ workers' = [workers EXCEPT ![w].rule = "none", ![w].left = 0]

ActionEnds(w, ok) ==
    /\ workers[w].rule # "none"
    /\ IF workers[w].left <= 1 \/ ~ok
       THEN Finish(w, workers[w].kind)
       ELSE workers' = [workers EXCEPT ![w].left = @ - 1] /\ UNCHANGED active
    /\ UNCHANGED <<failures, status, rounds, enabled, threats, responses>>

CallEnds(w) ==
    /\ workers[w] # NoWorker /\ workers[w].rule = "none" /\ workers[w].todo = <<>>
    /\ workers' = [workers EXCEPT ![w] = NoWorker]
    /\ UNCHANGED <<failures, status, rounds, active, enabled, threats, responses>>

-----------------------------------------------------------------------------
(* ThreatResponse: processEvent() runs to its end at once. *)

Level(score) == CASE score >= 10 -> "critical"
                  [] score \in 5..9 -> "high"
                  [] score \in 3..4 -> "medium"
                  [] score \in 1..2 -> "low"
                  [] OTHER -> "none"

_determineActions(level) ==
    CASE level = "low" -> {"log"}
      [] level = "medium" -> {"log", "alert"}
      [] level = "high" -> {"log", "alert", "block_ip"}
      [] level = "critical" -> {"log", "alert", "block_ip", "isolate_service"}
      [] OTHER -> {}

\* What an action does for an event: an address or a service may be missing,
\* and a listener that throws makes the action fail, not the others.
Outcome(action, event) ==
    IF action \in event.throws THEN "failed"
    ELSE IF \/ action = "block_ip" /\ ~event.ip
            \/ action = "isolate_service" /\ ~event.service
         THEN "skipped" ELSE "done"

processEvent(matched, event) ==
    LET score == SumFunctionOnSet(Weights, matched)
        level == Level(score)
        results == [a \in _determineActions(level) |-> Outcome(a, event)]
    IN /\ Len(threats) + Len(responses) < MaxEvents
       /\ level # "none"
       /\ threats' = Append(threats, level)
       /\ responses' = IF enabled THEN Append(responses, [score |-> score, results |-> results])
                       ELSE responses
       /\ UNCHANGED <<failures, status, rounds, workers, active, enabled>>

clearThreat(i) ==
    /\ threats' = SubSeq(threats, 1, i - 1) \o SubSeq(threats, i + 1, Len(threats))
    /\ UNCHANGED <<failures, status, rounds, workers, active, enabled, responses>>

AutoResponse(on) ==
    /\ enabled' = on
    /\ UNCHANGED <<failures, status, rounds, workers, active, threats, responses>>

Next ==
    \/ \E on \in BOOLEAN : AutoResponse(on)
    \/ \E r \in Rounds : RunChecks(r) \/ RoundEnds(r) \/ \E ok \in BOOLEAN : CheckEnds(r, ok)
    \/ \E w \in Workers : \/ CheckAndHeal(w) \/ CheckRemediation(w)
                          \/ NextRule(w) \/ CallEnds(w)
                          \/ \E ok \in BOOLEAN : ActionEnds(w, ok)
    \/ \E matched \in SUBSET DOMAIN Weights, event \in Events : processEvent(matched, event)
    \/ \E i \in DOMAIN threats : clearThreat(i)

Spec == Init /\ [][Next]_vars

-----------------------------------------------------------------------------
TypeOK ==
    /\ status \in {"unknown", "healthy", "degraded", "unhealthy"}
    /\ failures \in [DOMAIN Checks -> 0..MaxFailures]
    /\ \A w \in Workers : workers[w].kind = "none" => workers[w] = NoWorker
    /\ Range(threats) \subseteq {"low", "medium", "high", "critical"}
    /\ enabled \in BOOLEAN

\* However rounds and calls overlap, and whatever actions throw, a healing rule
\* or a remediation is run by one call at a time, and is marked active exactly
\* as long as it runs: it is never skipped for ever because a run of it failed.
OneAtATime ==
    \A kind \in {"heal", "remedy"} :
      LET running == {w \in Workers : workers[w].kind = kind /\ workers[w].rule # "none"}
      IN /\ active[kind] = {workers[w].rule : w \in running}
         /\ \A v, w \in running : workers[v].rule = workers[w].rule => v = w

=============================================================================
