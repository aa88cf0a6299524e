---------------------------- MODULE Optimization ----------------------------
(* Scaling (AutoScaling of core/autonomous/healing.js) and the advisor, tuner*)
(* and resource optimizer of core/autonomous/optimization.js.  Getters,      *)
(* objectives, setters and strategies are awaited while other calls run.     *)
(* A reading is abstracted to how it compares with thresholds and baselines. *)
EXTENDS Integers, FiniteSets, Sequences

CONSTANTS ScaleRules,     \* in order: the readings that trigger it, scaleChange
          minScale, maxScale,
          Readings,       \* what a getter of a metric may return
          Lowest, Highest, Stride, \* of the tunable parameter
          Scalers,        \* calls of checkAndScale() at once (bound of the model)
          Tuners,         \* calls of optimize() at once (bound)
          Metrics,        \* metrics the advisor tracks
          Warmup,         \* data points before a baseline counts
          MaxAdvice,      \* recommendations kept (bound)
          MaxStrategies   \* strategies that run at once (bound)

VARIABLES currentScale,
          cooling,        \* less than the cooldown since lastScaleAction
          latest,         \* the last value of the metric's history
          scalers,        \* calls of checkAndScale() that await the getter
          current,        \* the parameter as the tuner last knew it
          actual,         \* the parameter as the setter last set it
          tuners,         \* what each call of optimize() is doing
          enabled,
          counts,         \* data points of each baseline, up to Warmup
          advice,         \* recommendations in the order they were made
          strategies      \* strategies of the resource that run

scaleVars == <<currentScale, cooling, latest, scalers>>
tuneVars == <<current, actual, tuners, enabled>>
adviceVars == <<counts, advice, strategies>>
vars == <<currentScale, cooling, latest, scalers, current, actual, tuners, enabled,
          counts, advice, strategies>>

NoTuner == [at |-> "none", value |-> 0, score |-> "none"]

Init ==
    /\ currentScale = minScale
    /\ cooling = FALSE
    /\ latest = "none"
    /\ scalers = {}
    /\ current = Lowest /\ actual = Lowest
    /\ tuners = [t \in Tuners |-> NoTuner]
    /\ enabled = TRUE
    /\ counts = [m \in Metrics |-> 0]
    /\ advice = <<>>
    /\ strategies = 0

-----------------------------------------------------------------------------
(* AutoScaling *)

\* checkAndScale(): the cooldown is looked at before the getter is awaited ...
CheckAndScale(s) ==
    /\ s \notin scalers /\ ~cooling
    /\ scalers' = scalers \cup {s}
    /\ UNCHANGED <<currentScale, cooling, latest, tuneVars, adviceVars>>

\* Faulty variant: trusts the cooldown that was looked at before the await.
ScaledFreely(change) == currentScale' = currentScale + change /\ cooling' = TRUE

\* _executeScale()
Scaled(change) ==
    LET newScale == currentScale + change
    IN IF newScale < minScale \/ newScale > maxScale
       THEN UNCHANGED <<currentScale, cooling>>
       ELSE currentScale' = newScale /\ cooling' = TRUE

\* ... and the first rule that matches is applied after it.
ScaleReading(s, value) ==
    /\ s \in scalers
    /\ scalers' = scalers \ {s}
    /\ latest' = value
    /\ LET matching == {i \in DOMAIN ScaleRules : value \in ScaleRules[i].on}
       IN IF matching = {} THEN UNCHANGED <<currentScale, cooling>>
          ELSE \E i \in matching : /\ \A j \in matching : i <= j
                                   /\ Scaled(ScaleRules[i].scaleChange)
    /\ UNCHANGED <<tuneVars, adviceVars>>

CooledDown ==
    /\ cooling /\ cooling' = FALSE
    /\ UNCHANGED <<currentScale, latest, scalers, tuneVars, adviceVars>>

-----------------------------------------------------------------------------
(* AutoTuner, with one parameter that has a getter and a setter *)

Optimize(t) ==
    /\ enabled /\ tuners[t] = NoTuner
    /\ tuners' = [tuners EXCEPT ![t].at = "read"]
    /\ UNCHANGED <<scaleVars, current, actual, enabled, adviceVars>>

GetterEnds(t) ==
    /\ tuners[t].at = "read"
    /\ tuners' = [tuners EXCEPT ![t].at = "score", ![t].value = actual]
    /\ UNCHANGED <<scaleVars, current, actual, enabled, adviceVars>>

_determineAdjustment(score) == CASE score = "low" -> Stride
                                 [] score = "high" -> -Stride
                                 [] OTHER -> 0

Clamped(v) == IF v < Lowest THEN Lowest ELSE IF v > Highest THEN Highest ELSE v

\* _calculateScore(): a value in the optimal range needs no adjustment.
ObjectivesEnd(t, score) ==
    /\ tuners[t].at = "score"
    /\ tuners' = [tuners EXCEPT ![t] =
          IF _determineAdjustment(score) = 0 THEN NoTuner
          ELSE [at |-> "set", score |-> score,
                value |-> Clamped(@.value + _determineAdjustment(score))]]
    /\ UNCHANGED <<scaleVars, current, actual, enabled, adviceVars>>

\* A setter that throws ends the cycle: the parameter is not noted as set.
SetterEnds(t, ok) ==
    /\ tuners[t].at = "set"
    /\ tuners' = [tuners EXCEPT ![t] = NoTuner]
    /\ IF ok THEN actual' = tuners[t].value /\ current' = tuners[t].value
       ELSE UNCHANGED <<actual, current>>
    /\ UNCHANGED <<scaleVars, enabled, adviceVars>>

Enable(on) ==
    /\ enabled' = on
    /\ UNCHANGED <<scaleVars, current, actual, tuners, adviceVars>>

-----------------------------------------------------------------------------
(* OptimizationAdvisor *)

\* _createRecommendation(): not twice within the hour for a type and a metric.
Recommended(list, type, metric) ==
    IF \E i \in DOMAIN list : /\ list[i].type = type /\ list[i].metric = metric
                              /\ list[i].fresh
    THEN list
    ELSE Append(list, [type |-> type, metric |-> metric, fresh |-> TRUE,
                       priority |-> IF type = "pressure" THEN "high" ELSE "medium"])

Noted(signs, list, type, metric) ==
    IF type \in signs THEN Recommended(list, type, metric) ELSE list

\* trackMetric(): signs are what a value says once there are enough values.
TrackMetric(m, signs) ==
    LET count == IF counts[m] = Warmup THEN Warmup ELSE counts[m] + 1
        said == IF count < Warmup THEN {} ELSE signs
        list == Noted(said, Noted(said, advice, "degradation", m), "pressure", m)
    IN /\ Len(list) <= MaxAdvice
       /\ counts' = [counts EXCEPT ![m] = count]
       /\ advice' = list
       /\ UNCHANGED <<scaleVars, tuneVars, strategies>>

HourPasses(i) ==
    /\ \A j \in 1..i : i \in DOMAIN advice /\ (j < i => ~advice[j].fresh)
    /\ advice' = [advice EXCEPT ![i].fresh = FALSE]
    /\ UNCHANGED <<scaleVars, tuneVars, counts, strategies>>

clearOldRecommendations ==
    /\ \E keep \in 0..Len(advice) :
         /\ \A i \in 1..(Len(advice) - keep) : ~advice[i].fresh
         /\ advice' = SubSeq(advice, Len(advice) - keep + 1, Len(advice))
    /\ UNCHANGED <<scaleVars, tuneVars, counts, strategies>>

-----------------------------------------------------------------------------
(* ResourceOptimizer *)

\* updateUsage(): "usage > threshold || 0.8" is never false, so every update
\* starts the strategy, whatever the usage; it is not awaited.
UpdateUsage ==
    /\ strategies < MaxStrategies
    /\ strategies' = strategies + 1
    /\ UNCHANGED <<scaleVars, tuneVars, counts, advice>>

StrategyEnds ==
    /\ strategies > 0
    /\ strategies' = strategies - 1
    /\ UNCHANGED <<scaleVars, tuneVars, counts, advice>>

(* The three share no state, so that a run may explore them one by one. *)
ScaleNext ==
    \/ \E s \in Scalers : CheckAndScale(s) \/ \E v \in Readings : ScaleReading(s, v)
    \/ CooledDown

TuneNext ==
    \/ \E t \in Tuners : \/ Optimize(t) \/ GetterEnds(t)
                         \/ \E score \in {"low", "optimal", "high"} : ObjectivesEnd(t, score)
                         \/ \E ok \in BOOLEAN : SetterEnds(t, ok)
    \/ \E on \in BOOLEAN : Enable(on)

AdviceNext ==
    \/ \E m \in Metrics, signs \in SUBSET {"degradation", "pressure"} : TrackMetric(m, signs)
    \/ \E i \in 1..MaxAdvice : HourPasses(i)
    \/ clearOldRecommendations
    \/ UpdateUsage \/ StrategyEnds

Next == ScaleNext \/ TuneNext \/ AdviceNext

Spec == Init /\ [][Next]_vars

-----------------------------------------------------------------------------
TypeOK ==
    /\ currentScale \in Int /\ current \in Int /\ actual \in Int
    /\ latest \in Readings \cup {"none"}
    /\ scalers \subseteq Scalers
    /\ cooling \in BOOLEAN /\ enabled \in BOOLEAN
    /\ counts \in [Metrics -> 0..Warmup]
    /\ strategies \in 0..MaxStrategies

\* However many checks passed the cooldown together and awaited their metrics,
\* and however tuning cycles read and set the parameter across each other, the
\* scale and the parameter stay within their limits; and a recommendation is
\* made once in an hour.
WithinLimits ==
    /\ currentScale \in minScale..maxScale
    /\ current \in Lowest..Highest /\ actual \in Lowest..Highest
    /\ \A i, j \in DOMAIN advice :
         (/\ advice[i].fresh /\ advice[j].fresh
          /\ advice[i].type = advice[j].type /\ advice[i].metric = advice[j].metric) => i = j

=============================================================================
