---------------------------- MODULE SensorRules ----------------------------
(***************************************************************************)
(* The two functions of the anomaly worker over a set of samples:           *)
(* generate_features (features.py), of which the samples that make up the   *)
(* window of each feature row are kept, and detect_sensor_failures          *)
(* (sensor_rules.py).  A sample is [id, timestamp, value], with NoValue for  *)
(* the value of a measurement that is missing.                              *)
(***************************************************************************)
EXTENDS Integers, FiniteSets, FiniteSetsExt

CONSTANTS
    Metric,          \* the measurements of a sample
    Tracked,         \* those with stuck, noise and rate rules
    NoValue,
    MaximumGap,      \* maximum_gap_s
    WindowSize,      \* window_size
    MinimumWindow,   \* minimum_window
    MinimumHistory,  \* samples needed for the stuck and noise rules (8)
    Low, High,       \* bounds[m]
    StuckTolerance, NoiseLimit, RateLimit

ASSUME MetricAssumption == Tracked \subseteq Metric
ASSUME WindowAssumption ==
    /\ MinimumWindow \in Nat /\ WindowSize \in Nat /\ MaximumGap \in Nat
    /\ 2 <= MinimumWindow /\ MinimumWindow <= WindowSize

\* sorted(..., key=lambda item: (item.timestamp, item.sample_id))
Precedes(s, u) ==
    \/ s.timestamp < u.timestamp
    \/ s.timestamp = u.timestamp /\ s.id < u.id

UpTo(s, samples) == {u \in samples : u = s \/ Precedes(u, s)}

\* measurements_are_finite
Finite(s) == \A m \in Metric : s.value[m] # NoValue

\* No gap over the limit between u and the later s, among the samples.
Contiguous(u, s, samples) ==
    \A x \in UpTo(s, samples) :
        Precedes(u, x) => \E y \in samples : /\ Precedes(y, x)
                                             /\ x.timestamp - y.timestamp <= MaximumGap

\* generate_features: the segment that ends at s, cut at gaps and to its newest
\* WindowSize samples.
Window(s, samples) ==
    LET segment == {u \in UpTo(s, samples) : Contiguous(u, s, samples)}
    IN  {u \in segment :
            Cardinality({x \in segment : Precedes(u, x)}) < WindowSize}

\* generate_features: s has a feature row.
HasFeatures(s, samples) ==
    LET window == Window(s, samples)
    IN  Cardinality(window) >= MinimumWindow /\ \A u \in window : Finite(u)

-----------------------------------------------------------------------------
Values(samples, m) == {s.value[m] : s \in samples}

\* statistics.pstdev(values) > limit, without the square root
Noisy(samples, m) ==
    LET n == Cardinality(samples)
        sum == MapThenSumSet(LAMBDA s : s.value[m], samples)
        squares == MapThenSumSet(LAMBDA s : s.value[m] * s.value[m], samples)
    IN  n * squares - sum * sum > NoiseLimit[m] * NoiseLimit[m] * n * n

\* detect_sensor_failures: (code, metric) of every rule that the newest sample of
\* the history breaks.
DetectSensorFailures(history) ==
    LET current == CHOOSE s \in history : UpTo(s, history) = history
        others == history \ {current}
        previous == CHOOSE s \in others : UpTo(s, others) = others
        v == current.value
        elapsed == Max({current.timestamp - previous.timestamp, 1})
        Rate(m) == IF v[m] > previous.value[m] THEN v[m] - previous.value[m]
                   ELSE previous.value[m] - v[m]
        full == {m \in Tracked : NoValue \notin Values(history, m)}
        stuck == {m \in full : /\ Cardinality(history) >= MinimumHistory
                               /\ Max(Values(history, m)) - Min(Values(history, m))
                                        <= StuckTolerance[m]}
    IN  {<<"SAMPLES_MISSING", "all">> :
            i \in {j \in {1} : /\ others # {}
                               /\ current.timestamp - previous.timestamp > MaximumGap}}
        \cup {<<"SENSOR_MISSING", m>> : m \in {n \in Metric : v[n] = NoValue}}
        \cup {<<"SENSOR_IMPOSSIBLE_RANGE", m>> :
                m \in {n \in Metric : v[n] # NoValue /\ (v[n] < Low[n] \/ v[n] > High[n])}}
        \cup {<<"SENSOR_RELATION_INVALID", "vibration">> :
                i \in {j \in {1} : /\ {"vibration_peak", "vibration_rms"} \subseteq Metric
                                   /\ NoValue \notin {v["vibration_peak"], v["vibration_rms"]}
                                   /\ v["vibration_peak"] < v["vibration_rms"]}}
        \cup {<<"SENSOR_STUCK", m>> : m \in stuck}
        \cup {<<"SENSOR_EXCESSIVE_NOISE", m>> :
                m \in {n \in full \ stuck : /\ Cardinality(history) >= MinimumHistory
                                            /\ Noisy(history, n)}}
        \cup {<<"SENSOR_RATE_INVALID", m>> :
                m \in {n \in Tracked : /\ others # {}
                                       /\ NoValue \notin {v[n], previous.value[n]}
                                       /\ Rate(n) > RateLimit[n] * elapsed}}
=============================================================================
