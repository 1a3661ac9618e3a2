------------------------------ MODULE Scoring ------------------------------
(***************************************************************************)
(* score_device_once (anomaly_worker/worker.py): the worker polls the       *)
(* telemetry of a device, takes the oldest rows that have no verdict, and   *)
(* explains them: with the model when one is ready, else with the sensor    *)
(* rules alone.  The last row of the batch decides the two alarms.  Rows    *)
(* come from other processes; received_at is taken before their commit, so  *)
(* a row may appear behind one that is already there.  A score is           *)
(* represented by the samples of the window it was computed from.           *)
(***************************************************************************)
EXTENDS SensorRules

CONSTANTS
    Value,           \* values of a sample: sets of [Metric -> Int or NoValue]
    Odd,             \* the values that the forest takes for anomalous
    Code,            \* error codes of _load_ready_bundle
    ReplayDelay,     \* age of the device time of a replayed row
    MaxRows,         \* bound: rows
    MaxBatchRows,    \* MAX_BATCH_ROWS
    ContextRows,     \* CONTEXT_ROWS
    MaxFailures,     \* bound: passes that fail, and models lost
    MaxHours         \* bound: times DIAGNOSTIC_INTERVAL passes

\* CONTEXT_ROWS and window_size are both 12.
ASSUME BatchAssumption ==
    MaxBatchRows \in Nat \ {0} /\ ContextRows \in Nat /\ WindowSize <= ContextRows
ASSUME ScoringAssumption ==
    ReplayDelay \in Nat /\ MaxRows \in Nat /\ MaxFailures \in Nat /\ MaxHours \in Nat

\* A row judged without a model has the code and a sentence for its reason.
Reason == {"diagnostic", "FEATURE_WINDOW_NOT_READY", "score"} \cup Code

ASSUME CodeAssumption ==
    /\ "MODEL_NOT_READY" \in Code
    /\ Code \cap {"diagnostic", "FEATURE_WINDOW_NOT_READY", "score"} = {}

\* NULL is no score, no reason and no error.
ASSUME NoValueAssumption ==
    NoValue \notin Reason /\ \A ids \in SUBSET (1..MaxRows) : ids # NoValue

VARIABLES
    rows,            \* rows[n]: the row received at n, id n
    modelError,      \* the code _load_ready_bundle would return, or NoValue
    pass,            \* [pc, ready, code, targets] of the pass under way
    sensorAlarm,     \* an active SENSOR_DIAGNOSTIC alarm
    anomalyAlarm,    \* an active ANOMALY_DETECTED alarm
    entries,         \* entries[c]: rows of error_logs with code c
    recent,          \* the codes with an entry within DIAGNOSTIC_INTERVAL
    hours,           \* hours[c]: times the interval passed after an entry of c
    late,            \* observer: a row appeared behind another
    failures

tableVars == <<rows, late>>
alarmVars == <<sensorAlarm, anomalyAlarm>>
logVars == <<entries, recent, hours>>
scoringVars == <<tableVars, modelError, pass, alarmVars, logVars, failures>>

Received == DOMAIN rows

\* _load_ready_bundle would return a bundle.
modelReady == modelError = NoValue

\* telemetry_sample
Sample(n) == [id |-> n, timestamp |-> rows[n].deviceTime, value |-> rows[n].value]

\* The k largest or smallest of a set of numbers (ORDER BY ... LIMIT k).
Newest(k, S) == {n \in S : Cardinality({i \in S : i > n}) < k}
Oldest(k, S) == {n \in S : Cardinality({i \in S : i < n}) < k}

\* Mutant: rows that wait for their window stay targets.
TargetsAgain(ready) ==
    Oldest(MaxBatchRows,
           {n \in Received : rows[n].score = NoValue /\ (ready \/ rows[n].reason = NoValue)})

\* _targets
Targets(ready) ==
    Oldest(MaxBatchRows,
           {n \in Received : /\ rows[n].score = NoValue
                             /\ IF ready THEN rows[n].reason # "FEATURE_WINDOW_NOT_READY"
                                ELSE rows[n].reason = NoValue})

\* Mutant: one row of context too few.
ContextShort(targets) ==
    {Sample(n) : n \in Newest(ContextRows - 2, {i \in Received : i < Min(targets)})
                      \cup {i \in Received : i \in Min(targets)..Max(targets)}}

\* _context_rows
Context(targets) ==
    {Sample(n) : n \in Newest(ContextRows - 1, {i \in Received : i < Min(targets)})
                      \cup {i \in Received : i \in Min(targets)..Max(targets)}}

\* score_device_once: row n has diagnostics, from the rows of the context that
\* precede it.
Diagnosed(n, context) ==
    \E ids \in {Newest(ContextRows, {s.id : s \in {u \in context : u.id <= n}})} :
        \E history \in {{s \in context : s.id \in ids}} :
            DetectSensorFailures(history) # {}

\* score_rows: the forest's verdict on a window (external) is that of its last
\* sample; a percentile of 99 or more among the references is a verdict too.
Anomalous(n) == rows[n].value \in Odd

\* _reason: the features outside their healthy quantiles, or a sentence; a text
\* that is there for every score.
ReasonOfScore == "score"

-----------------------------------------------------------------------------
NoPass == [pc |-> "idle", ready |-> FALSE, code |-> NoValue, targets |-> {}]

ScoringInit ==
    /\ rows = [n \in {} |-> NoValue]
    /\ modelError = "MODEL_NOT_READY"
    /\ pass = NoPass
    /\ sensorAlarm = FALSE
    /\ anomalyAlarm = FALSE
    /\ entries = [c \in Code |-> 0]
    /\ recent = {}
    /\ hours = [c \in Code |-> 0]
    /\ late = FALSE
    /\ failures = 0

\* External: a writer commits the row it received at n.
Store(n, v, t) ==
    /\ n \in (1..MaxRows) \ Received
    /\ rows' = [i \in Received \cup {n} |->
                    IF i = n THEN [deviceTime |-> t, value |-> v, score |-> NoValue,
                                   reason |-> NoValue]
                    ELSE rows[i]]
    /\ late' = (late \/ \E i \in Received : i > n)
    /\ UNCHANGED <<modelError, pass, alarmVars, logVars, failures>>

\* External: a model is trained.
ModelTrained ==
    /\ ~modelReady
    /\ modelError' = NoValue
    /\ UNCHANGED <<tableVars, pass, alarmVars, logVars, failures>>

\* External: the newest model is stale, damaged or of another release.
ModelLost(c) ==
    /\ c # "MODEL_NOT_READY"
    /\ modelError \notin {"MODEL_NOT_READY", c}
    /\ failures < MaxFailures
    /\ modelError' = c
    /\ failures' = failures + 1
    /\ UNCHANGED <<tableVars, pass, alarmVars, logVars>>

\* score_device_once: the model and the targets are read.
ReadTargets ==
    /\ pass.pc = "idle"
    /\ Targets(modelReady) # {}
    /\ pass' = [pc |-> "scoring", ready |-> modelReady, code |-> modelError,
                targets |-> Targets(modelReady)]
    /\ UNCHANGED <<tableVars, modelError, alarmVars, logVars, failures>>

\* The row of target n after the pass.
Explained(n, context) ==
    IF ~pass.ready
    THEN [rows[n] EXCEPT !.reason = IF Diagnosed(n, context) THEN "diagnostic" ELSE pass.code]
    ELSE IF ~HasFeatures(Sample(n), context)
    THEN [rows[n] EXCEPT !.reason = "FEATURE_WINDOW_NOT_READY"]
    ELSE [rows[n] EXCEPT !.score = {u.id : u \in Window(Sample(n), context)},
                         !.reason = IF Diagnosed(n, context) THEN "diagnostic" ELSE ReasonOfScore]

\* Mutant: the first row of the batch decides the alarms.
DecidingOldest(targets) == Min(targets)

\* targets[-1]
Deciding(targets) == Max(targets)

\* anomaly_active and the second _set_alarm
AnomalyAfter(n, context) ==
    IF ~pass.ready THEN anomalyAlarm
    ELSE HasFeatures(Sample(n), context) /\ Anomalous(n)

\* Mutant: an entry of any code is recent enough.
LogDiagnosticAnyCode ==
    IF pass.ready \/ recent # {} THEN UNCHANGED <<entries, recent>>
    ELSE /\ entries' = [entries EXCEPT ![pass.code] = @ + 1]
         /\ recent' = recent \cup {pass.code}

\* _log_diagnostic: an entry, unless there is one of that code within
\* DIAGNOSTIC_INTERVAL.
LogDiagnostic ==
    IF pass.ready \/ pass.code \in recent THEN UNCHANGED <<entries, recent>>
    ELSE /\ entries' = [entries EXCEPT ![pass.code] = @ + 1]
         /\ recent' = recent \cup {pass.code}

\* score_device_once: the context, the verdicts, the entry in error_logs, the
\* alarms, commit.
Score ==
    /\ pass.pc = "scoring"
    /\ \E context \in {Context(pass.targets)}, last \in {Deciding(pass.targets)} :
          /\ rows' = [n \in Received |->
                          IF n \in pass.targets THEN Explained(n, context) ELSE rows[n]]
          /\ sensorAlarm' = Diagnosed(last, context)
          /\ anomalyAlarm' = AnomalyAfter(last, context)
    /\ LogDiagnostic
    /\ pass' = NoPass
    /\ UNCHANGED <<late, modelError, hours, failures>>

\* _run: an exception is printed and the session is rolled back.
PassFails ==
    /\ pass.pc = "scoring"
    /\ failures < MaxFailures
    /\ pass' = NoPass
    /\ failures' = failures + 1
    /\ UNCHANGED <<tableVars, modelError, alarmVars, logVars>>

\* External: DIAGNOSTIC_INTERVAL passes after the last entry of a code.
IntervalPasses(c) ==
    /\ c \in recent
    /\ MapThenSumSet(LAMBDA d : hours[d], Code) < MaxHours
    /\ hours' = [hours EXCEPT ![c] = @ + 1]
    /\ recent' = recent \ {c}
    /\ UNCHANGED <<tableVars, modelError, pass, alarmVars, entries, failures>>

ScoringNext ==
    \/ \E n \in 1..MaxRows, v \in Value : \E t \in {n, n - ReplayDelay} : Store(n, v, t)
    \/ ModelTrained
    \/ \E c \in Code : ModelLost(c) \/ IntervalPasses(c)
    \/ ReadTargets \/ Score \/ PassFails

\* The worker polls for ever (_run), and a pass ends, by its commit or by an
\* exception.
PassEnds == pass.pc = "scoring" /\ pass' = NoPass

ScoringSpec == ScoringInit /\ [][ScoringNext]_scoringVars
               /\ WF_scoringVars(ReadTargets) /\ WF_pass(PassEnds)

-----------------------------------------------------------------------------
ScoringTypeOK ==
    /\ Received \subseteq 1..MaxRows
    /\ \A n \in Received :
          /\ rows[n].value \in Value
          /\ rows[n].deviceTime \in {n, n - ReplayDelay}
          /\ rows[n].score = NoValue \/ n \in rows[n].score
          /\ rows[n].reason \in Reason \cup {NoValue}
          /\ rows[n].score # NoValue => rows[n].reason \in {"diagnostic", "score"}
    /\ pass.pc \in {"idle", "scoring"}
    /\ pass.targets \subseteq Received
    /\ (pass.pc = "scoring") = (pass.targets # {})
    /\ pass.pc = "scoring" /\ ~pass.ready => pass.code \in Code
    /\ modelError \in Code \cup {NoValue} /\ late \in BOOLEAN
    /\ sensorAlarm \in BOOLEAN /\ anomalyAlarm \in BOOLEAN
    /\ recent \subseteq Code
    /\ hours \in [Code -> Nat] /\ entries \in [Code -> Nat]
    /\ failures \in 0..MaxFailures

\* No row appeared behind another, and the device's clock agrees with the order
\* of arrival.
InOrder == ~late /\ \A i, n \in Received : i < n => rows[i].deviceTime < rows[n].deviceTime

\* While rows come in order, a score is computed from the window the whole
\* history gives: the batch and its ContextRows - 1 earlier rows are enough
\* (_context_rows, generate_features).
ScoredFromHistory ==
    InOrder => \A n \in Received, history \in {{Sample(i) : i \in Received}} :
        rows[n].score # NoValue =>
            rows[n].score = {u.id : u \in Window(Sample(n), history)}

\* The worker has caught up.
Quiet == pass.pc = "idle" /\ Targets(modelReady) = {} /\ Received # {}

\* A model had a part in some verdict.
ModelUsed ==
    \E n \in Received : \/ rows[n].score # NoValue
                        \/ rows[n].reason = "FEATURE_WINDOW_NOT_READY"

\* When the worker has caught up, SENSOR_DIAGNOSTIC is active exactly when the
\* newest row, seen with the rows before it, breaks a rule; batches, a backlog
\* scored again and failed passes make no difference (score_device_once).  A
\* model lost half-way through a backlog leaves the alarm of an old row.
SensorAlarmFollowsNewest ==
    Quiet /\ ~late /\ (modelReady \/ ~ModelUsed) =>
        \A history \in {{Sample(i) : i \in Received}} :
            sensorAlarm <=> Diagnosed(Max(Received), history)

\* When the worker has caught up with a model, ANOMALY_DETECTED is active exactly
\* when the newest row was scored and is anomalous (_set_alarm).
AnomalyAlarmFollowsNewest ==
    Quiet /\ ~late /\ modelReady =>
        (anomalyAlarm <=> /\ rows[Max(Received)].score # NoValue
                          /\ Anomalous(Max(Received)))

\* A worker that polls for ever without a model leaves one entry in error_logs
\* for a code and an interval, and a row judged without one is never without its
\* entry: of the code its reason names, or of some code when the reason is a
\* diagnosis (_log_diagnostic and the commit it shares with the verdicts).
LogIsBounded ==
    /\ \A c \in Code : entries[c] <= hours[c] + 1
    /\ \A n \in Received :
          /\ rows[n].reason \in Code => entries[rows[n].reason] > 0
          /\ rows[n].score = NoValue /\ rows[n].reason = "diagnostic" =>
                \E c \in Code : entries[c] > 0

\* With a model that stays, every row gets its score or is known to have no
\* window, however many rows wait without one (_targets, MAX_BATCH_ROWS).
EveryRowJudged ==
    \A n \in 1..MaxRows :
        (n \in Received /\ modelReady) ~>
            (~modelReady \/ (n \in Received /\ (rows[n].score # NoValue
                                \/ rows[n].reason = "FEATURE_WINDOW_NOT_READY")))

\* Rows, verdicts and the error log agree: every verdict has its reason, and a
\* verdict without a model its entry, of its own code, in a log that does not grow
\* with the polls (score_device_once, _log_diagnostic).
ScoringInv == ScoringTypeOK /\ LogIsBounded

\* Both alarms are those of the newest row when the worker has caught up
\* (_set_alarm, score_device_once).
AlarmsFollowNewest == SensorAlarmFollowsNewest /\ AnomalyAlarmFollowsNewest

-----------------------------------------------------------------------------
(* The parts of the inductive invariant                                     *)

TelemetryRow ==
    [deviceTime : Int, value : Value, score : (SUBSET (1..MaxRows)) \cup {NoValue},
     reason : Reason \cup {NoValue}]

\* Types in full; a recent entry is an entry, and accounts for one more than the
\* hours do.
TableInv ==
    /\ rows \in [Received -> TelemetryRow]
    /\ pass \in [pc : {"idle", "scoring"}, ready : BOOLEAN, code : Code \cup {NoValue},
                 targets : SUBSET (1..MaxRows)]
    /\ \A c \in recent : entries[c] > 0
    /\ \A c \in Code : entries[c] <= IF c \in recent THEN hours[c] + 1 ELSE hours[c]

History == {Sample(i) : i \in Received}

\* The rows that a model judged, and those that have any verdict.
Judged ==
    {n \in Received : \/ rows[n].score # NoValue
                      \/ rows[n].reason = "FEATURE_WINDOW_NOT_READY"}
WithReason == {n \in Received : rows[n].reason # NoValue}

\* A set of rows with every row received before one of them.
Closed(S) == \A n \in S, i \in Received : i < n => i \in S

\* What a pass with or without a model has still to do is what has no such verdict.
Done(ready) == IF ready THEN Judged ELSE WithReason

\* The rows of a pass have no verdict of its kind.  While no row appears behind another,
\* verdicts are given from the oldest row on, and so is the verdict under way.
VerdictInv ==
    /\ pass.targets \cap Done(pass.ready) = {}
    /\ ~late => /\ Closed(Judged) /\ Closed(WithReason)
                /\ Closed(Done(pass.ready) \cup pass.targets)

\* Each alarm is that of the newest row of the last pass: of those a model judged, or
\* of all that have a verdict.
AlarmInv ==
    ~late =>
        /\ WithReason # {} =>
            \/ /\ Judged # {}
               /\ sensorAlarm <=> Diagnosed(Max(Judged), History)
            \/ /\ WithReason # Judged
               /\ sensorAlarm <=> Diagnosed(Max(WithReason), History)
        /\ Judged # {} =>
            (anomalyAlarm <=> rows[Max(Judged)].score # NoValue /\ Anomalous(Max(Judged)))

JudgementInv == ScoringInv /\ TableInv /\ VerdictInv /\ AlarmInv /\ ScoredFromHistory

=============================================================================
