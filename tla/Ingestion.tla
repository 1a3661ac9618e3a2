----------------------------- MODULE Ingestion -----------------------------
(***************************************************************************)
(* Telemetry and health messages on their way into the database, and the    *)
(* threshold alarms they open and clear: persist_telemetry, persist_health  *)
(* and _apply_metric_alarm (ingestion.py), called by handle_message of the  *)
(* MQTT ingestor (mqtt_ingestor/main.py) and by ingest_telemetry of the API *)
(* (main.py); and the requests of the API that write the same rows:         *)
(* acknowledge_alarm, get_thresholds, update_thresholds.                    *)
(*                                                                          *)
(* One device and one metric: the rows of another device or another alarm   *)
(* code are never read or written with these.  A writer is a session of     *)
(* the database at READ COMMITTED; every query sees what is committed.      *)
(* Sessions do not flush by themselves (database.py: autoflush=False), so   *)
(* a transaction writes when it commits, and before that only where         *)
(* apply_threshold_alarms flushes.  A write waits for the transaction that  *)
(* has written the row of the device, or a row with the same key, and not   *)
(* yet committed.                                                           *)
(***************************************************************************)
EXTENDS Integers, Sequences, FiniteSets

CONSTANTS
    Writer,       \* sessions that run persist_telemetry or persist_health
    Admin,        \* sessions that run update_thresholds
    Reading,      \* telemetry messages of the device
    Health,       \* health messages of the device
    Sequence,     \* Sequence[m]: the sequence number of a reading
    Value,        \* Value[m]: its value of the metric, or Absent
    Site,         \* Site[m]: the site in the topic of a message
    Default,      \* the column defaults of ThresholdConfig
    Request,      \* the bodies of update_thresholds
    Absent        \* no row, no value

Message == Reading \cup Health

Column == {"warning", "critical", "hysteresis"}

\* ThresholdConfigUpdate: the limits of the fields and their validator.
Valid(t) == t.warning < t.critical /\ t.hysteresis \in 1..25

ASSUME MessageAssumption ==
    /\ Reading \cap Health = {}
    /\ Absent \notin Message
    /\ Sequence \in [Reading -> Nat]
    /\ \A m \in Reading : Value[m] \in Nat \cup {Absent}
    /\ Absent \notin Nat
ASSUME SiteAssumption == DOMAIN Site = Message /\ \A m \in Message : Site[m] # Absent
ASSUME ThresholdAssumption ==
    \A t \in Request \cup {Default} : t \in [Column -> Nat] /\ Valid(t)
ASSUME AbsentAssumption == Absent \notin [Column -> Nat]

VARIABLES
    device,       \* the site of the row of devices, or Absent
    config,       \* the row of threshold_configs, or Absent
    stored,       \* the messages with a row in telemetry, health_snapshots
    alarms,       \* the rows of alarms, by id
    tx,           \* tx[w]: the transaction of writer w
    update,       \* update[a]: the transaction of update_thresholds
    confirmed,    \* observer: messages answered "inserted" or "duplicate"
    monitor,      \* observer: the alarm after the stored readings, in order
    overlapped    \* observer: a reading was committed while another
                  \* transaction was between its look at the alarm and commit

vars == <<device, config, stored, alarms, tx, update,
          confirmed, monitor, overlapped>>
observers == <<confirmed, monitor, overlapped>>

Severity == {"warning", "critical"}

NoTx == [pc |-> "idle", message |-> Absent, newDevice |-> FALSE,
         newConfig |-> FALSE, thresholds |-> Default,
         alarm |-> 0, severity |-> "none"]

NoUpdate == [pc |-> "idle", seen |-> Absent, request |-> Default]

Init ==
    /\ device = Absent
    /\ config = Absent
    /\ stored = {}
    /\ alarms = << >>
    /\ tx = [w \in Writer |-> NoTx]
    /\ update = [a \in Admin |-> NoUpdate]
    /\ confirmed = {}
    /\ monitor = "none"
    /\ overlapped = FALSE

-----------------------------------------------------------------------------
(* The database                                                             *)

\* w has flushed its inserts and holds their locks.
Flushed(w) == tx[w].newConfig /\ tx[w].pc \in {"alarm", "commit"}

Blocked(w) == \E u \in Writer \ {w} : Flushed(u)

SequenceOwned(m) == \E r \in stored \cap Reading : Sequence[r] = Sequence[m]

\* A unique or primary key of the rows w inserts is taken: IntegrityError.
Conflict(w) ==
    LET m == tx[w].message IN
    \/ m \in stored
    \/ m \in Reading /\ SequenceOwned(m)
    \/ tx[w].newDevice /\ device # Absent
    \/ tx[w].newConfig /\ config # Absent

Active == {i \in DOMAIN alarms : alarms[i].state = "active"}

Finish(w) == tx' = [tx EXCEPT ![w] = NoTx]

-----------------------------------------------------------------------------
(* persist_telemetry and persist_health                                     *)

\* handle_message or ingest_telemetry with a message, new or repeated: is it
\* stored already?
Receive(w, m) ==
    /\ tx[w].pc = "idle"
    /\ \/ /\ m \in stored
          /\ confirmed' = confirmed \cup {m}
          /\ UNCHANGED tx
       \/ /\ m \notin stored
          /\ tx' = [tx EXCEPT ![w] = [NoTx EXCEPT !.message = m,
                        !.pc = IF m \in Health THEN "device" ELSE "sequence"]]
          /\ UNCHANGED confirmed
    /\ UNCHANGED <<device, config, stored, alarms, update, monitor, overlapped>>

\* SequenceCollisionError: answered 409, or recorded and dropped.
CheckSequence(w) ==
    /\ tx[w].pc = "sequence"
    /\ \/ SequenceOwned(tx[w].message) /\ Finish(w)
       \/ /\ ~ SequenceOwned(tx[w].message)
          /\ tx' = [tx EXCEPT ![w].pc = "device"]
    /\ UNCHANGED <<device, config, stored, alarms, update, observers>>

\* Mutant: a registered device is taken as it is.
CheckDeviceAnySite(w) ==
    /\ tx[w].pc = "device"
    /\ tx' = [tx EXCEPT ![w].newDevice = device = Absent,
                        ![w].pc = IF tx[w].message \in Health
                                  THEN "commit" ELSE "thresholds"]
    /\ UNCHANGED <<device, config, stored, alarms, update, observers>>

\* A message of another site is refused with a ValueError.
CheckDevice(w) ==
    LET m == tx[w].message IN
    /\ tx[w].pc = "device"
    /\ \/ device \notin {Absent, Site[m]} /\ Finish(w)
       \/ /\ device \in {Absent, Site[m]}
          /\ tx' = [tx EXCEPT ![w].newDevice = device = Absent,
                              ![w].pc = IF m \in Health
                                        THEN "commit" ELSE "thresholds"]
    /\ UNCHANGED <<device, config, stored, alarms, update, observers>>

\* apply_threshold_alarms reads the thresholds, or adds the default ones.
CheckThresholds(w) ==
    /\ tx[w].pc = "thresholds"
    /\ \/ /\ config # Absent
          /\ tx' = [tx EXCEPT ![w].thresholds = config, ![w].pc = "alarm"]
       \/ /\ config = Absent
          /\ tx' = [tx EXCEPT ![w].newConfig = TRUE, ![w].pc = "flush"]
    /\ UNCHANGED <<device, config, stored, alarms, update, observers>>

\* Its flush inserts the device, the reading and the thresholds.  This is
\* before the try of persist_telemetry: an IntegrityError is not caught.
Flush(w) ==
    /\ tx[w].pc = "flush"
    /\ ~ Blocked(w)
    /\ \/ Conflict(w) /\ Finish(w)
       \/ ~ Conflict(w) /\ tx' = [tx EXCEPT ![w].pc = "alarm"]
    /\ UNCHANGED <<device, config, stored, alarms, update, observers>>

\* Mutant: the query has no condition on the state of the alarm.
ReadAnyAlarm(w) ==
    /\ tx[w].pc = "alarm"
    /\ \E i \in IF alarms = << >> \/ Value[tx[w].message] = Absent
                THEN {0} ELSE DOMAIN alarms :
           tx' = [tx EXCEPT ![w].pc = "commit", ![w].alarm = i,
                            ![w].severity = IF i = 0 THEN "none"
                                            ELSE alarms[i].severity]
    /\ UNCHANGED <<device, config, stored, alarms, update, observers>>

\* _apply_metric_alarm: no row is read for a reading without a value; one of
\* several active rows is the first in no particular order.
ReadAlarm(w) ==
    /\ tx[w].pc = "alarm"
    /\ \E i \in IF Active = {} \/ Value[tx[w].message] = Absent
                THEN {0} ELSE Active :
           tx' = [tx EXCEPT ![w].pc = "commit", ![w].alarm = i,
                            ![w].severity = IF i = 0 THEN "none"
                                            ELSE alarms[i].severity]
    /\ UNCHANGED <<device, config, stored, alarms, update, observers>>

Desired(v, t) ==
    IF v >= t.critical THEN "critical"
    ELSE IF v >= t.warning THEN "warning" ELSE "none"

\* Below the warning threshold by the hysteresis.
Clears(v, t) == 100 * v < t.warning * (100 - t.hysteresis)

NewAlarm(m, severity) ==
    [severity |-> severity, state |-> "active", acknowledged |-> FALSE,
     reading |-> m]

\* Mutant: the whole row is written, as it was read.
AlarmsAfterWholeRow(w) ==
    LET m == tx[w].message
        v == Value[m]
        i == tx[w].alarm
        d == IF v = Absent THEN "none" ELSE Desired(v, tx[w].thresholds)
    IN  CASE d # "none" /\ i = 0 -> Append(alarms, NewAlarm(m, d))
          [] d # "none" /\ i # 0 ->
                [alarms EXCEPT ![i].severity = d, ![i].state = "active"]
          [] v # Absent /\ d = "none" /\ i # 0 /\ Clears(v, tx[w].thresholds) ->
                [alarms EXCEPT ![i].state = "cleared"]
          [] OTHER -> alarms

\* The alarm rows after the commit of w.  An UPDATE has the columns that
\* differ from the row as it was read: severity may not be among them.
AlarmsAfter(w) ==
    LET m == tx[w].message
        v == Value[m]
        i == tx[w].alarm
        d == IF v = Absent THEN "none" ELSE Desired(v, tx[w].thresholds)
    IN  CASE d # "none" /\ i = 0 -> Append(alarms, NewAlarm(m, d))
          [] d # "none" /\ i # 0 /\ d # tx[w].severity ->
                [alarms EXCEPT ![i].severity = d]
          [] v # Absent /\ d = "none" /\ i # 0 /\ Clears(v, tx[w].thresholds) ->
                [alarms EXCEPT ![i].state = "cleared"]
          [] OTHER -> alarms

\* What the thresholds make of an alarm and one more reading.
MonitorAfter(w) ==
    LET v == Value[tx[w].message]
        t == tx[w].thresholds
    IN  CASE v = Absent -> monitor
          [] v # Absent /\ Desired(v, t) # "none" -> Desired(v, t)
          [] v # Absent /\ Desired(v, t) = "none" /\ Clears(v, t) -> "none"
          [] OTHER -> monitor

\* The commit of persist_telemetry.
CommitReading(w) ==
    /\ tx[w].pc = "commit"
    /\ tx[w].message \in Reading
    /\ ~ Blocked(w)
    /\ Flushed(w) \/ ~ Conflict(w)
    /\ stored' = stored \cup {tx[w].message}
    /\ confirmed' = confirmed \cup {tx[w].message}
    /\ device' = IF tx[w].newDevice THEN Site[tx[w].message] ELSE device
    /\ config' = IF tx[w].newConfig THEN Default ELSE config
    /\ alarms' = AlarmsAfter(w)
    /\ monitor' = MonitorAfter(w)
    /\ overlapped' = \/ overlapped
                     \/ \E u \in Writer \ {w} : /\ tx[u].pc = "commit"
                                                /\ tx[u].message \in Reading
    /\ Finish(w)
    /\ UNCHANGED update

\* Mutant: the alarm is committed before the reading is inserted.
CommitConflictKeepsAlarm(w) ==
    /\ tx[w].pc = "commit"
    /\ tx[w].message \in Reading
    /\ ~ Blocked(w)
    /\ ~ Flushed(w)
    /\ Conflict(w)
    /\ alarms' = AlarmsAfter(w)
    /\ Finish(w)
    /\ UNCHANGED <<device, config, stored, update, observers>>

\* Mutant: every IntegrityError is taken for a duplicate.
CommitConflictIsDuplicate(w) ==
    /\ tx[w].pc = "commit"
    /\ tx[w].message \in Reading
    /\ ~ Blocked(w)
    /\ ~ Flushed(w)
    /\ Conflict(w)
    /\ confirmed' = confirmed \cup {tx[w].message}
    /\ Finish(w)
    /\ UNCHANGED <<device, config, stored, alarms, update, monitor, overlapped>>

\* It raises IntegrityError: the message was stored meanwhile, or a reading
\* with its sequence number, or the device; only the first is a duplicate.
CommitConflict(w) ==
    /\ tx[w].pc = "commit"
    /\ tx[w].message \in Reading
    /\ ~ Blocked(w)
    /\ ~ Flushed(w)
    /\ Conflict(w)
    /\ confirmed' = confirmed \cup (stored \cap {tx[w].message})
    /\ Finish(w)
    /\ UNCHANGED <<device, config, stored, alarms, update, monitor, overlapped>>

\* The commit of persist_health, which catches nothing.
CommitHealth(w) ==
    LET m == tx[w].message IN
    /\ tx[w].pc = "commit"
    /\ m \in Health
    /\ ~ Blocked(w)
    /\ \/ Conflict(w) /\ UNCHANGED <<device, stored, confirmed>>
       \/ /\ ~ Conflict(w)
          /\ stored' = stored \cup {m}
          /\ confirmed' = confirmed \cup {m}
          /\ device' = IF tx[w].newDevice THEN Site[m] ELSE device
    /\ Finish(w)
    /\ UNCHANGED <<config, alarms, update, monitor, overlapped>>

\* The process ends or loses the database: the transaction is rolled back.
Rollback(w) ==
    /\ tx[w].pc # "idle"
    /\ Finish(w)
    /\ UNCHANGED <<device, config, stored, alarms, update, observers>>

Persist(w) ==
    \/ \E m \in Message : Receive(w, m)
    \/ CheckSequence(w) \/ CheckDevice(w) \/ CheckThresholds(w) \/ Flush(w)
    \/ ReadAlarm(w) \/ CommitReading(w) \/ CommitConflict(w) \/ CommitHealth(w)
    \/ Rollback(w)

-----------------------------------------------------------------------------
(* The API                                                                  *)

\* acknowledge_alarm: an acknowledged alarm is returned as it is.
AcknowledgeAlarm(i) ==
    /\ ~ alarms[i].acknowledged
    /\ alarms' = [alarms EXCEPT ![i].acknowledged = TRUE]
    /\ UNCHANGED <<device, config, stored, tx, update, observers>>

\* get_thresholds stores the default thresholds on the first look at them.
GetThresholds ==
    /\ device # Absent
    /\ config = Absent
    /\ \A w \in Writer : ~ Flushed(w)
    /\ config' = Default
    /\ UNCHANGED <<device, stored, alarms, tx, update, observers>>

\* update_thresholds reads the row...
ReadThresholds(a, r) ==
    /\ update[a].pc = "idle"
    /\ device # Absent
    /\ update' = [update EXCEPT ![a] =
                     [pc |-> "commit", seen |-> config, request |-> r]]
    /\ UNCHANGED <<device, config, stored, alarms, tx, observers>>

\* ... and writes the columns that differ from the row it has read, or a new
\* row, which fails when there is one by now.
UpdateThresholds(a) ==
    LET seen == update[a].seen
        request == update[a].request
    IN
    /\ update[a].pc = "commit"
    /\ \/ seen = Absent /\ config # Absent /\ UNCHANGED config
       \/ /\ seen = Absent /\ config = Absent
          /\ \A w \in Writer : ~ Flushed(w)
          /\ config' = request
       \/ /\ seen # Absent
          /\ config' = [c \in Column |-> IF request[c] # seen[c]
                                         THEN request[c] ELSE config[c]]
    /\ update' = [update EXCEPT ![a] = NoUpdate]
    /\ UNCHANGED <<device, stored, alarms, tx, observers>>

Next ==
    \/ \E w \in Writer : Persist(w)
    \/ \E i \in DOMAIN alarms : AcknowledgeAlarm(i)
    \/ GetThresholds
    \/ \E a \in Admin : UpdateThresholds(a) \/ \E r \in Request : ReadThresholds(a, r)

Spec == Init /\ [][Next]_vars

-----------------------------------------------------------------------------
(* Properties                                                               *)

Transaction ==
    [pc : {"idle", "sequence", "device", "thresholds", "flush", "alarm",
           "commit"},
     message : Message \cup {Absent}, newDevice : BOOLEAN, newConfig : BOOLEAN,
     thresholds : [Column -> Nat], alarm : Nat, severity : Severity \cup {"none"}]

Update ==
    [pc : {"idle", "commit"}, seen : {Absent} \cup [Column -> Nat],
     request : [Column -> Nat]]

AlarmRow ==
    [severity : Severity, state : {"active", "cleared"},
     acknowledged : BOOLEAN, reading : Reading]

\* The types of the rows and of the transactions; a writer that is not idle
\* has a message, and the row it means to update exists.
TypeOK ==
    /\ device \in {Absent} \cup {Site[m] : m \in Message}
    /\ config \in {Absent} \cup [Column -> Nat]
    /\ stored \in SUBSET Message
    /\ confirmed \in SUBSET Message
    /\ alarms \in Seq(AlarmRow)
    /\ tx \in [Writer -> Transaction]
    /\ update \in [Admin -> Update]
    /\ \A w \in Writer :
           /\ tx[w].pc # "idle" => tx[w].message \in Message
           /\ tx[w].alarm \in 0..Len(alarms)
    /\ monitor \in Severity \cup {"none"}
    /\ overlapped \in BOOLEAN

\* persist_telemetry, persist_health: "inserted" and "duplicate" are only
\* answered for a message that is stored, whatever made the commit fail: a
\* second copy of it, a reading with the same sequence number, the first
\* message of the same device.
AnsweredIsStored == confirmed \subseteq stored

\* The device check of persist_telemetry and persist_health: all stored
\* messages come from the site the device is registered for, also when two
\* first messages of different sites race.
StoredFromOneSite == \A m \in stored : device = Site[m]

\* persist_telemetry, one transaction for reading and alarm: every alarm was
\* opened by a stored reading, and no reading opened two, however often it
\* is delivered and whichever commits fail.
AlarmsHaveReadings ==
    /\ \A i \in DOMAIN alarms : alarms[i].reading \in stored
    /\ \A i, j \in DOMAIN alarms :
           alarms[i].reading = alarms[j].reading => i = j

\* _apply_metric_alarm: as long as the transactions that look at the alarm
\* did not overlap, there is one active alarm at most, and it is what the
\* stored readings, each counted once and in the order of their commits,
\* make of it with the hysteresis and the thresholds they were judged by.
AlarmFollowsReadings ==
    ~ overlapped =>
        /\ monitor = "none" => Active = {}
        /\ monitor # "none" => \E i \in Active : /\ Active = {i}
                                                 /\ alarms[i].severity = monitor

RowsAdvance ==
    \A i \in DOMAIN alarms :
        /\ i \in DOMAIN alarms'
        /\ alarms[i].state = "cleared" => alarms'[i].state = "cleared"
        /\ alarms[i].acknowledged => alarms'[i].acknowledged
        /\ alarms'[i].reading = alarms[i].reading

\* The rows of alarms under acknowledge_alarm and any number of writers: a
\* cleared alarm is not active again, an acknowledgement is not lost, and
\* no row disappears.
AlarmRowsOnlyAdvance == [][RowsAdvance]_vars

\* ThresholdConfigUpdate (schemas.py:294): "each warning threshold must be
\* below its critical threshold".  Two administrators who each change one
\* column store a pair that neither of them sent.
ThresholdsStayValid == config # Absent => Valid(config)
-----------------------------------------------------------------------------
(* Inductive strengthening                                                  *)

\* Only a reading looks at thresholds and alarms, and only a transaction
\* that found no thresholds flushes.
ControlInv ==
    \A w \in Writer :
        /\ tx[w].pc \in {"sequence", "thresholds", "flush", "alarm"} =>
               tx[w].message \in Reading
        /\ tx[w].newConfig =>
               /\ tx[w].pc \in {"flush", "alarm", "commit"}
               /\ tx[w].message \in Reading

\* A transaction that has flushed is the only one, and what it inserted does
\* not come into conflict before it commits.
LockInv ==
    \A w \in Writer : Flushed(w) => ~ Conflict(w) /\ ~ Blocked(w)

\* A transaction that found the device found its own site.
DeviceInv ==
    \A w \in Writer :
        tx[w].pc \in {"thresholds", "flush", "alarm", "commit"} =>
            tx[w].newDevice \/ device = Site[tx[w].message]

\* Without an overlap, a transaction about to commit knows the active alarm.
ViewInv ==
    ~ overlapped =>
        \A w \in Writer :
            tx[w].pc = "commit" /\ tx[w].message \in Reading
            /\ Value[tx[w].message] # Absent =>
                IF tx[w].alarm = 0 THEN Active = {}
                ELSE /\ Active = {tx[w].alarm}
                     /\ alarms[tx[w].alarm].severity = tx[w].severity

\* Thresholds that were read are still there.
UpdateInv == \A a \in Admin : update[a].seen # Absent => config # Absent

IngestionInv ==
    /\ TypeOK /\ ControlInv /\ UpdateInv /\ LockInv /\ DeviceInv /\ ViewInv
    /\ AnsweredIsStored /\ StoredFromOneSite /\ AlarmsHaveReadings
    /\ AlarmFollowsReadings
=============================================================================
