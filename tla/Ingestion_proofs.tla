-------------------------- MODULE Ingestion_proofs --------------------------
(***************************************************************************)
(* The invariants of Ingestion, for any sets of writers, administrators and *)
(* messages and any thresholds.                                             *)
(***************************************************************************)
EXTENDS Ingestion, SequenceTheorems, TLAPS

\* Desired is a severity or "none".
LEMMA DesiredType ==
    ASSUME NEW v, NEW t
    PROVE  Desired(v, t) \in Severity \cup {"none"}
BY DEF Desired, Severity

\* The idle transaction has its type.
LEMMA NoTxType == NoTx \in Transaction
BY ThresholdAssumption DEF NoTx, Transaction

\* A step of persist_telemetry or persist_health that writes no row: what
\* the new transaction t must satisfy for the invariant to go on.
LEMMA LocalStep ==
    ASSUME IngestionInv, NEW w \in Writer, NEW t \in Transaction,
           tx' = [tx EXCEPT ![w] = t],
           UNCHANGED <<device, config, stored, alarms, update, monitor,
                       overlapped>>,
           confirmed' \in SUBSET Message, confirmed' \subseteq stored,
           t.pc # "idle" => t.message \in Message,
           t.alarm \in 0..Len(alarms),
           t.pc \in {"sequence", "thresholds", "flush", "alarm"} =>
               t.message \in Reading,
           t.newConfig => /\ t.pc \in {"flush", "alarm", "commit"}
                          /\ t.message \in Reading,
           t.newConfig /\ t.pc \in {"alarm", "commit"} =>
               /\ ~ Blocked(w)
               /\ t.message \notin stored
               /\ ~ SequenceOwned(t.message)
               /\ t.newDevice => device = Absent
               /\ config = Absent,
           t.pc \in {"thresholds", "flush", "alarm", "commit"} =>
               t.newDevice \/ device = Site[t.message],
           ~ overlapped /\ t.pc = "commit" /\ t.message \in Reading
           /\ Value[t.message] # Absent =>
               IF t.alarm = 0 THEN Active = {}
               ELSE /\ Active = {t.alarm}
                    /\ alarms[t.alarm].severity = t.severity
    PROVE  IngestionInv'
<1>1. tx \in [Writer -> Transaction] /\ tx'[w] = t
      /\ \A u \in Writer \ {w} : tx'[u] = tx[u]
  BY DEF IngestionInv, TypeOK
<1>2. tx' \in [Writer -> Transaction]
  BY <1>1
<1>3. TypeOK'
  BY <1>1, <1>2 DEF IngestionInv, TypeOK
<1>4. ControlInv'
  BY <1>1 DEF IngestionInv, ControlInv
<1>5. \A u \in Writer \ {w} : Flushed(u)' = Flushed(u) /\ Conflict(u)' = Conflict(u)
  BY <1>1 DEF Flushed, Conflict, SequenceOwned
<1>6. Flushed(w)' => ~ Conflict(w)' /\ ~ Blocked(w)' /\ ~ Blocked(w)
  BY <1>1, <1>5 DEF Flushed, Conflict, SequenceOwned, Blocked
<1>7. LockInv'
  BY <1>5, <1>6 DEF IngestionInv, LockInv, Blocked
<1>8. DeviceInv'
  BY <1>1 DEF IngestionInv, DeviceInv
<1>9. Active' = Active
  BY DEF Active
<1>10. ViewInv'
  BY <1>1, <1>9 DEF IngestionInv, ViewInv
<1>11. AnsweredIsStored' /\ StoredFromOneSite' /\ AlarmsHaveReadings'
  BY DEF IngestionInv, AnsweredIsStored, StoredFromOneSite, AlarmsHaveReadings
<1>12. AlarmFollowsReadings'
  BY <1>9 DEF IngestionInv, AlarmFollowsReadings
<1>13. UpdateInv'
  BY DEF IngestionInv, UpdateInv
<1> QED BY <1>3, <1>4, <1>7, <1>8, <1>10, <1>11, <1>12, <1>13 DEF IngestionInv

\* The end of a transaction that wrote no row.
LEMMA FinishStep ==
    ASSUME IngestionInv, NEW w \in Writer, Finish(w),
           UNCHANGED <<device, config, stored, alarms, update, monitor,
                       overlapped>>,
           confirmed' \in SUBSET Message, confirmed' \subseteq stored
    PROVE  IngestionInv'
<1>1. /\ NoTx.pc = "idle" /\ ~ NoTx.newConfig /\ NoTx.alarm = 0
      /\ NoTx.alarm \in 0..Len(alarms)
  BY DEF NoTx, IngestionInv, TypeOK
<1> QED BY <1>1, NoTxType, LocalStep DEF Finish

\* The steps of a transaction up to its commit, and the ends without one.
LEMMA QueryStep ==
    ASSUME IngestionInv, NEW w \in Writer,
           \/ \E m \in Message : Receive(w, m)
           \/ CheckSequence(w) \/ CheckDevice(w) \/ CheckThresholds(w)
           \/ Flush(w) \/ ReadAlarm(w) \/ CommitConflict(w) \/ Rollback(w)
    PROVE  IngestionInv'
<1> USE DEF observers
<1>0. /\ tx \in [Writer -> Transaction]
      /\ tx[w] \in Transaction
      /\ confirmed \in SUBSET Message
      /\ confirmed \subseteq stored
      /\ tx[w].alarm \in 0..Len(alarms)
      /\ tx[w].pc # "idle" => tx[w].message \in Message
  BY DEF IngestionInv, TypeOK, AnsweredIsStored
<1>1. ASSUME NEW m \in Message, Receive(w, m) PROVE IngestionInv'
  <2>1. CASE m \in stored
    <3>1. tx' = [tx EXCEPT ![w] = tx[w]]
      BY <1>0, <1>1, <2>1 DEF Receive
    <3>2. confirmed' \in SUBSET Message /\ confirmed' \subseteq stored
      BY <1>0, <1>1, <2>1 DEF Receive
    <3> QED BY <1>0, <1>1, <3>1, <3>2, LocalStep
            DEF Receive, IngestionInv, ControlInv, LockInv, DeviceInv, ViewInv,
                Flushed, Conflict
  <2>2. CASE m \notin stored
    <3> DEFINE next == IF m \in Health THEN "device" ELSE "sequence"
               t == [NoTx EXCEPT !.message = m, !.pc = next]
    <3>1. tx' = [tx EXCEPT ![w] = t]
      BY <1>1, <2>2 DEF Receive
    <3>2. next \in {"device", "sequence"} /\ (next = "sequence" => m \in Reading)
      BY DEF Message
    <3> HIDE DEF next
    <3>3. t \in Transaction
      BY <3>2, NoTxType DEF Transaction
    <3>4. t.message = m /\ t.newConfig = FALSE /\ t.pc = next /\ t.alarm = 0
      BY DEF NoTx
    <3>5. 0 \in 0..Len(alarms)
      BY DEF IngestionInv, TypeOK
    <3> HIDE DEF t
    <3> QED BY <1>0, <1>1, <2>2, <3>1, <3>2, <3>3, <3>4, <3>5, LocalStep DEF Receive
  <2> QED BY <2>1, <2>2
<1>2. CASE CheckSequence(w)
  <2>1. CASE Finish(w)
    BY <1>0, <1>2, <2>1, FinishStep DEF CheckSequence
  <2>2. CASE ~ Finish(w)
    <3> DEFINE t == [tx[w] EXCEPT !.pc = "device"]
    <3>1. tx' = [tx EXCEPT ![w] = t] /\ tx[w].pc = "sequence"
      BY <1>2, <2>2 DEF CheckSequence
    <3>2. t \in Transaction /\ t.pc = "device" /\ t.message = tx[w].message
          /\ t.newConfig = tx[w].newConfig /\ t.alarm = tx[w].alarm
      BY <1>0 DEF Transaction
    <3>3. ~ tx[w].newConfig
      BY <3>1 DEF IngestionInv, ControlInv
    <3> HIDE DEF t
    <3> QED BY <1>0, <1>2, <3>1, <3>2, <3>3, LocalStep DEF CheckSequence
  <2> QED BY <2>1, <2>2
<1>3. CASE CheckDevice(w)
  <2>1. CASE Finish(w)
    BY <1>0, <1>3, <2>1, FinishStep DEF CheckDevice
  <2>2. CASE ~ Finish(w)
    <3> DEFINE next == IF tx[w].message \in Health THEN "commit" ELSE "thresholds"
               new == device = Absent
               t == [tx[w] EXCEPT !.newDevice = new, !.pc = next]
    <3>1. tx' = [tx EXCEPT ![w] = t] /\ tx[w].pc = "device"
          /\ device \in {Absent, Site[tx[w].message]}
      BY <1>3, <2>2 DEF CheckDevice
    <3>2. ~ tx[w].newConfig
      BY <3>1 DEF IngestionInv, ControlInv
    <3>3. /\ next \in {"commit", "thresholds"} /\ new \in BOOLEAN
          /\ next = "thresholds" => tx[w].message \in Reading
          /\ next = "commit" => tx[w].message \notin Reading
          /\ new \/ device = Site[tx[w].message]
      BY <1>0, <3>1, MessageAssumption DEF Message
    <3> HIDE DEF next, new
    <3>4. t \in Transaction /\ t.message = tx[w].message /\ t.pc = next
          /\ t.newDevice = new
          /\ t.newConfig = tx[w].newConfig /\ t.alarm = tx[w].alarm
      BY <1>0, <3>3 DEF Transaction
    <3> HIDE DEF t
    <3> QED BY <1>0, <1>3, <3>1, <3>2, <3>3, <3>4, LocalStep DEF CheckDevice
  <2> QED BY <2>1, <2>2
<1>4. CASE CheckThresholds(w)
  <2>0. /\ tx[w].pc = "thresholds" /\ ~ tx[w].newConfig
        /\ tx[w].message \in Reading
        /\ tx[w].newDevice \/ device = Site[tx[w].message]
    BY <1>4 DEF CheckThresholds, IngestionInv, ControlInv, DeviceInv
  <2>1. CASE config # Absent
    <3> DEFINE t == [tx[w] EXCEPT !.thresholds = config, !.pc = "alarm"]
    <3>1. tx' = [tx EXCEPT ![w] = t] /\ config \in [Column -> Nat]
      BY <1>4, <2>1 DEF CheckThresholds, IngestionInv, TypeOK
    <3>2. t \in Transaction /\ t.message = tx[w].message /\ t.pc = "alarm"
          /\ t.newDevice = tx[w].newDevice
          /\ t.newConfig = tx[w].newConfig /\ t.alarm = tx[w].alarm
      BY <1>0, <3>1 DEF Transaction
    <3> HIDE DEF t
    <3> QED BY <1>0, <1>4, <2>0, <3>1, <3>2, LocalStep DEF CheckThresholds
  <2>2. CASE config = Absent
    <3> DEFINE t == [tx[w] EXCEPT !.newConfig = TRUE, !.pc = "flush"]
    <3>1. tx' = [tx EXCEPT ![w] = t]
      BY <1>4, <2>2 DEF CheckThresholds
    <3>2. t \in Transaction /\ t.message = tx[w].message /\ t.pc = "flush"
          /\ t.newDevice = tx[w].newDevice
          /\ t.newConfig = TRUE /\ t.alarm = tx[w].alarm
      BY <1>0 DEF Transaction
    <3> HIDE DEF t
    <3> QED BY <1>0, <1>4, <2>0, <3>1, <3>2, LocalStep DEF CheckThresholds
  <2> QED BY <2>1, <2>2
<1>5. CASE Flush(w)
  <2>0. /\ tx[w].pc = "flush" /\ ~ Blocked(w)
        /\ tx[w].message \in Reading
        /\ tx[w].newDevice \/ device = Site[tx[w].message]
    BY <1>5 DEF Flush, IngestionInv, ControlInv, DeviceInv
  <2>1. CASE Conflict(w)
    BY <1>0, <1>5, <2>1, FinishStep DEF Flush
  <2>2. CASE ~ Conflict(w)
    <3> DEFINE t == [tx[w] EXCEPT !.pc = "alarm"]
    <3>1. tx' = [tx EXCEPT ![w] = t]
      BY <1>5, <2>2 DEF Flush
    <3>2. t \in Transaction /\ t.message = tx[w].message /\ t.pc = "alarm"
          /\ t.newDevice = tx[w].newDevice
          /\ t.newConfig = tx[w].newConfig /\ t.alarm = tx[w].alarm
      BY <1>0 DEF Transaction
    <3> HIDE DEF t
    <3> QED BY <1>0, <1>5, <2>0, <2>2, <3>1, <3>2, LocalStep DEF Flush, Conflict
  <2> QED BY <2>1, <2>2
<1>6. CASE ReadAlarm(w)
  <2>0. /\ tx[w].pc = "alarm"
        /\ tx[w].message \in Reading
        /\ tx[w].newDevice \/ device = Site[tx[w].message]
        /\ tx[w].newConfig => ~ Conflict(w) /\ ~ Blocked(w)
    BY <1>6 DEF ReadAlarm, IngestionInv, ControlInv, DeviceInv, LockInv, Flushed
  <2>1. PICK i \in IF Active = {} \/ Value[tx[w].message] = Absent
                   THEN {0} ELSE Active :
          tx' = [tx EXCEPT ![w].pc = "commit", ![w].alarm = i,
                           ![w].severity = IF i = 0 THEN "none"
                                           ELSE alarms[i].severity]
    BY <1>6 DEF ReadAlarm
  <2> DEFINE severity == IF i = 0 THEN "none" ELSE alarms[i].severity
             t == [tx[w] EXCEPT !.pc = "commit", !.alarm = i, !.severity = severity]
  <2>2. alarms \in Seq(AlarmRow) /\ Active \subseteq 1..Len(alarms)
    BY DEF IngestionInv, TypeOK, Active
  <2>3. /\ i \in 0..Len(alarms)
        /\ i # 0 => alarms[i] \in AlarmRow
    BY <2>2
  <2>4. severity \in Severity \cup {"none"} /\ i \in Nat
    BY <2>2, <2>3 DEF AlarmRow
  <2>5. tx' = [tx EXCEPT ![w] = t]
    BY <1>0, <2>1
  <2>6. t \in Transaction /\ t.message = tx[w].message /\ t.pc = "commit"
        /\ t.newDevice = tx[w].newDevice
        /\ t.newConfig = tx[w].newConfig /\ t.alarm = i /\ t.severity = severity
    BY <1>0, <2>4 DEF Transaction
  <2>7. ~ overlapped /\ Value[tx[w].message] # Absent =>
            IF i = 0 THEN Active = {}
            ELSE Active = {i} /\ alarms[i].severity = severity
    BY <2>2 DEF IngestionInv, AlarmFollowsReadings
  <2> HIDE DEF t, severity
  <2> QED BY <1>0, <1>6, <2>0, <2>3, <2>5, <2>6, <2>7, LocalStep
          DEF ReadAlarm, Conflict
<1>7. CASE CommitConflict(w)
  BY <1>0, <1>7, FinishStep DEF CommitConflict
<1>8. CASE Rollback(w)
  BY <1>0, <1>8, FinishStep DEF Rollback
<1> QED BY <1>1, <1>2, <1>3, <1>4, <1>5, <1>6, <1>7, <1>8

\* What a commit makes of the rows of alarms: one row more, or one row
\* changed, in its severity or from active to cleared.
LEMMA AlarmsAfterFacts ==
    ASSUME IngestionInv, NEW w \in Writer,
           tx[w].pc = "commit", tx[w].message \in Reading
    PROVE  /\ AlarmsAfter(w) \in Seq(AlarmRow)
           /\ Len(AlarmsAfter(w)) \in {Len(alarms), Len(alarms) + 1}
           /\ \A j \in 1..Len(alarms) :
                  /\ AlarmsAfter(w)[j].reading = alarms[j].reading
                  /\ AlarmsAfter(w)[j].acknowledged = alarms[j].acknowledged
                  /\ alarms[j].state = "cleared" =>
                         AlarmsAfter(w)[j].state = "cleared"
           /\ Len(AlarmsAfter(w)) = Len(alarms) + 1 =>
                  AlarmsAfter(w)[Len(alarms) + 1].reading = tx[w].message
<1> DEFINE m == tx[w].message
           v == Value[m]
           i == tx[w].alarm
           t == tx[w].thresholds
           d == IF v = Absent THEN "none" ELSE Desired(v, t)
<1>1. alarms \in Seq(AlarmRow) /\ i \in 0..Len(alarms) /\ Len(alarms) \in Nat
  BY DEF IngestionInv, TypeOK
<1>2. d \in Severity \cup {"none"}
  BY DesiredType
<1>3. AlarmsAfter(w) =
        CASE d # "none" /\ i = 0 -> Append(alarms, NewAlarm(m, d))
          [] d # "none" /\ i # 0 /\ d # tx[w].severity ->
                [alarms EXCEPT ![i].severity = d]
          [] v # Absent /\ d = "none" /\ i # 0 /\ Clears(v, t) ->
                [alarms EXCEPT ![i].state = "cleared"]
          [] OTHER -> alarms
  BY DEF AlarmsAfter
<1> HIDE DEF d, v, t, i
<1>4. CASE d # "none" /\ i = 0
  <2>1. NewAlarm(m, d) \in AlarmRow /\ NewAlarm(m, d).reading = m
    BY <1>2, <1>4 DEF NewAlarm, AlarmRow
  <2>2. AlarmsAfter(w) = Append(alarms, NewAlarm(m, d))
    BY <1>3, <1>4
  <2> QED BY <1>1, <2>1, <2>2, AppendProperties
<1>5. CASE d # "none" /\ i # 0 /\ d # tx[w].severity
  <2> DEFINE row == [alarms[i] EXCEPT !.severity = d]
  <2>1. AlarmsAfter(w) = [alarms EXCEPT ![i] = row]
    BY <1>3, <1>5
  <2>2. alarms[i] \in AlarmRow
    BY <1>1, <1>5
  <2>3. row \in AlarmRow /\ row.reading = alarms[i].reading
        /\ row.acknowledged = alarms[i].acknowledged /\ row.state = alarms[i].state
    BY <1>2, <1>5, <2>2 DEF AlarmRow
  <2> HIDE DEF row
  <2> QED BY <1>1, <1>5, <2>1, <2>3, ExceptSeq
<1>6. CASE v # Absent /\ d = "none" /\ i # 0 /\ Clears(v, t)
  <2> DEFINE row == [alarms[i] EXCEPT !.state = "cleared"]
  <2>1. AlarmsAfter(w) = [alarms EXCEPT ![i] = row]
    BY <1>3, <1>6
  <2>2. alarms[i] \in AlarmRow
    BY <1>1, <1>6
  <2>3. row \in AlarmRow /\ row.reading = alarms[i].reading
        /\ row.acknowledged = alarms[i].acknowledged /\ row.state = "cleared"
    BY <2>2 DEF AlarmRow
  <2> HIDE DEF row
  <2> QED BY <1>1, <1>6, <2>1, <2>3, ExceptSeq
<1>7. CASE AlarmsAfter(w) = alarms
  BY <1>1, <1>7
<1> QED BY <1>3, <1>4, <1>5, <1>6, <1>7

\* A commit with a fresh view of the active alarm does what the monitor does.
LEMMA FreshCommit ==
    ASSUME IngestionInv, NEW w \in Writer, CommitReading(w), ~ overlapped
    PROVE  AlarmFollowsReadings'
<1> DEFINE m == tx[w].message
           v == Value[m]
           i == tx[w].alarm
           t == tx[w].thresholds
           d == Desired(v, t)
<1>1. alarms \in Seq(AlarmRow) /\ i \in 0..Len(alarms) /\ Len(alarms) \in Nat
  BY DEF IngestionInv, TypeOK
<1>2. d \in Severity \cup {"none"} /\ "none" \notin Severity
  BY DesiredType DEF Severity
<1>3. /\ tx[w].pc = "commit" /\ m \in Reading
      /\ alarms' = AlarmsAfter(w) /\ monitor' = MonitorAfter(w)
  BY DEF CommitReading
<1>4. v # Absent => IF i = 0 THEN Active = {}
                    ELSE Active = {i} /\ alarms[i].severity = tx[w].severity
  BY <1>3 DEF IngestionInv, ViewInv
<1>5. AlarmFollowsReadings
  BY DEF IngestionInv
<1>6. CASE v = Absent
  <2>1. alarms' = alarms /\ monitor' = monitor
    BY <1>3, <1>6 DEF AlarmsAfter, MonitorAfter
  <2> QED BY <1>5, <2>1 DEF AlarmFollowsReadings, Active
<1>7. CASE v # Absent /\ d # "none"
  <2>1. monitor' = d
    BY <1>3, <1>7 DEF MonitorAfter
  <2>2. CASE i = 0
    <3>1. alarms' = Append(alarms, NewAlarm(m, d)) /\ Active = {}
      BY <1>3, <1>4, <1>7, <2>2 DEF AlarmsAfter
    <3>2. NewAlarm(m, d) \in AlarmRow /\ NewAlarm(m, d).state = "active"
          /\ NewAlarm(m, d).severity = d
      BY <1>2, <1>3, <1>7 DEF NewAlarm, AlarmRow
    <3>3. /\ Len(alarms') = Len(alarms) + 1 /\ DOMAIN alarms' = 1..Len(alarms) + 1
          /\ \A j \in 1..Len(alarms) : alarms'[j] = alarms[j]
          /\ alarms'[Len(alarms) + 1] = NewAlarm(m, d)
      BY <1>1, <3>1, <3>2, AppendProperties
    <3>4. Active' = {Len(alarms) + 1}
      BY <1>1, <3>1, <3>2, <3>3 DEF Active
    <3> QED BY <1>2, <1>7, <2>1, <3>2, <3>3, <3>4 DEF AlarmFollowsReadings
  <2>3. CASE i # 0
    <3>1. Active = {i} /\ alarms[i].severity = tx[w].severity /\ i \in 1..Len(alarms)
      BY <1>1, <1>4, <1>7, <2>3
    <3>2. alarms' = [alarms EXCEPT ![i] = [alarms[i] EXCEPT !.severity = d]]
          \/ (alarms' = alarms /\ alarms[i].severity = d)
      BY <1>3, <1>7, <2>3, <3>1 DEF AlarmsAfter
    <3>3. alarms[i] \in AlarmRow /\ alarms[i].state = "active"
      BY <1>1, <3>1 DEF Active
    <3>4. Active' = {i} /\ alarms'[i].severity = d
      BY <1>1, <3>1, <3>2, <3>3 DEF Active, AlarmRow
    <3> QED BY <1>2, <1>7, <2>1, <3>4 DEF AlarmFollowsReadings
  <2> QED BY <2>2, <2>3
<1>8. CASE v # Absent /\ d = "none" /\ Clears(v, t)
  <2>1. monitor' = "none"
    BY <1>3, <1>8 DEF MonitorAfter
  <2>2. CASE i = 0
    <3>1. alarms' = alarms /\ Active = {}
      BY <1>3, <1>4, <1>8, <2>2 DEF AlarmsAfter
    <3> QED BY <2>1, <3>1 DEF AlarmFollowsReadings, Active
  <2>3. CASE i # 0
    <3>1. Active = {i} /\ i \in 1..Len(alarms)
      BY <1>1, <1>4, <1>8, <2>3
    <3>2. alarms' = [alarms EXCEPT ![i] = [alarms[i] EXCEPT !.state = "cleared"]]
      BY <1>3, <1>8, <2>3 DEF AlarmsAfter
    <3>3. alarms[i] \in AlarmRow
      BY <1>1, <3>1
    <3>4. Active' = {}
      BY <1>1, <3>1, <3>2, <3>3 DEF Active, AlarmRow
    <3> QED BY <2>1, <3>4 DEF AlarmFollowsReadings
  <2> QED BY <2>2, <2>3
<1>9. CASE v # Absent /\ d = "none" /\ ~ Clears(v, t)
  <2>1. alarms' = alarms /\ monitor' = monitor
    BY <1>3, <1>9 DEF AlarmsAfter, MonitorAfter
  <2> QED BY <1>5, <2>1 DEF AlarmFollowsReadings, Active
<1> QED BY <1>6, <1>7, <1>8, <1>9

\* A commit that stores a message, of either kind: the device it may register,
\* the locks it gives up, the transactions that are left.
LEMMA StoreStep ==
    ASSUME IngestionInv, NEW w \in Writer,
           tx[w].pc = "commit", ~ Blocked(w), ~ Conflict(w),
           stored' = stored \cup {tx[w].message},
           device' = IF tx[w].newDevice THEN Site[tx[w].message] ELSE device,
           Finish(w)
    PROVE  /\ tx[w].message \in Message
           /\ tx' \in [Writer -> Transaction]
           /\ tx'[w] = NoTx
           /\ \A u \in Writer \ {w} : tx'[u] = tx[u]
           /\ device' \in {Absent} \cup {Site[m] : m \in Message}
           /\ ControlInv' /\ LockInv' /\ DeviceInv' /\ StoredFromOneSite'
<1> DEFINE m == tx[w].message
<1>1. m \in Message /\ tx \in [Writer -> Transaction] /\ stored \subseteq Message
  BY DEF IngestionInv, TypeOK
<1>2. tx' \in [Writer -> Transaction] /\ tx'[w] = NoTx
      /\ \A u \in Writer \ {w} : tx'[u] = tx[u]
  BY <1>1, NoTxType DEF Finish
<1>3. NoTx.pc = "idle" /\ ~ NoTx.newConfig
  BY DEF NoTx
<1>4. tx[w].newDevice => device = Absent /\ stored = {}
  BY <1>1, SiteAssumption DEF Conflict, IngestionInv, StoredFromOneSite
<1>5. device' = Site[m]
  BY <1>1 DEF IngestionInv, DeviceInv
<1>6. StoredFromOneSite'
  BY <1>4, <1>5 DEF IngestionInv, StoredFromOneSite
<1>7. DeviceInv'
  <2> SUFFICES ASSUME NEW u \in Writer \ {w},
                      tx[u].pc \in {"thresholds", "flush", "alarm", "commit"},
                      device = Site[tx[u].message]
               PROVE  device' = device
    BY <1>2, <1>3 DEF IngestionInv, DeviceInv
  <2>1. tx[u].message \in Message
    BY DEF IngestionInv, TypeOK
  <2>2. device # Absent
    BY <2>1, SiteAssumption
  <2> QED BY <1>4, <2>2
<1>8. \A u \in Writer : ~ Flushed(u)'
  BY <1>2, <1>3 DEF Blocked, Flushed
<1>9. LockInv'
  BY <1>8 DEF LockInv
<1>10. ControlInv'
  BY <1>2, <1>3 DEF IngestionInv, ControlInv
<1> QED BY <1>1, <1>2, <1>5, <1>6, <1>7, <1>9, <1>10

\* The commit of persist_health.
LEMMA HealthStep ==
    ASSUME IngestionInv, NEW w \in Writer, CommitHealth(w)
    PROVE  IngestionInv'
<1>1. CASE Conflict(w)
  <2>1. confirmed' \in SUBSET Message /\ confirmed' \subseteq stored
        /\ UNCHANGED <<device, config, stored, alarms, update, monitor,
                       overlapped>>
        /\ Finish(w)
    BY <1>1 DEF CommitHealth, IngestionInv, TypeOK, AnsweredIsStored
  <2> QED BY <2>1, FinishStep
<1>2. CASE ~ Conflict(w)
  <2>0. /\ stored' = stored \cup {tx[w].message}
        /\ confirmed' = confirmed \cup {tx[w].message}
        /\ device' = IF tx[w].newDevice THEN Site[tx[w].message] ELSE device
        /\ tx[w].pc = "commit" /\ ~ Blocked(w) /\ Finish(w)
        /\ UNCHANGED <<config, alarms, update, monitor, overlapped>>
    BY <1>2 DEF CommitHealth
  <2>1. /\ tx[w].message \in Message
        /\ tx' \in [Writer -> Transaction]
        /\ tx'[w] = NoTx
        /\ \A u \in Writer \ {w} : tx'[u] = tx[u]
        /\ device' \in {Absent} \cup {Site[m] : m \in Message}
        /\ ControlInv' /\ LockInv' /\ DeviceInv' /\ StoredFromOneSite'
    BY <1>2, <2>0, StoreStep
  <2>2. NoTx.pc = "idle" /\ NoTx.alarm = 0 /\ Len(alarms) \in Nat
    BY DEF NoTx, IngestionInv, TypeOK
  <2>3. TypeOK'
    BY <2>0, <2>1, <2>2 DEF IngestionInv, TypeOK
  <2>4. ViewInv' /\ AlarmFollowsReadings'
    BY <2>0, <2>1, <2>2 DEF IngestionInv, ViewInv, AlarmFollowsReadings, Active
  <2>5. AnsweredIsStored' /\ AlarmsHaveReadings'
    BY <2>0 DEF IngestionInv, AnsweredIsStored, AlarmsHaveReadings
  <2>6. UpdateInv'
    BY <2>0 DEF IngestionInv, UpdateInv
  <2> QED BY <2>1, <2>3, <2>4, <2>5, <2>6 DEF IngestionInv
<1> QED BY <1>1, <1>2

\* The commit of persist_telemetry.
LEMMA ReadingStep ==
    ASSUME IngestionInv, NEW w \in Writer, CommitReading(w)
    PROVE  IngestionInv'
<1> DEFINE m == tx[w].message
<1>0. /\ stored' = stored \cup {m}
      /\ confirmed' = confirmed \cup {m}
      /\ device' = IF tx[w].newDevice THEN Site[m] ELSE device
      /\ config' = IF tx[w].newConfig THEN Default ELSE config
      /\ alarms' = AlarmsAfter(w) /\ monitor' = MonitorAfter(w)
      /\ tx[w].pc = "commit" /\ m \in Reading /\ ~ Blocked(w) /\ Finish(w)
      /\ update' = update
  BY DEF CommitReading
<1>1. ~ Conflict(w)
  BY DEF CommitReading, IngestionInv, LockInv
<1>2. /\ tx' \in [Writer -> Transaction]
      /\ tx'[w] = NoTx
      /\ \A u \in Writer \ {w} : tx'[u] = tx[u]
      /\ device' \in {Absent} \cup {Site[n] : n \in Message}
      /\ ControlInv' /\ LockInv' /\ DeviceInv' /\ StoredFromOneSite'
  BY <1>0, <1>1, StoreStep
<1>3. NoTx.pc = "idle" /\ NoTx.alarm = 0
  BY DEF NoTx
<1>4. /\ alarms' \in Seq(AlarmRow)
      /\ Len(alarms') \in {Len(alarms), Len(alarms) + 1}
      /\ \A j \in 1..Len(alarms) : alarms'[j].reading = alarms[j].reading
      /\ Len(alarms') = Len(alarms) + 1 => alarms'[Len(alarms) + 1].reading = m
  BY <1>0, AlarmsAfterFacts
<1>5. alarms \in Seq(AlarmRow) /\ Len(alarms) \in Nat
      /\ DOMAIN alarms = 1..Len(alarms) /\ DOMAIN alarms' = 1..Len(alarms')
  BY <1>4 DEF IngestionInv, TypeOK
<1> DEFINE n == Len(alarms)
           k == Len(alarms')
<1>6. /\ \A i \in 1..k : i \in 1..n \/ (i = n + 1 /\ k = n + 1)
      /\ \A i \in 0..n : i \in 0..k
  <2>1. n \in Nat /\ k \in {n, n + 1}
    BY <1>4, <1>5
  <2> HIDE DEF n, k
  <2> QED BY <2>1
<1>7. TypeOK'
  <2>1. config' \in {Absent} \cup [Column -> Nat]
    BY <1>0, ThresholdAssumption DEF IngestionInv, TypeOK
  <2>2. monitor' \in Severity \cup {"none"}
    <3>1. monitor \in Severity \cup {"none"}
      BY DEF IngestionInv, TypeOK
    <3> QED BY <1>0, <3>1, DesiredType DEF MonitorAfter
  <2>3. stored' \in SUBSET Message /\ confirmed' \in SUBSET Message
    BY <1>0 DEF IngestionInv, TypeOK, Message
  <2>4. overlapped' \in BOOLEAN
    BY DEF CommitReading, IngestionInv, TypeOK
  <2>5. \A u \in Writer : /\ tx'[u].pc # "idle" => tx'[u].message \in Message
                          /\ tx'[u].alarm \in 0..Len(alarms')
    <3>1. \A u \in Writer : /\ tx[u].pc # "idle" => tx[u].message \in Message
                            /\ tx[u].alarm \in 0..n
      BY DEF IngestionInv, TypeOK
    <3>2. 0 \in 0..n
      BY <1>5
    <3> QED BY <1>2, <1>3, <1>6, <3>1, <3>2
  <2> QED BY <1>0, <1>2, <1>4, <2>1, <2>2, <2>3, <2>4, <2>5 DEF IngestionInv, TypeOK
<1>8. AnsweredIsStored'
  BY <1>0 DEF IngestionInv, AnsweredIsStored
<1>9. AlarmsHaveReadings'
  <2>1. m \notin stored
    BY <1>1 DEF Conflict
  <2>2. \A j \in 1..Len(alarms) : alarms'[j].reading \in stored
    BY <1>4, <1>5 DEF IngestionInv, AlarmsHaveReadings
  <2>3. ASSUME NEW i \in DOMAIN alarms', NEW j \in DOMAIN alarms',
               alarms'[i].reading = alarms'[j].reading
        PROVE  i = j
    <3>1. CASE i \in 1..n /\ j \in 1..n
      BY <1>4, <1>5, <2>3, <3>1 DEF IngestionInv, AlarmsHaveReadings
    <3>2. CASE i = n + 1 /\ k = n + 1 /\ j \in 1..n
      BY <1>4, <2>1, <2>2, <2>3, <3>2
    <3>3. CASE j = n + 1 /\ k = n + 1 /\ i \in 1..n
      BY <1>4, <2>1, <2>2, <2>3, <3>3
    <3>4. CASE i = n + 1 /\ j = n + 1
      BY <3>4
    <3>5. i \in 1..k /\ j \in 1..k
      BY <1>5
    <3> HIDE DEF n, k
    <3> QED BY <1>6, <3>1, <3>2, <3>3, <3>4, <3>5
  <2>4. \A i \in DOMAIN alarms' : alarms'[i].reading \in stored'
    BY <1>0, <1>4, <1>5, <1>6, <2>2
  <2> QED BY <2>3, <2>4 DEF AlarmsHaveReadings
<1>10. ~ overlapped' => /\ ~ overlapped
                       /\ \A u \in Writer \ {w} :
                             ~ (tx[u].pc = "commit" /\ tx[u].message \in Reading)
  BY DEF CommitReading, IngestionInv, TypeOK
<1>11. ViewInv'
  BY <1>2, <1>3, <1>10 DEF ViewInv
<1>12. AlarmFollowsReadings'
  <2>1. CASE overlapped'
    BY <2>1 DEF AlarmFollowsReadings
  <2>2. CASE ~ overlapped'
    BY <1>10, <2>2, FreshCommit
  <2> QED BY <2>1, <2>2
<1>13. UpdateInv'
  BY <1>0, AbsentAssumption, ThresholdAssumption DEF IngestionInv, UpdateInv
<1> QED BY <1>2, <1>7, <1>8, <1>9, <1>11, <1>12, <1>13 DEF IngestionInv

\* An acknowledgement changes nothing an ingestion looks at.
LEMMA AcknowledgeStep ==
    ASSUME IngestionInv, NEW i \in DOMAIN alarms, AcknowledgeAlarm(i)
    PROVE  IngestionInv'
<1> USE DEF observers
<1> DEFINE row == [alarms[i] EXCEPT !.acknowledged = TRUE]
<1>1. alarms \in Seq(AlarmRow) /\ DOMAIN alarms = 1..Len(alarms)
  BY DEF IngestionInv, TypeOK
<1>2. alarms[i] \in AlarmRow
  BY <1>1
<1>3. row \in AlarmRow /\ row.reading = alarms[i].reading
      /\ row.severity = alarms[i].severity /\ row.state = alarms[i].state
  BY <1>2 DEF AlarmRow
<1>4. alarms' = [alarms EXCEPT ![i] = row]
  BY DEF AcknowledgeAlarm
<1> HIDE DEF row
<1>5. /\ alarms' \in Seq(AlarmRow) /\ Len(alarms') = Len(alarms)
      /\ DOMAIN alarms' = DOMAIN alarms
      /\ \A j \in DOMAIN alarms : /\ alarms'[j].reading = alarms[j].reading
                                  /\ alarms'[j].severity = alarms[j].severity
                                  /\ alarms'[j].state = alarms[j].state
  BY <1>1, <1>3, <1>4, ExceptSeq
<1>6. Active' = Active /\ Active \subseteq DOMAIN alarms
  BY <1>5 DEF Active
<1>7. TypeOK'
  BY <1>5 DEF AcknowledgeAlarm, IngestionInv, TypeOK
<1>8. ControlInv' /\ UpdateInv' /\ DeviceInv'
  BY DEF AcknowledgeAlarm, IngestionInv, ControlInv, UpdateInv, DeviceInv
<1>9. LockInv'
  BY DEF AcknowledgeAlarm, IngestionInv, LockInv, Flushed, Conflict, Blocked,
         SequenceOwned
<1>10. ViewInv'
  BY <1>5, <1>6 DEF AcknowledgeAlarm, IngestionInv, ViewInv
<1>11. AlarmFollowsReadings'
  BY <1>5, <1>6 DEF AcknowledgeAlarm, IngestionInv, AlarmFollowsReadings
<1>12. AlarmsHaveReadings'
  BY <1>5 DEF AcknowledgeAlarm, IngestionInv, AlarmsHaveReadings
<1>13. AnsweredIsStored' /\ StoredFromOneSite'
  BY DEF AcknowledgeAlarm, IngestionInv, AnsweredIsStored, StoredFromOneSite
<1> QED BY <1>7, <1>8, <1>9, <1>10, <1>11, <1>12, <1>13 DEF IngestionInv

\* A request on the thresholds writes their row only, and not while a
\* transaction holds the key of it.
LEMMA ThresholdsStep ==
    ASSUME IngestionInv,
           \/ GetThresholds
           \/ \E a \in Admin : \/ UpdateThresholds(a)
                              \/ \E r \in Request : ReadThresholds(a, r)
    PROVE  IngestionInv'
<1> USE DEF observers
<1>0. /\ update \in [Admin -> Update]
      /\ config \in {Absent} \cup [Column -> Nat]
  BY DEF IngestionInv, TypeOK
<1>1. /\ UNCHANGED <<device, stored, alarms, tx, observers>>
      /\ update' \in [Admin -> Update]
      /\ config' \in {Absent} \cup [Column -> Nat]
      /\ config # Absent => config' # Absent
      /\ config' # config => \A w \in Writer : ~ Flushed(w)
      /\ UpdateInv'
  <2>1. CASE GetThresholds
    BY <1>0, <2>1, AbsentAssumption, ThresholdAssumption
    DEF GetThresholds, IngestionInv, UpdateInv
  <2>2. ASSUME NEW a \in Admin, NEW r \in Request, ReadThresholds(a, r)
        PROVE  <1>1!:
    <3> DEFINE u == [pc |-> "commit", seen |-> config, request |-> r]
    <3>1. u \in Update /\ u.seen = config
      BY <1>0, ThresholdAssumption DEF Update
    <3>2. update' = [update EXCEPT ![a] = u]
      BY <2>2 DEF ReadThresholds
    <3> HIDE DEF u
    <3> QED BY <1>0, <2>2, <3>1, <3>2 DEF ReadThresholds, IngestionInv, UpdateInv
  <2>3. ASSUME NEW a \in Admin, UpdateThresholds(a)
        PROVE  <1>1!:
    <3>1. NoUpdate \in Update /\ NoUpdate.seen = Absent
      BY ThresholdAssumption DEF NoUpdate, Update
    <3>2. update' = [update EXCEPT ![a] = NoUpdate]
      BY <2>3 DEF UpdateThresholds
    <3>3. update[a].request \in [Column -> Nat] /\ update[a].seen \in {Absent} \cup [Column -> Nat]
      BY <1>0 DEF Update
    <3>4. /\ config' \in {Absent} \cup [Column -> Nat]
          /\ config # Absent => config' # Absent
          /\ config' # config => \A w \in Writer : ~ Flushed(w)
      <4>1. CASE update[a].seen = Absent
        BY <1>0, <2>3, <3>3, <4>1, AbsentAssumption DEF UpdateThresholds
      <4>2. CASE update[a].seen # Absent
        <5>1. config \in [Column -> Nat]
          BY <1>0, <4>2 DEF IngestionInv, UpdateInv
        <5>2. config' \in [Column -> Nat]
          BY <2>3, <3>3, <4>2, <5>1 DEF UpdateThresholds
        <5>3. \A w \in Writer : ~ Flushed(w)
          BY <5>1, AbsentAssumption
          DEF IngestionInv, LockInv, Conflict, Flushed
        <5> QED BY <5>2, <5>3, AbsentAssumption
      <4> QED BY <4>1, <4>2
    <3> QED BY <1>0, <2>3, <3>1, <3>2, <3>4
            DEF UpdateThresholds, IngestionInv, UpdateInv
  <2> QED BY <2>1, <2>2, <2>3
<1>2. TypeOK'
  BY <1>1 DEF IngestionInv, TypeOK
<1>3. ControlInv' /\ DeviceInv'
  BY <1>1 DEF IngestionInv, ControlInv, DeviceInv
<1>4. LockInv'
  BY <1>1 DEF IngestionInv, LockInv, Flushed, Conflict, Blocked, SequenceOwned
<1>5. ViewInv' /\ AlarmFollowsReadings'
  BY <1>1 DEF IngestionInv, ViewInv, AlarmFollowsReadings, Active
<1>6. AnsweredIsStored' /\ StoredFromOneSite' /\ AlarmsHaveReadings'
  BY <1>1 DEF IngestionInv, AnsweredIsStored, StoredFromOneSite, AlarmsHaveReadings
<1> QED BY <1>1, <1>2, <1>3, <1>4, <1>5, <1>6 DEF IngestionInv

-----------------------------------------------------------------------------
(* The theorems                                                             *)

\* The invariant holds of the empty database.
LEMMA InitInv == Init => IngestionInv
<1> SUFFICES ASSUME Init PROVE IngestionInv
  OBVIOUS
<1>1. /\ NoTx.pc = "idle" /\ NoTx.newConfig = FALSE /\ NoTx.alarm = 0
      /\ NoUpdate \in Update /\ NoUpdate.seen = Absent
  BY ThresholdAssumption DEF NoTx, NoUpdate, Update
<1>2. tx \in [Writer -> Transaction] /\ \A w \in Writer : tx[w] = NoTx
  BY NoTxType DEF Init
<1>3. update \in [Admin -> Update] /\ \A a \in Admin : update[a] = NoUpdate
  BY <1>1 DEF Init
<1>4. alarms \in Seq(AlarmRow) /\ Len(alarms) = 0 /\ DOMAIN alarms = {}
  BY DEF Init
<1>5. TypeOK
  <2>1. \A w \in Writer : /\ tx[w].pc # "idle" => tx[w].message \in Message
                          /\ tx[w].alarm \in 0..Len(alarms)
    BY <1>1, <1>2, <1>4
  <2>2. /\ device \in {Absent} \cup {Site[m] : m \in Message}
        /\ config \in {Absent} \cup [Column -> Nat]
        /\ stored \in SUBSET Message /\ confirmed \in SUBSET Message
        /\ monitor \in Severity \cup {"none"} /\ overlapped \in BOOLEAN
    BY DEF Init
  <2> QED BY <1>2, <1>3, <1>4, <2>1, <2>2 DEF TypeOK
<1>6. ControlInv /\ LockInv /\ DeviceInv /\ UpdateInv /\ ViewInv
  BY <1>1, <1>2, <1>3 DEF ControlInv, LockInv, DeviceInv, UpdateInv, ViewInv, Flushed
<1>7. AnsweredIsStored /\ StoredFromOneSite /\ AlarmsHaveReadings
      /\ AlarmFollowsReadings
  BY <1>4 DEF Init, AnsweredIsStored, StoredFromOneSite, AlarmsHaveReadings,
              AlarmFollowsReadings, Active
<1> QED BY <1>5, <1>6, <1>7 DEF IngestionInv

\* Every step of every session keeps it.
LEMMA NextInv == IngestionInv /\ [Next]_vars => IngestionInv'
<1> SUFFICES ASSUME IngestionInv, [Next]_vars PROVE IngestionInv'
  OBVIOUS
<1>1. ASSUME NEW w \in Writer, Persist(w) PROVE IngestionInv'
  BY <1>1, QueryStep, HealthStep, ReadingStep DEF Persist
<1>2. ASSUME NEW i \in DOMAIN alarms, AcknowledgeAlarm(i) PROVE IngestionInv'
  BY <1>2, AcknowledgeStep
<1>3. ASSUME \/ GetThresholds
             \/ \E a \in Admin : \/ UpdateThresholds(a)
                                \/ \E r \in Request : ReadThresholds(a, r)
      PROVE  IngestionInv'
  BY <1>3, ThresholdsStep
<1>4. CASE UNCHANGED vars
  BY <1>4 DEF vars, IngestionInv, TypeOK, ControlInv, LockInv, DeviceInv, UpdateInv,
              ViewInv, AnsweredIsStored, StoredFromOneSite, AlarmsHaveReadings,
              AlarmFollowsReadings, Flushed, Blocked, Conflict, SequenceOwned, Active
<1> QED BY <1>1, <1>2, <1>3, <1>4 DEF Next

\* The invariant of ingestion, for any number of sessions and messages.
THEOREM IngestionInvariant == Spec => []IngestionInv
BY InitInv, NextInv, PTL DEF Spec

\* The rows and transactions of ingestion keep their types.
THEOREM IngestionTypeCorrect == Spec => []TypeOK
<1>1. IngestionInv => TypeOK
  BY DEF IngestionInv
<1> QED BY <1>1, IngestionInvariant, PTL

\* "inserted" and "duplicate" are only answered for stored messages.
THEOREM AnsweredIsAlwaysStored == Spec => []AnsweredIsStored
<1>1. IngestionInv => AnsweredIsStored
  BY DEF IngestionInv
<1> QED BY <1>1, IngestionInvariant, PTL

\* All stored messages come from the site the device is registered for.
THEOREM StoredAlwaysFromOneSite == Spec => []StoredFromOneSite
<1>1. IngestionInv => StoredFromOneSite
  BY DEF IngestionInv
<1> QED BY <1>1, IngestionInvariant, PTL

\* Every alarm was opened by a stored reading, and no reading opened two.
THEOREM AlarmsAlwaysHaveReadings == Spec => []AlarmsHaveReadings
<1>1. IngestionInv => AlarmsHaveReadings
  BY DEF IngestionInv
<1> QED BY <1>1, IngestionInvariant, PTL

\* Without overlapping evaluations the one active alarm is what the stored
\* readings make of it.
THEOREM AlarmAlwaysFollowsReadings == Spec => []AlarmFollowsReadings
<1>1. IngestionInv => AlarmFollowsReadings
  BY DEF IngestionInv
<1> QED BY <1>1, IngestionInvariant, PTL

\* A step that touches the rows of alarms appends one, changes one in its
\* severity or state, or acknowledges one.
LEMMA NextRows == IngestionInv /\ [Next]_vars => RowsAdvance \/ UNCHANGED vars
<1> SUFFICES ASSUME IngestionInv, Next PROVE RowsAdvance
  OBVIOUS
<1> USE DEF observers
<1>1. alarms \in Seq(AlarmRow) /\ DOMAIN alarms = 1..Len(alarms) /\ Len(alarms) \in Nat
  BY DEF IngestionInv, TypeOK
<1>2. CASE UNCHANGED alarms
  BY <1>2 DEF RowsAdvance
<1>3. ASSUME NEW w \in Writer, CommitReading(w) PROVE RowsAdvance
  <2>1. /\ alarms' \in Seq(AlarmRow)
        /\ Len(alarms') \in {Len(alarms), Len(alarms) + 1}
        /\ \A j \in 1..Len(alarms) :
               /\ alarms'[j].reading = alarms[j].reading
               /\ alarms'[j].acknowledged = alarms[j].acknowledged
               /\ alarms[j].state = "cleared" => alarms'[j].state = "cleared"
    BY <1>3, AlarmsAfterFacts DEF CommitReading
  <2>2. DOMAIN alarms \subseteq DOMAIN alarms'
    BY <1>1, <2>1
  <2> QED BY <1>1, <2>1, <2>2 DEF RowsAdvance
<1>4. ASSUME NEW i \in DOMAIN alarms, AcknowledgeAlarm(i) PROVE RowsAdvance
  <2> DEFINE row == [alarms[i] EXCEPT !.acknowledged = TRUE]
  <2>1. alarms[i] \in AlarmRow
    BY <1>1
  <2>2. row \in AlarmRow /\ row.reading = alarms[i].reading
        /\ row.acknowledged /\ row.state = alarms[i].state
    BY <2>1 DEF AlarmRow
  <2>3. alarms' = [alarms EXCEPT ![i] = row]
    BY <1>4 DEF AcknowledgeAlarm
  <2> HIDE DEF row
  <2> QED BY <1>1, <2>2, <2>3 DEF RowsAdvance
<1>5. \/ UNCHANGED alarms
      \/ \E w \in Writer : CommitReading(w)
      \/ \E i \in DOMAIN alarms : AcknowledgeAlarm(i)
  BY DEF Next, Persist, Receive, CheckSequence, CheckDevice, CheckThresholds, Flush,
         ReadAlarm, CommitConflict, CommitHealth, Rollback, GetThresholds,
         UpdateThresholds, ReadThresholds
<1> QED BY <1>2, <1>3, <1>4, <1>5

\* Alarm rows are only added, cleared, acknowledged and changed in severity.
THEOREM AlarmRowsAlwaysAdvance == Spec => AlarmRowsOnlyAdvance
BY IngestionInvariant, NextRows, PTL DEF Spec, AlarmRowsOnlyAdvance
=============================================================================
