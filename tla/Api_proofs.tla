----------------------------- MODULE Api_proofs -----------------------------
(***************************************************************************)
(* What the API keeps for its users, over the accounts they share: first    *)
(* calibrations, maintenance records and their audit events, for any number *)
(* of threads, users, sensors and requests that end before their commit;    *)
(* then live events, for any number of browsers, events, broken sessions    *)
(* and restarts.                                                            *)
(***************************************************************************)
EXTENDS Records, LiveEvents, SequenceTheorems, FiniteSetTheorems, TLAPS

-----------------------------------------------------------------------------
(* Accounts                                                                 *)

\* Logins, accounts that are switched off or on and time keep the accounts sound.
LEMMA AccountsStep ==
    ASSUME AccountsTypeOK,
           (\E u \in User : Login(u) \/ \E on \in BOOLEAN : SetActive(u, on)) \/ Minute
    PROVE  AccountsTypeOK'
<1>1. TokenLife \in Nat /\ MaxClock \in Nat
  BY AccountsAssumption
<1>2. ASSUME NEW u \in User, Login(u) PROVE AccountsTypeOK'
  <2>1. AccessToken(u) \in [user : User, expires : Nat]
    BY <1>1 DEF AccountsTypeOK, AccessToken
  <2> QED BY <1>2, <2>1 DEF AccountsTypeOK, Login
<1>3. ASSUME NEW u \in User, NEW on \in BOOLEAN, SetActive(u, on) PROVE AccountsTypeOK'
  BY <1>3 DEF AccountsTypeOK, SetActive
<1>4. ASSUME Minute PROVE AccountsTypeOK'
  BY <1>1, <1>4 DEF AccountsTypeOK, Minute
<1> QED BY <1>2, <1>3, <1>4

-----------------------------------------------------------------------------
(* What a request has in hand                                               *)

\* The phase of a request tells what it holds.
LEMMA RequestFacts ==
    ASSUME NEW r \in Request
    PROVE  /\ r.phase = "idle" => r = Idle
           /\ r.phase = "calibrate" =>
                r \in [phase : {"calibrate"}, user : Admin, sensor : Sensor,
                       new : Coefficients]
           /\ r.phase = "calibration" =>
                r \in [phase : {"calibration"}, user : Admin, sensor : Sensor,
                       new : Coefficients,
                       previous : Coefficients \cup {DefaultCoefficients},
                       saw : SUBSET Nat]
           /\ r.phase = "insert calibration" =>
                r \in [phase : {"insert calibration"}, user : Admin, row : CalibrationRow]
           /\ r.phase = "maintenance" =>
                r \in [phase : {"maintenance"}, user : User, status : Status,
                       performed_at : Day, next_due_at : Day \cup {NoDay}]
           /\ r.phase = "insert maintenance" =>
                r \in [phase : {"insert maintenance"}, user : User, row : MaintenanceRow]
           /\ r.phase = "update" =>
                r \in [phase : {"update"}, user : User, target : Nat, change : Change]
           /\ r.phase = "save" =>
                r \in [phase : {"save"}, user : User, read : MaintenanceRow,
                       row : MaintenanceRow]
<1> DEFINE K1 == [phase : {"calibrate"}, user : Admin, sensor : Sensor, new : Coefficients]
           K2 == [phase : {"calibration"}, user : Admin, sensor : Sensor, new : Coefficients,
                 previous : Coefficients \cup {DefaultCoefficients}, saw : SUBSET Nat]
           K3 == [phase : {"insert calibration"}, user : Admin, row : CalibrationRow]
           K4 == [phase : {"maintenance"}, user : User, status : Status, performed_at : Day,
                 next_due_at : Day \cup {NoDay}]
           K5 == [phase : {"insert maintenance"}, user : User, row : MaintenanceRow]
           K6 == [phase : {"update"}, user : User, target : Nat, change : Change]
           K7 == [phase : {"save"}, user : User, read : MaintenanceRow, row : MaintenanceRow]
<1>1. r = Idle \/ r \in K1 \/ r \in K2 \/ r \in K3 \/ r \in K4 \/ r \in K5 \/ r \in K6 \/ r \in K7
  BY DEF Request
<1>2. Idle.phase = "idle"
  BY DEF Idle
<1>3. r \in K1 => r.phase = "calibrate"
  OBVIOUS
<1>4. r \in K2 => r.phase = "calibration"
  OBVIOUS
<1>5. r \in K3 => r.phase = "insert calibration"
  OBVIOUS
<1>6. r \in K4 => r.phase = "maintenance"
  OBVIOUS
<1>7. r \in K5 => r.phase = "insert maintenance"
  OBVIOUS
<1>8. r \in K6 => r.phase = "update"
  OBVIOUS
<1>9. r \in K7 => r.phase = "save"
  OBVIOUS
<1> HIDE DEF K1, K2, K3, K4, K5, K6, K7
<1>10. /\ r.phase = "idle" => r = Idle
       /\ r.phase = "calibrate" => r \in K1
       /\ r.phase = "calibration" => r \in K2
       /\ r.phase = "insert calibration" => r \in K3
       /\ r.phase = "maintenance" => r \in K4
       /\ r.phase = "insert maintenance" => r \in K5
       /\ r.phase = "update" => r \in K6
       /\ r.phase = "save" => r \in K7
  BY <1>1, <1>2, <1>3, <1>4, <1>5, <1>6, <1>7, <1>8, <1>9
<1> QED BY <1>10 DEF K1, K2, K3, K4, K5, K6, K7

\* An idle request holds nothing.
LEMMA IdleFacts ==
    /\ Idle \in Request /\ Idle.phase = "idle" /\ ~Pending(Idle)
    /\ RequestOK(Idle) /\ ReadingOK(Idle) /\ RequestOK(Idle)' /\ ReadingOK(Idle)'
BY DEF Request, Idle, Pending, RequestOK, ReadingOK

\* Readings of the clock are numbers.
LEMMA StampIsNumber ==
    ASSUME NEW r \in Request, Pending(r) PROVE Stamp(r) \in Nat
<1>1. CASE r.phase = "insert calibration"
  <2>1. r.row \in CalibrationRow
    BY <1>1, RequestFacts
  <2> QED BY <1>1, <2>1 DEF Stamp, CalibrationRow
<1>2. CASE r.phase = "insert maintenance" \/ r.phase = "save"
  <2>1. r.row \in MaintenanceRow
    BY <1>2, RequestFacts
  <2> QED BY <1>2, <2>1 DEF Stamp, MaintenanceRow
<1> QED BY <1>1, <1>2 DEF Pending

\* What an update makes of the row it read.
LEMMA AppliedFacts ==
    ASSUME NEW row \in MaintenanceRow, NEW change \in Change, NEW n \in Nat
    PROVE  LET new == [Applied(row, change) EXCEPT !.updated_at = n]
           IN  /\ new \in MaintenanceRow
               /\ new.id = row.id /\ new.performed_at = row.performed_at
               /\ new.created_by = row.created_by /\ new.updated_at = n
               /\ new.next_due_at = Applied(row, change).next_due_at
<1>1. DOMAIN row = {"id", "status", "performed_at", "next_due_at", "created_by",
                    "updated_at"}
  BY DEF MaintenanceRow
<1>2. DOMAIN change \subseteq {"status", "next_due_at"}
  BY DEF Change, Changes
<1>3. /\ "status" \in DOMAIN change => change["status"] \in Status
      /\ "next_due_at" \in DOMAIN change => change["next_due_at"] \in Day \cup {NoDay}
  BY DEF Change
<1> DEFINE a == Applied(row, change)
<1>4. /\ DOMAIN a = DOMAIN row
      /\ a.id = row.id /\ a.performed_at = row.performed_at
      /\ a.created_by = row.created_by /\ a.updated_at = row.updated_at
      /\ a.status \in Status /\ a.next_due_at \in Day \cup {NoDay}
  BY <1>1, <1>2, <1>3 DEF Applied, MaintenanceRow
<1>5. a \in MaintenanceRow
  <2>1. a = [c \in DOMAIN row |-> a[c]]
    BY DEF Applied
  <2>2. /\ row.id \in Nat /\ row.performed_at \in Day /\ row.created_by \in User
        /\ row.updated_at \in Nat
    BY DEF MaintenanceRow
  <2> HIDE DEF a
  <2> QED BY <1>1, <1>4, <2>1, <2>2 DEF MaintenanceRow
<1> HIDE DEF a
<1> QED BY <1>4, <1>5 DEF MaintenanceRow, a

\* What its commit makes of the row that is stored by then.
LEMMA SavedFacts ==
    ASSUME NEW stored \in MaintenanceRow, NEW read \in MaintenanceRow,
           NEW row \in MaintenanceRow, row.id = read.id,
           row.performed_at = read.performed_at, row.created_by = read.created_by,
           row.updated_at # read.updated_at
    PROVE  LET saved == [c \in DOMAIN stored |->
                            IF c \in Written(read, row) THEN row[c] ELSE stored[c]]
           IN  /\ saved \in MaintenanceRow
               /\ saved.id = stored.id /\ saved.performed_at = stored.performed_at
               /\ saved.created_by = stored.created_by
               /\ saved.updated_at = row.updated_at
               /\ saved.next_due_at \in {row.next_due_at, stored.next_due_at}
               /\ stored = read => saved = row
<1> DEFINE columns == {"id", "status", "performed_at", "next_due_at", "created_by",
                       "updated_at"}
           saved == [c \in DOMAIN stored |->
                        IF c \in Written(read, row) THEN row[c] ELSE stored[c]]
<1>1. DOMAIN stored = columns /\ DOMAIN read = columns /\ DOMAIN row = columns
  BY DEF MaintenanceRow
<1>2. /\ "id" \notin Written(read, row) /\ "performed_at" \notin Written(read, row)
      /\ "created_by" \notin Written(read, row) /\ "updated_at" \in Written(read, row)
  BY <1>1 DEF Written
<1>3. /\ DOMAIN saved = columns
      /\ saved.id = stored.id /\ saved.performed_at = stored.performed_at
      /\ saved.created_by = stored.created_by
      /\ saved.updated_at = row.updated_at
      /\ saved.next_due_at \in {row.next_due_at, stored.next_due_at}
      /\ saved.status \in {row.status, stored.status}
  BY <1>1, <1>2
<1>4. saved \in MaintenanceRow
  <2>1. saved = [c \in columns |-> saved[c]]
    BY <1>1
  <2>2. /\ saved.id \in Nat /\ saved.status \in Status /\ saved.performed_at \in Day
        /\ saved.next_due_at \in Day \cup {NoDay} /\ saved.created_by \in User
        /\ saved.updated_at \in Nat
    BY <1>3 DEF MaintenanceRow
  <2> HIDE DEF saved
  <2> QED BY <2>1, <2>2 DEF MaintenanceRow
<1>5. ASSUME stored = read PROVE saved = row
  <2>1. \A c \in columns : saved[c] = row[c]
    BY <1>1, <1>5 DEF Written
  <2>2. row = [c \in columns |-> row[c]]
    BY <1>1 DEF MaintenanceRow
  <2> QED BY <1>1, <2>1, <2>2
<1> QED BY <1>3, <1>4, <1>5

\* The types of the tables follow from the shape of rows and requests.
LEMMA TypeFromShape ==
    ASSUME ShapeInv', RequestInv',
           (\A row, other \in maintenance : row.id = other.id => row = other)',
           (\A row, other \in calibrations : row.id = other.id => row = other)'
    PROVE  TypeOK'
<1>1. AccountsTypeOK'
  BY DEF ShapeInv
<1>2. \A row \in calibrations' :
        /\ row.sensor \in Sensor /\ row.new \in Coefficients
        /\ row.previous \in Coefficients \cup {DefaultCoefficients}
        /\ row.operator \in Admin
  BY DEF ShapeInv, CalibrationRow
<1>3. \A row \in maintenance' :
        /\ row.status \in Status /\ row.performed_at \in Day
        /\ row.next_due_at \in Day \cup {NoDay}
        /\ row.created_by \in User
  BY DEF ShapeInv, MaintenanceRow
<1>4. \A t \in Thread :
        /\ request'[t].phase = "update" =>
                \E row \in maintenance' : row.id = request'[t].target
        /\ request'[t].phase = "save" =>
                \E row \in maintenance' : row.id = request'[t].row.id
  BY DEF RequestInv, RequestOK
<1> QED BY <1>1, <1>2, <1>3, <1>4 DEF TypeOK

-----------------------------------------------------------------------------
(* Steps that commit nothing                                                *)

\* While no row changes, what holds of a request goes on to hold.
LEMMA RowsFrame ==
    ASSUME UNCHANGED rowVars
    PROVE  /\ Ids' = Ids /\ Used' = Used
           /\ \A r : RequestOK(r)' <=> RequestOK(r)
           /\ \A r : ReadingOK(r)' <=> ReadingOK(r)
           /\ \A row : RowReading(row)' <=> RowReading(row)
           /\ AuditMatches' <=> AuditMatches
           /\ DueAfterWork' <=> DueAfterWork
BY DEF rowVars, Ids, Used, RequestOK, ReadingOK, RowReading, Reading, OfSensor,
       AuditMatches, DueAfterWork

\* A request goes on, with a reading of the clock that nobody has.
LEMMA RequestStep ==
    ASSUME HistoryInv, NEW t \in Thread, NEW r \in Request,
           request' = [request EXCEPT ![t] = r],
           UNCHANGED <<accountVars, rowVars>>,
           now' \in {now, now + 1},
           RequestOK(r), ReadingOK(r),
           Pending(r) => Stamp(r) = now /\ now' = now + 1,
           r.phase = "save" => r.read \in maintenance
    PROVE  HistoryInv'
<1>0. /\ RecordsInv /\ TypeOK /\ AuditMatches /\ DueAfterWork /\ ShapeInv /\ StampInv
      /\ RequestInv
  BY DEF HistoryInv, RecordsInv
<1>1. /\ now \in Nat /\ now' \in Nat /\ now <= now' /\ request \in [Thread -> Request]
  BY <1>0 DEF ShapeInv
<1>2. \A u \in Thread : request'[u] = IF u = t THEN r ELSE request[u]
  BY <1>1
<1>3. ShapeInv'
  <2>1. request' \in [Thread -> Request]
    BY <1>1
  <2>2. AccountsTypeOK'
    BY <1>0 DEF ShapeInv, AccountsTypeOK, accountVars
  <2> QED BY <1>0, <1>1, <2>1, <2>2 DEF ShapeInv, rowVars
<1>4. RequestInv'
  BY <1>0, <1>2, RowsFrame DEF RequestInv, rowVars
<1>5. StampInv'
  <2>0. /\ Used' = Used /\ \A n \in Used : n < now
    BY <1>0, RowsFrame DEF StampInv
  <2>a. Used \subseteq Nat
    BY <1>0 DEF ShapeInv, Used, Ids, CalibrationRow, MaintenanceRow
  <2>b. \A u \in Thread : Pending(request[u]) =>
            /\ Stamp(request[u]) \in Nat /\ Stamp(request[u]) < now
            /\ Stamp(request[u]) \notin Used
    BY <1>0, <1>1, StampIsNumber DEF StampInv
  <2>c. \A u \in Thread : request[u].phase = "save" =>
            /\ request[u].read.updated_at < now /\ request[u].read.updated_at \in Nat
    <3>1. ASSUME NEW u \in Thread, request[u].phase = "save"
          PROVE  request[u].read \in MaintenanceRow
      <4>1. request[u] \in Request
        BY <1>1
      <4>2. request[u] \in [phase : {"save"}, user : User, read : MaintenanceRow,
                            row : MaintenanceRow]
        BY <3>1, <4>1, RequestFacts
      <4> QED BY <4>2
    <3> QED BY <1>0, <3>1 DEF StampInv, MaintenanceRow
  <2>d. r.phase = "save" => r.read.updated_at \in Used
    BY DEF Used
  <2>1. \A n \in Used' : n < now'
    BY <1>1, <2>0, <2>a
  <2>2. ASSUME NEW u \in Thread, Pending(request'[u])
        PROVE  /\ Stamp(request'[u]) < now' /\ Stamp(request'[u]) \notin Used'
               /\ \A v \in Thread : v # u /\ Pending(request'[v]) =>
                        Stamp(request'[v]) # Stamp(request'[u])
               /\ \A v \in Thread : request'[v].phase = "save" =>
                        request'[v].read.updated_at # Stamp(request'[u])
    <3>1. CASE u = t
      <4>1. request'[u] = r /\ Stamp(r) = now /\ now' = now + 1
        BY <1>2, <2>2, <3>1
      <4>2. now \notin Used /\ now < now + 1
        BY <1>1, <2>0, <2>a
      <4>3. ASSUME NEW v \in Thread, v # u, Pending(request'[v])
            PROVE  Stamp(request'[v]) # now
        BY <1>1, <1>2, <2>b, <3>1, <4>3
      <4>4. ASSUME NEW v \in Thread, request'[v].phase = "save"
            PROVE  request'[v].read.updated_at # now
        <5>1. CASE v = t
          BY <1>1, <1>2, <2>d, <4>2, <4>4, <5>1
        <5>2. CASE v # t
          BY <1>1, <1>2, <2>c, <4>4, <5>2
        <5> QED BY <5>1, <5>2
      <4> QED BY <2>0, <4>1, <4>2, <4>3, <4>4
    <3>2. CASE u # t
      <4>1. /\ request'[u] = request[u] /\ Pending(request[u])
            /\ Stamp(request[u]) \in Nat /\ Stamp(request[u]) < now
            /\ Stamp(request[u]) \notin Used
        BY <1>2, <2>2, <2>b, <3>2
      <4>2. ASSUME NEW v \in Thread, v # u, Pending(request'[v])
            PROVE  Stamp(request'[v]) # Stamp(request[u])
        <5>1. CASE v = t
          BY <1>1, <1>2, <4>1, <4>2, <5>1
        <5>2. CASE v # t
          BY <1>0, <1>2, <4>1, <4>2, <5>2 DEF StampInv
        <5> QED BY <5>1, <5>2
      <4>3. ASSUME NEW v \in Thread, request'[v].phase = "save"
            PROVE  request'[v].read.updated_at # Stamp(request[u])
        <5>1. CASE v = t
          BY <1>2, <2>d, <4>1, <4>3, <5>1
        <5>2. CASE v # t
          BY <1>0, <1>2, <4>1, <4>3, <5>2 DEF StampInv
        <5> QED BY <5>1, <5>2
      <4>4. Stamp(request[u]) < now'
        BY <1>1, <4>1
      <4> QED BY <2>0, <4>1, <4>2, <4>3, <4>4
    <3> QED BY <3>1, <3>2
  <2>3. ASSUME NEW u \in Thread, request'[u].phase = "save"
        PROVE  request'[u].read.updated_at < now'
    <3>1. CASE u = t
      BY <1>1, <1>2, <2>0, <2>a, <2>d, <2>3, <3>1
    <3>2. CASE u # t
      BY <1>1, <1>2, <2>c, <2>3, <3>2
    <3> QED BY <3>1, <3>2
  <2> QED BY <2>1, <2>2, <2>3 DEF StampInv
<1>6. TypeOK'
  <2>1. /\ (\A row, other \in maintenance : row.id = other.id => row = other)'
        /\ (\A row, other \in calibrations : row.id = other.id => row = other)'
    BY <1>0 DEF TypeOK, rowVars
  <2> QED BY <1>3, <1>4, <2>1, TypeFromShape
<1> QED BY <1>0, <1>3, <1>4, <1>5, <1>6, RowsFrame DEF HistoryInv, RecordsInv

\* What the lemmas below take from the invariant.
LEMMA HistoryFacts ==
    ASSUME HistoryInv, NEW t \in Thread
    PROVE  /\ TypeOK /\ AuditMatches /\ DueAfterWork /\ ShapeInv /\ StampInv /\ RequestInv
           /\ now \in Nat /\ request[t] \in Request /\ request \in [Thread -> Request]
           /\ RequestOK(request[t]) /\ ReadingOK(request[t])
           /\ calibrations \subseteq CalibrationRow /\ maintenance \subseteq MaintenanceRow
BY DEF HistoryInv, RecordsInv, ShapeInv, RequestInv

LEMMA BeginCalibrationKeeps ==
    ASSUME HistoryInv, NEW t \in Thread, BeginCalibration(t) PROVE HistoryInv'
<1>1. PICK token \in tokens, s \in Sensor, c \in Coefficients :
        /\ EnsureAdmin(token)
        /\ Begin(t, [phase |-> "calibrate", user |-> token.user, sensor |-> s, new |-> c])
  BY DEF BeginCalibration
<1> DEFINE r == [phase |-> "calibrate", user |-> token.user, sensor |-> s, new |-> c]
<1>2. r \in Request /\ r.phase = "calibrate"
  BY <1>1 DEF EnsureAdmin, Request
<1>3. /\ request' = [request EXCEPT ![t] = r] /\ UNCHANGED <<accountVars, rowVars>>
      /\ now' = now
  BY <1>1 DEF Begin
<1> HIDE DEF r
<1>4. RequestOK(r) /\ ReadingOK(r) /\ ~Pending(r)
  BY <1>2 DEF RequestOK, ReadingOK, Pending
<1> QED BY <1>2, <1>3, <1>4, RequestStep

LEMMA BeginMaintenanceKeeps ==
    ASSUME HistoryInv, NEW t \in Thread, BeginMaintenance(t) PROVE HistoryInv'
<1>1. PICK token \in tokens, s \in Status, performed \in Day, due \in Day \cup {NoDay} :
        /\ DueAfter(due, performed)
        /\ Begin(t, [phase |-> "maintenance", user |-> token.user, status |-> s,
                     performed_at |-> performed, next_due_at |-> due])
  BY DEF BeginMaintenance
<1> DEFINE r == [phase |-> "maintenance", user |-> token.user, status |-> s,
                 performed_at |-> performed, next_due_at |-> due]
<1>2. token.user \in User
  BY HistoryFacts DEF ShapeInv, AccountsTypeOK
<1>3. r \in Request /\ r.phase = "maintenance" /\ DueAfter(r.next_due_at, r.performed_at)
  BY <1>1, <1>2 DEF Request
<1>4. /\ request' = [request EXCEPT ![t] = r] /\ UNCHANGED <<accountVars, rowVars>>
      /\ now' = now
  BY <1>1 DEF Begin
<1> HIDE DEF r
<1>5. RequestOK(r) /\ ReadingOK(r) /\ ~Pending(r)
  BY <1>3 DEF RequestOK, ReadingOK, Pending
<1> QED BY <1>3, <1>4, <1>5, RequestStep

LEMMA BeginUpdateKeeps ==
    ASSUME HistoryInv, NEW t \in Thread, BeginUpdate(t) PROVE HistoryInv'
<1>1. PICK token \in tokens, row \in maintenance, change \in Change :
        Begin(t, [phase |-> "update", user |-> token.user, target |-> row.id,
                  change |-> change])
  BY DEF BeginUpdate
<1> DEFINE r == [phase |-> "update", user |-> token.user, target |-> row.id,
                 change |-> change]
<1>2. token.user \in User
  BY HistoryFacts DEF ShapeInv, AccountsTypeOK
<1>3. row.id \in Nat
  BY HistoryFacts DEF MaintenanceRow
<1>4. r \in Request /\ r.phase = "update" /\ r.target = row.id
  BY <1>2, <1>3 DEF Request
<1>5. /\ request' = [request EXCEPT ![t] = r] /\ UNCHANGED <<accountVars, rowVars>>
      /\ now' = now
  BY <1>1 DEF Begin
<1> HIDE DEF r
<1>6. RequestOK(r) /\ ReadingOK(r) /\ ~Pending(r)
  BY <1>4 DEF RequestOK, ReadingOK, Pending
<1> QED BY <1>4, <1>5, <1>6, RequestStep

\* The newest row of the sensor is among those that were read, so its
\* coefficients are the ones taken.
LEMMA ReadLatestKeeps ==
    ASSUME HistoryInv, NEW t \in Thread, ReadLatest(t) PROVE HistoryInv'
<1> DEFINE q == request[t]
           previous == IF Latest(q.sensor) = {}
                       THEN DefaultCoefficients
                       ELSE (CHOOSE row \in Latest(q.sensor) : TRUE).new
           saw == {row.id : row \in OfSensor(q.sensor)}
           r == [phase |-> "calibration", user |-> q.user, sensor |-> q.sensor,
                 new |-> q.new, previous |-> previous, saw |-> saw]
<1>1. q.phase = "calibrate" /\ q \in Request
  BY HistoryFacts DEF ReadLatest
<1>2. q.user \in Admin /\ q.sensor \in Sensor /\ q.new \in Coefficients
  <2>1. q \in [phase : {"calibrate"}, user : Admin, sensor : Sensor, new : Coefficients]
    BY <1>1, RequestFacts
  <2> QED BY <2>1
<1>3. /\ request' = [request EXCEPT ![t] = r] /\ UNCHANGED <<accountVars, rowVars>>
      /\ now' = now
  BY DEF ReadLatest, Proceed
<1>4. /\ calibrations \subseteq CalibrationRow
      /\ \A row \in calibrations : row.performed_at = row.id
      /\ \A row, other \in calibrations : row.id = other.id => row = other
  BY HistoryFacts DEF RequestInv, RowReading, TypeOK
<1>5. OfSensor(q.sensor) \subseteq calibrations /\ Latest(q.sensor) \subseteq OfSensor(q.sensor)
  BY DEF OfSensor, Latest
<1>6. saw \in SUBSET Nat /\ saw \subseteq Ids
  BY <1>4, <1>5 DEF CalibrationRow, Ids
<1>7. previous \in Coefficients \cup {DefaultCoefficients}
  <2>1. CASE Latest(q.sensor) = {}
    BY <2>1
  <2>2. CASE Latest(q.sensor) # {}
    <3>1. (CHOOSE row \in Latest(q.sensor) : TRUE) \in Latest(q.sensor)
      BY <2>2
    <3>2. (CHOOSE row \in Latest(q.sensor) : TRUE).new \in Coefficients
      BY <1>4, <1>5, <3>1 DEF CalibrationRow
    <3> QED BY <2>2, <3>2
  <2> QED BY <2>1, <2>2
<1>8. ASSUME NEW row \in OfSensor(q.sensor),
             \A other \in OfSensor(q.sensor) : other.id \in saw => other.id <= row.id
      PROVE  previous = row.new
  <2>1. \A other \in OfSensor(q.sensor) : other.performed_at <= row.performed_at
    BY <1>4, <1>5, <1>8
  <2>2. row \in Latest(q.sensor)
    BY <2>1 DEF Latest
  <2>3. PICK last \in Latest(q.sensor) : last = CHOOSE x \in Latest(q.sensor) : TRUE
    BY <2>2
  <2>4. row.performed_at <= last.performed_at /\ last.performed_at <= row.performed_at
    BY <1>5, <2>1, <2>3 DEF Latest
  <2>5. last.id = row.id
    BY <1>4, <1>5, <2>4 DEF CalibrationRow
  <2>6. last = row
    BY <1>4, <1>5, <2>5
  <2> QED BY <2>2, <2>3, <2>6
<1>9. Reading(saw, q.sensor, previous)
  BY <1>6, <1>8 DEF Reading
<1>10. /\ r.phase = "calibration" /\ r.saw = saw /\ r.sensor = q.sensor
       /\ r.previous = previous
  OBVIOUS
<1> HIDE DEF previous, saw, q
<1>11. r \in Request
  BY <1>2, <1>6, <1>7 DEF Request
<1> HIDE DEF r
<1>12. RequestOK(r) /\ ReadingOK(r) /\ ~Pending(r)
  BY <1>9, <1>10 DEF RequestOK, ReadingOK, Pending
<1> QED BY <1>3, <1>10, <1>11, <1>12, RequestStep DEF q

LEMMA FlushCalibrationKeeps ==
    ASSUME HistoryInv, NEW t \in Thread, FlushCalibration(t) PROVE HistoryInv'
<1> DEFINE q == request[t]
           row == [id |-> now, sensor |-> q.sensor, previous |-> q.previous,
                   new |-> q.new, operator |-> q.user, performed_at |-> now,
                   saw |-> q.saw]
           r == [phase |-> "insert calibration", user |-> q.user, row |-> row]
<1>1. q.phase = "calibration" /\ q \in Request /\ now \in Nat /\ ReadingOK(q)
  BY HistoryFacts DEF FlushCalibration
<1>2. /\ q.user \in Admin /\ q.sensor \in Sensor /\ q.new \in Coefficients
      /\ q.previous \in Coefficients \cup {DefaultCoefficients} /\ q.saw \in SUBSET Nat
  <2>1. q \in [phase : {"calibration"}, user : Admin, sensor : Sensor, new : Coefficients,
               previous : Coefficients \cup {DefaultCoefficients}, saw : SUBSET Nat]
    BY <1>1, RequestFacts
  <2> QED BY <2>1
<1>3. /\ request' = [request EXCEPT ![t] = r] /\ UNCHANGED <<accountVars, rowVars>>
      /\ now' = now + 1
  BY DEF FlushCalibration, Proceed
<1>4. /\ row.id = now /\ row.performed_at = now /\ row.operator = q.user
      /\ row.saw = q.saw /\ row.sensor = q.sensor /\ row.previous = q.previous
      /\ r.phase = "insert calibration" /\ r.row = row /\ r.user = q.user
  OBVIOUS
<1>5. Reading(q.saw, q.sensor, q.previous)
  BY <1>1 DEF ReadingOK
<1>6. \A n \in q.saw : n < now
  <2>1. q.saw \subseteq Ids /\ Ids \subseteq Used
    BY <1>5 DEF Reading, Used
  <2>2. \A n \in Used : n < now
    BY HistoryFacts DEF StampInv
  <2> QED BY <2>1, <2>2
<1> HIDE DEF q
<1>7. row \in CalibrationRow
  BY <1>1, <1>2 DEF CalibrationRow
<1> HIDE DEF row
<1>8. r \in Request
  BY <1>2, <1>7 DEF Request
<1> HIDE DEF r
<1>9. RowReading(row)
  BY <1>4, <1>5, <1>6 DEF RowReading
<1>10. RequestOK(r) /\ ReadingOK(r) /\ Stamp(r) = now
  BY <1>4, <1>9 DEF RequestOK, ReadingOK, Stamp
<1> QED BY <1>3, <1>4, <1>8, <1>10, RequestStep DEF q

LEMMA FlushMaintenanceKeeps ==
    ASSUME HistoryInv, NEW t \in Thread, FlushMaintenance(t) PROVE HistoryInv'
<1> DEFINE q == request[t]
           row == [id |-> now, status |-> q.status, performed_at |-> q.performed_at,
                   next_due_at |-> q.next_due_at, created_by |-> q.user,
                   updated_at |-> now]
           r == [phase |-> "insert maintenance", user |-> q.user, row |-> row]
<1>1. q.phase = "maintenance" /\ q \in Request /\ now \in Nat /\ RequestOK(q)
  BY HistoryFacts DEF FlushMaintenance
<1>2. /\ q.user \in User /\ q.status \in Status /\ q.performed_at \in Day
      /\ q.next_due_at \in Day \cup {NoDay}
  <2>1. q \in [phase : {"maintenance"}, user : User, status : Status, performed_at : Day,
               next_due_at : Day \cup {NoDay}]
    BY <1>1, RequestFacts
  <2> QED BY <2>1
<1>3. /\ request' = [request EXCEPT ![t] = r] /\ UNCHANGED <<accountVars, rowVars>>
      /\ now' = now + 1
  BY DEF FlushMaintenance, Proceed
<1>4. /\ row.id = now /\ row.updated_at = now /\ row.created_by = q.user
      /\ row.performed_at = q.performed_at /\ row.next_due_at = q.next_due_at
      /\ r.phase = "insert maintenance" /\ r.row = row /\ r.user = q.user
  OBVIOUS
<1>5. DueAfter(q.next_due_at, q.performed_at)
  BY <1>1 DEF RequestOK
<1> HIDE DEF q
<1>6. row \in MaintenanceRow
  BY <1>1, <1>2 DEF MaintenanceRow
<1> HIDE DEF row
<1>7. r \in Request
  BY <1>2, <1>6 DEF Request
<1> HIDE DEF r
<1>8. RequestOK(r) /\ ReadingOK(r) /\ Stamp(r) = now
  BY <1>4, <1>5 DEF RequestOK, ReadingOK, Stamp
<1> QED BY <1>3, <1>4, <1>7, <1>8, RequestStep DEF q

\* An id that a stored row has is that of one row.
LEMMA RowOfFacts ==
    ASSUME TypeOK, NEW id, \E row \in maintenance : row.id = id
    PROVE  /\ RowOf(id) \in maintenance /\ RowOf(id).id = id
           /\ \A row \in maintenance : row.id = id => row = RowOf(id)
BY DEF TypeOK, RowOf

LEMMA ReadMaintenanceKeeps ==
    ASSUME HistoryInv, NEW t \in Thread, ReadMaintenance(t) PROVE HistoryInv'
<1> DEFINE q == request[t]
           read == RowOf(q.target)
           row == [Applied(read, q.change) EXCEPT !.updated_at = now]
           r == [phase |-> "save", user |-> q.user, read |-> read, row |-> row]
<1>1. /\ q.phase = "update" /\ q \in Request /\ now \in Nat /\ RequestOK(q) /\ TypeOK
      /\ maintenance \subseteq MaintenanceRow
  BY HistoryFacts DEF ReadMaintenance
<1>2. q.user \in User /\ q.target \in Nat /\ q.change \in Change
  <2>1. q \in [phase : {"update"}, user : User, target : Nat, change : Change]
    BY <1>1, RequestFacts
  <2> QED BY <2>1
<1>3. \E x \in maintenance : x.id = q.target
  BY <1>1 DEF RequestOK
<1>4. /\ read \in maintenance /\ read \in MaintenanceRow /\ read.id = q.target
      /\ \A x \in maintenance : x.id = q.target => x = read
  BY <1>1, <1>3, RowOfFacts
<1>5. CASE UpdateAllowed(read, q.change)
  <2>1. /\ request' = [request EXCEPT ![t] = r] /\ UNCHANGED <<accountVars, rowVars>>
        /\ now' = now + 1
    BY <1>5 DEF ReadMaintenance, Proceed
  <2> HIDE DEF q, read
  <2>2. /\ row \in MaintenanceRow /\ row.id = read.id
        /\ row.performed_at = read.performed_at /\ row.created_by = read.created_by
        /\ row.updated_at = now
        /\ row.next_due_at = Applied(read, q.change).next_due_at
    BY <1>1, <1>2, <1>4, AppliedFacts
  <2>3. DueAfter(row.next_due_at, row.performed_at)
    BY <1>5, <2>2 DEF UpdateAllowed
  <2>4. r.phase = "save" /\ r.read = read /\ r.row = row
    OBVIOUS
  <2> HIDE DEF row
  <2>5. r \in Request
    BY <1>2, <1>4, <2>2 DEF Request
  <2> HIDE DEF r
  <2>6. RequestOK(r)
    BY <1>4, <2>2, <2>3, <2>4 DEF RequestOK
  <2>7. ReadingOK(r) /\ Stamp(r) = now
    BY <2>2, <2>4 DEF ReadingOK, Stamp
  <2> QED BY <1>4, <2>1, <2>4, <2>5, <2>6, <2>7, RequestStep DEF q
<1>6. CASE ~UpdateAllowed(read, q.change)
  <2>1. /\ request' = [request EXCEPT ![t] = Idle] /\ UNCHANGED <<accountVars, rowVars>>
        /\ now' = now
    BY <1>6 DEF ReadMaintenance, Proceed
  <2> QED BY <2>1, IdleFacts, RequestStep
<1> QED BY <1>5, <1>6

LEMMA FailKeeps ==
    ASSUME HistoryInv, NEW t \in Thread, Fail(t) PROVE HistoryInv'
<1>1. /\ request' = [request EXCEPT ![t] = Idle] /\ UNCHANGED <<accountVars, rowVars>>
      /\ now' = now
  BY DEF Fail
<1> QED BY <1>1, IdleFacts, RequestStep

-----------------------------------------------------------------------------
(* Commits                                                                  *)

\* The reading of the clock goes from the request into the row.
LEMMA CommitStamps ==
    ASSUME HistoryInv, NEW t \in Thread, Pending(request[t]),
           request' = [request EXCEPT ![t] = Idle], now' = now,
           Used' \subseteq Used \cup {Stamp(request[t])}
    PROVE  StampInv'
<1>1. StampInv /\ request \in [Thread -> Request]
  BY HistoryFacts
<1>2. /\ \A u \in Thread : u # t => request'[u] = request[u]
      /\ request'[t].phase = "idle" /\ ~Pending(request'[t])
  BY <1>1, IdleFacts
<1>3. /\ Stamp(request[t]) < now
      /\ \A u \in Thread : u # t /\ Pending(request[u]) =>
                Stamp(request[u]) # Stamp(request[t])
  BY <1>1 DEF StampInv
<1>4. \A n \in Used' : n < now'
  BY <1>1, <1>3 DEF StampInv
<1>5. ASSUME NEW u \in Thread, Pending(request'[u])
      PROVE  /\ Stamp(request'[u]) < now' /\ Stamp(request'[u]) \notin Used'
             /\ \A v \in Thread : v # u /\ Pending(request'[v]) =>
                    Stamp(request'[v]) # Stamp(request'[u])
             /\ \A v \in Thread : request'[v].phase = "save" =>
                    request'[v].read.updated_at # Stamp(request'[u])
  <2>1. u # t /\ request'[u] = request[u] /\ Pending(request[u])
    BY <1>2, <1>5
  <2>2. /\ Stamp(request[u]) < now /\ Stamp(request[u]) \notin Used
        /\ \A v \in Thread : v # u /\ Pending(request[v]) =>
                Stamp(request[v]) # Stamp(request[u])
        /\ \A v \in Thread : request[v].phase = "save" =>
                request[v].read.updated_at # Stamp(request[u])
    BY <1>1, <2>1 DEF StampInv
  <2> QED BY <1>2, <1>3, <2>1, <2>2
<1>6. \A u \in Thread : request'[u].phase = "save" => request'[u].read.updated_at < now'
  BY <1>1, <1>2 DEF StampInv
<1> QED BY <1>4, <1>5, <1>6 DEF StampInv

\* A commit ends its request and leaves the accounts alone.
LEMMA CommitShape ==
    ASSUME HistoryInv, NEW t \in Thread,
           request' = [request EXCEPT ![t] = Idle], now' = now,
           UNCHANGED accountVars,
           calibrations' \subseteq CalibrationRow, maintenance' \subseteq MaintenanceRow,
           edits' \subseteq [user : User, id : Nat, at : Nat]
    PROVE  ShapeInv'
<1>1. /\ request \in [Thread -> Request] /\ now \in Nat /\ AccountsTypeOK
  BY HistoryFacts DEF ShapeInv
<1>2. request' \in [Thread -> Request]
  BY <1>1, IdleFacts
<1>3. AccountsTypeOK'
  BY <1>1 DEF AccountsTypeOK, accountVars
<1> QED BY <1>1, <1>2, <1>3 DEF ShapeInv

\* What a request read goes on to be what was there: a row that is added later
\* has an id that it did not see.
LEMMA ReadingKept ==
    ASSUME NEW row, calibrations' = calibrations \cup {row}, row.id \notin Ids
    PROVE  /\ \A saw, sensor, previous :
                Reading(saw, sensor, previous) => Reading(saw, sensor, previous)'
           /\ \A x : RowReading(x) => RowReading(x)'
           /\ \A r : ReadingOK(r) => ReadingOK(r)'
<1>1. Ids \subseteq Ids'
  BY DEF Ids
<1>2. \A s : OfSensor(s)' = OfSensor(s) \cup {x \in {row} : x.sensor = s}
  BY DEF OfSensor
<1>3. ASSUME NEW saw, NEW sensor, NEW previous, Reading(saw, sensor, previous)
      PROVE  Reading(saw, sensor, previous)'
  <2>1. saw \subseteq Ids /\ row.id \notin saw
    BY <1>3 DEF Reading
  <2>2. ASSUME NEW x \in OfSensor(sensor)', x.id \in saw,
               \A other \in OfSensor(sensor)' : other.id \in saw => other.id <= x.id
        PROVE  previous = x.new
    <3>1. x \in OfSensor(sensor)
      BY <1>2, <2>1, <2>2
    <3>2. \A other \in OfSensor(sensor) : other.id \in saw => other.id <= x.id
      BY <1>2, <2>2
    <3> QED BY <1>3, <2>2, <3>1, <3>2 DEF Reading
  <2> QED BY <1>1, <2>1, <2>2 DEF Reading
<1>4. \A x : RowReading(x) => RowReading(x)'
  BY <1>3 DEF RowReading
<1> QED BY <1>3, <1>4 DEF ReadingOK

LEMMA CommitCalibrationKeeps ==
    ASSUME HistoryInv, NEW t \in Thread, CommitCalibration(t) PROVE HistoryInv'
<1> DEFINE q == request[t]
           e == Event(q.user, "calibration_created", q.row.id, q.row.id)
<1>1. /\ TypeOK /\ AuditMatches /\ DueAfterWork /\ ShapeInv /\ StampInv /\ RequestInv
      /\ q \in Request /\ RequestOK(q) /\ ReadingOK(q) /\ request \in [Thread -> Request]
      /\ calibrations \subseteq CalibrationRow /\ maintenance \subseteq MaintenanceRow
  BY HistoryFacts
<1>2. /\ q.phase = "insert calibration"
      /\ calibrations' = calibrations \cup {q.row} /\ audit' = audit \cup {e}
      /\ request' = [request EXCEPT ![t] = Idle]
      /\ maintenance' = maintenance /\ edits' = edits /\ now' = now /\ UNCHANGED accountVars
  BY DEF CommitCalibration, Proceed
<1>3. q.row \in CalibrationRow /\ q.user \in Admin
  <2>1. q \in [phase : {"insert calibration"}, user : Admin, row : CalibrationRow]
    BY <1>1, <1>2, RequestFacts
  <2> QED BY <2>1
<1>4. /\ q.row.operator = q.user /\ RowReading(q.row) /\ Pending(q)
      /\ Stamp(q) = q.row.id
  BY <1>1, <1>2 DEF RequestOK, ReadingOK, Pending, Stamp
<1>5. q.row.id \notin Used /\ q.row.id \notin Ids
  BY <1>1, <1>4 DEF StampInv, Used
<1>6. Used' = Used \cup {Stamp(q)}
  BY <1>2, <1>4 DEF Used, Ids
<1>7. StampInv'
  BY <1>2, <1>4, <1>6, CommitStamps
<1>8. ShapeInv'
  BY <1>1, <1>2, <1>3, CommitShape DEF ShapeInv
<1>9. RequestInv'
  <2>1. /\ \A x : RowReading(x) => RowReading(x)'
        /\ \A r : ReadingOK(r) => ReadingOK(r)'
    BY <1>2, <1>5, ReadingKept
  <2>2. \A r : RequestOK(r)' <=> RequestOK(r)
    BY <1>2 DEF RequestOK
  <2>3. \A u \in Thread : request'[u] = IF u = t THEN Idle ELSE request[u]
    BY <1>1, <1>2
  <2>4. \A u \in Thread : RequestOK(request[u])' /\ ReadingOK(request[u])'
    BY <1>1, <2>1, <2>2, <2>3, IdleFacts DEF RequestInv
  <2>5. \A x \in calibrations' : RowReading(x)'
    BY <1>1, <1>2, <1>4, <2>1 DEF RequestInv
  <2> QED BY <2>4, <2>5 DEF RequestInv
<1>10. TypeOK'
  <2>1. (\A row, other \in maintenance : row.id = other.id => row = other)'
    BY <1>1, <1>2 DEF TypeOK
  <2>2. (\A row, other \in calibrations : row.id = other.id => row = other)'
    <3>1. \A row \in calibrations : row.id # q.row.id
      BY <1>5 DEF Ids
    <3> QED BY <1>1, <1>2, <3>1 DEF TypeOK
  <2> QED BY <1>8, <1>9, <2>1, <2>2, TypeFromShape
<1>11. AuditMatches'
  <2>1. \A row \in calibrations' :
            Event(row.operator, "calibration_created", row.id, row.id) \in audit'
    BY <1>1, <1>2, <1>4 DEF AuditMatches
  <2>2. \A row \in maintenance' :
            /\ Event(row.created_by, "maintenance_created", row.id, row.id) \in audit'
            /\ row.updated_at # row.id =>
                \E c \in edits' : c.id = row.id /\ c.at = row.updated_at
    BY <1>1, <1>2 DEF AuditMatches
  <2>3. \A x \in audit' :
            \/ \E row \in calibrations' :
                    x = Event(row.operator, "calibration_created", row.id, row.id)
            \/ \E row \in maintenance' :
                    x = Event(row.created_by, "maintenance_created", row.id, row.id)
            \/ \E c \in edits' : x = Event(c.user, "maintenance_updated", c.id, c.at)
    BY <1>1, <1>2, <1>4 DEF AuditMatches
  <2>4. /\ \A c \in edits' : Event(c.user, "maintenance_updated", c.id, c.at) \in audit'
        /\ \A c, d \in edits' : c.at = d.at => c = d
    BY <1>1, <1>2 DEF AuditMatches
  <2> QED BY <2>1, <2>2, <2>3, <2>4 DEF AuditMatches
<1>12. DueAfterWork'
  BY <1>1, <1>2 DEF DueAfterWork
<1> QED BY <1>7, <1>8, <1>9, <1>10, <1>11, <1>12 DEF HistoryInv, RecordsInv

LEMMA CommitMaintenanceKeeps ==
    ASSUME HistoryInv, NEW t \in Thread, CommitMaintenance(t) PROVE HistoryInv'
<1> DEFINE q == request[t]
           e == Event(q.user, "maintenance_created", q.row.id, q.row.id)
<1>1. /\ TypeOK /\ AuditMatches /\ DueAfterWork /\ ShapeInv /\ StampInv /\ RequestInv
      /\ q \in Request /\ RequestOK(q) /\ request \in [Thread -> Request]
      /\ calibrations \subseteq CalibrationRow /\ maintenance \subseteq MaintenanceRow
  BY HistoryFacts
<1>2. /\ q.phase = "insert maintenance"
      /\ maintenance' = maintenance \cup {q.row} /\ audit' = audit \cup {e}
      /\ request' = [request EXCEPT ![t] = Idle]
      /\ calibrations' = calibrations /\ edits' = edits /\ now' = now /\ UNCHANGED accountVars
  BY DEF CommitMaintenance, Proceed
<1>3. q.row \in MaintenanceRow
  <2>1. q \in [phase : {"insert maintenance"}, user : User, row : MaintenanceRow]
    BY <1>1, <1>2, RequestFacts
  <2> QED BY <2>1
<1>4. /\ q.row.created_by = q.user /\ q.row.updated_at = q.row.id
      /\ DueAfter(q.row.next_due_at, q.row.performed_at)
      /\ Pending(q) /\ Stamp(q) = q.row.id
  BY <1>1, <1>2 DEF RequestOK, Pending, Stamp
<1>5. q.row.id \notin Used /\ (\A row \in maintenance : row.id # q.row.id)
  BY <1>1, <1>4 DEF StampInv, Used
<1>6. Used' = Used \cup {Stamp(q)}
  BY <1>2, <1>4 DEF Used, Ids
<1>7. StampInv'
  BY <1>2, <1>4, <1>6, CommitStamps
<1>8. ShapeInv'
  BY <1>1, <1>2, <1>3, CommitShape DEF ShapeInv
<1>9. RequestInv'
  <2>1. /\ \A x : RowReading(x)' <=> RowReading(x)
        /\ \A r : ReadingOK(r)' <=> ReadingOK(r)
    BY <1>2 DEF RowReading, ReadingOK, Reading, Ids, OfSensor
  <2>2. \A r : RequestOK(r) => RequestOK(r)'
    BY <1>2, <1>5 DEF RequestOK
  <2>3. \A u \in Thread : request'[u] = IF u = t THEN Idle ELSE request[u]
    BY <1>1, <1>2
  <2>4. \A u \in Thread : RequestOK(request[u])' /\ ReadingOK(request[u])'
    BY <1>1, <2>1, <2>2, <2>3, IdleFacts DEF RequestInv
  <2>5. \A x \in calibrations' : RowReading(x)'
    BY <1>1, <1>2, <2>1 DEF RequestInv
  <2> QED BY <2>4, <2>5 DEF RequestInv
<1>10. TypeOK'
  <2>1. (\A row, other \in calibrations : row.id = other.id => row = other)'
    BY <1>1, <1>2 DEF TypeOK
  <2>2. (\A row, other \in maintenance : row.id = other.id => row = other)'
    BY <1>1, <1>2, <1>5 DEF TypeOK
  <2> QED BY <1>8, <1>9, <2>1, <2>2, TypeFromShape
<1>11. AuditMatches'
  <2>1. \A row \in calibrations' :
            Event(row.operator, "calibration_created", row.id, row.id) \in audit'
    BY <1>1, <1>2 DEF AuditMatches
  <2>2. \A row \in maintenance' :
            /\ Event(row.created_by, "maintenance_created", row.id, row.id) \in audit'
            /\ row.updated_at # row.id =>
                \E c \in edits' : c.id = row.id /\ c.at = row.updated_at
    BY <1>1, <1>2, <1>4 DEF AuditMatches
  <2>3. \A x \in audit' :
            \/ \E row \in calibrations' :
                    x = Event(row.operator, "calibration_created", row.id, row.id)
            \/ \E row \in maintenance' :
                    x = Event(row.created_by, "maintenance_created", row.id, row.id)
            \/ \E c \in edits' : x = Event(c.user, "maintenance_updated", c.id, c.at)
    BY <1>1, <1>2, <1>4 DEF AuditMatches
  <2>4. /\ \A c \in edits' : Event(c.user, "maintenance_updated", c.id, c.at) \in audit'
        /\ \A c, d \in edits' : c.at = d.at => c = d
    BY <1>1, <1>2 DEF AuditMatches
  <2> QED BY <2>1, <2>2, <2>3, <2>4 DEF AuditMatches
<1>12. DueAfterWork'
  BY <1>1, <1>2, <1>4 DEF DueAfterWork
<1> QED BY <1>7, <1>8, <1>9, <1>10, <1>11, <1>12 DEF HistoryInv, RecordsInv

\* The row that a commit leaves in place of the stored one.
LEMMA UpdateFacts ==
    ASSUME HistoryInv, NEW t \in Thread, CommitUpdate(t)
    PROVE  LET q == request[t]
               stored == RowOf(q.row.id)
           IN  \E saved \in MaintenanceRow :
                /\ stored \in maintenance /\ stored.id = q.row.id
                /\ \A row \in maintenance : row.id = q.row.id => row = stored
                /\ maintenance' = (maintenance \ {stored}) \cup {saved}
                /\ audit' = audit \cup {Event(q.user, "maintenance_updated", q.row.id, Stamp(q))}
                /\ edits' = edits \cup {[user |-> q.user, id |-> q.row.id, at |-> Stamp(q)]}
                /\ request' = [request EXCEPT ![t] = Idle]
                /\ calibrations' = calibrations /\ now' = now /\ UNCHANGED accountVars
                /\ saved.id = stored.id /\ saved.created_by = stored.created_by
                /\ saved.performed_at = stored.performed_at
                /\ saved.updated_at = Stamp(q) /\ Pending(q)
                /\ Stamp(q) \notin Used
                /\ DueAfter(saved.next_due_at, saved.performed_at)
                /\ stored.updated_at = q.read.updated_at => saved = q.row
<1> DEFINE q == request[t]
           stored == RowOf(q.row.id)
           saved == [c \in DOMAIN stored |->
                        IF c \in Written(q.read, q.row) THEN q.row[c] ELSE stored[c]]
<1>1. /\ TypeOK /\ DueAfterWork /\ StampInv /\ q \in Request /\ RequestOK(q)
      /\ maintenance \subseteq MaintenanceRow
  BY HistoryFacts
<1>2. /\ q.phase = "save"
      /\ maintenance' = (maintenance \ {stored}) \cup {saved}
      /\ audit' = audit \cup {Event(q.user, "maintenance_updated", q.row.id, Stamp(q))}
      /\ edits' = edits \cup {[user |-> q.user, id |-> q.row.id, at |-> Stamp(q)]}
      /\ request' = [request EXCEPT ![t] = Idle]
      /\ calibrations' = calibrations /\ now' = now /\ UNCHANGED accountVars
  BY DEF CommitUpdate, Proceed, Stamp
<1>3. q.row \in MaintenanceRow /\ q.read \in MaintenanceRow
  <2>1. q \in [phase : {"save"}, user : User, read : MaintenanceRow, row : MaintenanceRow]
    BY <1>1, <1>2, RequestFacts
  <2> QED BY <2>1
<1>4. /\ q.row.id = q.read.id /\ q.row.performed_at = q.read.performed_at
      /\ q.row.created_by = q.read.created_by
      /\ DueAfter(q.row.next_due_at, q.row.performed_at)
      /\ \E row \in maintenance : row.id = q.row.id
      /\ \A row \in maintenance : row.id = q.row.id =>
            /\ row.performed_at = q.row.performed_at
            /\ row.updated_at = q.read.updated_at => row = q.read
  BY <1>1, <1>2 DEF RequestOK
<1>5. /\ stored \in maintenance /\ stored.id = q.row.id /\ stored \in MaintenanceRow
      /\ \A row \in maintenance : row.id = q.row.id => row = stored
  BY <1>1, <1>4, RowOfFacts
<1>6. /\ Pending(q) /\ Stamp(q) = q.row.updated_at /\ Stamp(q) \notin Used
      /\ q.read.updated_at # q.row.updated_at
  BY <1>1, <1>2 DEF StampInv, Pending, Stamp
<1>7. /\ saved \in MaintenanceRow
      /\ saved.id = stored.id /\ saved.performed_at = stored.performed_at
      /\ saved.created_by = stored.created_by
      /\ saved.updated_at = q.row.updated_at
      /\ saved.next_due_at \in {q.row.next_due_at, stored.next_due_at}
      /\ stored = q.read => saved = q.row
  <2> HIDE DEF q, stored
  <2> QED BY <1>3, <1>4, <1>5, <1>6, SavedFacts
<1> HIDE DEF q, stored, saved
<1>8. DueAfter(saved.next_due_at, saved.performed_at)
  BY <1>1, <1>4, <1>5, <1>7 DEF DueAfterWork
<1>9. stored.updated_at = q.read.updated_at => saved = q.row
  BY <1>4, <1>5, <1>7
<1> QED BY <1>2, <1>5, <1>6, <1>7, <1>8, <1>9 DEF q, stored

LEMMA CommitUpdateKeeps ==
    ASSUME HistoryInv, NEW t \in Thread, CommitUpdate(t) PROVE HistoryInv'
<1> DEFINE q == request[t]
           stored == RowOf(q.row.id)
           c == [user |-> q.user, id |-> q.row.id, at |-> Stamp(q)]
           e == Event(c.user, "maintenance_updated", c.id, c.at)
<1>1. /\ TypeOK /\ AuditMatches /\ DueAfterWork /\ ShapeInv /\ StampInv /\ RequestInv
      /\ q \in Request /\ RequestOK(q) /\ request \in [Thread -> Request]
      /\ calibrations \subseteq CalibrationRow /\ maintenance \subseteq MaintenanceRow
  BY HistoryFacts
<1>2. PICK saved \in MaintenanceRow :
        /\ stored \in maintenance /\ stored.id = q.row.id
        /\ \A row \in maintenance : row.id = q.row.id => row = stored
        /\ maintenance' = (maintenance \ {stored}) \cup {saved}
        /\ audit' = audit \cup {e} /\ edits' = edits \cup {c}
        /\ request' = [request EXCEPT ![t] = Idle]
        /\ calibrations' = calibrations /\ now' = now /\ UNCHANGED accountVars
        /\ saved.id = stored.id /\ saved.created_by = stored.created_by
        /\ saved.performed_at = stored.performed_at
        /\ saved.updated_at = Stamp(q) /\ Pending(q)
        /\ Stamp(q) \notin Used
        /\ DueAfter(saved.next_due_at, saved.performed_at)
  BY UpdateFacts
<1> HIDE DEF stored
<1>3. /\ stored.id \in Used /\ saved.updated_at # saved.id
      /\ c.user = q.user /\ c.id = stored.id /\ c.at = Stamp(q)
      /\ \A d \in edits : d.at # Stamp(q)
  BY <1>2 DEF Used
<1> HIDE DEF c
<1>4. Used' \subseteq Used \cup {Stamp(q)}
  <2>1. \A row \in maintenance' : row.id \in Used /\ row.updated_at \in Used \cup {Stamp(q)}
    BY <1>2, <1>3 DEF Used
  <2>2. Ids' = Ids
    BY <1>2 DEF Ids
  <2> QED BY <1>2, <1>3, <2>1, <2>2 DEF Used
<1>5. StampInv'
  BY <1>2, <1>4, CommitStamps
<1>6. ShapeInv'
  <2>1. c \in [user : User, id : Nat, at : Nat]
    <3>1. q \in [phase : {"save"}, user : User, read : MaintenanceRow, row : MaintenanceRow]
      BY <1>1, <1>2, RequestFacts DEF CommitUpdate
    <3> QED BY <1>1, <1>2, <3>1, StampIsNumber DEF c, MaintenanceRow
  <2> QED BY <1>1, <1>2, <2>1, CommitShape DEF ShapeInv
<1>7. RequestInv'
  <2>1. /\ \A x : RowReading(x)' <=> RowReading(x)
        /\ \A r : ReadingOK(r)' <=> ReadingOK(r)
    BY <1>2 DEF RowReading, ReadingOK, Reading, Ids, OfSensor
  <2>2. \A u \in Thread : request'[u] = IF u = t THEN Idle ELSE request[u]
    BY <1>1, <1>2
  <2>3. ASSUME NEW u \in Thread, u # t PROVE RequestOK(request[u])'
    <3> DEFINE r == request[u]
    <3>1. RequestOK(r)
      BY <1>1 DEF RequestInv
    <3>2. \A id : (\E row \in maintenance : row.id = id) =>
                    (\E row \in maintenance' : row.id = id)
      BY <1>2
    <3>3. ASSUME r.phase = "save", NEW row \in maintenance', row.id = r.row.id
          PROVE  /\ row.performed_at = r.row.performed_at
                 /\ row.updated_at = r.read.updated_at => row = r.read
      <4>1. CASE row = saved
        <5>1. r.read.updated_at # Stamp(q)
          BY <1>1, <1>2, <3>3 DEF StampInv
        <5>2. stored.performed_at = r.row.performed_at
          BY <1>2, <3>1, <3>3, <4>1 DEF RequestOK
        <5> QED BY <1>2, <4>1, <5>1, <5>2
      <4>2. CASE row \in maintenance
        BY <3>1, <3>3, <4>2 DEF RequestOK
      <4> QED BY <1>2, <4>1, <4>2
    <3>4. request'[u] = r
      BY <2>2, <2>3
    <3> HIDE DEF r
    <3>5. /\ r.phase = "insert calibration" =>
                r.row.operator = r.user /\ r.row.performed_at = r.row.id
          /\ r.phase = "maintenance" => DueAfter(r.next_due_at, r.performed_at)
          /\ r.phase = "insert maintenance" =>
                /\ r.row.created_by = r.user /\ r.row.updated_at = r.row.id
                /\ DueAfter(r.row.next_due_at, r.row.performed_at)
          /\ r.phase = "update" => \E row \in maintenance' : row.id = r.target
      BY <3>1, <3>2 DEF RequestOK
    <3>6. r.phase = "save" =>
            /\ r.row.id = r.read.id
            /\ r.row.performed_at = r.read.performed_at
            /\ r.row.created_by = r.read.created_by
            /\ DueAfter(r.row.next_due_at, r.row.performed_at)
            /\ \E row \in maintenance' : row.id = r.row.id
      BY <3>1, <3>2 DEF RequestOK
    <3> QED BY <3>3, <3>4, <3>5, <3>6 DEF RequestOK
  <2>4. \A u \in Thread : RequestOK(request[u])' /\ ReadingOK(request[u])'
    BY <1>1, <2>1, <2>2, <2>3, IdleFacts DEF RequestInv
  <2>5. \A x \in calibrations' : RowReading(x)'
    BY <1>1, <1>2, <2>1 DEF RequestInv
  <2> QED BY <2>4, <2>5 DEF RequestInv
<1>8. TypeOK'
  <2>1. (\A row, other \in calibrations : row.id = other.id => row = other)'
    BY <1>1, <1>2 DEF TypeOK
  <2>2. (\A row, other \in maintenance : row.id = other.id => row = other)'
    BY <1>1, <1>2 DEF TypeOK
  <2> QED BY <1>6, <1>7, <2>1, <2>2, TypeFromShape
<1>9. AuditMatches'
  <2>1. \A row \in calibrations' :
            Event(row.operator, "calibration_created", row.id, row.id) \in audit'
    BY <1>1, <1>2 DEF AuditMatches
  <2>2. ASSUME NEW row \in maintenance'
        PROVE  /\ Event(row.created_by, "maintenance_created", row.id, row.id) \in audit'
               /\ row.updated_at # row.id =>
                    \E d \in edits' : d.id = row.id /\ d.at = row.updated_at
    <3>1. CASE row = saved
      BY <1>1, <1>2, <1>3, <3>1 DEF AuditMatches
    <3>2. CASE row \in maintenance
      BY <1>1, <1>2, <3>2 DEF AuditMatches
    <3> QED BY <1>2, <3>1, <3>2
  <2>3. ASSUME NEW x \in audit'
        PROVE  \/ \E row \in calibrations' :
                    x = Event(row.operator, "calibration_created", row.id, row.id)
               \/ \E row \in maintenance' :
                    x = Event(row.created_by, "maintenance_created", row.id, row.id)
               \/ \E d \in edits' : x = Event(d.user, "maintenance_updated", d.id, d.at)
    <3>1. CASE x = e
      BY <1>2, <3>1
    <3>2. CASE x \in audit
      <4>1. \/ \E row \in calibrations :
                    x = Event(row.operator, "calibration_created", row.id, row.id)
            \/ \E row \in maintenance :
                    x = Event(row.created_by, "maintenance_created", row.id, row.id)
            \/ \E d \in edits : x = Event(d.user, "maintenance_updated", d.id, d.at)
        BY <1>1, <3>2 DEF AuditMatches
      <4> QED BY <1>2, <4>1
    <3> QED BY <1>2, <3>1, <3>2
  <2>4. /\ \A d \in edits' : Event(d.user, "maintenance_updated", d.id, d.at) \in audit'
        /\ \A d, f \in edits' : d.at = f.at => d = f
    BY <1>1, <1>2, <1>3 DEF AuditMatches
  <2> QED BY <2>1, <2>2, <2>3, <2>4 DEF AuditMatches
<1>10. DueAfterWork'
  BY <1>1, <1>2 DEF DueAfterWork
<1> QED BY <1>5, <1>6, <1>7, <1>8, <1>9, <1>10 DEF HistoryInv, RecordsInv

-----------------------------------------------------------------------------
(* Accounts                                                                 *)

\* Logins, accounts that are switched off and time that goes by change no row
\* and no request.
LEMMA AccountsApart ==
    ASSUME HistoryInv, UNCHANGED recordVars, AccountsTypeOK' PROVE HistoryInv'
<1>1. /\ TypeOK /\ AuditMatches /\ DueAfterWork /\ ShapeInv /\ StampInv /\ RequestInv
  BY DEF HistoryInv, RecordsInv
<1>2. UNCHANGED <<rowVars, request, now>>
  BY DEF recordVars
<1>3. ShapeInv'
  BY <1>1, <1>2 DEF ShapeInv, rowVars
<1>4. StampInv'
  BY <1>1, <1>2, RowsFrame DEF StampInv
<1>5. RequestInv'
  BY <1>1, <1>2, RowsFrame DEF RequestInv, rowVars
<1>6. TypeOK'
  <2>1. /\ (\A row, other \in maintenance : row.id = other.id => row = other)'
        /\ (\A row, other \in calibrations : row.id = other.id => row = other)'
    BY <1>1, <1>2 DEF TypeOK, rowVars
  <2> QED BY <1>3, <1>5, <2>1, TypeFromShape
<1> QED BY <1>1, <1>2, <1>3, <1>4, <1>5, <1>6, RowsFrame DEF HistoryInv, RecordsInv

LEMMA AccountKeeps ==
    ASSUME HistoryInv, Account PROVE HistoryInv'
<1>1. /\ AccountsTypeOK /\ UNCHANGED recordVars
  BY DEF HistoryInv, ShapeInv, Account
<1>2. AccountsTypeOK'
  BY <1>1, AccountsStep DEF Account
<1> QED BY <1>1, <1>2, AccountsApart

-----------------------------------------------------------------------------
(* Theorems on the records                                                  *)

LEMMA HistoryInit == Init => HistoryInv
<1> SUFFICES ASSUME Init PROVE HistoryInv
  OBVIOUS
<1>1. /\ calibrations = {} /\ maintenance = {} /\ audit = {} /\ edits = {} /\ now = 1
      /\ request = [t \in Thread |-> Idle]
  BY DEF Init
<1>2. AccountsTypeOK
  BY AccountsAssumption DEF Init, AccountsInit, AccountsTypeOK
<1>3. \A t \in Thread : request[t] = Idle
  BY <1>1
<1>4. \A t \in Thread : /\ request[t].phase = "idle" /\ ~Pending(request[t])
                        /\ RequestOK(request[t]) /\ ReadingOK(request[t])
  BY <1>3, IdleFacts
<1>5. ShapeInv
  BY <1>1, <1>2, IdleFacts DEF ShapeInv
<1>6. StampInv
  <2>1. Used = {}
    BY <1>1 DEF Used, Ids
  <2> QED BY <1>4, <2>1 DEF StampInv
<1>7. RequestInv
  BY <1>1, <1>4 DEF RequestInv
<1>8. TypeOK
  BY <1>1, <1>2, <1>4 DEF TypeOK
<1>9. AuditMatches /\ DueAfterWork
  BY <1>1 DEF AuditMatches, DueAfterWork
<1> QED BY <1>5, <1>6, <1>7, <1>8, <1>9 DEF HistoryInv, RecordsInv

LEMMA HistoryNext ==
    HistoryInv /\ [Next]_<<accountVars, recordVars>> => HistoryInv'
<1> SUFFICES ASSUME HistoryInv, [Next]_<<accountVars, recordVars>> PROVE HistoryInv'
  OBVIOUS
<1>1. CASE Account
  BY <1>1, AccountKeeps
<1>2. ASSUME NEW t \in Thread, Handler(t) PROVE HistoryInv'
  BY <1>2, BeginCalibrationKeeps, ReadLatestKeeps, FlushCalibrationKeeps,
     CommitCalibrationKeeps, BeginMaintenanceKeeps, FlushMaintenanceKeeps,
     CommitMaintenanceKeeps, BeginUpdateKeeps, ReadMaintenanceKeeps, CommitUpdateKeeps,
     FailKeeps DEF Handler
<1>3. CASE UNCHANGED <<accountVars, recordVars>>
  <2>1. AccountsTypeOK'
    BY <1>3 DEF HistoryInv, ShapeInv, AccountsTypeOK, accountVars
  <2> QED BY <1>3, <2>1, AccountsApart
<1> QED BY <1>1, <1>2, <1>3 DEF Next

\* Every request, row and audit event is where the handlers left it: the
\* inductive invariant of create_calibration, create_maintenance and
\* update_maintenance, under any interleaving of their statements.
THEOREM HistoryInvariant == Spec => []HistoryInv
BY HistoryInit, HistoryNext, PTL DEF Spec

\* The tables are what their models declare, every row has its audit event and
\* every event its row, however many requests end before their commit.
THEOREM RecordsAreAudited == Spec => []RecordsInv
<1>1. HistoryInv => RecordsInv
  BY DEF HistoryInv
<1> QED BY <1>1, HistoryInvariant, PTL

\* No interleaving of updates, each of which checks its own copy, leaves a due
\* date before the work it follows (update_maintenance).
THEOREM DueIsAlwaysAfterWork == Spec => []DueAfterWork
<1>1. HistoryInv => DueAfterWork
  BY DEF HistoryInv
<1> QED BY <1>1, HistoryInvariant, PTL

\* A calibration's previous coefficients are those of the one before it, if
\* create_calibration could see it when it read.
THEOREM ChainIsUnbroken == Spec => []ChainUnbroken
<1>1. HistoryInv => ChainUnbroken
  <2> SUFFICES ASSUME HistoryInv,
                      NEW row \in calibrations,
                      NEW last \in OfSensor(row.sensor),
                      last.performed_at < row.performed_at,
                      \A other \in OfSensor(row.sensor) :
                        other.performed_at < row.performed_at =>
                            other.performed_at <= last.performed_at,
                      last.id \in row.saw
               PROVE  row.previous = last.new
    BY DEF ChainUnbroken
  <2>1. /\ RowReading(row)
        /\ \A other \in calibrations : other.performed_at = other.id
    BY DEF HistoryInv, RequestInv, RowReading
  <2>2. OfSensor(row.sensor) \subseteq calibrations
    BY DEF OfSensor
  <2>3. \A other \in OfSensor(row.sensor) : other.id \in row.saw => other.id <= last.id
    BY <2>1, <2>2 DEF RowReading
  <2> QED BY <2>1, <2>3 DEF RowReading, Reading
<1> QED BY <1>1, HistoryInvariant, PTL

\* update_maintenance answers with the row that is stored, unless another
\* request changed it between the read and the commit.
THEOREM AnswerIsAlwaysStored == Spec => AnswerIsStored
<1> DEFINE Answered ==
        \A t \in Thread :
            request[t].phase = "save" /\ audit' # audit /\ request'[t] = Idle =>
                \/ RowOf(request[t].row.id).updated_at # request[t].read.updated_at
                \/ request[t].row \in maintenance'
<1>1. HistoryInv /\ [Next]_<<accountVars, recordVars>> =>
        [Answered]_<<accountVars, recordVars>>
  <2> SUFFICES ASSUME HistoryInv, Next, NEW t \in Thread,
                      request[t].phase = "save", audit' # audit, request'[t] = Idle
               PROVE  \/ RowOf(request[t].row.id).updated_at # request[t].read.updated_at
                      \/ request[t].row \in maintenance'
    OBVIOUS
  <2>1. PICK u \in Thread : Handler(u)
    BY DEF Next, Account, recordVars, rowVars
  <2>2. \/ CommitCalibration(u) \/ CommitMaintenance(u) \/ CommitUpdate(u)
    BY <2>1 DEF Handler, BeginCalibration, BeginMaintenance, BeginUpdate, Begin, ReadLatest,
                FlushCalibration, FlushMaintenance, ReadMaintenance, Fail, rowVars
  <2>3. request' = [request EXCEPT ![u] = Idle]
    BY <2>2 DEF CommitCalibration, CommitMaintenance, CommitUpdate, Proceed
  <2>4. request \in [Thread -> Request] /\ request[t] # Idle
    BY HistoryFacts, IdleFacts
  <2>5. u = t
    BY <2>3, <2>4
  <2>6. CommitUpdate(t)
    BY <2>2, <2>5 DEF CommitCalibration, CommitMaintenance
  <2> QED BY <2>6, UpdateFacts
<1> QED BY <1>1, HistoryInvariant, PTL DEF Spec, AnswerIsStored

-----------------------------------------------------------------------------
(* Lists of sockets and of events                                           *)

\* The members of a finite set of numbers have the places 1, 2, and so on.
LEMMA EveryPlaceIsTaken ==
    ASSUME NEW kept \in SUBSET Nat, IsFiniteSet(kept)
    PROVE  LET Place(i) == Cardinality({k \in kept : k <= i})
           IN  /\ \A i \in kept : Place(i) \in 1..Cardinality(kept)
               /\ \A i, j \in kept : Place(i) = Place(j) => i = j
               /\ \A n \in 1..Cardinality(kept) : \E i \in kept : Place(i) = n
<1> DEFINE Below(i) == {k \in kept : k <= i}
           place == [i \in kept |-> Cardinality(Below(i))]
<1>1. \A i \in kept : IsFiniteSet(Below(i)) /\ Cardinality(Below(i)) \in 1..Cardinality(kept)
  <2> SUFFICES ASSUME NEW i \in kept
               PROVE  IsFiniteSet(Below(i)) /\ Cardinality(Below(i)) \in 1..Cardinality(kept)
    OBVIOUS
  <2>1. Below(i) \in SUBSET kept /\ i \in Below(i)
    OBVIOUS
  <2> HIDE DEF Below
  <2>2. IsFiniteSet(Below(i)) /\ Cardinality(Below(i)) <= Cardinality(kept)
    BY <2>1, FS_Subset
  <2>3. Cardinality(Below(i)) \in Nat /\ Cardinality(Below(i)) # 0 /\ Cardinality(kept) \in Nat
    BY <2>1, <2>2, FS_CardinalityType, FS_EmptySet
  <2> QED BY <2>2, <2>3
<1>2. ASSUME NEW i \in kept, NEW j \in kept, i < j
      PROVE  Cardinality(Below(i)) # Cardinality(Below(j))
  <2>0. i \in Nat /\ j \in Nat /\ \A k \in kept : k \in Nat
    OBVIOUS
  <2>1. ASSUME NEW k \in Below(i) PROVE k \in Below(j)
    BY <1>2, <2>0
  <2>2. j \in Below(j) /\ j \notin Below(i)
    BY <1>2, <2>0
  <2> HIDE DEF Below
  <2>3. Below(i) \in SUBSET Below(j) /\ IsFiniteSet(Below(j)) /\ Below(i) # Below(j)
    BY <1>1, <2>1, <2>2
  <2> QED BY <2>3, FS_Subset
<1>3. \A i, j \in kept : Cardinality(Below(i)) = Cardinality(Below(j)) => i = j
  <2> HIDE DEF Below
  <2>1. \A i, j \in kept : i # j => i < j \/ j < i
    OBVIOUS
  <2> QED BY <1>2, <2>1
<1> HIDE DEF Below
<1>4. place \in Injection(kept, 1..Cardinality(kept))
  BY <1>1, <1>3 DEF Injection, IsInjective
<1>5. place \in Surjection(kept, 1..Cardinality(kept))
  <2>1. Cardinality(kept) \in Nat
    BY FS_CardinalityType
  <2>2. /\ IsFiniteSet(1..Cardinality(kept))
        /\ Cardinality(1..Cardinality(kept)) = Cardinality(kept)
    BY <2>1, FS_Interval
  <2> HIDE DEF place
  <2> QED BY <1>4, <2>2, FS_Injection
<1>6. \A n \in 1..Cardinality(kept) : \E i \in kept : Cardinality(Below(i)) = n
  BY <1>5 DEF Surjection
<1> QED BY <1>1, <1>3, <1>6 DEF Below

\* Taking sockets from a list leaves the others, and repeats none that was not repeated.
LEMMA WithoutFacts ==
    ASSUME NEW S, NEW list \in Seq(S), NEW sockets
    PROVE  /\ Without(list, sockets) \in Seq(S)
           /\ Range(Without(list, sockets)) = Range(list) \ sockets
           /\ IsInjective(list) => IsInjective(Without(list, sockets))
<1> DEFINE kept == {i \in DOMAIN list : list[i] \notin sockets}
           Place(i) == Cardinality({k \in kept : k <= i})
           At(n) == CHOOSE i \in kept : Place(i) = n
           w == [n \in 1..Cardinality(kept) |-> list[At(n)]]
<1>1. w = Without(list, sockets)
  BY DEF Without
<1>2. kept \in SUBSET Nat /\ IsFiniteSet(kept) /\ Cardinality(kept) \in Nat
      /\ kept \subseteq DOMAIN list
  <2>1. DOMAIN list = 1..Len(list) /\ Len(list) \in Nat
    OBVIOUS
  <2>2. IsFiniteSet(DOMAIN list)
    BY <2>1, FS_Interval
  <2>3. kept \in SUBSET (DOMAIN list) /\ kept \in SUBSET Nat
    BY <2>1
  <2> HIDE DEF kept
  <2> QED BY <2>2, <2>3, FS_Subset, FS_CardinalityType
<1>3. \A i \in kept : list[i] \in S /\ list[i] \notin sockets /\ list[i] \in Range(list)
  BY DEF Range
<1>4. \A x \in Range(list) \ sockets : \E i \in kept : list[i] = x
  BY DEF Range
<1> HIDE DEF kept
<1>5. /\ \A i \in kept : Place(i) \in 1..Cardinality(kept)
      /\ \A i, j \in kept : Place(i) = Place(j) => i = j
      /\ \A n \in 1..Cardinality(kept) : \E i \in kept : Place(i) = n
  BY <1>2, EveryPlaceIsTaken
<1> HIDE DEF Place
<1>6. \A n \in 1..Cardinality(kept) : At(n) \in kept /\ Place(At(n)) = n
  BY <1>5
<1>7. \A i \in kept : At(Place(i)) = i
  BY <1>5, <1>6
<1> HIDE DEF At
<1>8. w \in Seq(S) /\ DOMAIN w = 1..Cardinality(kept)
  <2>1. w \in [1..Cardinality(kept) -> S]
    BY <1>3, <1>6
  <2> QED BY <1>2, <2>1, SeqDef
<1>9. Range(w) = Range(list) \ sockets
  <2>1. ASSUME NEW x \in Range(w) PROVE x \in Range(list) \ sockets
    BY <1>3, <1>6 DEF Range
  <2>2. ASSUME NEW x \in Range(list) \ sockets PROVE x \in Range(w)
    <3>1. PICK i \in kept : list[i] = x
      BY <1>4
    <3> QED BY <1>5, <1>7, <1>8, <3>1 DEF Range
  <2> QED BY <2>1, <2>2
<1>10. IsInjective(list) => IsInjective(w)
  <2> SUFFICES ASSUME IsInjective(list), NEW m \in 1..Cardinality(kept),
                      NEW n \in 1..Cardinality(kept), w[m] = w[n]
               PROVE  m = n
    BY <1>8 DEF IsInjective
  <2>1. list[At(m)] = list[At(n)]
    OBVIOUS
  <2>2. At(m) = At(n)
    BY <1>2, <1>6, <2>1 DEF IsInjective
  <2> QED BY <1>6, <2>2
<1> QED BY <1>1, <1>8, <1>9, <1>10

\* What is left of a list when its first member is taken.
LEMMA TailFacts ==
    ASSUME NEW S, NEW list \in Seq(S), list # <<>>
    PROVE  /\ Head(list) \in S /\ Tail(list) \in Seq(S)
           /\ Range(list) = {Head(list)} \cup Range(Tail(list))
           /\ IsInjective(list) =>
                IsInjective(Tail(list)) /\ Head(list) \notin Range(Tail(list))
           /\ Increasing(list) =>
                Increasing(Tail(list)) /\ \A x \in Range(Tail(list)) : Head(list) < x
<1> DEFINE tail == Tail(list)
<1>1. /\ Len(list) \in Nat /\ Len(list) # 0 /\ DOMAIN list = 1..Len(list)
      /\ Head(list) = list[1] /\ tail \in Seq(S) /\ list[1] \in S
      /\ DOMAIN tail = 1..(Len(list) - 1)
      /\ \A i \in DOMAIN tail : tail[i] = list[i + 1]
  OBVIOUS
<1> HIDE DEF tail
<1>2. \A i \in DOMAIN tail : i + 1 \in DOMAIN list /\ i + 1 # 1 /\ 1 < i + 1
  BY <1>1
<1>3. \A i \in DOMAIN list : i = 1 \/ (i - 1 \in DOMAIN tail /\ tail[i - 1] = list[i])
  BY <1>1
<1>4. 1 \in DOMAIN list
  BY <1>1
<1>5. Range(list) = {list[1]} \cup Range(tail)
  <2>1. \A x \in Range(list) : x \in {list[1]} \cup Range(tail)
    BY <1>3 DEF Range
  <2>2. \A x \in Range(tail) : x \in Range(list)
    BY <1>1, <1>2 DEF Range
  <2>3. list[1] \in Range(list)
    BY <1>4 DEF Range
  <2> QED BY <2>1, <2>2, <2>3
<1>6. IsInjective(list) => IsInjective(tail) /\ list[1] \notin Range(tail)
  <2> SUFFICES ASSUME IsInjective(list) PROVE IsInjective(tail) /\ list[1] \notin Range(tail)
    OBVIOUS
  <2>1. ASSUME NEW i \in DOMAIN tail, NEW j \in DOMAIN tail, tail[i] = tail[j] PROVE i = j
    <3>1. list[i + 1] = list[j + 1]
      BY <1>1, <2>1
    <3>2. i + 1 = j + 1
      BY <1>2, <3>1 DEF IsInjective
    <3> QED BY <1>1, <3>2
  <2>2. ASSUME NEW i \in DOMAIN tail, tail[i] = list[1] PROVE FALSE
    BY <1>1, <1>2, <1>4, <2>2 DEF IsInjective
  <2> QED BY <2>1, <2>2 DEF IsInjective, Range
<1>7. Increasing(list) => Increasing(tail) /\ \A x \in Range(tail) : list[1] < x
  <2> SUFFICES ASSUME Increasing(list)
               PROVE  Increasing(tail) /\ \A x \in Range(tail) : list[1] < x
    OBVIOUS
  <2>1. ASSUME NEW i \in DOMAIN tail, NEW j \in DOMAIN tail, i < j PROVE tail[i] < tail[j]
    <3>1. i + 1 < j + 1
      BY <1>1, <2>1
    <3> QED BY <1>1, <1>2, <3>1 DEF Increasing
  <2>2. ASSUME NEW i \in DOMAIN tail PROVE list[1] < tail[i]
    BY <1>1, <1>2, <1>4 DEF Increasing
  <2> QED BY <2>1, <2>2 DEF Increasing, Range
<1> QED BY <1>1, <1>5, <1>6, <1>7 DEF tail

\* What is in a list when a member is added.
LEMMA AppendFacts ==
    ASSUME NEW S, NEW list \in Seq(S), NEW x \in S
    PROVE  /\ Append(list, x) \in Seq(S)
           /\ Range(Append(list, x)) = Range(list) \cup {x}
           /\ \A y : y \in Range(Append(list, x)) <=> y \in Range(list) \/ y = x
           /\ IsInjective(list) /\ x \notin Range(list) => IsInjective(Append(list, x))
           /\ Increasing(list) /\ (\A y \in Range(list) : y < x) => Increasing(Append(list, x))
<1> DEFINE new == Append(list, x)
           n == Len(list) + 1
<1>1. /\ Len(list) \in Nat /\ DOMAIN list = 1..Len(list)
      /\ new \in Seq(S) /\ DOMAIN new = 1..n /\ new[n] = x
      /\ \A i \in DOMAIN list : new[i] = list[i]
  OBVIOUS
<1> HIDE DEF new
<1>2. \A i \in DOMAIN new : i = n \/ (i \in DOMAIN list /\ i < n /\ new[i] = list[i])
  BY <1>1
<1>3. n \in DOMAIN new /\ \A i \in DOMAIN list : i \in DOMAIN new /\ i # n /\ i < n /\ ~(n < i)
  BY <1>1
<1>4. Range(new) = Range(list) \cup {x}
  <2>1. \A y \in Range(new) : y \in Range(list) \cup {x}
    BY <1>1, <1>2 DEF Range
  <2>2. \A y \in Range(list) \cup {x} : y \in Range(new)
    BY <1>1, <1>3 DEF Range
  <2> QED BY <2>1, <2>2
<1>5. IsInjective(list) /\ x \notin Range(list) => IsInjective(new)
  BY <1>1, <1>2 DEF IsInjective, Range
<1>6. Increasing(list) /\ (\A y \in Range(list) : y < x) => Increasing(new)
  <2> SUFFICES ASSUME Increasing(list), \A y \in Range(list) : y < x,
                      NEW i \in DOMAIN new, NEW j \in DOMAIN new, i < j
               PROVE  new[i] < new[j]
    BY DEF Increasing
  <2>1. i # n
    BY <1>1, <1>2
  <2>2. i \in DOMAIN list /\ new[i] = list[i] /\ list[i] < x
    BY <1>2, <2>1 DEF Range
  <2> QED BY <1>1, <1>2, <2>2 DEF Increasing
<1> QED BY <1>1, <1>4, <1>5, <1>6 DEF new

\* The empty list.
LEMMA EmptyFacts ==
    /\ \A S : <<>> \in Seq(S)
    /\ Range(<<>>) = {} /\ IsInjective(<<>>) /\ Increasing(<<>>)
BY DEF Range, IsInjective, Increasing


-----------------------------------------------------------------------------
(* Live events                                                              *)

\* The steps that leave the listener, the list and what was received alone.
LEMMA UntouchedStep ==
    ASSUME DeliveryInv, UNCHANGED <<listener, connections, received>>,
           AccountsTypeOK', faults' \in 0..MaxFaults, UNCHANGED committed,
           LiveTypeOK => socket' \in [Client -> {"none", "hello", "open", "stalled",
                                                 "gone", "closed", "leaked"}],
           \A c \in Client : /\ (socket[c] \in {"none", "closed"})
                                  <=> (socket'[c] \in {"none", "closed"})
                             /\ socket[c] = "leaked" => socket'[c] = "leaked"
                             /\ owed'[c] \subseteq owed[c]
                             /\ owed'[c] # {} => socket'[c] = "open",
           owed' \in [Client -> SUBSET (1..MaxEvents)]
    PROVE  DeliveryInv'
<1>1. LiveTypeOK'
  BY DEF DeliveryInv, LiveTypeOK, ListenerState
<1>2. ConnectionInv'
  <2>1. \A c \in listener.stale : c \in Client
    BY DEF DeliveryInv, LiveTypeOK, ListenerState
  <2> QED BY <2>1 DEF DeliveryInv, ConnectionInv
<1>3. OrderOfEvents'
  BY DEF DeliveryInv, OrderOfEvents, Ahead
<1> QED BY <1>1, <1>2, <1>3 DEF DeliveryInv

\* The types, one by one.
LEMMA LiveFacts ==
    ASSUME DeliveryInv
    PROVE  /\ committed \in Nat /\ committed <= MaxEvents /\ faults \in Nat
           /\ listener.pc \in {"down", "backoff", "listening", "sending"}
           /\ listener.inbox \in Seq(1..MaxEvents)
           /\ listener.event \in (1..MaxEvents) \cup {None}
           /\ listener.todo \in Seq(Client) /\ listener.stale \subseteq Client
           /\ connections \in Seq(Client)
           /\ \A c \in Client : received[c] \in Seq(1..MaxEvents) /\ owed[c] \subseteq 1..MaxEvents
           /\ Range(listener.inbox) \subseteq Nat
           /\ Range(listener.todo) \subseteq Client
           /\ \A c \in Client : Range(received[c]) \subseteq Nat
<1>1. /\ committed \in Nat /\ committed <= MaxEvents /\ faults \in Nat
      /\ listener.pc \in {"down", "backoff", "listening", "sending"}
      /\ listener.inbox \in Seq(1..MaxEvents)
      /\ listener.event \in (1..MaxEvents) \cup {None}
      /\ listener.todo \in Seq(Client) /\ listener.stale \subseteq Client
      /\ connections \in Seq(Client)
      /\ \A c \in Client : received[c] \in Seq(1..MaxEvents) /\ owed[c] \subseteq 1..MaxEvents
  BY LiveAssumption DEF DeliveryInv, LiveTypeOK, ListenerState
<1>2. \A S : \A list \in Seq(S) : Range(list) \subseteq S
  BY DEF Range
<1>3. 1..MaxEvents \subseteq Nat
  BY LiveAssumption
<1> QED BY <1>1, <1>2, <1>3

\* An event is committed.
LEMMA CommitStep == ASSUME DeliveryInv, Commit PROVE DeliveryInv'
<1> DEFINE e == committed + 1
           heard == listener.pc \in {"listening", "sending"}
<1>1. /\ e \in 1..MaxEvents /\ committed' = e
      /\ listener' = IF heard THEN [listener EXCEPT !.inbox = Append(@, e)] ELSE listener
      /\ owed' = [c \in Client |->
                    IF heard /\ socket[c] = "open" THEN owed[c] \cup {e} ELSE owed[c]]
      /\ UNCHANGED <<accountVars, connections, socket, received, faults>>
  BY LiveAssumption DEF Commit, DeliveryInv, LiveTypeOK
<1>2. committed \in Nat /\ committed < e /\ \A x \in Nat : x <= committed => x < e /\ x <= e
  BY DEF DeliveryInv, LiveTypeOK, ListenerState
<1>3. e \in 0..MaxEvents
  BY <1>1
<1> HIDE DEF e
<1>4. /\ listener.inbox \in Seq(1..MaxEvents) /\ Range(listener.inbox) \subseteq Nat
      /\ Increasing(listener.inbox) /\ \A x \in Range(listener.inbox) : x <= committed
  BY LiveFacts DEF DeliveryInv, OrderOfEvents
<1>5. LET new == Append(listener.inbox, e)
      IN  /\ new \in Seq(1..MaxEvents) /\ Range(new) = Range(listener.inbox) \cup {e}
          /\ Increasing(new)
  <2>1. \A x \in Range(listener.inbox) : x < e
    BY <1>2, <1>4
  <2>2. e \in 1..MaxEvents /\ listener.inbox \in Seq(1..MaxEvents)
    BY <1>1, <1>4
  <2>3. Append(listener.inbox, e) \in Seq(1..MaxEvents)
    BY <2>2, AppendFacts
  <2>4. Range(Append(listener.inbox, e)) = Range(listener.inbox) \cup {e}
    <3>1. \A y : y \in Range(Append(listener.inbox, e)) <=> y \in Range(listener.inbox) \/ y = e
      BY <2>2, AppendFacts
    <3> QED BY <3>1
  <2>5. Increasing(Append(listener.inbox, e))
    BY <1>4, <2>1, <2>2, AppendFacts, Zenon
  <2> QED BY <2>3, <2>4, <2>5
<1>6. /\ listener'.pc = listener.pc /\ listener'.event = listener.event
      /\ listener'.todo = listener.todo /\ listener'.stale = listener.stale
      /\ listener'.inbox = IF heard THEN Append(listener.inbox, e) ELSE listener.inbox
  BY <1>1 DEF DeliveryInv, LiveTypeOK, ListenerState
<1>7. LiveTypeOK'
  BY <1>1, <1>3, <1>5 DEF DeliveryInv, LiveTypeOK, ListenerState, AccountsTypeOK, accountVars
<1>8. ConnectionInv'
  BY <1>1, <1>6 DEF DeliveryInv, ConnectionInv
<1>9. OrderOfEvents'
  <2>1. /\ Increasing(listener'.inbox)
        /\ \A x \in Range(listener'.inbox) : x <= committed'
    BY <1>1, <1>2, <1>4, <1>5, <1>6
  <2>2. listener'.pc = "sending" =>
          /\ listener'.event \in 1..committed'
          /\ \A x \in Range(listener'.inbox) : listener'.event < x
    BY <1>1, <1>2, <1>5, <1>6 DEF DeliveryInv, OrderOfEvents
  <2>3. ASSUME NEW c \in Client
        PROVE  /\ Increasing(received'[c])
               /\ \A d \in Range(received'[c]) : d <= committed' /\ \A x \in Ahead(listener', c) : d < x
               /\ owed'[c] \subseteq Ahead(listener', c)
               /\ owed'[c] # {} => socket'[c] = "open"
    <3>1. Ahead(listener', c) = IF heard THEN Ahead(listener, c) \cup {e} ELSE Ahead(listener, c)
      BY <1>5, <1>6 DEF Ahead
    <3>2. Range(received[c]) \subseteq Nat
      BY LiveFacts
    <3> HIDE DEF heard
    <3> QED BY <1>1, <1>2, <3>1, <3>2 DEF DeliveryInv, OrderOfEvents
  <2> QED BY <2>1, <2>2, <2>3 DEF OrderOfEvents
<1> QED BY <1>7, <1>8, <1>9 DEF DeliveryInv

\* The session ends or begins: nothing is on its way, and nobody is owed anything.
LEMMA SessionStep ==
    ASSUME DeliveryInv, NEW pc \in {"down", "backoff", "listening"},
           listener' = [Down EXCEPT !.pc = pc], owed' = [c \in Client |-> {}],
           UNCHANGED <<accountVars, committed, connections, socket, received>>,
           faults' \in 0..MaxFaults
    PROVE  DeliveryInv'
<1>1. /\ listener' = [pc |-> pc, inbox |-> <<>>, event |-> None, todo |-> <<>>, stale |-> {}]
      /\ <<>> \in Seq(1..MaxEvents) /\ <<>> \in Seq(Client)
  BY EmptyFacts DEF Down
<1>2. LiveTypeOK'
  <2>1. AccountsTypeOK'
    BY DEF DeliveryInv, LiveTypeOK, ListenerState, AccountsTypeOK, accountVars
  <2>2. owed' \in [Client -> SUBSET (1..MaxEvents)]
    OBVIOUS
  <2>3. listener' \in ListenerState
    <3>1. \A a \in Seq(1..MaxEvents), b \in Seq(Client) :
            [pc |-> pc, inbox |-> a, event |-> None, todo |-> b, stale |-> {}]
                \in ListenerState
      BY DEF ListenerState
    <3> QED BY <1>1, <3>1, Zenon
  <2> QED BY <2>1, <2>2, <2>3 DEF DeliveryInv, LiveTypeOK, ListenerState
<1>3. ConnectionInv'
  BY <1>1, EmptyFacts DEF DeliveryInv, ConnectionInv
<1>4. OrderOfEvents'
  BY <1>1, EmptyFacts DEF DeliveryInv, OrderOfEvents, Ahead
<1> QED BY <1>2, <1>3, <1>4 DEF DeliveryInv

\* Whoever listens without a session owes nothing.
LEMMA NothingOnItsWay ==
    ASSUME DeliveryInv, listener.pc \in {"down", "backoff"}
    PROVE  owed = [c \in Client |-> {}]
<1>1. \A c \in Client : owed[c] = {}
  BY EmptyFacts DEF DeliveryInv, ConnectionInv, OrderOfEvents, Ahead
<1>2. owed \in [Client -> SUBSET (1..MaxEvents)]
  BY DEF DeliveryInv, LiveTypeOK, ListenerState
<1> QED BY <1>1, <1>2
\* A notification is taken and its broadcast begins.
LEMMA TakeNotificationStep == ASSUME DeliveryInv, TakeNotification PROVE DeliveryInv'
<1> DEFINE inbox == listener.inbox
<1>0. /\ listener.pc = "listening" /\ inbox # <<>>
      /\ listener' = [pc |-> "sending", inbox |-> Tail(inbox), event |-> Head(inbox),
                      todo |-> connections, stale |-> {}]
      /\ UNCHANGED <<accountVars, committed, connections, socket, received, owed, faults>>
  BY DEF TakeNotification
<1>1. inbox \in Seq(1..MaxEvents) /\ connections \in Seq(Client)
  BY LiveFacts
<1>2. /\ Head(inbox) \in 1..MaxEvents /\ Tail(inbox) \in Seq(1..MaxEvents)
      /\ Range(inbox) = {Head(inbox)} \cup Range(Tail(inbox))
      /\ Increasing(Tail(inbox)) /\ \A x \in Range(Tail(inbox)) : Head(inbox) < x
  BY <1>0, <1>1, TailFacts DEF DeliveryInv, OrderOfEvents
<1> HIDE DEF inbox
<1>3. LiveTypeOK'
  BY <1>0, <1>1, <1>2 DEF DeliveryInv, LiveTypeOK, ListenerState, AccountsTypeOK, accountVars
<1>4. ConnectionInv'
  BY <1>0 DEF DeliveryInv, ConnectionInv
<1>5. OrderOfEvents'
  <2>1. \A x \in Range(inbox) : x <= committed
    BY DEF DeliveryInv, OrderOfEvents, inbox
  <2>2. listener'.event \in 1..committed'
    BY <1>0, <1>2, <2>1, LiveFacts
  <2>3. ASSUME NEW c \in Client
        PROVE  Ahead(listener', c) \subseteq Ahead(listener, c) /\ (owed[c] # {} => Ahead(listener', c) = Ahead(listener, c))
    <3>1. Ahead(listener, c) = Range(inbox)
      BY <1>0 DEF Ahead, inbox
    <3>2. Ahead(listener', c) = Range(Tail(inbox)) \cup {e \in {Head(inbox)} : c \in Range(connections)}
      BY <1>0 DEF Ahead
    <3>3. owed[c] # {} => c \in Range(connections)
      BY DEF DeliveryInv, ConnectionInv, OrderOfEvents
    <3> QED BY <1>2, <3>1, <3>2, <3>3
  <2>4. \A c \in Client :
          /\ Increasing(received'[c])
          /\ \A d \in Range(received'[c]) : d <= committed' /\ \A e \in Ahead(listener', c) : d < e
          /\ owed'[c] \subseteq Ahead(listener', c)
          /\ owed'[c] # {} => socket'[c] = "open"
    BY <1>0, <2>3 DEF DeliveryInv, OrderOfEvents
  <2>5. Increasing(listener'.inbox) /\ \A e \in Range(listener'.inbox) : e <= committed'
    BY <1>0, <1>2, <2>1
  <2>6. \A e \in Range(listener'.inbox) : listener'.event < e
    BY <1>0, <1>2
  <2> QED BY <2>2, <2>4, <2>5, <2>6 DEF OrderOfEvents
<1> QED BY <1>3, <1>4, <1>5 DEF DeliveryInv

\* The socket that broadcast comes to next.
LEMMA NextSocket ==
    ASSUME DeliveryInv, listener.todo # <<>>
    PROVE  /\ Head(listener.todo) \in Client
           /\ Tail(listener.todo) \in Seq(Client) /\ IsInjective(Tail(listener.todo))
           /\ Head(listener.todo) \notin Range(Tail(listener.todo))
           /\ Range(listener.todo) = {Head(listener.todo)} \cup Range(Tail(listener.todo))
<1>1. listener.todo \in Seq(Client) /\ IsInjective(listener.todo)
  BY LiveFacts DEF DeliveryInv, ConnectionInv
<1> QED BY <1>1, TailFacts

\* Broadcast reaches its next socket.
LEMMA SendEventStep == ASSUME DeliveryInv, SendEvent PROVE DeliveryInv'
<1> DEFINE event == listener.event
<1>0. PICK c : c = Head(listener.todo)
  OBVIOUS
<1>1. /\ listener.pc = "sending" /\ listener.todo # <<>>
      /\ listener' = [listener EXCEPT !.todo = Tail(@)]
      /\ received' = IF socket[c] \in {"hello", "open"}
                     THEN [received EXCEPT ![c] = Append(@, event)] ELSE received
      /\ owed' = [owed EXCEPT ![c] = @ \ {event}]
      /\ UNCHANGED <<accountVars, committed, connections, socket, faults>>
  BY <1>0 DEF SendEvent
<1>2. /\ listener' = [listener EXCEPT !.todo = Tail(@), !.stale = listener.stale]
      /\ listener.stale \in SUBSET Client
  BY <1>1 DEF DeliveryInv, LiveTypeOK, ListenerState
<1>3. /\ c \in Client
      /\ listener' \in ListenerState
      /\ listener'.pc = "sending" /\ listener'.stale = listener.stale
      /\ listener'.inbox = listener.inbox /\ listener'.event = event
      /\ IsInjective(listener'.todo)
      /\ Ahead(listener, c) = Range(listener.inbox) \cup {event}
      /\ Ahead(listener', c) = Range(listener.inbox)
      /\ \A d \in Client : d # c => Ahead(listener', d) = Ahead(listener, d)
  <2>1. /\ c \in Client /\ Tail(listener.todo) \in Seq(Client)
        /\ IsInjective(Tail(listener.todo)) /\ c \notin Range(Tail(listener.todo))
        /\ Range(listener.todo) = {c} \cup Range(Tail(listener.todo))
    BY <1>0, <1>1, NextSocket
  <2>2. /\ listener'.pc = "sending" /\ listener'.todo = Tail(listener.todo)
        /\ listener'.stale = listener.stale
        /\ listener'.inbox = listener.inbox /\ listener'.event = event
    BY <1>1, <1>2 DEF DeliveryInv, LiveTypeOK, ListenerState
  <2>3. listener' \in ListenerState
    BY <1>2, <2>1 DEF DeliveryInv, LiveTypeOK, ListenerState
  <2>4. /\ Ahead(listener, c) = Range(listener.inbox) \cup {event}
        /\ Ahead(listener', c) = Range(listener.inbox)
        /\ \A d \in Client : d # c => Ahead(listener', d) = Ahead(listener, d)
    BY <1>1, <2>1, <2>2 DEF Ahead
  <2> QED BY <2>1, <2>2, <2>3, <2>4
<1>4. /\ event \in 1..committed /\ event \in 1..MaxEvents
      /\ \A e \in Range(listener.inbox) : event < e
  <2>1. event \in 1..committed /\ \A e \in Range(listener.inbox) : event < e
    BY <1>1 DEF DeliveryInv, OrderOfEvents
  <2>2. committed \in Nat /\ committed <= MaxEvents /\ MaxEvents \in Nat
    BY LiveFacts, LiveAssumption
  <2> QED BY <2>1, <2>2
<1> HIDE DEF event
<1>5. /\ received[c] \in Seq(1..MaxEvents) /\ Increasing(received[c])
      /\ \A d \in Range(received[c]) : d <= committed /\ \A e \in Ahead(listener, c) : d < e
      /\ owed[c] \subseteq Ahead(listener, c) /\ owed[c] \subseteq 1..MaxEvents
      /\ owed[c] # {} => socket[c] = "open"
  BY <1>3, LiveFacts DEF DeliveryInv, OrderOfEvents
<1>6. LET new == Append(received[c], event)
      IN  /\ new \in Seq(1..MaxEvents) /\ Increasing(new)
          /\ \A y : y \in Range(new) <=> y \in Range(received[c]) \/ y = event
  <2>1. \A y \in Range(received[c]) : y < event
    BY <1>3, <1>5
  <2>2. /\ received[c] \in Seq(1..MaxEvents) /\ event \in 1..MaxEvents
        /\ Increasing(received[c])
    BY <1>4, <1>5
  <2>3. Append(received[c], event) \in Seq(1..MaxEvents)
    BY <2>2, AppendFacts
  <2>4. Increasing(Append(received[c], event))
    BY <2>1, <2>2, AppendFacts
  <2>5. \A y : y \in Range(Append(received[c], event)) <=> y \in Range(received[c]) \/ y = event
    BY <2>2, AppendFacts
  <2> QED BY <2>3, <2>4, <2>5
<1>7. LiveTypeOK'
  <2>1. received' \in [Client -> Seq(1..MaxEvents)] /\ owed' \in [Client -> SUBSET (1..MaxEvents)]
    BY <1>1, <1>3, <1>6 DEF DeliveryInv, LiveTypeOK, ListenerState
  <2> QED BY <1>1, <1>3, <2>1 DEF DeliveryInv, LiveTypeOK, ListenerState, AccountsTypeOK, accountVars
<1>8. ConnectionInv'
  BY <1>1, <1>3 DEF DeliveryInv, ConnectionInv
<1>9. OrderOfEvents'
  <2>1. /\ received'[c] \in {received[c], Append(received[c], event)}
        /\ owed'[c] = owed[c] \ {event}
        /\ \A d \in Client : d # c => received'[d] = received[d] /\ owed'[d] = owed[d]
    BY <1>1, <1>3 DEF DeliveryInv, LiveTypeOK, ListenerState
  <2>2. /\ Increasing(received'[c])
        /\ \A d \in Range(received'[c]) : d <= committed' /\ \A e \in Ahead(listener', c) : d < e
    BY <1>1, <1>3, <1>4, <1>5, <1>6, <2>1
  <2>3. /\ owed'[c] \subseteq Ahead(listener', c) /\ (owed'[c] # {} => socket'[c] = "open")
    BY <1>1, <1>3, <1>5, <2>1
  <2>4. ASSUME NEW d \in Client, d # c
        PROVE  /\ Increasing(received'[d])
               /\ \A x \in Range(received'[d]) : x <= committed' /\ \A e \in Ahead(listener', d) : x < e
               /\ owed'[d] \subseteq Ahead(listener', d) /\ (owed'[d] # {} => socket'[d] = "open")
    <3>1. /\ received'[d] = received[d] /\ owed'[d] = owed[d] /\ Ahead(listener', d) = Ahead(listener, d)
          /\ committed' = committed /\ socket' = socket
      BY <1>1, <1>3, <2>1, <2>4
    <3>2. /\ Increasing(received[d])
          /\ \A x \in Range(received[d]) : x <= committed /\ \A e \in Ahead(listener, d) : x < e
          /\ owed[d] \subseteq Ahead(listener, d) /\ (owed[d] # {} => socket[d] = "open")
      BY DEF DeliveryInv, OrderOfEvents
    <3> QED BY <3>1, <3>2
  <2>5. /\ Increasing(listener'.inbox) /\ \A e \in Range(listener'.inbox) : e <= committed'
        /\ listener'.event \in 1..committed'
        /\ \A e \in Range(listener'.inbox) : listener'.event < e
    BY <1>1, <1>3, <1>4 DEF DeliveryInv, OrderOfEvents
  <2> QED BY <2>2, <2>3, <2>4, <2>5 DEF OrderOfEvents
<1> QED BY <1>7, <1>8, <1>9 DEF DeliveryInv
\* Broadcast notes a socket whose endpoint has ended: nothing is owed to it.
LEMMA SendToLeakedStep == ASSUME DeliveryInv, SendToLeaked PROVE DeliveryInv'
<1>0. PICK c : c = Head(listener.todo)
  OBVIOUS
<1>a. PICK stale : stale = listener.stale \cup {c}
  OBVIOUS
<1>1. /\ listener.pc = "sending" /\ listener.todo # <<>> /\ socket[c] = "leaked"
      /\ listener' = [listener EXCEPT !.todo = Tail(@), !.stale = @ \cup {c}]
      /\ UNCHANGED <<accountVars, committed, connections, socket, received, owed, faults>>
  BY <1>0 DEF SendToLeaked
<1>2. c \in Client /\ listener.stale \subseteq Client
  <2>1. listener.todo \in Seq(Client) /\ listener.stale \subseteq Client
    BY LiveFacts
  <2> QED BY <1>0, <1>1, <2>1, TailFacts
<1>3. stale \in SUBSET Client
      /\ listener' = [listener EXCEPT !.todo = Tail(@), !.stale = stale]
  BY <1>a, <1>1, <1>2 DEF DeliveryInv, LiveTypeOK, ListenerState
<1>4. \A d \in stale : socket[d] = "leaked"
  BY <1>a, <1>1 DEF DeliveryInv, ConnectionInv
<1>5. /\ listener' \in ListenerState
      /\ listener'.pc = "sending" /\ listener'.stale = stale
      /\ listener'.inbox = listener.inbox /\ listener'.event = listener.event
      /\ IsInjective(listener'.todo)
      /\ Ahead(listener, c) = Range(listener.inbox) \cup {listener.event}
      /\ Ahead(listener', c) = Range(listener.inbox)
      /\ \A d \in Client : d # c => Ahead(listener', d) = Ahead(listener, d)
  <2>1. /\ c \in Client /\ Tail(listener.todo) \in Seq(Client)
        /\ IsInjective(Tail(listener.todo)) /\ c \notin Range(Tail(listener.todo))
        /\ Range(listener.todo) = {c} \cup Range(Tail(listener.todo))
    BY <1>0, <1>1, NextSocket
  <2>2. /\ listener'.pc = "sending" /\ listener'.todo = Tail(listener.todo)
        /\ listener'.stale = stale
        /\ listener'.inbox = listener.inbox /\ listener'.event = listener.event
    BY <1>1, <1>3 DEF DeliveryInv, LiveTypeOK, ListenerState
  <2>3. listener' \in ListenerState
    BY <1>3, <2>1 DEF DeliveryInv, LiveTypeOK, ListenerState
  <2>4. /\ Ahead(listener, c) = Range(listener.inbox) \cup {listener.event}
        /\ Ahead(listener', c) = Range(listener.inbox)
        /\ \A d \in Client : d # c => Ahead(listener', d) = Ahead(listener, d)
    BY <1>1, <2>1, <2>2 DEF Ahead
  <2> QED BY <2>1, <2>2, <2>3, <2>4
<1>6. LiveTypeOK'
  BY <1>1, <1>5 DEF DeliveryInv, LiveTypeOK, ListenerState, AccountsTypeOK, accountVars
<1>7. ConnectionInv'
  BY <1>1, <1>4, <1>5 DEF DeliveryInv, ConnectionInv
<1>8. OrderOfEvents'
  <2>1. ASSUME NEW d \in Client
        PROVE  /\ Increasing(received'[d])
               /\ \A x \in Range(received'[d]) : x <= committed' /\ \A e \in Ahead(listener', d) : x < e
               /\ owed'[d] \subseteq Ahead(listener', d) /\ (owed'[d] # {} => socket'[d] = "open")
    <3>1. /\ Increasing(received[d])
          /\ \A x \in Range(received[d]) : x <= committed /\ \A e \in Ahead(listener, d) : x < e
          /\ owed[d] \subseteq Ahead(listener, d) /\ (owed[d] # {} => socket[d] = "open")
      BY DEF DeliveryInv, OrderOfEvents
    <3>2. Ahead(listener', d) \subseteq Ahead(listener, d) /\ (socket[d] = "open" => Ahead(listener', d) = Ahead(listener, d))
      BY <1>1, <1>5
    <3>3. \A x \in Range(received[d]) : \A e \in Ahead(listener', d) : x < e
      BY <3>1, <3>2
    <3>4. owed[d] \subseteq Ahead(listener', d)
      BY <3>1, <3>2
    <3> QED BY <1>1, <3>1, <3>3, <3>4
  <2>2. /\ Increasing(listener'.inbox) /\ \A e \in Range(listener'.inbox) : e <= committed'
        /\ listener'.event \in 1..committed'
        /\ \A e \in Range(listener'.inbox) : listener'.event < e
    BY <1>1, <1>5 DEF DeliveryInv, OrderOfEvents
  <2> QED BY <2>1, <2>2 DEF OrderOfEvents
<1> QED BY <1>6, <1>7, <1>8 DEF DeliveryInv

\* Broadcast ends: the sockets it noted leave the list.
LEMMA EndBroadcastStep == ASSUME DeliveryInv, EndBroadcast PROVE DeliveryInv'
<1>1. /\ listener.pc = "sending" /\ listener.todo = <<>>
      /\ connections' = Without(connections, listener.stale)
      /\ socket' = [c \in Client |-> IF c \in listener.stale THEN "none" ELSE socket[c]]
      /\ listener' = [Listening EXCEPT !.inbox = listener.inbox]
      /\ UNCHANGED <<accountVars, committed, received, owed, faults>>
  BY DEF EndBroadcast
<1>2. /\ connections \in Seq(Client) /\ IsInjective(connections)
      /\ Range(connections) = {c \in Client : socket[c] \notin {"none", "closed"}}
      /\ listener.inbox \in Seq(1..MaxEvents)
      /\ \A c \in listener.stale : socket[c] = "leaked"
  BY LiveFacts DEF DeliveryInv, ConnectionInv
<1>3. /\ connections' \in Seq(Client) /\ IsInjective(connections')
      /\ Range(connections') = Range(connections) \ listener.stale
  BY <1>1, <1>2, WithoutFacts
<1>4. /\ listener' = [pc |-> "listening", inbox |-> listener.inbox, event |-> None,
                      todo |-> <<>>, stale |-> {}]
      /\ <<>> \in Seq(Client)
  BY <1>1, EmptyFacts DEF Listening, Down
<1>5. LiveTypeOK'
  <2>1. \A b \in Seq(Client) :
          [pc |-> "listening", inbox |-> listener.inbox, event |-> None, todo |-> b, stale |-> {}]
              \in ListenerState
    BY <1>2 DEF ListenerState
  <2>2. listener' \in ListenerState
    BY <1>4, <2>1, Zenon
  <2> QED BY <1>1, <1>3, <2>2 DEF DeliveryInv, LiveTypeOK, ListenerState, AccountsTypeOK, accountVars
<1>6. ConnectionInv'
  <2>1. Range(connections') = {c \in Client : socket'[c] \notin {"none", "closed"}}
    BY <1>1, <1>2, <1>3
  <2> QED BY <1>3, <1>4, <2>1, EmptyFacts DEF ConnectionInv
<1>7. OrderOfEvents'
  <2>1. \A c \in Client : Ahead(listener', c) = Ahead(listener, c)
    BY <1>1, <1>4, EmptyFacts DEF Ahead
  <2>2. \A c \in Client : socket[c] = "open" => socket'[c] = "open"
    BY <1>1, <1>2
  <2> QED BY <1>1, <1>4, <2>1, <2>2 DEF DeliveryInv, OrderOfEvents
<1> QED BY <1>5, <1>6, <1>7 DEF DeliveryInv

\* A socket joins or leaves the list; the listener goes on.
LEMMA ListStep ==
    ASSUME DeliveryInv, NEW c \in Client,
           NEW old \in {"none", "gone"}, NEW new \in {"hello", "closed"},
           socket[c] = old, (old = "none") <=> (new = "hello"),
           socket' = [socket EXCEPT ![c] = new],
           connections' = IF old = "none" THEN Append(connections, c)
                          ELSE Without(connections, {c}),
           UNCHANGED <<accountVars, committed, listener, received, owed, faults>>
    PROVE  DeliveryInv'
<1>1. /\ connections \in Seq(Client) /\ IsInjective(connections)
      /\ Range(connections) = {d \in Client : socket[d] \notin {"none", "closed"}}
  BY LiveFacts DEF DeliveryInv, ConnectionInv
<1>2. /\ \A d \in Client : socket'[d] = IF d = c THEN new ELSE socket[d]
      /\ socket' \in [Client -> {"none", "hello", "open", "stalled", "gone", "closed", "leaked"}]
  BY DEF DeliveryInv, LiveTypeOK, ListenerState
<1>3. /\ connections' \in Seq(Client) /\ IsInjective(connections')
      /\ \A d : d \in Range(connections') <=>
            d \in Client /\ socket'[d] \notin {"none", "closed"}
  <2>1. CASE old = "none"
    <3>1. c \notin Range(connections)
      BY <1>1, <2>1
    <3>2. /\ Append(connections, c) \in Seq(Client) /\ IsInjective(Append(connections, c))
          /\ \A d : d \in Range(Append(connections, c)) <=> d \in Range(connections) \/ d = c
      BY <1>1, <3>1, AppendFacts
    <3> QED BY <1>1, <1>2, <2>1, <3>2
  <2>2. CASE old = "gone"
    <3>1. /\ Without(connections, {c}) \in Seq(Client) /\ IsInjective(Without(connections, {c}))
          /\ Range(Without(connections, {c})) = Range(connections) \ {c}
      BY <1>1, WithoutFacts
    <3> QED BY <1>1, <1>2, <2>2, <3>1
  <2> QED BY <2>1, <2>2
<1>4. LiveTypeOK'
  BY <1>2, <1>3 DEF DeliveryInv, LiveTypeOK, ListenerState, AccountsTypeOK, accountVars
<1>5. ConnectionInv'
  <2>1. Range(connections') = {d \in Client : socket'[d] \notin {"none", "closed"}}
    BY <1>3
  <2>2. \A d \in listener.stale : d \in Client /\ socket'[d] = "leaked"
    BY <1>2, LiveFacts DEF DeliveryInv, ConnectionInv
  <2> QED BY <1>3, <2>1, <2>2 DEF DeliveryInv, ConnectionInv
<1>6. OrderOfEvents'
  BY <1>2 DEF DeliveryInv, OrderOfEvents, Ahead
<1> QED BY <1>4, <1>5, <1>6 DEF DeliveryInv
\* Every step of the listener keeps the invariant.
LEMMA ListenerKeeps == ASSUME DeliveryInv, ListenerStep PROVE DeliveryInv'
<1>0. faults \in 0..MaxFaults
  BY DEF DeliveryInv, LiveTypeOK
<1>1. CASE Listen
  <2>1. owed' = [c \in Client |-> {}]
    <3>1. listener.pc = "down" /\ owed' = owed
      BY <1>1 DEF Listen
    <3> QED BY <3>1, NothingOnItsWay
  <2>2. listener' = [Down EXCEPT !.pc = "listening"]
    BY <1>1 DEF Listen, Listening
  <2> QED BY <1>0, <1>1, <2>1, <2>2, SessionStep DEF Listen
<1>2. CASE BackoffEnds
  <2>1. owed' = [c \in Client |-> {}]
    <3>1. listener.pc = "backoff" /\ owed' = owed
      BY <1>2 DEF BackoffEnds
    <3> QED BY <3>1, NothingOnItsWay
  <2>2. listener' = [Down EXCEPT !.pc = "down"]
    <3>1. Down.pc = "down" /\ DOMAIN Down = {"pc", "inbox", "event", "todo", "stale"}
          /\ Down = [field \in DOMAIN Down |-> Down[field]]
      BY DEF Down
    <3>2. Down = [Down EXCEPT !.pc = "down"]
      BY <3>1
    <3> QED BY <1>2, <3>2 DEF BackoffEnds
  <2> QED BY <1>0, <1>2, <2>1, <2>2, SessionStep DEF BackoffEnds
<1>3. CASE SendRaises
  BY <1>0, <1>3, SessionStep DEF SendRaises, Interrupted
<1> QED BY <1>1, <1>2, <1>3, TakeNotificationStep, SendEventStep, SendToLeakedStep,
           EndBroadcastStep DEF ListenerStep

\* Every step of a socket and its endpoint keeps the invariant.
LEMMA SocketKeeps ==
    ASSUME DeliveryInv, NEW c \in Client,
           \/ \E t \in tokens, sentAs \in {"bearer", "cookie"},
                 origin \in {None, "dashboard", "other"} : OpenSocket(c, t, sentAs, origin)
           \/ SayHello(c)
           \/ \E how \in {"gone", "stalled", "leaked"} : PeerFails(c, how)
           \/ PingTimeout(c) \/ EndpointEnds(c) \/ MayReopen(c)
    PROVE  DeliveryInv'
<1> DEFINE Socket == {"none", "hello", "open", "stalled", "gone", "closed", "leaked"}
<1>0. /\ socket \in [Client -> Socket] /\ AccountsTypeOK /\ faults \in 0..MaxFaults
      /\ owed \in [Client -> SUBSET (1..MaxEvents)]
      /\ \A d \in Client : owed[d] # {} => socket[d] = "open"
  BY DEF DeliveryInv, LiveTypeOK, OrderOfEvents
<1>1. ASSUME NEW t \in tokens, NEW sentAs, NEW origin, OpenSocket(c, t, sentAs, origin)
      PROVE  DeliveryInv'
  BY <1>1, ListStep DEF OpenSocket
<1>2. CASE EndpointEnds(c)
  BY <1>2, ListStep DEF EndpointEnds
<1>3. ASSUME NEW how \in Socket, NEW was \in Socket, socket[c] = was,
             socket' = [socket EXCEPT ![c] = how],
             (was \in {"none", "closed"}) <=> (how \in {"none", "closed"}),
             was # "leaked", was = "open" => owed'[c] = {},
             faults' \in 0..MaxFaults, owed' \in {owed, [owed EXCEPT ![c] = {}]},
             UNCHANGED <<accountVars, committed, listener, connections, received>>
      PROVE  DeliveryInv'
  <2>1. socket' \in [Client -> Socket] /\ \A d \in Client : d # c => socket'[d] = socket[d]
    BY <1>0, <1>3
  <2>2. socket'[c] = how
    BY <1>0, <1>3
  <2>3. owed' \in [Client -> SUBSET (1..MaxEvents)]
        /\ \A d \in Client : owed'[d] \subseteq owed[d]
    BY <1>0, <1>3
  <2>4. AccountsTypeOK'
    BY <1>0, <1>3 DEF AccountsTypeOK, accountVars
  <2>5. \A d \in Client :
          /\ (socket[d] \in {"none", "closed"}) <=> (socket'[d] \in {"none", "closed"})
          /\ socket[d] = "leaked" => socket'[d] = "leaked"
          /\ owed'[d] # {} => socket'[d] = "open"
    BY <1>0, <1>3, <2>1, <2>2, <2>3
  <2> QED BY <1>3, <2>1, <2>3, <2>4, <2>5, UntouchedStep
<1>4. CASE SayHello(c)
  <2>1. owed[c] = {}
    BY <1>0, <1>4 DEF SayHello
  <2> QED BY <1>0, <1>3, <1>4, <2>1 DEF SayHello
<1>5. ASSUME NEW how \in {"gone", "stalled", "leaked"}, PeerFails(c, how) PROVE DeliveryInv'
  <2>1. faults' \in 0..MaxFaults /\ owed'[c] = {}
    BY <1>0, <1>5, LiveAssumption DEF PeerFails
  <2> QED BY <1>0, <1>3, <1>5, <2>1 DEF PeerFails
<1>6. CASE PingTimeout(c)
  BY <1>0, <1>3, <1>6 DEF PingTimeout
<1>7. CASE MayReopen(c)
  BY <1>0, <1>3, <1>7 DEF MayReopen
<1> QED BY <1>1, <1>2, <1>4, <1>5, <1>6, <1>7

\* Every step keeps the invariant.
LEMMA LiveStep == ASSUME DeliveryInv, LiveNext PROVE DeliveryInv'
<1>0. faults \in 0..MaxFaults /\ AccountsTypeOK
  BY DEF DeliveryInv, LiveTypeOK
<1>1. CASE NotifiesEnds
  BY <1>0, <1>1, SessionStep DEF NotifiesEnds, Interrupted
<1>2. CASE SessionFails
  <2>1. faults' \in 0..MaxFaults
    BY <1>0, <1>2, LiveAssumption DEF SessionFails
  <2> QED BY <1>2, <2>1, SessionStep DEF SessionFails, Interrupted
<1>3. CASE RestartApi
  <2>1. /\ faults' \in 0..MaxFaults /\ <<>> \in Seq(Client) /\ <<>> \in Seq(1..MaxEvents)
        /\ listener' = [pc |-> "down", inbox |-> <<>>, event |-> None, todo |-> <<>>,
                        stale |-> {}]
    BY <1>0, <1>3, LiveAssumption, EmptyFacts DEF RestartApi, Down
  <2>2. \A a \in Seq(1..MaxEvents), b \in Seq(Client) :
          [pc |-> "down", inbox |-> a, event |-> None, todo |-> b, stale |-> {}]
              \in ListenerState
    BY DEF ListenerState
  <2>3. listener' \in ListenerState
    BY <2>1, <2>2, Zenon
  <2>4. LiveTypeOK'
    BY <1>3, <2>1, <2>3 DEF RestartApi, DeliveryInv, LiveTypeOK, AccountsTypeOK, accountVars
  <2>5. ConnectionInv'
    BY <1>3, <2>1, EmptyFacts DEF RestartApi, ConnectionInv
  <2>6. OrderOfEvents'
    BY <1>3, <2>1, EmptyFacts DEF RestartApi, DeliveryInv, OrderOfEvents, Ahead
  <2> QED BY <2>4, <2>5, <2>6 DEF DeliveryInv
<1>4. CASE Accounting
  <2>1. AccountsTypeOK' /\ UNCHANGED <<committed, liveVars, faults>>
    BY <1>0, <1>4, AccountsStep DEF Accounting
  <2>2. /\ owed \in [Client -> SUBSET (1..MaxEvents)]
        /\ \A d \in Client : owed[d] # {} => socket[d] = "open"
    BY DEF DeliveryInv, LiveTypeOK, OrderOfEvents
  <2>3. LiveTypeOK => socket' \in [Client -> {"none", "hello", "open", "stalled", "gone",
                                              "closed", "leaked"}]
    BY <2>1 DEF LiveTypeOK, liveVars
  <2> QED BY <1>0, <2>1, <2>2, <2>3, UntouchedStep DEF liveVars
<1> QED BY <1>1, <1>2, <1>3, <1>4, CommitStep, ListenerKeeps, SocketKeeps DEF LiveNext
\* The invariant holds at the start.
LEMMA LiveStart == LiveInit => DeliveryInv
<1> SUFFICES ASSUME LiveInit PROVE DeliveryInv
  OBVIOUS
<1>1. /\ listener = [pc |-> "down", inbox |-> <<>>, event |-> None, todo |-> <<>>, stale |-> {}]
      /\ committed = 0 /\ connections = <<>> /\ faults = 0
      /\ socket = [c \in Client |-> "none"] /\ received = [c \in Client |-> <<>>]
      /\ owed = [c \in Client |-> {}]
      /\ <<>> \in Seq(Client) /\ <<>> \in Seq(1..MaxEvents)
  BY EmptyFacts DEF LiveInit, Down
<1>2. AccountsTypeOK
  BY AccountsAssumption DEF LiveInit, AccountsInit, AccountsTypeOK
<1>3. listener \in ListenerState
  <2>1. \A a \in Seq(1..MaxEvents), b \in Seq(Client) :
          [pc |-> "down", inbox |-> a, event |-> None, todo |-> b, stale |-> {}]
              \in ListenerState
    BY DEF ListenerState
  <2> QED BY <1>1, <2>1, Zenon
<1>4. LiveTypeOK
  <2>1. received \in [Client -> Seq(1..MaxEvents)] /\ connections \in Seq(Client)
    BY <1>1
  <2> QED BY <1>1, <1>2, <1>3, <2>1, LiveAssumption DEF LiveTypeOK
<1>5. ConnectionInv
  BY <1>1, EmptyFacts DEF ConnectionInv
<1>6. OrderOfEvents
  BY <1>1, EmptyFacts DEF OrderOfEvents, Ahead
<1> QED BY <1>4, <1>5, <1>6 DEF DeliveryInv

\* The connections, the listener and what reaches a browser fit together at every
\* await of every task (listen_for_events, LiveConnectionManager, live_events).
THEOREM DeliveryInvariant == LiveSpec => []DeliveryInv
<1>1. DeliveryInv /\ [LiveNext]_vars => DeliveryInv'
  <2> SUFFICES ASSUME DeliveryInv, UNCHANGED vars PROVE DeliveryInv'
    BY LiveStep
  <2>1. UNCHANGED <<accountVars, committed, listener, connections, socket, received, owed, faults>>
    BY DEF vars, liveVars
  <2>2. /\ AccountsTypeOK' /\ faults \in 0..MaxFaults
        /\ owed \in [Client -> SUBSET (1..MaxEvents)]
        /\ \A d \in Client : owed[d] # {} => socket[d] = "open"
    BY <2>1 DEF DeliveryInv, LiveTypeOK, OrderOfEvents, AccountsTypeOK, accountVars
  <2>3. LiveTypeOK => socket' \in [Client -> {"none", "hello", "open", "stalled", "gone",
                                              "closed", "leaked"}]
    BY <2>1 DEF LiveTypeOK
  <2> QED BY <2>1, <2>2, <2>3, UntouchedStep
<1> QED BY <1>1, LiveStart, PTL DEF LiveSpec

\* The list has every served socket once and no other, whatever leaves it while a
\* broadcast walks over it (LiveConnectionManager.connect, disconnect, broadcast).
THEOREM ConnectionsMatchSockets == LiveSpec => []LiveInv
<1>1. DeliveryInv => LiveInv
  <2> SUFFICES ASSUME DeliveryInv, NEW c \in Client
               PROVE  Cardinality({i \in DOMAIN connections : connections[i] = c})
                        = IF socket[c] \in {"none", "closed"} THEN 0 ELSE 1
    BY DEF LiveInv, ListMatchesSockets, DeliveryInv
  <2> DEFINE places == {i \in DOMAIN connections : connections[i] = c}
  <2>1. /\ IsInjective(connections)
        /\ c \in Range(connections) <=> socket[c] \notin {"none", "closed"}
    BY DEF DeliveryInv, ConnectionInv
  <2>2. CASE socket[c] \in {"none", "closed"}
    <3>1. places = {}
      BY <2>1, <2>2 DEF Range
    <3> QED BY <2>2, <3>1, FS_EmptySet
  <2>3. CASE socket[c] \notin {"none", "closed"}
    <3>1. PICK i \in DOMAIN connections : connections[i] = c
      BY <2>1, <2>3 DEF Range
    <3>2. places = {i}
      BY <2>1, <3>1 DEF IsInjective
    <3> HIDE DEF places
    <3>3. Cardinality(places) = 1
      BY <3>2, FS_Singleton
    <3> QED BY <2>3, <3>3 DEF places
  <2> QED BY <2>2, <2>3
<1> QED BY <1>1, DeliveryInvariant, PTL

\* A browser gets every event its socket and the session stood for, in the order of
\* the commits and none twice, over lost sessions, restarts and sockets that fail
\* in the middle of a broadcast (listen_for_events, broadcast).
THEOREM EventsAlwaysArrive == LiveSpec => []EventsArrive
<1>1. DeliveryInv => InCommitOrder
  <2> SUFFICES ASSUME DeliveryInv, NEW c \in Client, NEW i \in 1..MaxEvents,
                      NEW j \in 1..MaxEvents, i < j, j <= Len(received[c])
               PROVE  received[c][i] < received[c][j]
    BY DEF InCommitOrder
  <2>1. received[c] \in Seq(1..MaxEvents) /\ Increasing(received[c])
    BY LiveFacts DEF DeliveryInv, OrderOfEvents
  <2>2. i \in DOMAIN received[c] /\ j \in DOMAIN received[c]
    BY <2>1, LiveAssumption
  <2> QED BY <2>1, <2>2 DEF Increasing
<1>2. DeliveryInv => NothingOwed
  BY EmptyFacts DEF DeliveryInv, OrderOfEvents, NothingOwed, Ahead
<1> QED BY <1>1, <1>2, DeliveryInvariant, PTL DEF EventsArrive
=============================================================================
