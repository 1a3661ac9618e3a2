------------------------------ MODULE Records ------------------------------
(***************************************************************************)
(* Calibrations, maintenance records and their audit events in the API      *)
(* (create_calibration, create_maintenance, update_maintenance and the      *)
(* lists in main.py), for one device.  A request runs in a thread of the    *)
(* server's pool with a session of its own; PostgreSQL's READ COMMITTED     *)
(* lets it see what others have committed, statement by statement, and      *)
(* nothing is locked between reading and writing.                           *)
(*                                                                          *)
(* A request that is refused (401, 403, 404, 422) changes nothing and is    *)
(* left out where it would be an action of its own.  status stands for      *)
(* status and notes, which are written alike.                               *)
(***************************************************************************)
EXTENDS Accounts

CONSTANTS
    Thread,          \* threads that handle requests
    Sensor,
    Coefficients,    \* bounded coefficients
    DefaultCoefficients,   \* {"scale": 1.0, "offset": 0.0}
    Status,
    Day,             \* dates of maintenance, numbers
    MaxRequests,     \* bound: requests
    MaxFailures,     \* bound: requests that end before their commit
    MaxLogins        \* bound: tokens handed out

NoDay == 0

ASSUME RecordsAssumption ==
    /\ Day \subseteq Nat \ {NoDay}
    /\ {MaxRequests, MaxFailures, MaxLogins} \subseteq Nat

VARIABLES
    calibrations,    \* committed rows of calibrations
    maintenance,     \* committed rows of maintenance_records
    audit,           \* committed rows of audit_events
    edits,           \* observer: the committed updates, [user, id, at]
    request,         \* request[t]: what thread t is at
    now,             \* the server's clock, and the ids: each reading is a new one
    requests, failures

rowVars == <<calibrations, maintenance, audit, edits>>
recordVars == <<rowVars, request, now, requests, failures>>

Idle == [phase |-> "idle"]

Init ==
    /\ AccountsInit
    /\ calibrations = {} /\ maintenance = {} /\ audit = {} /\ edits = {}
    /\ request = [t \in Thread |-> Idle]
    /\ now = 1
    /\ requests = 0 /\ failures = 0

Begin(t, r) ==
    /\ request[t] = Idle
    /\ requests < MaxRequests
    /\ requests' = requests + 1
    /\ request' = [request EXCEPT ![t] = r]
    /\ UNCHANGED <<accountVars, rowVars, now, failures>>

Proceed(t, r) ==
    /\ request' = [request EXCEPT ![t] = r]
    /\ UNCHANGED <<accountVars, requests, failures>>

\* An AuditEvent.  created_at is the request's own reading of the clock, so that
\* two events of one user, action and target are two rows.
Event(user, action, id, at) ==
    [actor |-> user, action |-> action, target |-> id, created_at |-> at]

-----------------------------------------------------------------------------
(* create_calibration                                                       *)

\* get_current_user, ensure_admin; the coefficients are in their bounds.
BeginCalibration(t) ==
    \E token \in tokens, s \in Sensor, c \in Coefficients :
        /\ CurrentUser(token) /\ EnsureAdmin(token)
        /\ Begin(t, [phase |-> "calibrate", user |-> token.user, sensor |-> s, new |-> c])

OfSensor(s) == {row \in calibrations : row.sensor = s}

\* Mutant: the newest calibration of any sensor.
LatestOfAny(s) ==
    {row \in calibrations : \A other \in calibrations : other.performed_at <= row.performed_at}

\* The newest committed calibration of the sensor, if there is one.
Latest(s) ==
    {row \in OfSensor(s) : \A other \in OfSensor(s) : other.performed_at <= row.performed_at}

\* saw is an observer: the rows that were there to be read.
ReadLatest(t) ==
    /\ request[t].phase = "calibrate"
    /\ LET r == request[t]
           previous == IF Latest(r.sensor) = {}
                       THEN DefaultCoefficients
                       ELSE (CHOOSE row \in Latest(r.sensor) : TRUE).new
       IN  Proceed(t, [phase |-> "calibration", user |-> r.user, sensor |-> r.sensor,
                       new |-> r.new, previous |-> previous,
                       saw |-> {row.id : row \in OfSensor(r.sensor)}])
    /\ UNCHANGED <<rowVars, now>>

\* flush: the row gets its id and its time, and nobody else sees it.
FlushCalibration(t) ==
    /\ request[t].phase = "calibration"
    /\ LET r == request[t]
       IN  Proceed(t, [phase |-> "insert calibration", user |-> r.user,
                       row |-> [id |-> now, sensor |-> r.sensor, previous |-> r.previous,
                                new |-> r.new, operator |-> r.user, performed_at |-> now,
                                saw |-> r.saw]])
    /\ now' = now + 1
    /\ UNCHANGED rowVars

CommitCalibration(t) ==
    /\ request[t].phase = "insert calibration"
    /\ LET r == request[t]
       IN  /\ calibrations' = calibrations \cup {r.row}
           /\ audit' = audit \cup {Event(r.user, "calibration_created", r.row.id, r.row.id)}
    /\ Proceed(t, Idle)
    /\ UNCHANGED <<maintenance, edits, now>>

-----------------------------------------------------------------------------
(* create_maintenance and update_maintenance                                *)

\* due_date_is_after_work
DueAfter(due, performed) == due = NoDay \/ due > performed

\* Any user; the flush is the handler's first statement that matters.
BeginMaintenance(t) ==
    \E token \in tokens, s \in Status, performed \in Day, due \in Day \cup {NoDay} :
        /\ CurrentUser(token)
        /\ DueAfter(due, performed)
        /\ Begin(t, [phase |-> "maintenance", user |-> token.user, status |-> s,
                     performed_at |-> performed, next_due_at |-> due])

FlushMaintenance(t) ==
    /\ request[t].phase = "maintenance"
    /\ LET r == request[t]
       IN  Proceed(t, [phase |-> "insert maintenance", user |-> r.user,
                       row |-> [id |-> now, status |-> r.status,
                                performed_at |-> r.performed_at,
                                next_due_at |-> r.next_due_at, created_by |-> r.user,
                                updated_at |-> now]])
    /\ now' = now + 1
    /\ UNCHANGED rowVars

CommitMaintenance(t) ==
    /\ request[t].phase = "insert maintenance"
    /\ LET r == request[t]
       IN  /\ maintenance' = maintenance \cup {r.row}
           /\ audit' = audit \cup {Event(r.user, "maintenance_created", r.row.id, r.row.id)}
    /\ Proceed(t, Idle)
    /\ UNCHANGED <<calibrations, edits, now>>

\* The changes a request may ask for: columns that are absent stay.
Changes == UNION {[columns -> Status \cup Day \cup {NoDay}] :
                    columns \in SUBSET {"status", "next_due_at"}}
Change == {change \in Changes :
            /\ "status" \in DOMAIN change => change.status \in Status
            /\ "next_due_at" \in DOMAIN change => change.next_due_at \in Day \cup {NoDay}}

BeginUpdate(t) ==
    \E token \in tokens, row \in maintenance, change \in Change :
        /\ CurrentUser(token)
        /\ Begin(t, [phase |-> "update", user |-> token.user, target |-> row.id,
                     change |-> change])

RowOf(id) == CHOOSE row \in maintenance : row.id = id

Applied(row, change) ==
    [c \in DOMAIN row |-> IF c \in DOMAIN change THEN change[c] ELSE row[c]]

\* Mutant: the row is checked before the changes are made.
UpdateAllowedBefore(row, change) == DueAfter(row.next_due_at, row.performed_at)

\* The check is on the row as it was read, with the changes.
UpdateAllowed(row, change) ==
    DueAfter(Applied(row, change).next_due_at, row.performed_at)

\* The row is read, changed and checked in memory.
ReadMaintenance(t) ==
    /\ request[t].phase = "update"
    /\ LET r == request[t]
           row == RowOf(r.target)
       IN  IF UpdateAllowed(row, r.change)
           THEN /\ Proceed(t, [phase |-> "save", user |-> r.user, read |-> row,
                               row |-> [Applied(row, r.change) EXCEPT !.updated_at = now]])
                /\ now' = now + 1
           ELSE /\ Proceed(t, Idle)
                /\ UNCHANGED now
    /\ UNCHANGED rowVars

\* Mutant: columns set to NULL are left out.
WrittenNotNull(read, row) ==
    {c \in DOMAIN row : row[c] # read[c] /\ row[c] # NoDay}

\* The UPDATE has the columns whose value differs from the one that was read.
Written(read, row) == {c \in DOMAIN row : row[c] # read[c]}

\* Mutant: the event names the user who created the record.
CommitUpdateCreator(t) ==
    /\ request[t].phase = "save"
    /\ LET r == request[t]
           stored == RowOf(r.row.id)
           saved == [c \in DOMAIN stored |->
                        IF c \in Written(r.read, r.row) THEN r.row[c] ELSE stored[c]]
       IN  /\ maintenance' = (maintenance \ {stored}) \cup {saved}
           /\ edits' = edits \cup {[user |-> r.user, id |-> r.row.id, at |-> r.row.updated_at]}
           /\ audit' = audit \cup {Event(r.row.created_by, "maintenance_updated", r.row.id,
                                       r.row.updated_at)}
    /\ Proceed(t, Idle)
    /\ UNCHANGED <<calibrations, now>>

\* commit: the columns that were changed go into the row as it is by now, and the
\* event into audit_events.
CommitUpdate(t) ==
    /\ request[t].phase = "save"
    /\ LET r == request[t]
           stored == RowOf(r.row.id)
           saved == [c \in DOMAIN stored |->
                        IF c \in Written(r.read, r.row) THEN r.row[c] ELSE stored[c]]
       IN  /\ maintenance' = (maintenance \ {stored}) \cup {saved}
           /\ edits' = edits \cup {[user |-> r.user, id |-> r.row.id, at |-> r.row.updated_at]}
           /\ audit' = audit \cup {Event(r.user, "maintenance_updated", r.row.id,
                                       r.row.updated_at)}
    /\ Proceed(t, Idle)
    /\ UNCHANGED <<calibrations, now>>

\* The process ends, or the database fails: get_db closes the session and the
\* transaction is undone.
Fail(t) ==
    /\ request[t] # Idle
    /\ failures < MaxFailures
    /\ failures' = failures + 1
    /\ request' = [request EXCEPT ![t] = Idle]
    /\ UNCHANGED <<accountVars, rowVars, now, requests>>

-----------------------------------------------------------------------------
Account ==
    /\ \/ \E u \in User : Cardinality(tokens) < MaxLogins /\ Login(u)
       \/ \E u \in User, on \in BOOLEAN : SetActive(u, on)
       \/ Minute
    /\ UNCHANGED recordVars

Handler(t) ==
    \/ BeginCalibration(t) \/ ReadLatest(t) \/ FlushCalibration(t) \/ CommitCalibration(t)
    \/ BeginMaintenance(t) \/ FlushMaintenance(t) \/ CommitMaintenance(t)
    \/ BeginUpdate(t) \/ ReadMaintenance(t) \/ CommitUpdate(t)
    \/ Fail(t)

Next == Account \/ \E t \in Thread : Handler(t)

Spec == Init /\ [][Next]_<<accountVars, recordVars>>

-----------------------------------------------------------------------------
(* Properties                                                               *)

\* The rows have the columns their models declare, an id is given once, and a
\* request to change a row has one to change.
TypeOK ==
    /\ AccountsTypeOK
    /\ \A row \in calibrations :
        /\ row.sensor \in Sensor /\ row.new \in Coefficients
        /\ row.previous \in Coefficients \cup {DefaultCoefficients}
        /\ row.operator \in Admin
    /\ \A row \in maintenance :
        /\ row.status \in Status /\ row.performed_at \in Day
        /\ row.next_due_at \in Day \cup {NoDay}
        /\ row.created_by \in User
    /\ \A row, other \in maintenance : row.id = other.id => row = other
    /\ \A row, other \in calibrations : row.id = other.id => row = other
    /\ \A t \in Thread :
        /\ request[t].phase = "update" => \E row \in maintenance : row.id = request[t].target
        /\ request[t].phase = "save" => \E row \in maintenance : row.id = request[t].row.id

\* Every create and every single update leaves an audit event of its own, by the
\* user who made it, and nothing else does: not a request that was refused, nor
\* one that failed between its flush and its commit.  An updated record shows the
\* time of one of its updates.
AuditMatches ==
    /\ \A row \in calibrations :
        Event(row.operator, "calibration_created", row.id, row.id) \in audit
    /\ \A row \in maintenance :
        /\ Event(row.created_by, "maintenance_created", row.id, row.id) \in audit
        /\ row.updated_at # row.id =>
                \E c \in edits : c.id = row.id /\ c.at = row.updated_at
    /\ \A c \in edits : Event(c.user, "maintenance_updated", c.id, c.at) \in audit
    /\ \A e \in audit :
        \/ \E row \in calibrations :
                e = Event(row.operator, "calibration_created", row.id, row.id)
        \/ \E row \in maintenance :
                e = Event(row.created_by, "maintenance_created", row.id, row.id)
        \/ \E c \in edits : e = Event(c.user, "maintenance_updated", c.id, c.at)
    /\ \A c, d \in edits : c.at = d.at => c = d

\* create_calibration keeps the history of a sensor's coefficients: a row's
\* previous coefficients are the new ones of the row before it, unless that one
\* was committed after the request had read the latest.
ChainUnbroken ==
    \A row \in calibrations :
        LET earlier == {other \in OfSensor(row.sensor) : other.performed_at < row.performed_at}
        IN  \A last \in {e \in earlier : \A o \in earlier : o.performed_at <= e.performed_at} :
                last.id \in row.saw => row.previous = last.new

\* schemas.py: "next_due_at must be after performed_at", also for a row that
\* several requests changed, each of which checked its own copy.
DueAfterWork ==
    \A row \in maintenance : DueAfter(row.next_due_at, row.performed_at)

\* update_maintenance answers with its copy of the row.  A column of the stored
\* row differs from the answer only when another request changed the row since
\* it was read.
AnswerIsStored ==
    [][\A t \in Thread :
        request[t].phase = "save" /\ audit' # audit /\ request'[t] = Idle =>
            \/ RowOf(request[t].row.id).updated_at # request[t].read.updated_at
            \/ request[t].row \in maintenance'
      ]_<<accountVars, recordVars>>

\* The tables are what their models declare, and every change has its audit event
\* and every event its change (create_calibration, create_maintenance,
\* update_maintenance).
RecordsInv == TypeOK /\ AuditMatches

-----------------------------------------------------------------------------
(* Inductive strengthening                                                  *)

CalibrationRow ==
    [id : Nat, sensor : Sensor, previous : Coefficients \cup {DefaultCoefficients},
     new : Coefficients, operator : Admin, performed_at : Nat, saw : SUBSET Nat]
MaintenanceRow ==
    [id : Nat, status : Status, performed_at : Day, next_due_at : Day \cup {NoDay},
     created_by : User, updated_at : Nat]

Request ==
    {Idle}
    \cup [phase : {"calibrate"}, user : Admin, sensor : Sensor, new : Coefficients]
    \cup [phase : {"calibration"}, user : Admin, sensor : Sensor, new : Coefficients,
          previous : Coefficients \cup {DefaultCoefficients}, saw : SUBSET Nat]
    \cup [phase : {"insert calibration"}, user : Admin, row : CalibrationRow]
    \cup [phase : {"maintenance"}, user : User, status : Status, performed_at : Day,
          next_due_at : Day \cup {NoDay}]
    \cup [phase : {"insert maintenance"}, user : User, row : MaintenanceRow]
    \cup [phase : {"update"}, user : User, target : Nat, change : Change]
    \cup [phase : {"save"}, user : User, read : MaintenanceRow, row : MaintenanceRow]

ShapeInv ==
    /\ AccountsTypeOK
    /\ calibrations \subseteq CalibrationRow
    /\ maintenance \subseteq MaintenanceRow
    /\ edits \subseteq [user : User, id : Nat, at : Nat]
    /\ request \in [Thread -> Request]
    /\ now \in Nat

Ids == {row.id : row \in calibrations}
Used ==
    Ids \cup {row.id : row \in maintenance} \cup {row.updated_at : row \in maintenance}
        \cup {c.at : c \in edits}

\* A reading of the clock that request r has taken and not committed.
Pending(r) == r.phase \in {"insert calibration", "insert maintenance", "save"}
Stamp(r) == IF r.phase = "save" THEN r.row.updated_at ELSE r.row.id

\* Each reading is in one row or in one request.
StampInv ==
    /\ \A n \in Used : n < now
    /\ \A t \in Thread : Pending(request[t]) =>
        /\ Stamp(request[t]) < now /\ Stamp(request[t]) \notin Used
        /\ \A u \in Thread : u # t /\ Pending(request[u]) =>
                Stamp(request[u]) # Stamp(request[t])
        /\ \A u \in Thread : request[u].phase = "save" =>
                request[u].read.updated_at # Stamp(request[t])
    /\ \A t \in Thread : request[t].phase = "save" => request[t].read.updated_at < now

\* What a request has in hand is the row it will commit, and agrees with the
\* stored row but for what others have committed since.
RequestOK(r) ==
    /\ r.phase = "insert calibration" =>
            r.row.operator = r.user /\ r.row.performed_at = r.row.id
    /\ r.phase = "maintenance" => DueAfter(r.next_due_at, r.performed_at)
    /\ r.phase = "insert maintenance" =>
            /\ r.row.created_by = r.user /\ r.row.updated_at = r.row.id
            /\ DueAfter(r.row.next_due_at, r.row.performed_at)
    /\ r.phase = "update" => \E row \in maintenance : row.id = r.target
    /\ r.phase = "save" =>
            /\ r.row.id = r.read.id
            /\ r.row.performed_at = r.read.performed_at
            /\ r.row.created_by = r.read.created_by
            /\ DueAfter(r.row.next_due_at, r.row.performed_at)
            /\ \E row \in maintenance : row.id = r.row.id
            /\ \A row \in maintenance : row.id = r.row.id =>
                    /\ row.performed_at = r.row.performed_at
                    /\ row.updated_at = r.read.updated_at => row = r.read

\* The newest calibration among those a request saw is the one whose new
\* coefficients it took for the previous ones.
Reading(saw, sensor, previous) ==
    /\ saw \subseteq Ids
    /\ \A row \in OfSensor(sensor) :
        (/\ row.id \in saw
         /\ \A other \in OfSensor(sensor) : other.id \in saw => other.id <= row.id)
        => previous = row.new

RowReading(row) ==
    /\ row.performed_at = row.id
    /\ Reading(row.saw, row.sensor, row.previous)
    /\ \A n \in row.saw : n < row.id

ReadingOK(r) ==
    /\ r.phase = "calibration" => Reading(r.saw, r.sensor, r.previous)
    /\ r.phase = "insert calibration" => RowReading(r.row)

RequestInv ==
    /\ \A t \in Thread : RequestOK(request[t]) /\ ReadingOK(request[t])
    /\ \A row \in calibrations : RowReading(row)

HistoryInv ==
    /\ RecordsInv /\ DueAfterWork
    /\ ShapeInv /\ StampInv /\ RequestInv
=============================================================================
