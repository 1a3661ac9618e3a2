# Verification of the industrial IoT monitoring platform

TLA+ specifications of the parts of the platform where order, failure and
concurrency decide whether it is right: on the ESP32 gateway its offline queue, its
relay and its sequence numbers; the life of a relay command; the MQTT ingestor and
the ingestion of telemetry with its threshold alarms; the requests of the API that
change state; live events; the anomaly worker's models and scoring; and the simulated
gateway.  TLC checks them on small instances (`PROJECT.json`, "runs"); TLAPS proves
every invariant that the passing runs check, and one refinement, for every value of the
constants (`*_proofs.tla`).  Paths below are relative to the repository.

    tlc -config OfflineQueue_faults.cfg MCOfflineQueue     # one run
    tlapm Ingestion_proofs.tla                             # one set of proofs

## 1. The system

| Component | State it keeps | Operations | Hard about it |
|---|---|---|---|
| Offline queue (`firmware/shared/src/iiot_core.c`, `gateway_platform.c`, `app_main.c`) | ring in memory; metadata, one slot per record and a one-record journal in NVS flash; drop counter | push, peek, pop, load at boot | resets between NVS writes, failing writes, two tasks, publishing outside the mutex |
| Relay (`app_main.c`, `gateway_platform.c`) | pin, `relay_on`, auto-off timer, `command_queue`, reboot counter in RTC memory | command, timeout, disconnect, boot, stabilise | four tasks write the relay in two steps without a lock; resets |
| Sequence allocator (`gateway_platform.c`) | block in memory, high-water mark in flash | `gateway_next_sequence` | several tasks, resets between reservation and use |
| Sampling and aggregation (`app_main.c`, `iiot_core.c`, `sensor_drivers.c`) | sample window, threshold states | add, finish, threshold update | numeric edges, missing samples |
| Configuration, provisioning (`provisioning.c`, `iiot_core.c`, `gateway_platform.c`) | configuration blob | load with fallback, dialogue, save | half-finished provisioning |
| Network (`gateway_platform.c`) | connection bits, back-off | connect, disconnect, reconnect | events in other tasks |
| Modbus register map and STM32 node (`modbus_node.c`, `stm32-modbus-node`) | registers, configuration page in flash, receive buffer | request, interrupt, save | interrupt against main loop, erase before write |
| Command lifecycle (`services/api/app/command_service.py`, `ingestion.py`, `mqtt_ingestor/main.py`) | row of `device_commands` | issue, publish, acknowledge | two processes update one row; QoS 1 repeats and loses |
| MQTT ingestor (`services/mqtt_ingestor/main.py`) | connection, ready file, rows of `error_logs` | connect, subscribe, handle, acknowledge | ends between commit and acknowledgement; clean session; retained message |
| Telemetry, health and alarm ingestion (`ingestion.py`, `api/app/main.py`) | rows of `devices`, `telemetry`, `health_snapshots`, `threshold_configs`, `alarms` | persist, evaluate, acknowledge, change thresholds | concurrent transactions, repeated messages, colliding keys |
| REST API (`api/app/main.py`, `security.py`, `schemas.py`) | users, tokens, calibrations, maintenance records, audit events | login, create, update, lists and exports | two requests at once on one row |
| Live events (`live.py`, `events.py`) | listener session, list of sockets | notify, listen, broadcast, serve a socket | gaps while the listener reconnects; sockets that fail while a list is walked |
| Anomaly worker: models (`services/anomaly_worker/modeling.py`, `worker.py`) | artefact directories, rows of `anomaly_models` | train, save, register, load, show | artefact and row written apart; two trainings of one version; stale models |
| Anomaly worker: scoring (`worker.py`, `features.py`, `sensor_rules.py`) | verdicts on rows, two alarms, rows of `error_logs` | pick targets, context, score, set alarms | batches against history; rows that appear late; passes that fail |
| Simulated gateway (`simulator/gateway_agent.py`) | relay, deadline, retained availability, sequence number | publish, time out, answer commands | two threads share the relay without a lock; restarts |
| Simulators, dashboard, migrations, scripts, hardware | generated data, sockets with retries | — | the live socket's retries |

How they interact.  The gateway's tasks share the ring under `offline_mutex`, the
relay under nothing, and three FreeRTOS queues.  Gateway and services talk through
an MQTT broker at QoS 1, so messages are repeated, and lost where a session is
clean.  The API, the ingestor and the worker share a PostgreSQL database and no lock
of their own.  A telemetry record gets its number from the sequence allocator, waits
in the offline queue, is stored by ingestion, which refuses a number that is used
twice, is scored by the worker, and is announced to the dashboards by a notification
that commits with it.  A command goes from the API to the relay and its answer comes
back by ingestion.

What makes each part correct, in a sentence.  Queue: as long as the flash
can be written, nothing is lost that is not counted, a record overtakes an older one only
where it was pushed past a full `telemetry_queue`, and a reset loses nothing that was
stored.  Relay:
it is never on without something on its way that takes it off.  Sequence numbers
only grow.  A command's record never claims what did not happen.  The ingestor lets
the broker forget nothing that left no trace.  Ingestion stores and counts every
message once and an alarm is what its readings make of it.  Records keep their history
and their audit whatever requests overlap.  A dashboard sees the events in commit order
and misses none while its socket and the listener stand.  The worker scores only with
what a training wrote, and a verdict depends on the history and not on the batch.

## 2. Modules

| Module | Models | State and actions |
|---|---|---|
| `LossyFifo` | what the queue promises: a bounded FIFO with a drop counter | `queue`, `dropped`; `Enqueue`, `Dequeue` |
| `OfflineQueue` | the offline queue | `meta`, `slots`, `pending` are the NVS keys; `ring` is `offline_queue`; `op` is the holder of `offline_mutex` and its step. One action per NVS write, MQTT call or queue operation of `gateway_offline_push/pop/load`, `aggregation_task`, `communication_task`; `Crash` |
| `RelayControl` | relay, timer, commands, reboot guard | `writing[t]` is task *t* between the two writes of `relay_gpio`. `CommandTask` is `command_task` step by step; `TimerExpires`, `RelayTimeout`, `Disconnected`, `Boot`, `Reset`, `Stabilize` |
| `SequenceAllocator` | `gateway_next_sequence` | `highWater` in flash, the block in memory, `holder` of the mutex; the increment is a read and a write |
| `TelemetryPath` | composes `SequenceAllocator` with the broker, the MQTT ingestor and `device_status` | `sent` is what was published; `retained`, `outbox` are the broker; `link`, `ready`, `current`, `handled` the ingestor, whose callbacks are `OnConnect`, `OnDisconnect`, `Handle`; `stored`, `errors` the rows; `age` is the time since `last_seen_at`, up to `OfflineAfter`; `Offline` the query |
| `CommandLifecycle` | `issue_relay_command`, `command_task` seen from outside, `persist_command_ack` | `row[c]`; `api[c]` and `ingest` are the two sessions between their reads and commits; `inTransit` and `acks` the messages on their way |
| `Ingestion` | `persist_telemetry`, `persist_health`, `_apply_metric_alarm`, `acknowledge_alarm`, `get_thresholds`, `update_thresholds` | the tables; `tx[w]` is a session between its queries; one action per query, flush and commit |
| `Accounts` | users and access tokens, shared by the next two | `active`, `tokens`, `clock`; `Login`, `SetActive`, `Minute`; `CurrentUser`, `EnsureAdmin` are the guards of requests |
| `Records` | `create_calibration`, `create_maintenance`, `update_maintenance` | the tables and `audit`, with the observer `edits` of the committed updates; `request[t]` is a request between its read and its commit |
| `LiveEvents` | `notify_event`, `listen_for_events`, `LiveConnectionManager`, the endpoint `live_events` | `listener` with its `inbox` (PostgreSQL's), the `connections` list and the copy a broadcast walks; `socket[c]`; every `await` ends an action |
| `ModelStore` | `train_model`, `save_bundle`, `load_bundle`, `_register_bundle`, `_load_ready_bundle`, `to_anomaly_model_view` | `files[v]` the directory of a version, `registry[v]` its row, `trainer[t]` and `worker` the processes between their steps; `WorkerVerify` and `WorkerLoad` are the two looks of `load_bundle` at the artefact |
| `SensorRules` | `generate_features` (which samples make a window) and `detect_sensor_failures` | operators only |
| `Scoring` | `score_device_once` over `SensorRules` | `rows`, the two alarms, the error log with its error codes; `pass` is the worker between `ReadTargets` and `Score` |
| `GatewayAgent` | the simulated gateway | `main` and `net` are the two threads; every read and write of `relay_on` and `relay_off_deadline` is a step |
| `MC*` | instances for TLC | |
| `*_proofs` | theorems | |

`PROJECT.json`, "map", names the lines behind every definition.  Definitions called
*Mutant* in their comment are wrong on purpose: each is a plausible bug, and replacing
the definition after it by it must violate the property named in "mutants".

### Abstractions

* A telemetry record is its sequence number; payloads, topics, formatting and
  logging are left out.  The ring's capacity in memory and the configured capacity
  are one constant, `Capacity`, as `gateway_offline_load` makes them equal.
  `GenModulus` stands for 2^32.
* NVS: a call succeeds, fails without effect, or fails after it took effect
  (`Outcome`).  A single key is written atomically, as ESP-IDF promises.
* A FreeRTOS task can be pre-empted between any two steps.  The two writes of
  `relay_gpio` are separate steps, as are the read and the write of
  `sequence_next++`.
* Database: sessions at READ COMMITTED.  A query sees what is committed; with
  `autoflush=False` a session writes at its commit, or where the code flushes; an
  UPDATE has the columns that differ from the row as it was read; a write waits for
  an uncommitted one on the same row or key, and an INSERT on a taken key raises
  `IntegrityError`.  One device and one metric, since no statement reads or writes
  across them.  The device row is its site; its status columns, which mix those of the last
  health message with those of the last telemetry, are not modelled.
  `acknowledge_alarm` is one step: both orders of two acknowledgements leave the
  alarm acknowledged.  In `TelemetryPath` a whole transaction is one step, as
  `Ingestion` has its steps, and the device row is the age of `last_seen_at`; whether a
  device that is not offline is "online" or "degraded" is not modelled.
* MQTT: commands and acknowledgements are repeated and lost.  The broker keeps what
  it holds for a session only as long as the connection, as the ingestor's session is
  clean, and repeats what was not acknowledged.
* asyncio: a task runs from one `await` to the next without another in between.
  PostgreSQL keeps a notification for the sessions that listen when it commits, in
  commit order.
* Models: the forest is external.  A training yields a payload named by its version,
  its rows, its time and the release that wrote it; a file is written in one step or,
  where the process ends or the disk fails, not or damaged (`Damaged`), and a damaged one
  is refused by the checks after `joblib.load`: `ScoresWithTrained` does not say that a
  valid artefact put there between the worker's two looks would be noticed.  A score is
  represented by the samples it was computed from, the forest's verdict by the value
  of the row (`Odd`), so that only *which* samples were used matters.
* Threads of the simulated gateway may be interrupted between any two bytecode reads
  or writes of the shared attributes.

## 3. What TLC checks

| Run | Checks | Bounds | Shows |
|---|---|---|---|
| `queue_faults` | `MemoryMatchesFlash`, `LossIsReported` (each loss is counted and raises the fault), `NamedSlotsArePresent`, `OvertakenOnlyWhenFull` | capacity 2, generations modulo 3, 4 records, 2 resets, 2 failing NVS calls; 6.0 million states | with failing calls: no absent slot is named, and a counter that grew raised the fault; without one: memory, flash and journal agree, each loss is counted, and a record overtakes only past a full `telemetry_queue` |
| `queue_fifo` | `DurableFifo` (refinement of `LossyFifo`), `QueueDrains` (liveness) | the same queue, 5 records, 1 reset, no failing call | what a boot would recover behaves as one FIFO at every step, also of an interrupted boot; the queue drains |
| `relay_tasks` | `EnergizedIsTimed`, `RelayOffInRebootLoop`, `OffAcknowledgedWhenOff`, `RelayReturnsToOff` (liveness) | one command to switch on and one off, each delivered twice, 4 boots, lock after 3 | the relay is always on its way to off |
| `telemetry_path` | `PathInv` (types, `AckedIsKept`), `GatewayNeverCollides`, `ListensAgain`, `SilentGoesOffline` (liveness) | 2 tasks on one block of 2 and up to 2 blocks, 3 messages repeated without bound, one on its way at a time, 1 reset, 1 message of another publisher, failing NVS read, lost connection or end of the ingestor; 0.9 million states | from number to row: numbers never repeat, what is acknowledged left a row or an error, repetitions keep no device online |
| `command_safety` | `CompletedMeansApplied`, `RefusedMeansNotApplied`, `AnswerKeptOrMarked` | 2 commands, each delivered twice, 2 acknowledgements on their way | a record claims no execution that did not happen, nor denies one; an answer is kept, or its row shows the API's overwrite; 0.6 million states |
| `ingestion_writers` | `AnsweredIsStored`, `StoredFromOneSite`, `AlarmsHaveReadings`, `AlarmFollowsReadings`, `AlarmRowsOnlyAdvance` | 2 sessions, 5 readings and 1 health message (two with one sequence number, one without a value, one in the hysteresis band, one from another site), an administrator | answers are true; alarms belong to readings and follow them |
| `ingestion_thresholds` | `ThresholdsStayValid` (violated) | 2 administrators | see below |
| `api_records` | `RecordsInv` (types, `AuditMatches`), `ChainUnbroken`, `DueAfterWork`, `AnswerIsStored` | 2 threads, 3 requests, 1 failure, 2 sensors, 2 coefficients, 2 days; symmetry over interchangeable values; 0.8 million states | every row and every update has an event of its own by its user, and every event is of one; a calibration that does not follow the one before it needs an overlap; overlapping updates cannot put the due date before the work |
| `live_events` | `LiveInv` (types, `ListMatchesSockets`), `EventsArrive` (`InCommitOrder`, `NothingOwed`), `ListenerReturns` (liveness) | 2 browsers, 3 events, 2 faults | order; the list holds served sockets once; no gap while session and socket stand; the listener always returns.  A socket whose endpoint ended without `disconnect` stays in the list until a broadcast meets it |
| `model_store` | `StoreInv` (types, `RegisteredWasSaved`, `ScoresWithTrained`), `TrainedLoads`, `ViewSettles` (liveness) | 2 versions, 2 trainings on 70, 100 or 105 rows (too few, and two different payloads), 2 faults (ends, damaged files, upgrades), stale after 1 of 3 days; 0.7 million states | the registry never runs ahead of the files; the worker never scores with a foreign payload; the API's view settles |
| `anomaly_scoring` | `ScoringInv` (types, `LogIsBounded`), `ScoredFromHistory`, `AlarmsFollowNewest` (`SensorAlarmFollowsNewest`, `AnomalyAlarmFollowsNewest`), `EveryRowJudged` (liveness) | 3 rows of 3 values that may be missing, replayed or out of order, batches of 2, windows of 3, 2 reasons to be without a model, 1 fault, 1 hour; 0.6 million states | a batch is judged as the history would be; alarms follow the newest row; one log entry for a code and an hour; every row is judged |
| `gateway_agent` | `AgentInv` (types, `OffWithoutConnection`, `OnHasDeadline`, `OnlineIsExplained`), `NumbersAreFresh`, `ReturnsToOff` (liveness) | 2 commands ON, 1 OFF, 1 invalid, 3 seconds, 1 fault | off without a connection; back to off but for one interleaving, which `erased` names |

Why the bounds are enough.  A ring of two slots is full, empty and wrapped around within
four records; modulo 3 the generations wrap, and 3 is the least modulus at which the
journal's two cases can be told apart (`GenModulusAssumption`).  Two resets reach a boot
that is itself interrupted.  Two commands are one that overtakes the other; two
deliveries are a repetition.  Two sessions, threads, trainings or browsers are enough
for every pairwise race, and the readings cover every branch of `_apply_metric_alarm`.
Two tasks that draw three numbers from blocks of two share a block, exhaust it and
reserve the next, with a reset at any point.  Three rows in batches of two are a batch
whose window reaches into the one before it, and the values cover normal, anomalous, too
fast and stuck.  Three requests are one that overtakes an overlapping pair, or two
changes of a row after its creation.  Two faults are a listener that fails while it
recovers, or a training that ends before the file it wrote is damaged.  Of the numbers
of feature rows, 70 is refused and 100 and 105 give trainings of one version that
differ.  Two error codes are one that comes within the hour of another.  The proofs
remove the bounds for the safety properties listed in section 4.

Deadlock is not checked where the work ends when the bounds are used up
(`command_safety`, `telemetry_path`, `api_records`, `model_store`, `anomaly_scoring`,
`gateway_agent`); elsewhere it is.

### Fairness

* `OfflineQueue!FairSpec`: weak fairness of the boot, of a push or pop that has
  begun and of `communication_task`, which FreeRTOS gives to tasks that are ready
  (the watchdog resets the gateway otherwise).  Strong fairness of
  `CommReplayAccepted`: asked again and again while connected, the MQTT library at
  last accepts a record.  This is an assumption on the outbox of the library, and
  on `iiot_serialize_telemetry` not refusing the record for good.  `QueueDrains` also
  assumes that the connection stands from some point on.
* `RelayControl!FairSpec`: weak fairness of `command_task`, of a running `esp_timer`
  and of the timer task.  Nothing is assumed of network, resets and senders.
* `TelemetryPath!PathSpec`: weak fairness of the ingestor (`loop_forever` of the client
  library with its reconnection, and `restart: unless-stopped` in `compose.yaml`), of
  the broker's answer to a subscription, and of the clock.  That an outage of the ingestor
  ends is part of it; that lost connections and ends of the process are finitely many is
  the bound `MaxTrouble`.  Repetitions by the broker are not bounded.
* `LiveSpec`: weak fairness of the listener task, which the event loop runs, of
  the server's ping timeout that finds a stalled peer out, and of an endpoint that has
  been told of its end.
* `ModelStore!Spec`, `ScoringSpec`: the worker polls for ever (`_run`), and a pass ends,
  by its commit or by an exception.  That a pass ends *by its commit* is not assumed: the
  bound on faults gives it.
* `GatewayAgent!Spec`: both threads run, time passes, the container is started again,
  paho reconnects, and the broker notices a broken connection by its keep-alive.

### Where code and documents differ

`ingestion_thresholds` is expected to fail, with a finding that quotes the source: two
administrators store thresholds neither of them sent, with the warning above the
critical one (`schemas.py:294`), which `get_thresholds` then cannot return.

Seen while modelling, without a run of their own:

* When `telemetry_queue` is full, `aggregation_task` pushes its record into the ring itself,
  before the older ones in that queue, and the ring is replayed out of sequence order
  (`app_main.c:413`, against the "ordered replay" of `docs/offline-behavior.md:1`).
  `OvertakenOnlyWhenFull` shows that this is the only way.
* The record that is removed after a publish need not be the one that was published,
  when the ring was full and an eviction came between (`app_main.c:453`, against
  `docs/offline-behavior.md:17`); the loss is counted, though.
* A command already taken from the queue energizes the relay after the disconnect has
  forced it off (`app_main.c:286`, against `docs/offline-behavior.md:23`), until the
  timer.
* Two tasks in `relay_gpio` leave `relay_on` false over an energized pin
  (`gateway_platform.c:124`), and the acknowledgement reports `relay_on`
  (`docs/system-overview.md:120`).
* The API's second commit overwrites an acknowledgement that came before it
  (`command_service.py:90`, against `docs/operations-workflows.md:57`).
  `AnswerKeptOrMarked` shows that such a row can be told by its `acknowledged_at` beside
  "published" or `BROKER_PUBLISH_FAILED`, and that nothing else loses an answer.
* A retained health message that was never stored, because the ingestor was down, is
  stored as new when it subscribes (`ingestion.py:222`): a device that died meanwhile is
  online once more, for `offline_after_s`.  `SilentGoesOffline` allows for it.
* `to_device_view` (`main.py:103`) shows the columns of the last health message beside the
  firmware, status and faults of whichever message came last; no document says that they
  are of one message, and nothing is claimed of it.
* `load_bundle` loads the pickle (`modeling.py:329`) before `_load_ready_bundle` compares its
  checksum with the registry (`worker.py:187`), against `docs/anomaly-detection.md:55`, which
  has the comparison "before loading".  `ScoresWithTrained` is about what the worker scores
  with, and not about what it opens.
* Two sessions open two active alarms of one metric (`ingestion.py:56`, against
  `docs/operations-workflows.md:46`), which is why `AlarmFollowsReadings` is stated for
  evaluations that do not overlap.
* The main loop of the simulated gateway may clear the deadline of a command that
  arrived between its two writes (`gateway_agent.py:227`, against
  `docs/operations-workflows.md:56`): that relay stays on.  `OnHasDeadline` and
  `ReturnsToOff` hold for every other interleaving.
* After a reconnect a live record can be published while older ones wait in the ring,
  when the connection returns between the test and the publish (`app_main.c:460`).
* A command delivered twice is executed twice (`app_main.c:221`), while
  `docs/adr/0004-mqtt-contract.md:5` has duplicates removed.
* A drop made by the boot that redoes a journalled push raises no fault
  (`gateway_platform.c:337`).
* A failing read of `sequence_hi` restarts the numbers at 1 (`gateway_platform.c:390`),
  which is why `MonotonicAcrossResets` and `GatewayNeverCollides` are stated for runs
  without one.
* A model lost half-way through a backlog leaves the alarm of an old row, which is why
  `SensorAlarmFollowsNewest` excludes it.

## 4. What TLAPS proves

All theorems hold for every value of the constants under the named assumptions of the
modules (`CapacityAssumption` and so on: positive lengths, `GenModulus` at least 3,
distinct dummy values, validated thresholds).  Each set rests on one inductive
invariant; the other theorems are its consequences.

* `OfflineQueue_proofs`, `QueueInv`.  *ControlInv* says who holds the mutex at which
  step.  *SlotsInv* says that slots in use, by the ring or by the metadata, hold a
  record; it needs no assumption on NVS errors, because a slot is written before the
  metadata name it and erased after they no longer do.  *JournalInv* says, without
  NVS errors, that memory and flash agree but for the step in progress, and that the
  journal is there exactly during a push with the generation it started from; the
  property `JournalGenerationMatches` alone is not inductive, as it says nothing of
  flash before the boot.  Consequences: types, `PopFindsRecord`,
  `NamedSlotsArePresent`, `JournalGenerationMatches`, `MemoryMatchesFlash`, and,
  without NVS errors, the refinement `DurableFifo`: every step changes what a boot would
  recover as `Enqueue` or `Dequeue` of `LossyFifo` does, or not at all
  (`DurableQueueIsFifo`).
* `OfflineQueue_proofs`, `AccountInvariant`, over `QueueInv`.  *FaultInv*: a push knows
  the count of drops from before it until it has raised the fault.  *LossInv*: the
  record in the hands of `communication_task` is the oldest, or its eviction has been
  counted and pays for the record that the pop removes in its place; `LossIsCounted`
  alone is not inductive, as it does not see that debt.  *OrderInv*: over the whole
  way from the ring over the two tasks and `telemetry_queue` to the next number, a record
  stands before an older one only if it is in `bypassed` and the older one is not; the ring
  is one piece of that way.  Consequences: `LossIsReported`, `OvertakenOnlyWhenFull`.
* `RelayControl_proofs`, `RelayInv`.  *WritersInv*: only `command_task` may be about to
  raise the pin.  *GuardInv*: `consecutive_reboots` counts the unstable boots, and a
  locked relay has no command in progress.  Consequences: types, `EnergizedIsTimed`,
  `RelayOffInRebootLoop`, `OffAcknowledgedWhenOff`.
* `CommandLifecycle_proofs`, `LifecycleInv`.  Every "completed" on its way, in the
  topic, in the ingestor or in the row, is of a command that was applied; a command
  passed on once is answered once; what the
  API's second commit still writes is its own word, so that a row it overwrites is marked.
  Consequences: `AckFindsCommand` and all properties
  of `command_safety`.
* `Ingestion_proofs`, `IngestionInv`.  *LockInv*: a session that has flushed is alone
  and its keys stay free.  *DeviceInv*: a session that found the device found its own
  site.  *ViewInv*: without an overlap, a session about to commit knows the active
  alarm; this is what `AlarmFollowsReadings` needs to be inductive.  Consequences:
  types and all properties of `ingestion_writers`.
* `GatewayAgent_proofs`, `ThreadsInv`.  *NetInv*: a command is carried out within one
  connection, whose `on_disconnect` runs in the same thread.  *MainInv*: a deadline that
  the main loop is about to erase has passed, so that the deadline of a command that
  came in between differs from it.  *SequenceInv*: numbers stay behind the clock they
  start from, as the period is at least two seconds (`PeriodAssumption`; the code has
  it so).  Consequences: types, `AgentInv`, `NumbersAreFresh`.
* `TelemetryPath_proofs`.  First the allocator by itself, `SequenceInv`: the mutex
  excludes, and every number returned is below the block in memory and covered by the
  mark in flash; hence types and `MonotonicAcrossResets`.  Then `TraceInv` over it, since
  the allocator's steps are the gateway's steps on the path.  *NumbersInv*: the numbers of
  published messages are numbers that were given out, no two the same.  *RowsInv*: a
  message that was handled has left a trace, and every row is of a message that keeps the
  contract.  Consequences: `PathInv`, `GatewayNeverCollides`.
* `Api_proofs`, `HistoryInv` (of `Records`).  *StampInv*: every reading of the clock is
  in one row or in one request, so that an update a request did not see changes
  `updated_at`, and no two updates share an audit event. *RequestInv*: the copy a
  request has checked agrees with the stored row on `performed_at`, and on every column
  if `updated_at` is still the one that was read; the calibration a request took the
  previous coefficients from is the newest of those it saw.  This is why a due date that
  was checked against one's own copy stays valid whatever overlaps.  Consequences:
  `RecordsInv`, `DueAfterWork`, `ChainUnbroken`, `AnswerIsStored` (an action property).
* `Api_proofs`, `DeliveryInv` (of `LiveEvents`).  *ConnectionInv*: the list of connections
  is without repetition and holds exactly the sockets that are served or leaving; so is
  the copy that a broadcast walks over, and a socket the broadcast noted as stale is
  touched by nobody else.  *OrderOfEvents*: what a browser has seen comes before the event
  in hand if the broadcast has still to reach it, and that before the inbox, all of it in
  commit order; what it is owed is what lies ahead of it there.  `NothingOwed` speaks only
  of an empty inbox and is not inductive without this.  That `Without`, which stands for
  `remove` in a loop, keeps the others in the list is proved with a bijection between the
  places kept and the places of the result.  Consequences: `LiveInv`, `EventsArrive`.
* `AnomalyWorker_proofs`, `WrittenInv` (of `ModelStore`).  *DiskInv*: metadata that can
  be read is what training wrote, with the payload its gates allow, and the artefact
  beside it is that payload, damaged or gone; this is why the worker's second look at
  it, for which no checksum is compared, can load nothing else.  *TrainerInv*: whoever
  made the directory (`exist_ok=False`) writes alone and once; whoever registers has
  what was written, under the release that is installed.  *RegistryInv*: ids are given
  in turn, so that the order of `_latest_registry` has one newest row; that it exists is
  proved from the well-foundedness of the numbers (`LatestExists`).  Consequences:
  `StoreInv`, `TrainedLoads`.
* `AnomalyWorker_proofs`, `JudgementInv` (of `Scoring`).  Two facts about operators carry
  it.  A set of rows is *Enough* for row *n* and a length *k* if with a row it has all from
  there up to *n* and whatever it lacks is followed by *k* rows.  The context of a batch is
  enough for each of its targets and CONTEXT_ROWS (`ContextIsEnough`), and all rows there
  were are enough when a newer one arrives (`NewRowsAreBehind`).  What is enough gives the
  diagnostics of the whole history (`SameDiagnosis`), and its window as well if the times
  are in the order of the rows and a window fits into the context (`SameWindow`): a gap
  seen in the part is a gap in the whole, since the row at the edge of the part is nearer
  than any the part lacks.  The sensor rules are never expanded, so the results hold for
  any.  *VerdictInv*: while no row appears behind another, the rows with a verdict are a
  beginning of the table, and so they are with the targets of the pass under way; hence
  the last target is the newest row judged.  *AlarmInv*: each alarm is that of this row,
  where a pass without a model may have gone further than the model; `AlarmsFollowNewest`
  alone says nothing until the worker has caught up.  The log has, for each error code, one
  entry more than its hours at most, and only while the last entry is recent.  The
  assumption WindowSize <=
  ContextRows is needed; the code has 12 for both.  Consequences: `ScoringInv`,
  `ScoredFromHistory`, `AlarmsFollowNewest`.

Only model-checked: the liveness properties (`QueueDrains`, `RelayReturnsToOff`,
`ListensAgain`, `SilentGoesOffline`, `ListenerReturns`, `ViewSettles`, `EveryRowJudged`,
`ReturnsToOff`), which need fairness and ENABLED.  Every invariant and every other
action property of a passing run is stated by a theorem.

## 5. Not modelled

* Sensor drivers, averages and the estimator's numerics: register I/O and arithmetic.
  Of the gateway's aggregation the part from the finished record on is in
  `OfflineQueue`; `publish_threshold_event` is in `TelemetryPath` as what takes numbers.
* Configuration and provisioning: a dialogue that parses text on a serial line and
  saves one blob before any task starts.  The back-off of the reconnection only spaces
  attempts out.
* The Modbus register map, the STM32 node and the Modbus simulator: frames and
  checksums, byte by byte, where the bytes are the point; a model that abstracts data
  would say nothing of them.
* Settings and seeding: values read once, rows inserted once when they are missing.
* Evaluation and demonstration data: reports over synthetic series, without state.
* The telemetry generator: values published in a row.
* Of the API's queries the lists of devices, telemetry, alarms, commands, calibrations and
  maintenance records, the export and the demonstration report, which read and show.
* The web dashboard: pages that show what they fetch; its live socket's retries are
  `MayReopen` in `LiveEvents`.
* Migrations, scripts, contracts as JSON schemas and hardware files: no running state.

`PROJECT.json`, "hazards", names what the properties are for.  Known hazards that no
property covers: the API ends between its two commits and the row stays "queued"
(`command_service.py:64`); a record that the MQTT library accepted is popped from flash
while it is only in the library's memory (`app_main.c:453`); the ready file of the
ingestor stays when the process ends (`mqtt_ingestor/main.py:182`); an exception for one
device ends the worker's pass over all of them (`worker.py:377`); a live socket outlives
its token (`main.py:826`); an event over 7000 bytes fails its transaction
(`events.py:21`); the STM32 node erases its configuration before it writes the new one
(`stm32-modbus-node/Core/Src/main.c:56`) and changes its fault bits outside the
interrupt that also sets them (`main.c:80`).

## 6. Plan

Every safety property of a passing run has its theorem.  What would extend the project
most is more of the code: the back-off of the gateway's reconnection and its provisioning
dialogue, the pass of the anomaly worker over several devices, and the STM32 node's writes
to its configuration.
