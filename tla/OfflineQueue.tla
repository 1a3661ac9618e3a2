---------------------------- MODULE OfflineQueue ----------------------------
(***************************************************************************)
(* The ESP32 gateway's offline telemetry queue: the ring of iiot_core.c,    *)
(* its copy in NVS flash with the one-record enqueue journal "q_pending"    *)
(* (gateway_platform.c), and the two FreeRTOS tasks that share it under     *)
(* offline_mutex (app_main.c): aggregation_task, which pushes a record when *)
(* telemetry_queue is full, and communication_task, which replays the ring, *)
(* publishes live records and pushes the ones MQTT does not accept.         *)
(*                                                                          *)
(* A telemetry record is its sequence number.  A step is what a task does   *)
(* between two points at which another task or a reset can intervene: one   *)
(* NVS write, one MQTT call, one FreeRTOS queue operation.  The variable op *)
(* is the holder of offline_mutex (or the boot code, which runs alone) and  *)
(* the step it has reached, so the mutex is free exactly when op.by is      *)
(* "none".                                                                  *)
(***************************************************************************)
EXTENDS Naturals, Sequences, FiniteSets

CONSTANTS
    Capacity,        \* ring capacity, config.offline_capacity
    LiveCapacity,    \* length of telemetry_queue
    GenModulus,      \* queue_generation is a uint32_t: 2^32
    MaxSequence,     \* bound: number of telemetry records produced
    MaxCrashes,      \* bound: number of resets
    MaxNvsErrors     \* bound: number of failing NVS calls

ASSUME CapacityAssumption == Capacity \in 1..32
ASSUME LiveCapacityAssumption == LiveCapacity \in Nat \ {0}
ASSUME GenModulusAssumption == GenModulus \in Nat /\ GenModulus >= 3
ASSUME BoundsAssumption ==
    MaxSequence \in Nat /\ MaxCrashes \in Nat /\ MaxNvsErrors \in Nat

Record == 1..MaxSequence
NoRecord == 0                    \* an absent NVS slot, zeroed memory
Slot == 0..(Capacity - 1)
Generation == 0..(GenModulus - 1)
NextGeneration(g) == (g + 1) % GenModulus

VARIABLES
    \* NVS flash, kept across resets
    meta,            \* "queue_meta"
    slots,           \* "q00" .. "q31"
    pending,         \* "q_pending"
    \* memory shared by the tasks
    ring,            \* offline_queue
    generation,      \* queue_generation
    dropFault,       \* IIOT_FAULT_OFFLINE_QUEUE_DROP in active_faults
    liveQueue,       \* telemetry_queue
    connected,       \* MQTT_CONNECTED_BIT
    \* the mutex and the tasks
    op,              \* holder of offline_mutex and its step
    agg,             \* aggregation_task
    comm,            \* communication_task
    \* what an observer remembers
    nextSequence,    \* sequence of the next record
    accepted,        \* records the MQTT library accepted
    stored,          \* records whose journal entry reached NVS
    bypassed,        \* records for which telemetry_queue was full
    loadedDropped,   \* dropped_message_count as gateway_offline_load left it
    crashes, nvsErrors

durableVars == <<meta, slots, pending>>
taskVars == <<agg, comm, liveQueue, connected>>
observerVars == <<nextSequence, accepted, stored, bypassed, loadedDropped>>
boundVars == <<crashes, nvsErrors>>
vars == <<durableVars, ring, generation, dropFault, op, taskVars,
          observerVars, boundVars>>

-----------------------------------------------------------------------------
(* The ring (iiot_core.c).                                                  *)

Ring == [head : Slot, count : 0..Capacity, dropped : Nat,
         records : [Slot -> Record \cup {NoRecord}]]

RingInit ==
    [head |-> 0, count |-> 0, dropped |-> 0,
     records |-> [s \in Slot |-> NoRecord]]

\* Mutant: the eviction is not counted.
RingPushUncounted(q, r) ==
    LET full == q.count = Capacity
        head == IF full THEN (q.head + 1) % Capacity ELSE q.head
        kept == IF full THEN q.count - 1 ELSE q.count
    IN  [head    |-> head,
         count   |-> kept + 1,
         dropped |-> q.dropped,
         records |-> [q.records EXCEPT ![(head + kept) % Capacity] = r]]

\* iiot_offline_queue_push: a full ring first lets go of its oldest record.
RingPush(q, r) ==
    LET full == q.count = Capacity
        head == IF full THEN (q.head + 1) % Capacity ELSE q.head
        kept == IF full THEN q.count - 1 ELSE q.count
    IN  [head    |-> head,
         count   |-> kept + 1,
         dropped |-> IF full THEN q.dropped + 1 ELSE q.dropped,
         records |-> [q.records EXCEPT ![(head + kept) % Capacity] = r]]

RingPeek(q) == q.records[q.head]

RingPop(q) ==
    [q EXCEPT !.head = (@ + 1) % Capacity, !.count = @ - 1]

\* The NVS slot persist_enqueued_record writes: the tail, or the oldest
\* record's slot when the ring is full.
EnqueueSlot(q) ==
    IF q.count = Capacity THEN q.head ELSE (q.head + q.count) % Capacity

\* The slots that hold the records of a ring.
InUse(head, count) == {(head + i) % Capacity : i \in 0..(count - 1)}

\* The records of a ring, oldest first.
Contents(head, count, records) ==
    [i \in 1..count |-> records[(head + i - 1) % Capacity]]

RingContents == Contents(ring.head, ring.count, ring.records)

-----------------------------------------------------------------------------
(* NVS.  A call succeeds, fails without effect, or takes effect and then    *)
(* fails to be confirmed (nvs_set_blob succeeds, nvs_commit fails).         *)

NoMeta == [valid |-> FALSE, generation |-> 0, dropped |-> 0,
           head |-> 0, count |-> 0]
MetaOf(q, g) == [valid |-> TRUE, generation |-> g, dropped |-> q.dropped,
                 head |-> q.head, count |-> q.count]
NoPending == [present |-> FALSE, previous |-> 0, record |-> NoRecord]

Outcome == {"ok", "failed", "unconfirmed"}
Applied(o) == o # "failed"
NvsCall(o) ==
    IF o = "ok"
    THEN UNCHANGED nvsErrors
    ELSE nvsErrors < MaxNvsErrors /\ nvsErrors' = nvsErrors + 1

Idle == [by |-> "none", step |-> "none", record |-> NoRecord,
         before |-> 0, slot |-> 0]

Booted == op.by # "boot"
MutexFree == op.by = "none"

Init ==
    /\ meta = NoMeta
    /\ slots = [s \in Slot |-> NoRecord]
    /\ pending = NoPending
    /\ ring = RingInit
    /\ generation = 0
    /\ dropFault = FALSE
    /\ liveQueue = << >>
    /\ connected = FALSE
    /\ op = [Idle EXCEPT !.by = "boot", !.step = "load"]
    /\ agg = [pc |-> "idle", record |-> NoRecord]
    /\ comm = [pc |-> "idle", record |-> NoRecord]
    /\ nextSequence = 1
    /\ accepted = {}
    /\ stored = {}
    /\ bypassed = {}
    /\ loadedDropped = 0
    /\ crashes = 0
    /\ nvsErrors = 0

-----------------------------------------------------------------------------
(* Leaving the critical section.  After a push, successful or not, the task *)
(* compares dropped_message_count with the value it read before and raises  *)
(* the fault; the boot code does not.                                       *)

FinishPush(dropped) ==
    /\ op' = Idle
    /\ dropFault' = (dropFault \/ (op.by # "boot" /\ dropped # op.before))
    /\ agg' = IF op.by = "agg" THEN [pc |-> "idle", record |-> NoRecord] ELSE agg
    /\ comm' = IF op.by = "comm" THEN [pc |-> "idle", record |-> NoRecord] ELSE comm

GoOn(step) ==
    /\ op' = [op EXCEPT !.step = step]
    /\ UNCHANGED <<dropFault, agg, comm>>

\* save_pending_enqueue
SavePendingEnqueue ==
    /\ op.step = "journal"
    /\ \E o \in Outcome :
        /\ NvsCall(o)
        /\ IF Applied(o)
           THEN /\ pending' = [present |-> TRUE, previous |-> generation,
                               record |-> op.record]
                /\ stored' = stored \cup {op.record}
           ELSE UNCHANGED <<pending, stored>>
        /\ IF o = "ok" THEN GoOn("slot") ELSE FinishPush(ring.dropped)
    /\ UNCHANGED <<meta, slots, ring, generation, liveQueue, connected,
                   nextSequence, accepted, bypassed, loadedDropped, crashes>>

\* persist_enqueued_record, first half: the slot is not committed by itself.
WriteSlot ==
    /\ op.step = "slot"
    /\ \E o \in {"ok", "failed"} :
        /\ NvsCall(o)
        /\ slots' = IF Applied(o)
                    THEN [slots EXCEPT ![EnqueueSlot(ring)] = op.record]
                    ELSE slots
        /\ IF o = "ok" THEN GoOn("meta") ELSE FinishPush(ring.dropped)
    /\ UNCHANGED <<meta, pending, ring, generation, liveQueue, connected,
                   observerVars, crashes>>

\* persist_enqueued_record, second half: the ring changes even when the
\* metadata cannot be saved.
PushAndSaveMetadata ==
    /\ op.step = "meta"
    /\ ring' = RingPush(ring, op.record)
    /\ generation' = NextGeneration(generation)
    /\ \E o \in Outcome :
        /\ NvsCall(o)
        /\ meta' = IF Applied(o) THEN MetaOf(ring', generation') ELSE meta
        /\ IF o = "ok" THEN GoOn("erase") ELSE FinishPush(ring'.dropped)
    /\ loadedDropped' = IF op.by = "boot" THEN ring'.dropped ELSE loadedDropped
    /\ UNCHANGED <<slots, pending, liveQueue, connected, nextSequence, accepted,
                   stored, bypassed, crashes>>

\* erase_pending_enqueue, the last call of gateway_offline_push and of
\* gateway_offline_load.
ErasePendingEnqueue ==
    /\ op.step = "erase"
    /\ \E o \in Outcome :
        /\ NvsCall(o)
        /\ pending' = IF Applied(o) THEN NoPending ELSE pending
    /\ FinishPush(ring.dropped)
    /\ UNCHANGED <<meta, slots, ring, generation, liveQueue, connected,
                   observerVars, crashes>>

-----------------------------------------------------------------------------
(* gateway_offline_load                                                     *)

SlotsInUse == InUse(meta.head, meta.count)

FinishLoad == op' = Idle

\* Mutant: the drop counter is not restored.
LoadRingUncounted ==
    /\ op.step = "load"
    /\ meta.valid
    /\ \A s \in SlotsInUse : slots[s] # NoRecord
    /\ ring' = [head |-> meta.head, count |-> meta.count,
                dropped |-> 0,
                records |-> [s \in Slot |->
                    IF s \in SlotsInUse THEN slots[s] ELSE NoRecord]]
    /\ generation' = meta.generation
    /\ loadedDropped' = meta.dropped
    /\ op' = [op EXCEPT !.step = "pending"]
    /\ UNCHANGED <<durableVars, dropFault, taskVars, nextSequence, accepted,
                   stored, bypassed, boundVars>>

\* Valid metadata and every slot it names can be read.
LoadRing ==
    /\ op.step = "load"
    /\ meta.valid
    /\ \A s \in SlotsInUse : slots[s] # NoRecord
    /\ ring' = [head |-> meta.head, count |-> meta.count,
                dropped |-> meta.dropped,
                records |-> [s \in Slot |->
                    IF s \in SlotsInUse THEN slots[s] ELSE NoRecord]]
    /\ generation' = meta.generation
    /\ loadedDropped' = meta.dropped
    /\ op' = [op EXCEPT !.step = "pending"]
    /\ UNCHANGED <<durableVars, dropFault, taskVars, nextSequence, accepted,
                   stored, bypassed, boundVars>>

\* No metadata, or metadata that cannot be read: start an empty queue.
LoadWithoutMetadata ==
    /\ op.step = "load"
    /\ ring' = RingInit
    /\ generation' = 0
    /\ loadedDropped' = 0
    /\ \E readable \in BOOLEAN, o \in Outcome :
        /\ readable => ~meta.valid
        /\ nvsErrors' = nvsErrors + (IF readable THEN 0 ELSE 1)
                                  + (IF o = "ok" THEN 0 ELSE 1)
        /\ nvsErrors' <= MaxNvsErrors
        /\ meta' = IF Applied(o) THEN MetaOf(ring', 0) ELSE meta
        /\ IF o = "ok" THEN op' = [op EXCEPT !.step = "pending"] ELSE FinishLoad
    /\ UNCHANGED <<slots, pending, dropFault, taskVars, nextSequence, accepted,
                   stored, bypassed, crashes>>

\* A slot that the metadata names is absent or cannot be read: the whole
\* queue is given up, the journal with it.
LoadDiscardingQueue ==
    /\ op.step = "load"
    /\ meta.valid
    /\ SlotsInUse # {}
    /\ ring' = RingInit
    /\ generation' = 0
    /\ loadedDropped' = 0
    /\ \E readable \in BOOLEAN, o \in Outcome :
        /\ readable => \E s \in SlotsInUse : slots[s] = NoRecord
        /\ nvsErrors' = nvsErrors + (IF readable THEN 0 ELSE 1)
                                  + (IF o = "ok" THEN 0 ELSE 1)
        /\ nvsErrors' <= MaxNvsErrors
        /\ meta' = IF Applied(o) THEN MetaOf(ring', 0) ELSE meta
        /\ IF o = "ok" THEN op' = [op EXCEPT !.step = "erase"] ELSE FinishLoad
    /\ UNCHANGED <<slots, pending, dropFault, taskVars, nextSequence, accepted,
                   stored, bypassed, crashes>>

\* The journal: nothing to redo, redo the push, finish it, or give up.
LoadPending ==
    /\ op.step = "pending"
    /\ \E readable \in BOOLEAN :
        /\ readable \/ pending.present
        /\ NvsCall(IF readable THEN "ok" ELSE "failed")
        /\ CASE ~readable -> op' = [op EXCEPT !.step = "erase"]
             [] readable /\ ~pending.present -> FinishLoad
             [] readable /\ pending.present /\ generation = pending.previous ->
                    op' = [op EXCEPT !.step = "slot", !.record = pending.record]
             [] readable /\ pending.present
                /\ generation = NextGeneration(pending.previous) ->
                    op' = [op EXCEPT !.step = "erase"]
             [] OTHER -> FinishLoad
    /\ UNCHANGED <<durableVars, ring, generation, dropFault, taskVars,
                   observerVars, crashes>>

Boot == LoadRing \/ LoadWithoutMetadata \/ LoadDiscardingQueue \/ LoadPending

\* A reset at any point: memory is lost, flash is not.
Crash ==
    /\ crashes < MaxCrashes
    /\ crashes' = crashes + 1
    /\ ring' = RingInit
    /\ generation' = 0
    /\ dropFault' = FALSE
    /\ liveQueue' = << >>
    /\ connected' = FALSE
    /\ op' = [Idle EXCEPT !.by = "boot", !.step = "load"]
    /\ agg' = [pc |-> "idle", record |-> NoRecord]
    /\ comm' = [pc |-> "idle", record |-> NoRecord]
    /\ loadedDropped' = 0
    /\ UNCHANGED <<durableVars, nextSequence, accepted, stored, bypassed,
                   nvsErrors>>

-----------------------------------------------------------------------------
(* aggregation_task, from the point where a telemetry record is complete    *)

AggProduce ==
    /\ Booted
    /\ agg.pc = "idle"
    /\ nextSequence <= MaxSequence
    /\ agg' = [pc |-> "send", record |-> nextSequence]
    /\ nextSequence' = nextSequence + 1
    /\ UNCHANGED <<durableVars, ring, generation, dropFault, op, comm,
                   liveQueue, connected, accepted, stored, bypassed,
                   loadedDropped, boundVars>>

\* xQueueSend(telemetry_queue, ..., 50 ms) succeeds
AggSend ==
    /\ agg.pc = "send"
    /\ Len(liveQueue) < LiveCapacity
    /\ liveQueue' = Append(liveQueue, agg.record)
    /\ agg' = [pc |-> "idle", record |-> NoRecord]
    /\ UNCHANGED <<durableVars, ring, generation, dropFault, op, comm,
                   connected, observerVars, boundVars>>

\* ... or times out
AggSendTimeout ==
    /\ agg.pc = "send"
    /\ Len(liveQueue) = LiveCapacity
    /\ agg' = [agg EXCEPT !.pc = "store"]
    /\ bypassed' = bypassed \cup {agg.record}
    /\ UNCHANGED <<durableVars, ring, generation, dropFault, op, comm,
                   liveQueue, connected, nextSequence, accepted, stored,
                   loadedDropped, boundVars>>

\* xSemaphoreTake(offline_mutex) before gateway_offline_push
StartPush(by, r) ==
    /\ MutexFree
    /\ op' = [by |-> by, step |-> "journal", record |-> r,
              before |-> ring.dropped, slot |-> 0]

AggStartPush ==
    /\ agg.pc = "store"
    /\ StartPush("agg", agg.record)
    /\ UNCHANGED <<durableVars, ring, generation, dropFault, taskVars,
                   observerVars, boundVars>>

-----------------------------------------------------------------------------
(* communication_task                                                       *)

CommAt(pc, r) == comm' = [pc |-> pc, record |-> r]

\* Mutant: the test of the connection is inverted.
CommStartInverted ==
    /\ Booted
    /\ comm.pc = "idle"
    /\ CommAt(IF connected THEN "receive" ELSE "peek", NoRecord)
    /\ UNCHANGED <<durableVars, ring, generation, dropFault, op, agg,
                   liveQueue, connected, observerVars, boundVars>>

CommStart ==
    /\ Booted
    /\ comm.pc = "idle"
    /\ CommAt(IF connected THEN "peek" ELSE "receive", NoRecord)
    /\ UNCHANGED <<durableVars, ring, generation, dropFault, op, agg,
                   liveQueue, connected, observerVars, boundVars>>

\* iiot_offline_queue_peek under the mutex
CommPeek ==
    /\ comm.pc = "peek"
    /\ MutexFree
    /\ IF ring.count = 0
       THEN CommAt("receive", NoRecord)
       ELSE CommAt("publish", RingPeek(ring))
    /\ UNCHANGED <<durableVars, ring, generation, dropFault, op, agg,
                   liveQueue, connected, observerVars, boundVars>>

\* publish_telemetry: accepted only while connected, and not always then
Accept(pc, next) ==
    /\ comm.pc = pc
    /\ connected
    /\ accepted' = accepted \cup {comm.record}
    /\ CommAt(next, NoRecord)
    /\ UNCHANGED <<durableVars, ring, generation, dropFault, op, agg,
                   liveQueue, connected, nextSequence, stored, bypassed,
                   loadedDropped, boundVars>>

Refuse(pc, next, r) ==
    /\ comm.pc = pc
    /\ CommAt(next, r)
    /\ UNCHANGED <<durableVars, ring, generation, dropFault, op, agg,
                   liveQueue, connected, observerVars, boundVars>>

CommReplayAccepted == Accept("publish", "pop")

\* Mutant: the record is removed although it was not published.
CommReplayRefusedPops == Refuse("publish", "pop", NoRecord)
CommReplayRefused == Refuse("publish", "receive", NoRecord)

CommStartPop ==
    /\ comm.pc = "pop"
    /\ MutexFree
    /\ op' = [Idle EXCEPT !.by = "comm", !.step = "popmeta", !.slot = ring.head]
    /\ UNCHANGED <<durableVars, ring, generation, dropFault, taskVars,
                   observerVars, boundVars>>

\* Mutant: the result of save_queue_metadata is ignored.
PopUnchecked ==
    /\ op.step = "popmeta"
    /\ ring.count > 0
    /\ \E o \in Outcome :
        /\ NvsCall(o)
        /\ ring' = RingPop(ring)
        /\ generation' = NextGeneration(generation)
        /\ meta' = IF Applied(o) THEN MetaOf(ring', generation') ELSE meta
    /\ op' = [op EXCEPT !.step = "poperase"]
    /\ UNCHANGED <<slots, pending, dropFault, agg, comm, liveQueue, connected,
                   observerVars, crashes>>

\* gateway_offline_pop up to the metadata write, undone if that fails.  Its
\* early return for an empty ring is never taken (PopFindsRecord).
PopAndSaveMetadata ==
    /\ op.step = "popmeta"
    /\ ring.count > 0
    /\ LET popped == RingPop(ring)
           next == NextGeneration(generation)
       IN  \E o \in Outcome :
            /\ NvsCall(o)
            /\ meta' = IF Applied(o) THEN MetaOf(popped, next) ELSE meta
            /\ IF o = "ok"
               THEN /\ ring' = popped
                    /\ generation' = next
                    /\ op' = [op EXCEPT !.step = "poperase"]
                    /\ UNCHANGED comm
               ELSE /\ op' = Idle
                    /\ CommAt("receive", NoRecord)
                    /\ UNCHANGED <<ring, generation>>
    /\ UNCHANGED <<slots, pending, dropFault, agg, liveQueue, connected,
                   observerVars, crashes>>

\* ... and the slot's erasure, whose own result is ignored
PopEraseSlot ==
    /\ op.step = "poperase"
    /\ \E erased, committed \in BOOLEAN :
        /\ nvsErrors' = nvsErrors + (IF erased THEN 0 ELSE 1)
                                  + (IF committed THEN 0 ELSE 1)
        /\ nvsErrors' <= MaxNvsErrors
        /\ slots' = IF erased THEN [slots EXCEPT ![op.slot] = NoRecord] ELSE slots
        /\ CommAt(IF committed THEN "peek" ELSE "receive", NoRecord)
    /\ op' = Idle
    /\ UNCHANGED <<meta, pending, ring, generation, dropFault, agg, liveQueue,
                   connected, observerVars, crashes>>

\* Mutant: the record is read without being removed from telemetry_queue.
CommReceivePeeks ==
    /\ comm.pc = "receive"
    /\ IF liveQueue = << >>
       THEN CommAt("idle", NoRecord)
       ELSE CommAt("live", Head(liveQueue))
    /\ UNCHANGED <<durableVars, ring, generation, dropFault, op, agg, liveQueue,
                   connected, observerVars, boundVars>>

\* xQueueReceive(telemetry_queue, ..., 250 ms)
CommReceive ==
    /\ comm.pc = "receive"
    /\ IF liveQueue = << >>
       THEN CommAt("idle", NoRecord) /\ UNCHANGED liveQueue
       ELSE CommAt("live", Head(liveQueue)) /\ liveQueue' = Tail(liveQueue)
    /\ UNCHANGED <<durableVars, ring, generation, dropFault, op, agg,
                   connected, observerVars, boundVars>>

CommLiveAccepted == Accept("live", "idle")
CommLiveRefused == Refuse("live", "store", comm.record)

CommStartPush ==
    /\ comm.pc = "store"
    /\ StartPush("comm", comm.record)
    /\ UNCHANGED <<durableVars, ring, generation, dropFault, taskVars,
                   observerVars, boundVars>>

\* The MQTT client's events (network_event) set and clear MQTT_CONNECTED_BIT.
ConnectionChange ==
    /\ Booted
    /\ connected' = ~connected
    /\ UNCHANGED <<durableVars, ring, generation, dropFault, op, agg, comm,
                   liveQueue, observerVars, boundVars>>

-----------------------------------------------------------------------------
Push == SavePendingEnqueue \/ WriteSlot \/ PushAndSaveMetadata \/ ErasePendingEnqueue
Pop == PopAndSaveMetadata \/ PopEraseSlot
Agg == AggProduce \/ AggSend \/ AggSendTimeout \/ AggStartPush
Comm == \/ CommStart \/ CommPeek \/ CommReplayAccepted \/ CommReplayRefused
        \/ CommStartPop \/ CommReceive \/ CommLiveAccepted
        \/ CommLiveRefused \/ CommStartPush

Next ==
    \/ Boot
    \/ Push
    \/ Pop
    \/ Agg
    \/ Comm
    \/ ConnectionChange
    \/ Crash

Spec == Init /\ [][Next]_vars

(* The scheduler runs every ready task; the MQTT library, asked again and   *)
(* again while the connection stands, at last accepts a record.  Nothing is *)
(* assumed of resets, of the network or of the supply of records.           *)
Fairness ==
    /\ WF_vars(Boot \/ Push \/ Pop)
    /\ WF_vars(Comm)
    /\ SF_vars(CommReplayAccepted)

FairSpec == Spec /\ Fairness

-----------------------------------------------------------------------------
(* What a boot would make of the present contents of flash.                 *)

Bounded(q, r) == IF Len(q) = Capacity THEN Append(Tail(q), r) ELSE Append(q, r)

FlashQueue == Contents(meta.head, meta.count, slots)

Redo == pending.present /\ meta.generation = pending.previous

RecoveredQueue ==
    IF Redo THEN Bounded(FlashQueue, pending.record) ELSE FlashQueue

RecoveredDropped ==
    IF Redo /\ meta.count = Capacity THEN meta.dropped + 1 ELSE meta.dropped

Elements(q) == {q[i] : i \in DOMAIN q}

Fifo == INSTANCE LossyFifo WITH queue <- RecoveredQueue,
                                dropped <- RecoveredDropped

-----------------------------------------------------------------------------
(* Properties.                                                              *)

Steps == {"none", "load", "pending", "journal", "slot", "meta", "erase",
          "popmeta", "poperase"}

Meta == [valid : BOOLEAN, generation : Generation, dropped : Nat,
         head : Slot, count : 0..Capacity]
Pending == [present : BOOLEAN, previous : Generation,
            record : Record \cup {NoRecord}]
Op == [by : {"none", "boot", "agg", "comm"}, step : Steps,
       record : Record \cup {NoRecord}, before : Nat, slot : Slot]
AggTask == [pc : {"idle", "send", "store"}, record : Record \cup {NoRecord}]
CommTask == [pc : {"idle", "peek", "publish", "pop", "receive", "live", "store"},
             record : Record \cup {NoRecord}]

\* Every variable has the type its C declaration gives it; in particular
\* head and count stay within the ring.
TypeOK ==
    /\ meta \in Meta
    /\ slots \in [Slot -> Record \cup {NoRecord}]
    /\ pending \in Pending
    /\ ring \in Ring
    /\ generation \in Generation
    /\ dropFault \in BOOLEAN
    /\ liveQueue \in Seq(Record)
    /\ connected \in BOOLEAN
    /\ op \in Op
    /\ agg \in AggTask
    /\ comm \in CommTask
    /\ nextSequence \in 1..(MaxSequence + 1)
    /\ accepted \in SUBSET Record
    /\ stored \in SUBSET Record
    /\ bypassed \in SUBSET Record
    /\ loadedDropped \in Nat
    /\ crashes \in 0..MaxCrashes
    /\ nvsErrors \in 0..MaxNvsErrors

\* As long as no NVS call fails, what a boot would recover from flash behaves
\* as one bounded queue, whatever resets happen: every NVS write, reset and
\* boot step leaves it as it is, except the journal write of a push, which
\* adds the record, and the metadata write of a pop, which removes the oldest.
DurableFifo == Fifo!Spec

\* As long as no NVS call fails, whenever offline_mutex is free the ring in
\* memory, its drop counter and its generation are what a boot would recover.
MemoryMatchesFlash ==
    nvsErrors = 0 /\ MutexFree =>
        /\ RingContents = RecoveredQueue
        /\ ring.dropped = RecoveredDropped
        /\ generation = meta.generation

\* As long as no NVS call fails, a boot never meets the generation mismatch
\* that gateway_offline_load gives up on.
JournalGenerationMatches ==
    nvsErrors = 0 /\ op.step = "pending" /\ pending.present =>
        generation \in {pending.previous, NextGeneration(pending.previous)}

\* As long as no NVS call fails, dropped_message_count never understates the
\* loss: at most that many of the records that reached the journal are neither
\* queued nor accepted by MQTT, though communication_task publishes outside
\* the mutex.
LossIsCounted ==
    nvsErrors = 0 =>
    Cardinality(stored \ (accepted \cup Elements(RecoveredQueue)))
        <= RecoveredDropped

\* When communication_task comes back for the record it published, the ring
\* still holds a record, although aggregation_task may have pushed meanwhile:
\* the empty-queue return of gateway_offline_pop is never taken.
PopFindsRecord == comm.pc = "pop" /\ op.step # "poperase" => ring.count > 0

\* Even when NVS calls fail, every slot the metadata names is present, so the
\* boot path that discards the whole queue needs an unreadable slot.
NamedSlotsArePresent == \A s \in SlotsInUse : slots[s] # NoRecord

\* The order among the records of a queue of which those of B bypassed another:
\* a record may come before an older one only if it is of B and the older is not.
MayPrecede(a, b, B) == a < b \/ (a \in B /\ b \notin B)
InOrderBut(q, B) == \A i, j \in DOMAIN q : i < j => MayPrecede(q[i], q[j], B)

\* As long as no NVS call fails, what a boot would recover, and replay, holds no
\* record twice and, though two tasks push into it, is out of sequence order in
\* one way only: a record that aggregation_task pushed because telemetry_queue
\* was full stands before older ones that were still in that queue or in the
\* hands of communication_task.  The records of each task are in order, and none
\* of communication_task's stands before an older one.
OvertakenOnlyWhenFull == nvsErrors = 0 => InOrderBut(RecoveredQueue, bypassed)

\* docs/offline-behavior.md:10: a drop raises OFFLINE_QUEUE_DROP.  Whenever a
\* push of a task has evicted a record since the boot, the fault is active,
\* also when the push fails afterwards, or fails to be saved.
DropRaisesFault == MutexFree /\ ring.dropped > loadedDropped => dropFault

-----------------------------------------------------------------------------
(* Inductive strengthening                                                  *)

\* Who holds the mutex at which step, and what the tasks have in hand then.
ControlInv ==
    /\ op.by = "none" <=> op.step = "none"
    /\ op.step \in {"load", "pending"} => op.by = "boot"
    /\ op.step = "journal" => op.by \in {"agg", "comm"}
    /\ op.step \in {"popmeta", "poperase"} => op.by = "comm" /\ comm.pc = "pop"
    /\ op.step \in {"journal", "slot", "meta"} => op.record \in Record
    /\ op.by = "boot" => agg.pc = "idle" /\ comm.pc = "idle"
    /\ op.by = "agg" => agg.pc = "store"
    /\ op.by = "comm" => \/ comm.pc = "store"
                         \/ comm.pc = "pop" /\ op.step \in {"popmeta", "poperase"}
    /\ agg.pc # "idle" => agg.record \in Record
    /\ comm.pc \in {"publish", "live", "store"} => comm.record \in Record
    /\ pending.present => pending.record \in Record
    /\ comm.pc \in {"publish", "pop"} /\ op.step # "poperase" => ring.count > 0

\* Every slot in use, in the ring or by the metadata, holds a record, also
\* when NVS calls fail.
SlotsInv ==
    /\ \A s \in InUse(ring.head, ring.count) :
            ring.records[s] # NoRecord /\ slots[s] # NoRecord
    /\ \A s \in InUse(meta.head, meta.count) : slots[s] # NoRecord
    /\ ~meta.valid => meta.count = 0
    /\ op.step = "load" => ring.count = 0
    /\ op.step = "meta" => slots[EnqueueSlot(ring)] # NoRecord
    /\ op.step = "popmeta" => op.slot = ring.head
    /\ op.step = "poperase" =>
            /\ meta.head = ring.head /\ meta.count = ring.count
            /\ op.slot \notin InUse(ring.head, ring.count)

\* Without NVS errors: memory and flash agree but for what the step in
\* progress has already written, and the journal is present, with the
\* generation it was written at, exactly while a push is in progress.
JournalInv ==
    nvsErrors = 0 =>
        /\ ~meta.valid => op.step = "load" /\ ~pending.present
        /\ op.step # "load" =>
                /\ meta.head = ring.head /\ meta.count = ring.count
                /\ meta.dropped = ring.dropped /\ meta.generation = generation
                /\ \A s \in InUse(ring.head, ring.count) :
                        \/ ring.records[s] = slots[s]
                        \/ op.step = "meta" /\ s = EnqueueSlot(ring)
        /\ op.step \in {"none", "journal", "popmeta", "poperase"} => ~pending.present
        /\ op.step \in {"slot", "meta"} =>
                /\ pending.present
                /\ pending.previous = generation
                /\ pending.record = op.record
        /\ op.step = "meta" => slots[EnqueueSlot(ring)] = op.record
        /\ op.step = "erase" =>
                pending.present /\ generation = NextGeneration(pending.previous)
        /\ op.step \in {"load", "pending"} /\ pending.present =>
                meta.generation \in {pending.previous,
                                     NextGeneration(pending.previous)}

QueueInv == TypeOK /\ ControlInv /\ SlotsInv /\ JournalInv

\* Whatever NVS calls fail: a push of a task knows the count of drops from before
\* it, and a drop since the boot has raised the fault or is about to.
FaultInv ==
    /\ ~meta.valid => meta.dropped = 0
    /\ op.by = "boot" => ring.dropped = loadedDropped
    /\ op.by \in {"agg", "comm"} /\ op.step \in {"journal", "slot", "meta"} =>
            op.before = ring.dropped
    /\ ring.dropped > loadedDropped =>
            \/ dropFault
            \/ op.by # "boot" /\ op.step = "erase" /\ op.before # ring.dropped

\* The records that reached the journal and are neither queued nor accepted.
Lost == stored \ (accepted \cup Elements(RecoveredQueue))

\* Without NVS errors: the record communication_task publishes is the oldest, or
\* was evicted since and then its eviction, which acceptance makes harmless, pays
\* for the record that the pop removes in its place.
LossInv ==
    nvsErrors = 0 =>
        /\ Cardinality(Lost) <= RecoveredDropped
        /\ comm.pc = "publish" =>
                \/ comm.record = RecoveredQueue[1]
                \/ Cardinality(Lost \ {comm.record}) < RecoveredDropped
        /\ comm.pc = "pop" /\ op.step # "poperase" =>
                \/ RecoveredQueue[1] \in accepted
                \/ Cardinality(Lost) < RecoveredDropped

InOrder(q) == \A i, j \in DOMAIN q : i < j => q[i] < q[j]
Before(S, T) == \A a \in S, b \in T : a < b

\* What each task has in hand that is not in a queue.
Journaled(by) == op.by = by /\ op.step \in {"slot", "meta", "erase"}
CommHolds ==
    IF comm.pc \in {"live", "store"} /\ ~Journaled("comm") THEN {comm.record} ELSE {}
AggHolds ==
    IF agg.pc \in {"send", "store"} /\ ~Journaled("agg") THEN {agg.record} ELSE {}

\* Without NVS errors: the records on their way are in sequence order from
\* communication_task over telemetry_queue to aggregation_task, and so are the
\* ones in the offline queue, but for those that bypassed telemetry_queue, which
\* are only known to be older than what aggregation_task has in hand.
OrderInv ==
    nvsErrors = 0 =>
        /\ agg.pc = "send" => agg.record \notin bypassed
        /\ agg.pc = "store" => agg.record \in bypassed
        /\ op.step = "journal" =>
                op.record = IF op.by = "agg" THEN agg.record ELSE comm.record
        /\ InOrderBut(RecoveredQueue, bypassed) /\ InOrder(liveQueue)
        /\ bypassed \cap (CommHolds \cup Elements(liveQueue)) = {}
        /\ Before(Elements(RecoveredQueue) \ bypassed, CommHolds \cup Elements(liveQueue))
        /\ Before(Elements(RecoveredQueue), AggHolds \cup {nextSequence})
        /\ Before(CommHolds, Elements(liveQueue) \cup AggHolds \cup {nextSequence})
        /\ Before(Elements(liveQueue), AggHolds \cup {nextSequence})
        /\ Before(AggHolds \cup bypassed, {nextSequence})

-----------------------------------------------------------------------------
(* Liveness                                                                 *)

\* Once the connection stands, the offline queue drains.
QueueDrains == <>[]connected => <>[](RecoveredQueue = << >>)

\* No record is lost in silence: each that is gone is counted, and a count that
\* grew since the boot has raised the fault that health messages carry
\* (iiot_queue_push, aggregation_task, communication_task).
LossIsReported == LossIsCounted /\ DropRaisesFault
=============================================================================
