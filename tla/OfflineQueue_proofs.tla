------------------------ MODULE OfflineQueue_proofs ------------------------
(***************************************************************************)
(* Proofs about the offline queue for every capacity, every length of       *)
(* telemetry_queue and any number of records, resets and NVS errors.        *)
(***************************************************************************)
EXTENDS OfflineQueue, TLAPS, SequenceTheorems, FiniteSetTheorems

\* The record types of TypeOK are expanded wherever it is.
USE DEF Meta, Pending, Op, AggTask, CommTask

-----------------------------------------------------------------------------
(* Arithmetic of the ring                                                   *)

\* One turn of the ring: the index of the i-th slot from head.
LEMMA Wrap ==
    ASSUME NEW a \in Nat, a < 2 * Capacity
    PROVE  a % Capacity = IF a < Capacity THEN a ELSE a - Capacity
BY CapacityAssumption

\* The slot c places after head.
LEMMA WrapSum ==
    ASSUME NEW h \in Slot, NEW c \in 0..Capacity
    PROVE  /\ (h + c) % Capacity \in Slot
           /\ (h + c) % Capacity = IF h + c < Capacity THEN h + c ELSE h + c - Capacity
<1>1. CASE h + c < Capacity
  BY <1>1, CapacityAssumption DEF Slot
<1>2. CASE ~(h + c < Capacity)
  <2>1. h + c - Capacity \in 0..(Capacity - 1)
    BY <1>2, CapacityAssumption DEF Slot
  <2>2. (h + c) % Capacity = h + c - Capacity
    BY <1>2, <2>1, CapacityAssumption DEF Slot
  <2> QED BY <1>2, <2>1, <2>2 DEF Slot
<1> QED BY <1>1, <1>2

\* The slot before the next one, a turn later, is the same one.
LEMMA WrapTurn ==
    ASSUME NEW h \in Slot
    PROVE  (((h + 1) % Capacity) + (Capacity - 1)) % Capacity = h
<1>1. (h + 1) % Capacity \in Slot
      /\ (h + 1) % Capacity = IF h + 1 < Capacity THEN h + 1 ELSE h + 1 - Capacity
  BY WrapSum, CapacityAssumption
<1> DEFINE n == (h + 1) % Capacity
<1>2. Capacity - 1 \in 0..Capacity
  BY CapacityAssumption
<1> HIDE DEF n
<1>3. n \in Slot
  BY <1>1 DEF n
<1>4. (n + (Capacity - 1)) % Capacity = IF n + (Capacity - 1) < Capacity
                                       THEN n + (Capacity - 1)
                                       ELSE n + (Capacity - 1) - Capacity
  BY <1>2, <1>3, WrapSum
<1>5. n = IF h + 1 < Capacity THEN h + 1 ELSE h + 1 - Capacity
  BY <1>1 DEF n
<1>6. (n + (Capacity - 1)) % Capacity = h
  BY <1>3, <1>4, <1>5, CapacityAssumption DEF Slot
<1> QED BY <1>6 DEF n

\* An index reduced by the capacity is a slot.
LEMMA ModSlot ==
    ASSUME NEW a \in Nat PROVE a % Capacity \in Slot
BY CapacityAssumption DEF Slot

\* The successor of a generation is another generation.
LEMMA GenerationStep ==
    ASSUME NEW g \in Generation
    PROVE  NextGeneration(g) \in Generation /\ NextGeneration(g) # g
BY GenModulusAssumption DEF Generation, NextGeneration

\* Which slots a ring uses, without the modulus.
LEMMA InUseSlots ==
    ASSUME NEW h \in Slot, NEW c \in 0..Capacity, NEW s
    PROVE  s \in InUse(h, c) <=>
               s \in Slot /\ (\/ h <= s /\ s < h + c
                              \/ s < h /\ s + Capacity < h + c)
<1>1. ASSUME NEW i \in 0..(c - 1)
      PROVE  (h + i) % Capacity = IF h + i < Capacity THEN h + i
                                                      ELSE h + i - Capacity
  BY Wrap, CapacityAssumption DEF Slot
<1>2. ASSUME s \in InUse(h, c)
      PROVE  s \in Slot /\ (\/ h <= s /\ s < h + c
                            \/ s < h /\ s + Capacity < h + c)
  BY <1>1, <1>2, CapacityAssumption DEF InUse, Slot
<1>3. ASSUME s \in Slot, h <= s, s < h + c PROVE s \in InUse(h, c)
  <2>1. s - h \in 0..(c - 1)
    BY <1>3 DEF Slot
  <2>2. (h + (s - h)) % Capacity = s
    BY <1>1, <1>3, <2>1, CapacityAssumption DEF Slot
  <2> QED BY <2>1, <2>2 DEF InUse
<1>4. ASSUME s \in Slot, s < h, s + Capacity < h + c PROVE s \in InUse(h, c)
  <2>1. s + Capacity - h \in 0..(c - 1)
    BY <1>4, CapacityAssumption DEF Slot
  <2>2. (h + (s + Capacity - h)) % Capacity = s
    BY <1>1, <1>4, <2>1, CapacityAssumption DEF Slot
  <2> QED BY <2>1, <2>2 DEF InUse
<1> QED BY <1>2, <1>3, <1>4

\* The initial ring is empty.
LEMMA RingInitFacts ==
    /\ RingInit \in Ring
    /\ RingInit.count = 0
    /\ InUse(RingInit.head, RingInit.count) = {}
<1>1. RingInit \in Ring /\ RingInit.count = 0
  BY CapacityAssumption DEF RingInit, Ring, Slot
<1>2. InUse(RingInit.head, 0) = {}
  BY DEF InUse
<1> QED BY <1>1, <1>2

\* The slots in use after a push onto a ring with room, on plain numbers.
LEMMA InUsePush ==
    ASSUME NEW h \in Slot, NEW c \in 0..(Capacity - 1),
           NEW s \in InUse(h, c + 1)
    PROVE  s \in Slot /\ (s = (h + c) % Capacity \/ s \in InUse(h, c))
<1>1. c \in 0..Capacity /\ c + 1 \in 0..Capacity
  BY CapacityAssumption
<1>2. (h + c) % Capacity = IF h + c < Capacity THEN h + c ELSE h + c - Capacity
  BY <1>1, WrapSum
<1>3. s \in Slot /\ (\/ h <= s /\ s < h + (c + 1)
                     \/ s < h /\ s + Capacity < h + (c + 1))
  BY <1>1, InUseSlots
<1>4. s \in InUse(h, c) <=>
               s \in Slot /\ (\/ h <= s /\ s < h + c
                              \/ s < h /\ s + Capacity < h + c)
  BY <1>1, InUseSlots
<1> QED BY <1>1, <1>2, <1>3, <1>4, CapacityAssumption DEF Slot

\* A full ring uses every slot.
LEMMA InUseFull ==
    ASSUME NEW h \in Slot, NEW s \in Slot PROVE s \in InUse(h, Capacity)
<1>1. Capacity \in 0..Capacity
  BY CapacityAssumption
<1>2. s \in InUse(h, Capacity) <=>
               s \in Slot /\ (\/ h <= s /\ s < h + Capacity
                              \/ s < h /\ s + Capacity < h + Capacity)
  BY <1>1, InUseSlots
<1> QED BY <1>2, CapacityAssumption DEF Slot

\* The slots in use after a pop, on plain numbers.
LEMMA InUsePop ==
    ASSUME NEW h \in Slot, NEW c \in 1..Capacity
    PROVE  /\ h \in InUse(h, c)
           /\ \A s \in InUse((h + 1) % Capacity, c - 1) :
                  s \in Slot /\ s # h /\ s \in InUse(h, c)
<1>1. c \in 0..Capacity /\ c - 1 \in 0..Capacity /\ 1 \in 0..Capacity
  BY CapacityAssumption
<1>2. (h + 1) % Capacity \in Slot
      /\ (h + 1) % Capacity = IF h + 1 < Capacity THEN h + 1 ELSE h + 1 - Capacity
  BY <1>1, WrapSum
<1> DEFINE n == (h + 1) % Capacity
<1> HIDE DEF n
<1>3. n \in Slot /\ n = IF h + 1 < Capacity THEN h + 1 ELSE h + 1 - Capacity
  BY <1>2 DEF n
<1>4. ASSUME NEW s
      PROVE  s \in InUse(h, c) <=>
               s \in Slot /\ (\/ h <= s /\ s < h + c
                              \/ s < h /\ s + Capacity < h + c)
  BY <1>1, InUseSlots
<1>5. h \in InUse(h, c)
  BY <1>4 DEF Slot
<1>6. ASSUME NEW s \in InUse(n, c - 1)
      PROVE  s \in Slot /\ s # h /\ s \in InUse(h, c)
  <2>1. s \in Slot /\ (\/ n <= s /\ s < n + (c - 1)
                       \/ s < n /\ s + Capacity < n + (c - 1))
    BY <1>1, <1>3, <1>6, InUseSlots
  <2>2. \/ h <= s /\ s < h + c
        \/ s < h /\ s + Capacity < h + c
    BY <1>1, <1>3, <2>1, CapacityAssumption DEF Slot
  <2>3. s # h
    BY <1>1, <1>3, <2>1, CapacityAssumption DEF Slot
  <2> QED BY <1>4, <2>1, <2>2, <2>3
<1> QED BY <1>5, <1>6 DEF n

\* A push writes the slot persist_enqueued_record wrote to flash, and uses no
\* other slot that was not in use.
LEMMA RingPushFacts ==
    ASSUME NEW q \in Ring, NEW r \in Record
    PROVE  /\ RingPush(q, r) \in Ring
           /\ EnqueueSlot(q) \in Slot
           /\ RingPush(q, r).records = [q.records EXCEPT ![EnqueueSlot(q)] = r]
           /\ RingPush(q, r).count > 0
           /\ \A s \in InUse(RingPush(q, r).head, RingPush(q, r).count) :
                  s \in Slot /\ (s = EnqueueSlot(q) \/ s \in InUse(q.head, q.count))
<1> DEFINE p == RingPush(q, r)
<1>0. q.head \in Slot /\ q.count \in 0..Capacity /\ q.dropped \in Nat
      /\ q.records \in [Slot -> Record \cup {NoRecord}]
  BY DEF Ring
<1>1. CASE q.count = Capacity
  <2>1. EnqueueSlot(q) = q.head
    BY <1>1 DEF EnqueueSlot
  <2>2. (q.head + 1) % Capacity \in Slot
    BY <1>0, WrapSum, CapacityAssumption
  <2>3. (((q.head + 1) % Capacity) + (Capacity - 1)) % Capacity = q.head
    BY <1>0, WrapTurn
  <2>4. p = [head |-> (q.head + 1) % Capacity, count |-> Capacity - 1 + 1,
             dropped |-> q.dropped + 1,
             records |-> [q.records EXCEPT ![q.head] = r]]
    BY <1>1, <2>3 DEF RingPush
  <2>5. Capacity - 1 + 1 = Capacity /\ Capacity \in 0..Capacity /\ Capacity > 0
        /\ q.dropped + 1 \in Nat
    BY <1>0, CapacityAssumption
  <2>6. p \in Ring
    <3>1. [q.records EXCEPT ![q.head] = r] \in [Slot -> Record \cup {NoRecord}]
      BY <1>0
    <3> QED BY <2>2, <2>4, <2>5, <3>1 DEF Ring
  <2>7. \A s \in Slot : s \in InUse(q.head, q.count)
    BY <1>0, <1>1, InUseFull
  <2>8. \A s \in InUse(p.head, p.count) : s \in Slot
    BY <2>6, InUseSlots DEF Ring
  <2> QED BY <1>0, <2>1, <2>4, <2>5, <2>6, <2>7, <2>8
<1>2. CASE q.count # Capacity
  <2>1. EnqueueSlot(q) = (q.head + q.count) % Capacity
    BY <1>2 DEF EnqueueSlot
  <2>2. EnqueueSlot(q) \in Slot
    BY <1>0, <2>1, WrapSum
  <2>3. p = [head |-> q.head, count |-> q.count + 1, dropped |-> q.dropped,
             records |-> [q.records EXCEPT ![EnqueueSlot(q)] = r]]
    BY <1>2, <2>1 DEF RingPush
  <2>4. q.count \in 0..(Capacity - 1) /\ q.count + 1 \in 0..Capacity
        /\ q.count + 1 > 0
    BY <1>0, <1>2, CapacityAssumption
  <2>5. p \in Ring
    <3>1. [q.records EXCEPT ![EnqueueSlot(q)] = r] \in [Slot -> Record \cup {NoRecord}]
      BY <1>0
    <3> QED BY <1>0, <2>3, <2>4, <3>1 DEF Ring
  <2>6. ASSUME NEW s \in InUse(q.head, q.count + 1)
        PROVE  s \in Slot /\ (s = EnqueueSlot(q) \/ s \in InUse(q.head, q.count))
    BY <1>0, <2>1, <2>4, InUsePush
  <2> QED BY <1>0, <2>2, <2>3, <2>4, <2>5, <2>6
<1> QED BY <1>1, <1>2

\* A pop frees the slot of the oldest record and no other.
LEMMA RingPopFacts ==
    ASSUME NEW q \in Ring, q.count > 0
    PROVE  /\ RingPop(q) \in Ring
           /\ RingPop(q).records = q.records
           /\ RingPop(q).dropped = q.dropped
           /\ q.head \in InUse(q.head, q.count)
           /\ q.head \notin InUse(RingPop(q).head, RingPop(q).count)
           /\ \A s \in InUse(RingPop(q).head, RingPop(q).count) :
                  s \in Slot /\ s \in InUse(q.head, q.count)
<1>0. q.head \in Slot /\ q.count \in 1..Capacity /\ q.dropped \in Nat
      /\ q.records \in [Slot -> Record \cup {NoRecord}]
  BY DEF Ring
<1>1. (q.head + 1) % Capacity \in Slot
  BY <1>0, WrapSum, CapacityAssumption
<1>2. /\ RingPop(q).head = (q.head + 1) % Capacity
      /\ RingPop(q).count = q.count - 1
      /\ RingPop(q).dropped = q.dropped
      /\ RingPop(q).records = q.records
  BY DEF RingPop, Ring
<1>3. RingPop(q) \in Ring
  <2>1. q.count - 1 \in 0..Capacity
    BY <1>0, CapacityAssumption
  <2> QED BY <1>0, <1>1, <2>1 DEF Ring, RingPop
<1> QED BY <1>0, <1>2, <1>3, InUsePop

-----------------------------------------------------------------------------
(* The inductive invariant, one lemma for each kind of step                  *)

\* What the flash and the ring say of each other depends on nothing else.
LEMMA FlashUntouched ==
    ASSUME QueueInv, UNCHANGED <<meta, slots, pending, ring, generation, nvsErrors>>,
           \/ UNCHANGED op
           \/ /\ op.step = "none"
              /\ \/ op'.step = "journal"
                 \/ op'.step = "popmeta" /\ op'.slot = ring.head
    PROVE  SlotsInv' /\ JournalInv'
<1>1. SlotsInv'
  BY DEF QueueInv, SlotsInv
<1>2. JournalInv'
  BY DEF QueueInv, JournalInv
<1> QED BY <1>1, <1>2

\* The steps of aggregation_task outside gateway_offline_push leave the ring,
\* the flash and the journal alone and keep the invariant.
LEMMA AggStep == QueueInv /\ Agg => QueueInv'
<1> SUFFICES ASSUME QueueInv, Agg PROVE QueueInv'
  OBVIOUS
<1> USE DEF durableVars, taskVars, observerVars, boundVars
<1>1. CASE AggProduce
  <2>1. TypeOK'
    BY <1>1, BoundsAssumption DEF QueueInv, TypeOK, AggProduce, Record
  <2>2. ControlInv'
    BY <1>1, BoundsAssumption DEF QueueInv, TypeOK, ControlInv, AggProduce, Record, Booted
  <2> QED BY <1>1, <2>1, <2>2, FlashUntouched DEF QueueInv, AggProduce
<1>2. CASE AggSend
  <2>1. TypeOK'
    BY <1>2 DEF QueueInv, TypeOK, ControlInv, AggSend
  <2>2. ControlInv'
    BY <1>2 DEF QueueInv, TypeOK, ControlInv, AggSend
  <2> QED BY <1>2, <2>1, <2>2, FlashUntouched DEF QueueInv, AggSend
<1>3. CASE AggSendTimeout
  <2>1. TypeOK'
    BY <1>3 DEF QueueInv, TypeOK, ControlInv, AggSendTimeout
  <2>2. ControlInv'
    BY <1>3 DEF QueueInv, TypeOK, ControlInv, AggSendTimeout
  <2> QED BY <1>3, <2>1, <2>2, FlashUntouched DEF QueueInv, AggSendTimeout
<1>4. CASE AggStartPush
  <2>0. op.step = "none" /\ op'.step = "journal"
    BY <1>4 DEF QueueInv, ControlInv, AggStartPush, StartPush, MutexFree
  <2>1. TypeOK'
    BY <1>4, CapacityAssumption
    DEF QueueInv, TypeOK, AggStartPush, StartPush, Ring, Slot, Steps
  <2>2. ControlInv'
    BY <1>4 DEF QueueInv, TypeOK, ControlInv, AggStartPush, StartPush, MutexFree
  <2> QED BY <1>4, <2>0, <2>1, <2>2, FlashUntouched DEF QueueInv, AggStartPush
<1> QED BY <1>1, <1>2, <1>3, <1>4 DEF Agg

\* A step of communication_task outside the mutex changes comm, and takes at
\* most the first record off telemetry_queue or adds one to accepted.
LEMMA CommStep == QueueInv /\ Comm => QueueInv'
<1> SUFFICES ASSUME QueueInv, Comm PROVE QueueInv'
  OBVIOUS
<1> USE DEF durableVars, taskVars, observerVars, boundVars, CommAt
<1>1. CASE CommStart
  <2>1. TypeOK'
    BY <1>1 DEF QueueInv, TypeOK, ControlInv, CommStart, Booted
  <2>2. ControlInv'
    BY <1>1 DEF QueueInv, TypeOK, ControlInv, CommStart, Booted
  <2> QED BY <1>1, <2>1, <2>2, FlashUntouched DEF QueueInv, CommStart, Booted
<1>2. CASE CommPeek
  <2>0. ASSUME ring.count # 0 PROVE RingPeek(ring) \in Record
    <3>1. ring \in Ring /\ ring.count > 0
      BY <2>0 DEF QueueInv, TypeOK, Ring
    <3>2. ring.head \in InUse(ring.head, ring.count)
      BY <3>1, RingPopFacts
    <3> QED BY <3>1, <3>2 DEF QueueInv, SlotsInv, RingPeek, Ring
  <2>1. TypeOK'
    BY <1>2, <2>0 DEF QueueInv, TypeOK, CommPeek
  <2>2. ControlInv'
    <3>1. ring \in Ring
      BY DEF QueueInv, TypeOK
    <3> QED BY <1>2, <2>0, <3>1 DEF QueueInv, ControlInv, CommPeek, MutexFree, Ring
  <2> QED BY <1>2, <2>1, <2>2, FlashUntouched DEF QueueInv, CommPeek
<1>3. CASE CommReplayAccepted
  <2>1. TypeOK'
    BY <1>3 DEF QueueInv, TypeOK, ControlInv, CommReplayAccepted, Accept
  <2>2. ControlInv'
    BY <1>3 DEF QueueInv, TypeOK, ControlInv, CommReplayAccepted, Accept
  <2> QED BY <1>3, <2>1, <2>2, FlashUntouched DEF QueueInv, CommReplayAccepted, Accept
<1>4. CASE CommReplayRefused
  <2>1. TypeOK'
    BY <1>4 DEF QueueInv, TypeOK, ControlInv, CommReplayRefused, Refuse
  <2>2. ControlInv'
    BY <1>4 DEF QueueInv, TypeOK, ControlInv, CommReplayRefused, Refuse
  <2> QED BY <1>4, <2>1, <2>2, FlashUntouched DEF QueueInv, CommReplayRefused, Refuse
<1>5. CASE CommReceive
  <2>0. liveQueue # << >> => /\ Head(liveQueue) \in Record
                             /\ Tail(liveQueue) \in Seq(Record)
    BY DEF QueueInv, TypeOK
  <2>1. TypeOK'
    <3>1. liveQueue' \in Seq(Record)
      BY <1>5, <2>0 DEF QueueInv, TypeOK, CommReceive
    <3>2. comm' \in CommTask
      BY <1>5, <2>0 DEF CommReceive
    <3> QED BY <1>5, <3>1, <3>2 DEF QueueInv, TypeOK, CommReceive
  <2>2. ControlInv'
    BY <1>5, <2>0 DEF QueueInv, ControlInv, CommReceive
  <2> QED BY <1>5, <2>1, <2>2, FlashUntouched DEF QueueInv, CommReceive
<1>6. CASE CommLiveAccepted
  <2>1. TypeOK'
    BY <1>6 DEF QueueInv, TypeOK, ControlInv, CommLiveAccepted, Accept
  <2>2. ControlInv'
    BY <1>6 DEF QueueInv, TypeOK, ControlInv, CommLiveAccepted, Accept
  <2> QED BY <1>6, <2>1, <2>2, FlashUntouched DEF QueueInv, CommLiveAccepted, Accept
<1>7. CASE CommLiveRefused
  <2>1. TypeOK'
    BY <1>7 DEF QueueInv, TypeOK, ControlInv, CommLiveRefused, Refuse
  <2>2. ControlInv'
    BY <1>7 DEF QueueInv, TypeOK, ControlInv, CommLiveRefused, Refuse
  <2> QED BY <1>7, <2>1, <2>2, FlashUntouched DEF QueueInv, CommLiveRefused, Refuse
<1>8. CASE CommStartPop
  <2>0. op.step = "none" /\ op'.step = "popmeta" /\ op'.slot = ring.head
    BY <1>8 DEF QueueInv, ControlInv, CommStartPop, Idle, MutexFree
  <2>1. TypeOK'
    BY <1>8, CapacityAssumption DEF QueueInv, TypeOK, CommStartPop, Idle, Ring, Steps
  <2>2. ControlInv'
    BY <1>8 DEF QueueInv, TypeOK, ControlInv, CommStartPop, Idle, MutexFree
  <2> QED BY <1>8, <2>0, <2>1, <2>2, FlashUntouched DEF QueueInv, CommStartPop
<1>9. CASE CommStartPush
  <2>0. op.step = "none" /\ op'.step = "journal"
    BY <1>9 DEF QueueInv, ControlInv, CommStartPush, StartPush, MutexFree
  <2>1. TypeOK'
    BY <1>9, CapacityAssumption
    DEF QueueInv, TypeOK, CommStartPush, StartPush, Ring, Slot, Steps
  <2>2. ControlInv'
    BY <1>9 DEF QueueInv, TypeOK, ControlInv, CommStartPush, StartPush, MutexFree
  <2> QED BY <1>9, <2>0, <2>1, <2>2, FlashUntouched DEF QueueInv, CommStartPush
<1> QED BY <1>1, <1>2, <1>3, <1>4, <1>5, <1>6, <1>7, <1>8, <1>9 DEF Comm

\* Losing or regaining the broker touches neither the ring nor the flash.
LEMMA ConnectionStep == QueueInv /\ ConnectionChange => QueueInv'
<1> SUFFICES ASSUME QueueInv, ConnectionChange PROVE QueueInv'
  OBVIOUS
<1> USE DEF durableVars, observerVars, boundVars
<1>1. TypeOK'
  BY DEF QueueInv, TypeOK, ConnectionChange
<1>2. ControlInv'
  BY DEF QueueInv, TypeOK, ControlInv, ConnectionChange
<1> QED BY <1>1, <1>2, FlashUntouched DEF QueueInv, ConnectionChange

\* A reset keeps the flash, so what a boot finds there is what the step it
\* interrupted had written.
LEMMA CrashStep == QueueInv /\ Crash => QueueInv'
<1> SUFFICES ASSUME QueueInv, Crash PROVE QueueInv'
  OBVIOUS
<1> USE DEF durableVars
<1>0. 0 \in Generation /\ 0 \in Slot
  BY CapacityAssumption, GenModulusAssumption DEF Generation, Slot
<1>a. crashes' \in 0..MaxCrashes
  BY BoundsAssumption DEF QueueInv, TypeOK, Crash
<1>1. TypeOK'
  <2>1. /\ ring' \in Ring /\ op' \in Op
    BY <1>0, RingInitFacts DEF Crash, Idle, Steps
  <2>2. liveQueue' \in Seq(Record)
    BY DEF Crash
  <2> QED BY <1>0, <1>a, <2>1, <2>2 DEF QueueInv, TypeOK, Crash
<1>2. ControlInv'
  BY DEF QueueInv, TypeOK, ControlInv, Crash, Idle
<1>3. SlotsInv'
  BY RingInitFacts DEF QueueInv, TypeOK, SlotsInv, Crash, Idle
<1>4. JournalInv'
  BY DEF QueueInv, TypeOK, ControlInv, JournalInv, Crash, Idle, Steps
<1> QED BY <1>1, <1>2, <1>3, <1>4 DEF QueueInv

\* A gateway that has never run has neither queue nor journal.
LEMMA InitStep == Init => QueueInv
<1> SUFFICES ASSUME Init PROVE QueueInv
  OBVIOUS
<1>0. /\ 0 \in Generation /\ 0 \in Slot /\ 0 \in 0..Capacity
      /\ 0 \in 0..MaxCrashes /\ 0 \in 0..MaxNvsErrors /\ 1 \in 1..(MaxSequence + 1)
  BY CapacityAssumption, BoundsAssumption, GenModulusAssumption
  DEF Generation, Slot
<1>1. TypeOK
  <2>1. /\ ring \in Ring /\ op \in Op
    BY <1>0, RingInitFacts DEF Init, Idle, Steps
  <2>2. liveQueue \in Seq(Record)
    BY DEF Init
  <2>3. /\ meta \in Meta
        /\ pending \in Pending
        /\ slots \in [Slot -> Record \cup {NoRecord}]
    BY <1>0 DEF Init, NoMeta, NoPending
  <2> QED BY <1>0, <2>1, <2>2, <2>3 DEF TypeOK, Init
<1>2. ControlInv
  BY DEF ControlInv, Init, Idle, NoPending
<1>3. SlotsInv
  BY RingInitFacts DEF SlotsInv, Init, Idle, NoMeta, RingInit
<1>4. JournalInv
  BY DEF JournalInv, Init, Idle, NoMeta, NoPending
<1> QED BY <1>1, <1>2, <1>3, <1>4 DEF QueueInv

-----------------------------------------------------------------------------
(* Inside the mutex                                                         *)

\* An NVS call that is not "ok" is counted.
LEMMA NvsCallFacts ==
    ASSUME QueueInv, NEW o, NvsCall(o)
    PROVE  /\ nvsErrors' \in 0..MaxNvsErrors
           /\ nvsErrors' = 0 => nvsErrors = 0 /\ o = "ok"
BY BoundsAssumption DEF QueueInv, TypeOK, NvsCall

\* Leaving a push frees the mutex and lets its task go on.
LEMMA FinishPushStep ==
    ASSUME QueueInv, op.step \in {"journal", "slot", "meta", "erase"},
           NEW d, FinishPush(d),
           ring' = ring \/ ring'.count > 0,
           pending'.present => pending'.record \in Record
    PROVE  /\ op' = Idle
           /\ dropFault' \in BOOLEAN
           /\ op' \in Op
           /\ agg' \in AggTask
           /\ comm' \in CommTask
           /\ ControlInv'
<1>1. op' = Idle
  BY DEF FinishPush
<1>2. dropFault' \in BOOLEAN
  BY DEF FinishPush, QueueInv, TypeOK
<1>3. op' \in Op
  BY <1>1, CapacityAssumption DEF Idle, Steps, Slot
<1>4. agg' \in AggTask
  BY DEF FinishPush, QueueInv, TypeOK
<1>5. comm' \in CommTask
  BY DEF FinishPush, QueueInv, TypeOK
<1>6. ControlInv'
  BY <1>1 DEF FinishPush, QueueInv, TypeOK, ControlInv, Idle
<1> QED BY <1>1, <1>2, <1>3, <1>4, <1>5, <1>6

\* Going on within a push.
LEMMA GoOnStep ==
    ASSUME QueueInv, NEW next \in {"slot", "meta", "erase"},
           op.step \in {"journal", "slot", "meta"}, GoOn(next),
           ring' = ring \/ ring'.count > 0,
           pending'.present => pending'.record \in Record
    PROVE  /\ op' = [op EXCEPT !.step = next]
           /\ op'.step = next
           /\ dropFault' \in BOOLEAN
           /\ op' \in Op
           /\ agg' \in AggTask
           /\ comm' \in CommTask
           /\ ControlInv'
<1>1. op' = [op EXCEPT !.step = next] /\ op'.step = next
  BY DEF GoOn, QueueInv, TypeOK
<1>2. op' \in Op
  BY <1>1 DEF QueueInv, TypeOK, Steps
<1>3. ControlInv'
  BY <1>1 DEF GoOn, QueueInv, TypeOK, ControlInv
<1> QED BY <1>1, <1>2, <1>3 DEF GoOn, QueueInv, TypeOK

\* The journal, the slot, the ring with its metadata, the journal's erasure.
LEMMA PushStep == QueueInv /\ Push => QueueInv'
<1> SUFFICES ASSUME QueueInv, Push PROVE QueueInv'
  OBVIOUS
<1> USE DEF observerVars
<1>0. ring \in Ring /\ ring.dropped \in Nat
  BY DEF QueueInv, TypeOK, Ring
<1>1. CASE SavePendingEnqueue
  <2>0. op.record \in Record
    BY <1>1 DEF SavePendingEnqueue, QueueInv, ControlInv
  <2>1. PICK o \in Outcome :
        /\ NvsCall(o)
        /\ IF Applied(o)
           THEN /\ pending' = [present |-> TRUE, previous |-> generation,
                               record |-> op.record]
                /\ stored' = stored \cup {op.record}
           ELSE UNCHANGED <<pending, stored>>
        /\ IF o = "ok" THEN GoOn("slot") ELSE FinishPush(ring.dropped)
    BY <1>1 DEF SavePendingEnqueue
  <2>2. /\ pending' \in Pending
        /\ pending'.present => pending'.record \in Record
    <3>1. CASE Applied(o)
      <4>1. pending' = [present |-> TRUE, previous |-> generation,
                        record |-> op.record]
        BY <2>1, <3>1
      <4>2. generation \in Generation
        BY DEF QueueInv, TypeOK
      <4> QED BY <2>0, <4>1, <4>2
    <3>2. CASE ~Applied(o)
      BY <2>1, <3>2 DEF QueueInv, TypeOK, ControlInv
    <3> QED BY <3>1, <3>2
  <2>3. stored' \in SUBSET Record
    BY <2>0, <2>1 DEF QueueInv, TypeOK
  <2>4. ring' = ring /\ op.step = "journal"
    BY <1>1 DEF SavePendingEnqueue
  <2>5. nvsErrors' \in 0..MaxNvsErrors /\ (nvsErrors' = 0 => nvsErrors = 0 /\ o = "ok")
    BY <2>1, NvsCallFacts
  <2>6. CASE o = "ok"
    <3>0. GoOn("slot")
      BY <2>1, <2>6
    <3>1. TypeOK'
      BY <1>1, <2>2, <2>3, <2>4, <2>5, <3>0, GoOnStep
      DEF QueueInv, TypeOK, SavePendingEnqueue
    <3>2. ControlInv' /\ op' = [op EXCEPT !.step = "slot"] /\ op'.step = "slot"
      BY <2>2, <2>4, <3>0, GoOnStep
    <3>3. SlotsInv'
      BY <1>1, <3>2 DEF QueueInv, SlotsInv, SavePendingEnqueue
    <3>4. JournalInv'
      BY <1>1, <2>1, <2>4, <2>5, <2>6, <3>2
      DEF QueueInv, TypeOK, JournalInv, SavePendingEnqueue, Applied
    <3> QED BY <3>1, <3>2, <3>3, <3>4 DEF QueueInv
  <2>7. CASE o # "ok"
    <3>0. FinishPush(ring.dropped)
      BY <2>1, <2>7
    <3>1. TypeOK'
      BY <1>1, <2>2, <2>3, <2>4, <2>5, <3>0, FinishPushStep
      DEF QueueInv, TypeOK, SavePendingEnqueue
    <3>2. ControlInv' /\ op' = Idle
      BY <2>2, <2>4, <3>0, FinishPushStep
    <3>3. SlotsInv'
      BY <1>1, <3>2 DEF QueueInv, SlotsInv, SavePendingEnqueue, Idle
    <3>4. JournalInv'
      BY <2>5, <2>7 DEF JournalInv
    <3> QED BY <3>1, <3>2, <3>3, <3>4 DEF QueueInv
  <2> QED BY <2>6, <2>7
<1>2. CASE WriteSlot
  <2>0. op.record \in Record /\ op.record # NoRecord
    BY <1>2 DEF WriteSlot, QueueInv, ControlInv, Record, NoRecord
  <2>1. PICK o \in {"ok", "failed"} :
        /\ NvsCall(o)
        /\ slots' = IF Applied(o)
                    THEN [slots EXCEPT ![EnqueueSlot(ring)] = op.record]
                    ELSE slots
        /\ IF o = "ok" THEN GoOn("meta") ELSE FinishPush(ring.dropped)
    BY <1>2 DEF WriteSlot
  <2>2. pending'.present => pending'.record \in Record
    BY <1>2 DEF WriteSlot, QueueInv, ControlInv
  <2>3. EnqueueSlot(ring) \in Slot
    BY <1>0, <2>0, RingPushFacts
  <2>4. ring' = ring /\ op.step = "slot" /\ meta' = meta
    BY <1>2 DEF WriteSlot
  <2>5. nvsErrors' \in 0..MaxNvsErrors /\ (nvsErrors' = 0 => nvsErrors = 0 /\ o = "ok")
    BY <2>1, NvsCallFacts
  <2>6. CASE o = "ok"
    <3>0. GoOn("meta") /\ slots' = [slots EXCEPT ![EnqueueSlot(ring)] = op.record]
      BY <2>1, <2>6 DEF Applied
    <3>1. TypeOK'
      BY <1>2, <2>0, <2>2, <2>3, <2>4, <2>5, <3>0, GoOnStep
      DEF QueueInv, TypeOK, WriteSlot
    <3>2. ControlInv' /\ op' = [op EXCEPT !.step = "meta"] /\ op'.step = "meta"
      BY <2>2, <2>4, <3>0, GoOnStep
    <3>3. \A s \in Slot : slots[s] # NoRecord => slots'[s] # NoRecord
      BY <2>0, <2>3, <3>0 DEF QueueInv, TypeOK
    <3>4. \A s \in InUse(ring.head, ring.count) \cup InUse(meta.head, meta.count) : s \in Slot
      BY <1>0, InUseSlots DEF QueueInv, TypeOK, Ring
    <3>5. slots'[EnqueueSlot(ring)] = op.record
      BY <2>3, <3>0 DEF QueueInv, TypeOK
    <3>6. SlotsInv'
      BY <2>0, <2>4, <3>2, <3>3, <3>4, <3>5 DEF QueueInv, SlotsInv
    <3>7. \A s \in Slot : s # EnqueueSlot(ring) => slots'[s] = slots[s]
      BY <2>3, <3>0 DEF QueueInv, TypeOK
    <3>8. JournalInv'
      BY <1>2, <2>4, <2>5, <3>2, <3>4, <3>5, <3>7
      DEF QueueInv, TypeOK, JournalInv, WriteSlot
    <3> QED BY <3>1, <3>2, <3>6, <3>8 DEF QueueInv
  <2>7. CASE o # "ok"
    <3>0. FinishPush(ring.dropped) /\ slots' = slots
      BY <2>1, <2>7 DEF Applied
    <3>1. TypeOK'
      BY <1>2, <2>2, <2>4, <2>5, <3>0, FinishPushStep
      DEF QueueInv, TypeOK, WriteSlot
    <3>2. ControlInv' /\ op' = Idle
      BY <2>2, <2>4, <3>0, FinishPushStep
    <3>3. SlotsInv'
      BY <1>2, <2>4, <3>0, <3>2 DEF QueueInv, SlotsInv, WriteSlot, Idle
    <3>4. JournalInv'
      BY <2>5, <2>7 DEF JournalInv
    <3> QED BY <3>1, <3>2, <3>3, <3>4 DEF QueueInv
  <2> QED BY <2>6, <2>7
<1>3. CASE PushAndSaveMetadata
  <2>0. op.record \in Record /\ op.record # NoRecord
    BY <1>3 DEF PushAndSaveMetadata, QueueInv, ControlInv, Record, NoRecord
  <2>1. PICK o \in Outcome :
        /\ NvsCall(o)
        /\ meta' = IF Applied(o) THEN MetaOf(ring', generation') ELSE meta
        /\ IF o = "ok" THEN GoOn("erase") ELSE FinishPush(ring'.dropped)
    BY <1>3 DEF PushAndSaveMetadata
  <2>2. pending' = pending /\ slots' = slots /\ op.step = "meta"
        /\ ring' = RingPush(ring, op.record)
    BY <1>3 DEF PushAndSaveMetadata
  <2>3. pending'.present => pending'.record \in Record
    BY <2>2 DEF QueueInv, ControlInv
  <2>4. /\ ring' \in Ring
        /\ EnqueueSlot(ring) \in Slot
        /\ ring'.records = [ring.records EXCEPT ![EnqueueSlot(ring)] = op.record]
        /\ ring'.count > 0
        /\ \A s \in InUse(ring'.head, ring'.count) :
               s \in Slot /\ (s = EnqueueSlot(ring) \/ s \in InUse(ring.head, ring.count))
    BY <1>0, <2>0, <2>2, RingPushFacts
  <2>5. nvsErrors' \in 0..MaxNvsErrors /\ (nvsErrors' = 0 => nvsErrors = 0 /\ o = "ok")
    BY <2>1, NvsCallFacts
  <2>6. generation' \in Generation /\ generation' = NextGeneration(generation)
    BY <1>3, GenerationStep DEF PushAndSaveMetadata, QueueInv, TypeOK
  <2>7. meta' \in Meta
    BY <2>1, <2>4, <2>6 DEF QueueInv, TypeOK, MetaOf, Ring
  <2>8. ring.records \in [Slot -> Record \cup {NoRecord}]
    BY <1>0 DEF Ring
  <2>9. \A s \in InUse(ring'.head, ring'.count) :
            ring'.records[s] # NoRecord /\ slots'[s] # NoRecord
    BY <2>0, <2>2, <2>4, <2>8 DEF QueueInv, SlotsInv
  <2>10. /\ \A s \in InUse(meta'.head, meta'.count) : slots'[s] # NoRecord
         /\ ~meta'.valid => meta'.count = 0
    BY <2>1, <2>2, <2>9 DEF QueueInv, SlotsInv, MetaOf
  <2>11. loadedDropped' \in Nat
    <3>1. ring'.dropped \in Nat
      BY <2>4 DEF Ring
    <3> QED BY <1>3, <3>1 DEF PushAndSaveMetadata, QueueInv, TypeOK
  <2>12. CASE o = "ok"
    <3>0. GoOn("erase") /\ meta' = MetaOf(ring', generation')
      BY <2>1, <2>12 DEF Applied
    <3>1. TypeOK'
      BY <1>3, <2>2, <2>3, <2>4, <2>5, <2>6, <2>7, <2>11, <3>0,
         GoOnStep
      DEF QueueInv, TypeOK, PushAndSaveMetadata
    <3>2. ControlInv' /\ op' = [op EXCEPT !.step = "erase"] /\ op'.step = "erase"
      BY <2>2, <2>3, <2>4, <3>0, GoOnStep
    <3>3. SlotsInv'
      BY <2>9, <2>10, <3>2 DEF SlotsInv
    <3>4. ASSUME nvsErrors = 0, NEW s \in InUse(ring'.head, ring'.count)
          PROVE  ring'.records[s] = slots'[s]
      BY <2>2, <2>4, <2>8, <3>4 DEF QueueInv, JournalInv
    <3>5. JournalInv'
      BY <2>2, <2>5, <2>6, <3>0, <3>2, <3>4 DEF QueueInv, JournalInv, MetaOf
    <3> QED BY <3>1, <3>2, <3>3, <3>5 DEF QueueInv
  <2>13. CASE o # "ok"
    <3>0. FinishPush(ring'.dropped)
      BY <2>1, <2>13
    <3>1. TypeOK'
      BY <1>3, <2>2, <2>3, <2>4, <2>5, <2>6, <2>7, <2>11, <3>0,
         FinishPushStep
      DEF QueueInv, TypeOK, PushAndSaveMetadata
    <3>2. ControlInv' /\ op' = Idle
      BY <2>2, <2>3, <2>4, <3>0, FinishPushStep
    <3>3. SlotsInv'
      BY <2>9, <2>10, <3>2 DEF SlotsInv, Idle
    <3>4. JournalInv'
      BY <2>5, <2>13 DEF JournalInv
    <3> QED BY <3>1, <3>2, <3>3, <3>4 DEF QueueInv
  <2> QED BY <2>12, <2>13
<1>4. CASE ErasePendingEnqueue
  <2>1. PICK o \in Outcome :
        /\ NvsCall(o)
        /\ pending' = IF Applied(o) THEN NoPending ELSE pending
    BY <1>4 DEF ErasePendingEnqueue
  <2>2. /\ pending' \in Pending
        /\ pending'.present => pending'.record \in Record
    BY <2>1, GenModulusAssumption
    DEF QueueInv, TypeOK, ControlInv, NoPending, Generation
  <2>3. FinishPush(ring.dropped) /\ ring' = ring /\ op.step = "erase"
    BY <1>4 DEF ErasePendingEnqueue
  <2>4. nvsErrors' \in 0..MaxNvsErrors /\ (nvsErrors' = 0 => nvsErrors = 0 /\ o = "ok")
    BY <2>1, NvsCallFacts
  <2>5. TypeOK'
    BY <1>4, <2>2, <2>3, <2>4, FinishPushStep
    DEF QueueInv, TypeOK, ErasePendingEnqueue
  <2>6. ControlInv' /\ op' = Idle
    BY <2>2, <2>3, FinishPushStep
  <2>7. SlotsInv'
    BY <1>4, <2>6 DEF QueueInv, SlotsInv, ErasePendingEnqueue, Idle
  <2>8. JournalInv'
    BY <1>4, <2>1, <2>4, <2>6
    DEF QueueInv, JournalInv, ErasePendingEnqueue, Idle, Applied, NoPending
  <2> QED BY <2>5, <2>6, <2>7, <2>8 DEF QueueInv
<1> QED BY <1>1, <1>2, <1>3, <1>4 DEF Push

\* A pop moves the head past its record, in memory and in flash, before the
\* slot is erased, and is undone in memory if the metadata is not saved.
LEMMA PopStep == QueueInv /\ Pop => QueueInv'
<1> SUFFICES ASSUME QueueInv, Pop PROVE QueueInv'
  OBVIOUS
<1> USE DEF observerVars, CommAt
<1>0. /\ ring \in Ring /\ slots \in [Slot -> Record \cup {NoRecord}]
      /\ ring.records \in [Slot -> Record \cup {NoRecord}]
  BY DEF QueueInv, TypeOK, Ring
<1>1. CASE PopAndSaveMetadata
  <2> DEFINE popped == RingPop(ring)
             next == NextGeneration(generation)
  <2>1. /\ popped \in Ring
        /\ popped.records = ring.records
        /\ ring.head \notin InUse(popped.head, popped.count)
        /\ \A s \in InUse(popped.head, popped.count) :
               s \in Slot /\ s \in InUse(ring.head, ring.count)
    BY <1>0, <1>1, RingPopFacts DEF PopAndSaveMetadata
  <2>2. next \in Generation
    BY GenerationStep DEF QueueInv, TypeOK
  <2> HIDE DEF popped, next
  <2>3. PICK o \in Outcome :
            /\ NvsCall(o)
            /\ meta' = IF Applied(o) THEN MetaOf(popped, next) ELSE meta
            /\ IF o = "ok"
               THEN /\ ring' = popped
                    /\ generation' = next
                    /\ op' = [op EXCEPT !.step = "poperase"]
                    /\ UNCHANGED comm
               ELSE /\ op' = Idle
                    /\ comm' = [pc |-> "receive", record |-> NoRecord]
                    /\ UNCHANGED <<ring, generation>>
    BY <1>1 DEF PopAndSaveMetadata, popped, next
  <2>4. nvsErrors' \in 0..MaxNvsErrors /\ (nvsErrors' = 0 => nvsErrors = 0 /\ o = "ok")
    BY <2>3, NvsCallFacts
  <2>5. meta' \in Meta
    BY <2>1, <2>2, <2>3 DEF QueueInv, TypeOK, MetaOf, Ring
  <2>6. op.step = "popmeta" /\ slots' = slots /\ pending' = pending
    BY <1>1 DEF PopAndSaveMetadata
  <2>7. /\ \A s \in InUse(popped.head, popped.count) :
               popped.records[s] # NoRecord /\ slots[s] # NoRecord
        /\ \A s \in InUse(meta'.head, meta'.count) : slots[s] # NoRecord
        /\ ~meta'.valid => meta'.count = 0
    BY <2>1, <2>3 DEF QueueInv, SlotsInv, MetaOf
  <2>8. CASE o = "ok"
    <3>0. /\ ring' = popped /\ generation' = next
          /\ op' = [op EXCEPT !.step = "poperase"] /\ comm' = comm
          /\ meta' = MetaOf(popped, next)
      BY <2>3, <2>8 DEF Applied
    <3>1. op' \in Op
          /\ op'.step = "poperase" /\ op'.slot = op.slot
      BY <3>0 DEF QueueInv, TypeOK, Steps
    <3>2. TypeOK'
      BY <1>1, <2>1, <2>2, <2>4, <2>5, <3>0, <3>1
      DEF QueueInv, TypeOK, PopAndSaveMetadata
    <3>3. ControlInv'
      BY <1>1, <2>6, <3>0, <3>1 DEF QueueInv, TypeOK, ControlInv, PopAndSaveMetadata
    <3>4. SlotsInv'
      BY <2>1, <2>6, <2>7, <3>0, <3>1 DEF QueueInv, SlotsInv, MetaOf
    <3>5. ASSUME nvsErrors = 0, NEW s \in InUse(popped.head, popped.count)
          PROVE  popped.records[s] = slots[s]
      BY <2>1, <2>6, <3>5 DEF QueueInv, JournalInv
    <3>6. JournalInv'
      BY <2>4, <2>6, <3>0, <3>1, <3>5 DEF QueueInv, JournalInv, MetaOf
    <3> QED BY <3>2, <3>3, <3>4, <3>6 DEF QueueInv
  <2>9. CASE o # "ok"
    <3>0. /\ ring' = ring /\ generation' = generation
          /\ op' = Idle /\ comm' = [pc |-> "receive", record |-> NoRecord]
      BY <2>3, <2>9
    <3>1. op' \in Op
      BY <3>0, CapacityAssumption DEF Idle, Steps, Slot
    <3>2. TypeOK'
      BY <1>1, <2>4, <2>5, <3>0, <3>1 DEF QueueInv, TypeOK, PopAndSaveMetadata
    <3>3. ControlInv'
      BY <1>1, <2>6, <3>0 DEF QueueInv, TypeOK, ControlInv, PopAndSaveMetadata, Idle
    <3>4. SlotsInv'
      BY <2>6, <2>7, <3>0 DEF QueueInv, SlotsInv, Idle
    <3>5. JournalInv'
      BY <2>4, <2>9 DEF JournalInv
    <3> QED BY <3>2, <3>3, <3>4, <3>5 DEF QueueInv
  <2> QED BY <2>8, <2>9
<1>2. CASE PopEraseSlot
  <2>1. PICK erased \in BOOLEAN, committed \in BOOLEAN :
        /\ nvsErrors' = nvsErrors + (IF erased THEN 0 ELSE 1)
                                  + (IF committed THEN 0 ELSE 1)
        /\ nvsErrors' <= MaxNvsErrors
        /\ slots' = IF erased THEN [slots EXCEPT ![op.slot] = NoRecord] ELSE slots
        /\ comm' = [pc |-> IF committed THEN "peek" ELSE "receive",
                    record |-> NoRecord]
    BY <1>2 DEF PopEraseSlot
  <2>2. nvsErrors' \in 0..MaxNvsErrors /\ (nvsErrors' = 0 => nvsErrors = 0)
    BY <2>1, BoundsAssumption DEF QueueInv, TypeOK
  <2>3. op' \in Op
        /\ op' = Idle
    BY <1>2, CapacityAssumption DEF PopEraseSlot, Idle, Steps, Slot
  <2>4. slots' \in [Slot -> Record \cup {NoRecord}]
    BY <1>0, <2>1
  <2>5. comm' \in CommTask
        /\ comm'.pc \in {"peek", "receive"}
    BY <2>1
  <2>6. TypeOK'
    BY <1>2, <2>2, <2>3, <2>4, <2>5 DEF QueueInv, TypeOK, PopEraseSlot
  <2>7. ControlInv'
    BY <1>2, <2>3, <2>5 DEF QueueInv, TypeOK, ControlInv, PopEraseSlot, Idle
  <2>8. \A s \in InUse(ring.head, ring.count) : s \in Slot /\ slots'[s] = slots[s]
    <3>1. \A s \in InUse(ring.head, ring.count) : s \in Slot
      BY <1>0, InUseSlots DEF Ring
    <3>2. op.slot \notin InUse(ring.head, ring.count)
      BY <1>2 DEF QueueInv, SlotsInv, PopEraseSlot
    <3> QED BY <1>0, <2>1, <3>1, <3>2
  <2>9. SlotsInv'
    BY <1>2, <2>3, <2>8 DEF QueueInv, SlotsInv, PopEraseSlot, Idle
  <2>10. JournalInv'
    BY <1>2, <2>2, <2>3, <2>8 DEF QueueInv, JournalInv, PopEraseSlot, Idle
  <2> QED BY <2>6, <2>7, <2>9, <2>10 DEF QueueInv
<1> QED BY <1>1, <1>2 DEF Pop

\* The metadata names only slots of the ring that hold a record, so without an
\* NVS error gateway_offline_load never discards the queue, and the journal is
\* of this generation or of the one before.
LEMMA BootStep == QueueInv /\ Boot => QueueInv'
<1> SUFFICES ASSUME QueueInv, Boot PROVE QueueInv'
  OBVIOUS
<1> USE DEF durableVars, taskVars, observerVars, boundVars
<1>0. /\ slots \in [Slot -> Record \cup {NoRecord}]
      /\ meta.head \in Slot /\ meta.count \in 0..Capacity /\ meta.dropped \in Nat
      /\ meta.generation \in Generation /\ nvsErrors \in Nat
  BY BoundsAssumption DEF QueueInv, TypeOK
<1>a. 0 \in Generation /\ Idle \in Op
  BY GenModulusAssumption, CapacityAssumption
  DEF Generation, Slot, Idle, Steps
<1>b. \A st \in Steps : [op EXCEPT !.step = st] \in Op
  BY DEF QueueInv, TypeOK
<1>1. CASE LoadRing
  <2>1. ring' = [head |-> meta.head, count |-> meta.count,
                 dropped |-> meta.dropped,
                 records |-> [s \in Slot |->
                    IF s \in SlotsInUse THEN slots[s] ELSE NoRecord]]
    BY <1>1 DEF LoadRing
  <2>2. ring' \in Ring
    BY <1>0, <2>1 DEF Ring
  <2>3. op.step = "load" /\ op' = [op EXCEPT !.step = "pending"]
        /\ op'.step = "pending" /\ op'.by = op.by
    BY <1>1 DEF LoadRing, QueueInv, TypeOK
  <2>4. TypeOK'
    <3>1. op' \in Op
      BY <1>b, <2>3 DEF Steps
    <3> QED BY <1>0, <1>1, <2>2, <3>1 DEF QueueInv, TypeOK, LoadRing
  <2>5. ControlInv'
    BY <1>1, <2>3 DEF QueueInv, TypeOK, ControlInv, LoadRing
  <2>6. ASSUME NEW s \in InUse(meta.head, meta.count)
        PROVE  ring'.records[s] = slots[s] /\ slots[s] # NoRecord
    <3>1. s \in Slot
      BY <1>0, InUseSlots
    <3> QED BY <1>1, <2>1, <3>1 DEF LoadRing, SlotsInUse
  <2>7. SlotsInv'
    BY <1>1, <2>1, <2>3, <2>6 DEF QueueInv, SlotsInv, LoadRing
  <2>8. JournalInv'
    BY <1>1, <2>1, <2>3, <2>6 DEF QueueInv, JournalInv, LoadRing
  <2> QED BY <2>4, <2>5, <2>7, <2>8 DEF QueueInv
<1>2. CASE LoadWithoutMetadata
  <2>1. PICK readable \in BOOLEAN, o \in Outcome :
        /\ readable => ~meta.valid
        /\ nvsErrors' = nvsErrors + (IF readable THEN 0 ELSE 1)
                                  + (IF o = "ok" THEN 0 ELSE 1)
        /\ nvsErrors' <= MaxNvsErrors
        /\ meta' = IF Applied(o) THEN MetaOf(ring', 0) ELSE meta
        /\ IF o = "ok" THEN op' = [op EXCEPT !.step = "pending"] ELSE op' = Idle
    BY <1>2 DEF LoadWithoutMetadata, FinishLoad
  <2>2. /\ ring' = RingInit /\ generation' = 0 /\ op.step = "load"
        /\ slots' = slots /\ pending' = pending
    BY <1>2 DEF LoadWithoutMetadata
  <2>3. ring' \in Ring /\ ring'.count = 0 /\ InUse(ring'.head, ring'.count) = {}
    BY <2>2, RingInitFacts
  <2>4. /\ meta' \in Meta
        /\ \A s \in InUse(meta'.head, meta'.count) : slots[s] # NoRecord
        /\ ~meta'.valid => meta'.count = 0
    <3>1. CASE Applied(o)
      BY <1>a, <2>1, <2>3, <3>1 DEF MetaOf, Ring
    <3>2. CASE ~Applied(o)
      BY <2>1, <3>2 DEF QueueInv, TypeOK, SlotsInv
    <3> QED BY <3>1, <3>2
  <2>5. TypeOK'
    <3>1. nvsErrors' \in 0..MaxNvsErrors
      BY <1>0, <2>1, BoundsAssumption
    <3>2. op' \in Op
      BY <1>a, <1>b, <2>1 DEF Steps
    <3> QED BY <1>2, <1>a, <2>2, <2>3, <2>4, <3>1, <3>2
            DEF QueueInv, TypeOK, LoadWithoutMetadata
  <2>6. ControlInv'
    BY <1>2, <2>1, <2>2 DEF QueueInv, TypeOK, ControlInv, LoadWithoutMetadata, Idle
  <2>7. nvsErrors' = 0 => nvsErrors = 0 /\ readable /\ o = "ok"
    BY <1>0, <2>1
  <2>8. SlotsInv'
    BY <2>1, <2>2, <2>3, <2>4 DEF QueueInv, TypeOK, SlotsInv, Idle
  <2>9. JournalInv'
    <3> SUFFICES ASSUME nvsErrors' = 0 PROVE JournalInv'
      BY DEF JournalInv
    <3>1. nvsErrors = 0 /\ ~meta.valid /\ meta' = MetaOf(ring', 0)
          /\ op' = [op EXCEPT !.step = "pending"]
      BY <2>1, <2>7 DEF Applied
    <3>2. op'.step = "pending"
      BY <3>1 DEF QueueInv, TypeOK
    <3>3. ~pending'.present
      BY <2>2, <3>1 DEF QueueInv, JournalInv
    <3>4. /\ meta'.valid /\ meta'.head = ring'.head /\ meta'.count = ring'.count
          /\ meta'.dropped = ring'.dropped /\ meta'.generation = generation'
      BY <2>2, <3>1 DEF MetaOf
    <3> QED BY <2>3, <3>2, <3>3, <3>4 DEF JournalInv
  <2> QED BY <2>5, <2>6, <2>8, <2>9 DEF QueueInv
<1>3. CASE LoadDiscardingQueue
  <2>1. PICK readable \in BOOLEAN, o \in Outcome :
        /\ readable => \E s \in SlotsInUse : slots[s] = NoRecord
        /\ nvsErrors' = nvsErrors + (IF readable THEN 0 ELSE 1)
                                  + (IF o = "ok" THEN 0 ELSE 1)
        /\ nvsErrors' <= MaxNvsErrors
        /\ meta' = IF Applied(o) THEN MetaOf(ring', 0) ELSE meta
        /\ IF o = "ok" THEN op' = [op EXCEPT !.step = "erase"] ELSE op' = Idle
    BY <1>3 DEF LoadDiscardingQueue, FinishLoad
  <2>2. /\ ring' = RingInit /\ generation' = 0 /\ op.step = "load"
        /\ slots' = slots /\ pending' = pending
    BY <1>3 DEF LoadDiscardingQueue
  <2>3. ring' \in Ring /\ ring'.count = 0 /\ InUse(ring'.head, ring'.count) = {}
    BY <2>2, RingInitFacts
  <2>4. /\ meta' \in Meta
        /\ \A s \in InUse(meta'.head, meta'.count) : slots[s] # NoRecord
        /\ ~meta'.valid => meta'.count = 0
    <3>1. CASE Applied(o)
      BY <1>a, <2>1, <2>3, <3>1 DEF MetaOf, Ring
    <3>2. CASE ~Applied(o)
      BY <2>1, <3>2 DEF QueueInv, TypeOK, SlotsInv
    <3> QED BY <3>1, <3>2
  <2>5. TypeOK'
    <3>1. nvsErrors' \in 0..MaxNvsErrors
      BY <1>0, <2>1, BoundsAssumption
    <3>2. op' \in Op
      BY <1>a, <1>b, <2>1 DEF Steps
    <3> QED BY <1>3, <1>a, <2>2, <2>3, <2>4, <3>1, <3>2
            DEF QueueInv, TypeOK, LoadDiscardingQueue
  <2>6. ControlInv'
    BY <1>3, <2>1, <2>2 DEF QueueInv, TypeOK, ControlInv, LoadDiscardingQueue, Idle
  <2>7. nvsErrors' # 0
    BY <1>0, <2>1, BoundsAssumption DEF QueueInv, SlotsInv, SlotsInUse
  <2>8. SlotsInv'
    BY <2>1, <2>2, <2>3, <2>4 DEF QueueInv, TypeOK, SlotsInv, Idle
  <2>9. JournalInv'
    BY <2>7 DEF JournalInv
  <2> QED BY <2>5, <2>6, <2>8, <2>9 DEF QueueInv
<1>4. CASE LoadPending
  <2>1. PICK readable \in BOOLEAN :
        /\ readable \/ pending.present
        /\ NvsCall(IF readable THEN "ok" ELSE "failed")
        /\ CASE ~readable -> op' = [op EXCEPT !.step = "erase"]
             [] readable /\ ~pending.present -> op' = Idle
             [] readable /\ pending.present /\ generation = pending.previous ->
                    op' = [op EXCEPT !.step = "slot", !.record = pending.record]
             [] readable /\ pending.present
                /\ generation = NextGeneration(pending.previous) ->
                    op' = [op EXCEPT !.step = "erase"]
             [] OTHER -> op' = Idle
    BY <1>4 DEF LoadPending, FinishLoad
  <2>2. nvsErrors' \in 0..MaxNvsErrors /\ (nvsErrors' = 0 => nvsErrors = 0 /\ readable)
    BY <2>1, NvsCallFacts
  <2>3. op.step = "pending" /\ op.by = "boot"
    BY <1>4 DEF LoadPending, QueueInv, ControlInv
  <2>4. pending.previous \in Generation /\ (pending.present => pending.record \in Record)
    BY DEF QueueInv, TypeOK, ControlInv
  <2>5. \/ op' = Idle
        \/ op' = [op EXCEPT !.step = "erase"]
        \/ pending.present /\ op' = [op EXCEPT !.step = "slot", !.record = pending.record]
    BY <2>1, <2>4, GenerationStep
  <2>6. ASSUME nvsErrors' = 0
        PROVE  \/ ~pending.present /\ op' = Idle
               \/ /\ pending.present /\ generation = pending.previous
                  /\ op' = [op EXCEPT !.step = "slot", !.record = pending.record]
               \/ /\ pending.present /\ generation = NextGeneration(pending.previous)
                  /\ op' = [op EXCEPT !.step = "erase"]
    <3>1. nvsErrors = 0 /\ readable
      BY <2>2, <2>6
    <3>2. pending.present =>
            generation \in {pending.previous, NextGeneration(pending.previous)}
      BY <2>3, <3>1 DEF QueueInv, JournalInv
    <3> QED BY <2>1, <2>4, <3>1, <3>2, GenerationStep
  <2>7. op \in Op /\ Idle \in Op
    BY <1>a DEF QueueInv, TypeOK
  <2>8. /\ op' \in Op
        /\ \/ op' = Idle
           \/ op'.by = "boot" /\ op'.step = "erase"
           \/ op'.by = "boot" /\ op'.step = "slot" /\ op'.record \in Record
    <3>1. CASE op' = Idle
      BY <2>7, <3>1
    <3>2. CASE op' = [op EXCEPT !.step = "erase"]
      BY <2>3, <2>7, <3>2 DEF Steps
    <3>3. CASE pending.present
               /\ op' = [op EXCEPT !.step = "slot", !.record = pending.record]
      BY <2>3, <2>4, <2>7, <3>3 DEF Steps
    <3> QED BY <2>5, <3>1, <3>2, <3>3
  <2>9. TypeOK'
    BY <1>4, <2>2, <2>8 DEF QueueInv, TypeOK, LoadPending
  <2>10. UNCHANGED <<meta, slots, pending, ring, generation, agg, comm>>
    BY <1>4 DEF LoadPending
  <2>11. ControlInv'
    BY <2>3, <2>8, <2>10 DEF QueueInv, ControlInv, Idle
  <2>12. SlotsInv'
    BY <2>8, <2>10 DEF QueueInv, SlotsInv, Idle
  <2>13. JournalInv'
    <3> SUFFICES ASSUME nvsErrors' = 0 PROVE JournalInv'
      BY DEF JournalInv
    <3>1. nvsErrors = 0
      BY <2>2
    <3>2. \/ ~pending.present /\ op'.step = "none"
          \/ /\ pending.present /\ generation = pending.previous
             /\ op'.step = "slot" /\ op'.record = pending.record
          \/ /\ pending.present /\ generation = NextGeneration(pending.previous)
             /\ op'.step = "erase"
      <4>1. CASE ~pending.present /\ op' = Idle
        BY <4>1 DEF Idle
      <4>2. CASE /\ pending.present /\ generation = pending.previous
                 /\ op' = [op EXCEPT !.step = "slot", !.record = pending.record]
        BY <2>7, <4>2
      <4>3. CASE /\ pending.present /\ generation = NextGeneration(pending.previous)
                 /\ op' = [op EXCEPT !.step = "erase"]
        BY <2>7, <4>3
      <4> QED BY <2>6, <4>1, <4>2, <4>3
    <3> QED BY <2>3, <2>10, <3>1, <3>2 DEF QueueInv, JournalInv
  <2> QED BY <2>9, <2>11, <2>12, <2>13 DEF QueueInv
<1> QED BY <1>1, <1>2, <1>3, <1>4 DEF Boot

\* Memory and flash agree when the mutex is free.
LEMMA MemoryIsFlash == QueueInv => MemoryMatchesFlash
<1> SUFFICES ASSUME QueueInv, nvsErrors = 0, MutexFree
             PROVE  /\ RingContents = RecoveredQueue
                    /\ ring.dropped = RecoveredDropped
                    /\ generation = meta.generation
  BY DEF MemoryMatchesFlash
<1>1. op.step = "none"
  BY DEF QueueInv, ControlInv, MutexFree
<1>2. /\ meta.head = ring.head /\ meta.count = ring.count
      /\ meta.dropped = ring.dropped /\ meta.generation = generation
      /\ ~pending.present
      /\ \A s \in InUse(ring.head, ring.count) : ring.records[s] = slots[s]
  BY <1>1 DEF QueueInv, JournalInv
<1>3. ring.head \in Nat /\ ring.count \in Nat
  BY DEF QueueInv, TypeOK, Ring, Slot
<1>4. ASSUME NEW i \in 1..ring.count
      PROVE  (ring.head + i - 1) % Capacity \in InUse(ring.head, ring.count)
  <2>1. i - 1 \in 0..(ring.count - 1) /\ ring.head + i - 1 = ring.head + (i - 1)
    BY <1>3
  <2> QED BY <2>1 DEF InUse
<1>5. RingContents = FlashQueue
  BY <1>2, <1>4 DEF RingContents, FlashQueue, Contents
<1> QED BY <1>2, <1>5 DEF RecoveredQueue, RecoveredDropped, Redo

-----------------------------------------------------------------------------
(* What a boot would recover                                                *)

\* What a slot can hold.
Value == Record \cup {NoRecord}

\* A place after the next slot is the place after that from the slot itself.
LEMMA WrapShift ==
    ASSUME NEW h \in Slot, NEW k \in 0..(Capacity - 1)
    PROVE  (((h + 1) % Capacity) + k) % Capacity = (h + (k + 1)) % Capacity
<1> DEFINE n == (h + 1) % Capacity
<1>1. n \in Slot /\ n = IF h + 1 < Capacity THEN h + 1 ELSE h + 1 - Capacity
  BY WrapSum, CapacityAssumption
<1> HIDE DEF n
<1>2. k \in 0..Capacity /\ k + 1 \in 0..Capacity
  BY CapacityAssumption
<1>3. (n + k) % Capacity = IF n + k < Capacity THEN n + k ELSE n + k - Capacity
  BY <1>1, <1>2, WrapSum
<1>4. (h + (k + 1)) % Capacity
        = IF h + (k + 1) < Capacity THEN h + (k + 1) ELSE h + (k + 1) - Capacity
  BY <1>2, WrapSum
<1>5. ASSUME n + k < Capacity PROVE (n + k) % Capacity = (h + (k + 1)) % Capacity
  <2>1. (n + k) % Capacity = n + k
    BY <1>3, <1>5
  <2> QED BY <1>1, <1>4, <1>5, <2>1, CapacityAssumption DEF Slot
<1>6. ASSUME ~(n + k < Capacity) PROVE (n + k) % Capacity = (h + (k + 1)) % Capacity
  <2>1. (n + k) % Capacity = n + k - Capacity
    BY <1>3, <1>6
  <2> QED BY <1>1, <1>4, <1>6, <2>1, CapacityAssumption DEF Slot
<1>7. (n + k) % Capacity = (h + (k + 1)) % Capacity
  BY <1>5, <1>6
<1> QED BY <1>7 DEF n

\* The contents of a ring as a sequence.
LEMMA ContentsFacts ==
    ASSUME NEW h \in Slot, NEW c \in 0..Capacity, NEW f \in [Slot -> Value]
    PROVE  /\ Contents(h, c, f) \in Seq(Value)
           /\ Len(Contents(h, c, f)) = c
           /\ \A i \in 1..c : /\ Contents(h, c, f)[i] = f[(h + (i - 1)) % Capacity]
                              /\ (h + (i - 1)) % Capacity \in InUse(h, c)
                              /\ (h + (i - 1)) % Capacity \in Slot
<1>1. ASSUME NEW i \in 1..c
      PROVE  /\ (h + i - 1) % Capacity = (h + (i - 1)) % Capacity
             /\ (h + (i - 1)) % Capacity \in InUse(h, c)
             /\ (h + (i - 1)) % Capacity \in Slot
  <2>1. h + i - 1 = h + (i - 1) /\ i - 1 \in 0..(c - 1) /\ i - 1 \in 0..Capacity
    BY CapacityAssumption DEF Slot
  <2> QED BY <2>1, WrapSum DEF InUse
<1>2. ASSUME NEW i \in 1..c PROVE f[(h + i - 1) % Capacity] \in Value
  BY <1>1
<1>3. Contents(h, c, f) \in [1..c -> Value]
  BY <1>2 DEF Contents
<1>4. c \in Nat
  BY CapacityAssumption
<1>5. Contents(h, c, f) \in Seq(Value)
  BY <1>3, <1>4, SeqDef
<1>6. Len(Contents(h, c, f)) = c
  BY <1>3, <1>4, <1>5, LenProperties
<1> QED BY <1>1, <1>5, <1>6 DEF Contents

\* The contents depend on the slots in use only.
LEMMA ContentsFrame ==
    ASSUME NEW h \in Slot, NEW c \in 0..Capacity,
           NEW f \in [Slot -> Value], NEW g \in [Slot -> Value],
           \A s \in InUse(h, c) : f[s] = g[s]
    PROVE  Contents(h, c, f) = Contents(h, c, g)
<1>1. \A i \in 1..c : Contents(h, c, f)[i] = Contents(h, c, g)[i]
  BY ContentsFacts
<1> QED BY <1>1, ContentsFacts, SeqEqual

\* Moving the head on leaves out the oldest record.
LEMMA ContentsPop ==
    ASSUME NEW h \in Slot, NEW c \in 1..Capacity, NEW f \in [Slot -> Value]
    PROVE  /\ Contents(h, c, f) # << >>
           /\ Contents((h + 1) % Capacity, c - 1, f) = Tail(Contents(h, c, f))
<1> DEFINE n == (h + 1) % Capacity
           q == Contents(h, c, f)
           p == Contents(n, c - 1, f)
<1>1. n \in Slot /\ c \in 0..Capacity /\ c - 1 \in 0..Capacity
  BY WrapSum, CapacityAssumption
<1> HIDE DEF n
<1>2. /\ q \in Seq(Value) /\ Len(q) = c
      /\ \A i \in 1..c : q[i] = f[(h + (i - 1)) % Capacity]
  BY <1>1, ContentsFacts
<1>3. /\ p \in Seq(Value) /\ Len(p) = c - 1
      /\ \A i \in 1..(c - 1) : p[i] = f[(n + (i - 1)) % Capacity]
  BY <1>1, ContentsFacts
<1>4. q # << >>
  BY <1>2, EmptySeq
<1> HIDE DEF q, p
<1>5. /\ Tail(q) \in Seq(Value) /\ Len(Tail(q)) = c - 1
      /\ \A i \in 1..(c - 1) : Tail(q)[i] = q[i + 1]
  BY <1>2, <1>4, HeadTailProperties
<1>6. ASSUME NEW i \in 1..(c - 1) PROVE p[i] = Tail(q)[i]
  <2>1. i - 1 \in 0..(Capacity - 1) /\ (i - 1) + 1 = i /\ i + 1 \in 1..c
        /\ (i + 1) - 1 = i
    BY CapacityAssumption
  <2>2. (n + (i - 1)) % Capacity = (h + i) % Capacity
    BY <2>1, WrapShift DEF n
  <2>3. q[i + 1] = f[(h + i) % Capacity]
    BY <1>2, <2>1
  <2> QED BY <1>3, <1>5, <2>2, <2>3
<1>7. p = Tail(q)
  BY <1>3, <1>5, <1>6, SeqEqual
<1> QED BY <1>4, <1>7 DEF p, q, n

\* A ring with room grows at its end.
LEMMA ContentsGrow ==
    ASSUME NEW h \in Slot, NEW c \in 0..(Capacity - 1), NEW f \in [Slot -> Value]
    PROVE  Contents(h, c + 1, f) = Append(Contents(h, c, f), f[(h + c) % Capacity])
<1> DEFINE q == Contents(h, c, f)
           p == Contents(h, c + 1, f)
           r == f[(h + c) % Capacity]
<1>1. c \in 0..Capacity /\ c + 1 \in 0..Capacity /\ c \in Nat
  BY CapacityAssumption
<1>2. r \in Value
  BY <1>1, WrapSum
<1>3. /\ q \in Seq(Value) /\ Len(q) = c
      /\ \A i \in 1..c : q[i] = f[(h + (i - 1)) % Capacity]
  BY <1>1, ContentsFacts
<1>4. /\ p \in Seq(Value) /\ Len(p) = c + 1
      /\ \A i \in 1..(c + 1) : p[i] = f[(h + (i - 1)) % Capacity]
  BY <1>1, ContentsFacts
<1>5. p[c + 1] = r
  <2>1. c + 1 \in 1..(c + 1) /\ (c + 1) - 1 = c
    BY <1>1
  <2> QED BY <1>4, <2>1
<1> HIDE DEF q, p, r
<1>6. /\ Append(q, r) \in Seq(Value) /\ Len(Append(q, r)) = c + 1
      /\ \A i \in 1..c : Append(q, r)[i] = q[i]
      /\ Append(q, r)[c + 1] = r
  BY <1>2, <1>3, AppendProperties
<1>7. ASSUME NEW i \in 1..(c + 1) PROVE p[i] = Append(q, r)[i]
  <2>1. i \in 1..c \/ i = c + 1
    BY <1>1
  <2> QED BY <1>1, <1>3, <1>4, <1>5, <1>6, <2>1
<1>8. p = Append(q, r)
  BY <1>4, <1>6, <1>7, SeqEqual
<1> QED BY <1>8 DEF p, q, r

\* A push is a bounded append to the contents, whatever the slot it takes held.
LEMMA ContentsPush ==
    ASSUME NEW h \in Slot, NEW c \in 0..Capacity, NEW f \in [Slot -> Value],
           NEW r \in Value,
           f[IF c = Capacity THEN h ELSE (h + c) % Capacity] = r
    PROVE  Contents(IF c = Capacity THEN (h + 1) % Capacity ELSE h,
                    IF c = Capacity THEN Capacity ELSE c + 1, f)
             = Bounded(Contents(h, c, f), r)
<1>0. Len(Contents(h, c, f)) = c
  BY ContentsFacts
<1>1. CASE c # Capacity
  <2>1. c \in 0..(Capacity - 1)
    BY <1>1, CapacityAssumption
  <2> QED BY <1>0, <1>1, <2>1, ContentsGrow DEF Bounded
<1>2. CASE c = Capacity
  <2> DEFINE n == (h + 1) % Capacity
  <2>1. n \in Slot /\ Capacity - 1 \in 0..(Capacity - 1) /\ Capacity \in 1..Capacity
        /\ (Capacity - 1) + 1 = Capacity
    BY WrapSum, CapacityAssumption
  <2>2. (n + (Capacity - 1)) % Capacity = h
    BY WrapTurn
  <2> HIDE DEF n
  <2>3. Contents(n, Capacity, f) = Append(Contents(n, Capacity - 1, f), f[h])
    BY <2>1, <2>2, ContentsGrow
  <2>4. Contents(n, Capacity - 1, f) = Tail(Contents(h, Capacity, f))
    BY <2>1, ContentsPop DEF n
  <2> QED BY <1>0, <1>2, <2>3, <2>4 DEF Bounded, n
<1> QED BY <1>1, <1>2

\* A bounded append, place by place.
LEMMA BoundedFacts ==
    ASSUME NEW q \in Seq(Value), Len(q) <= Capacity, NEW r \in Value
    PROVE  /\ Bounded(q, r) \in Seq(Value)
           /\ Len(q) = Capacity =>
                /\ Len(Bounded(q, r)) = Capacity
                /\ \A i \in 1..(Capacity - 1) : Bounded(q, r)[i] = q[i + 1]
                /\ Bounded(q, r)[Capacity] = r
           /\ Len(q) # Capacity =>
                /\ Len(Bounded(q, r)) = Len(q) + 1
                /\ \A i \in 1..Len(q) : Bounded(q, r)[i] = q[i]
                /\ Bounded(q, r)[Len(q) + 1] = r
<1>1. CASE Len(q) = Capacity
  <2>1. q # << >>
    BY <1>1, EmptySeq, CapacityAssumption
  <2>2. /\ Tail(q) \in Seq(Value) /\ Len(Tail(q)) = Capacity - 1
        /\ \A i \in 1..(Capacity - 1) : Tail(q)[i] = q[i + 1]
    BY <1>1, <2>1, HeadTailProperties
  <2>3. /\ Append(Tail(q), r) \in Seq(Value)
        /\ Len(Append(Tail(q), r)) = (Capacity - 1) + 1
        /\ \A i \in 1..(Capacity - 1) : Append(Tail(q), r)[i] = Tail(q)[i]
        /\ Append(Tail(q), r)[(Capacity - 1) + 1] = r
    BY <2>2, AppendProperties
  <2>4. (Capacity - 1) + 1 = Capacity
    BY CapacityAssumption
  <2> QED BY <1>1, <2>2, <2>3, <2>4 DEF Bounded
<1>2. CASE Len(q) # Capacity
  BY <1>2, AppendProperties DEF Bounded
<1> QED BY <1>1, <1>2

\* The records of a bounded append: the new one, and the old ones but for the
\* oldest of a full queue.
LEMMA BoundedElements ==
    ASSUME NEW q \in Seq(Value), Len(q) <= Capacity, NEW r \in Value
    PROVE  /\ r \in Elements(Bounded(q, r))
           /\ Elements(Bounded(q, r)) \subseteq Elements(q) \cup {r}
           /\ Len(q) = Capacity => Elements(q) \subseteq Elements(Bounded(q, r)) \cup {q[1]}
           /\ Len(q) # Capacity => Elements(q) \subseteq Elements(Bounded(q, r))
<1> DEFINE b == Bounded(q, r)
<1>b. b \in Seq(Value)
  BY BoundedFacts
<1>d. DOMAIN b = 1..Len(b) /\ Len(b) \in Nat /\ DOMAIN q = 1..Len(q) /\ Len(q) \in Nat
  BY <1>b, LenProperties
<1>0. /\ DOMAIN b = 1..Len(b) /\ Len(b) \in Nat
      /\ DOMAIN q = 1..Len(q) /\ Len(q) \in Nat /\ Len(q) <= Capacity /\ Capacity \in Nat \ {0}
  BY <1>d, CapacityAssumption
<1>1. /\ Len(q) = Capacity =>
                /\ Len(b) = Capacity
                /\ \A i \in 1..(Capacity - 1) : b[i] = q[i + 1]
                /\ b[Capacity] = r
      /\ Len(q) # Capacity =>
                /\ Len(b) = Len(q) + 1
                /\ \A i \in 1..Len(q) : b[i] = q[i]
                /\ b[Len(q) + 1] = r
  BY BoundedFacts
<1> HIDE DEF b
<1>2. CASE Len(q) = Capacity
  <2>1. r \in Elements(b)
    BY <1>0, <1>1, <1>2 DEF Elements
  <2>2. ASSUME NEW i \in 1..Len(b) PROVE b[i] \in Elements(q) \cup {r}
    <3>1. i = Capacity \/ (i \in 1..(Capacity - 1) /\ i + 1 \in 1..Len(q))
      BY <1>0, <1>1, <1>2
    <3> QED BY <1>0, <1>1, <1>2, <3>1 DEF Elements
  <2>3. ASSUME NEW i \in 1..Len(q) PROVE q[i] \in Elements(b) \cup {q[1]}
    <3>1. i = 1 \/ (i - 1 \in 1..(Capacity - 1) /\ i - 1 \in 1..Len(b) /\ (i - 1) + 1 = i)
      BY <1>0, <1>1, <1>2
    <3>2. ASSUME i # 1 PROVE b[i - 1] = q[i] /\ i - 1 \in DOMAIN b
      BY <1>0, <1>1, <1>2, <3>1, <3>2
    <3> QED BY <3>2 DEF Elements
  <2> QED BY <1>0, <1>2, <2>1, <2>2, <2>3 DEF Elements, b
<1>3. CASE Len(q) # Capacity
  <2>0. Len(b) = Len(q) + 1 /\ b[Len(q) + 1] = r /\ \A i \in 1..Len(q) : b[i] = q[i]
    BY <1>1, <1>3
  <2>1. r \in Elements(b)
    <3>1. Len(q) + 1 \in DOMAIN b
      BY <1>0, <2>0
    <3> QED BY <2>0, <3>1 DEF Elements
  <2>2. ASSUME NEW i \in 1..Len(b) PROVE b[i] \in Elements(q) \cup {r}
    <3>1. i = Len(q) + 1 \/ i \in 1..Len(q)
      BY <1>0, <2>0, <2>2
    <3> QED BY <1>0, <2>0, <3>1 DEF Elements
  <2>3. ASSUME NEW i \in 1..Len(q) PROVE q[i] \in Elements(b)
    <3>1. i \in 1..Len(b) /\ b[i] = q[i]
      BY <1>0, <2>0, <2>3
    <3> QED BY <1>0, <3>1 DEF Elements
  <2> QED BY <1>0, <1>3, <2>1, <2>2, <2>3 DEF Elements, b
<1> QED BY <1>2, <1>3

\* A record that all may precede, at the end of a queue in order, keeps it in order.
LEMMA BoundedInOrder ==
    ASSUME NEW q \in Seq(Value), Len(q) <= Capacity, NEW r \in Value,
           NEW B, InOrderBut(q, B), \A i \in DOMAIN q : MayPrecede(q[i], r, B)
    PROVE  InOrderBut(Bounded(q, r), B)
<1> DEFINE b == Bounded(q, r)
<1>b. b \in Seq(Value)
  BY BoundedFacts
<1>d. DOMAIN b = 1..Len(b) /\ Len(b) \in Nat /\ DOMAIN q = 1..Len(q) /\ Len(q) \in Nat
  BY <1>b, LenProperties
<1>0. /\ DOMAIN b = 1..Len(b) /\ Len(b) \in Nat
      /\ DOMAIN q = 1..Len(q) /\ Len(q) \in Nat /\ Len(q) <= Capacity /\ Capacity \in Nat \ {0}
  BY <1>d, CapacityAssumption
<1>1. /\ Len(q) = Capacity =>
                /\ Len(b) = Capacity
                /\ \A i \in 1..(Capacity - 1) : b[i] = q[i + 1]
                /\ b[Capacity] = r
      /\ Len(q) # Capacity =>
                /\ Len(b) = Len(q) + 1
                /\ \A i \in 1..Len(q) : b[i] = q[i]
                /\ b[Len(q) + 1] = r
  BY BoundedFacts
<1> HIDE DEF b
<1>2. ASSUME NEW i \in 1..Len(b), NEW j \in 1..Len(b), i < j PROVE MayPrecede(b[i], b[j], B)
  <2>1. CASE Len(q) = Capacity
    <3>0. /\ Len(b) = Capacity /\ b[Capacity] = r
          /\ \A k \in 1..(Capacity - 1) : b[k] = q[k + 1]
      BY <1>1, <2>1
    <3>1. /\ i \in 1..(Capacity - 1) /\ i + 1 \in DOMAIN q
          /\ j = Capacity \/ (j \in 1..(Capacity - 1) /\ j + 1 \in DOMAIN q /\ i + 1 < j + 1)
      BY <1>0, <1>2, <2>1, <3>0
    <3>2. b[i] = q[i + 1] /\ MayPrecede(q[i + 1], r, B)
      BY <3>0, <3>1
    <3>3. CASE j = Capacity
      BY <3>0, <3>2, <3>3
    <3>4. CASE j # Capacity
      BY <3>0, <3>1, <3>2, <3>4 DEF InOrderBut
    <3> QED BY <3>3, <3>4
  <2>2. CASE Len(q) # Capacity
    <3>0. Len(b) = Len(q) + 1 /\ b[Len(q) + 1] = r /\ \A k \in 1..Len(q) : b[k] = q[k]
      BY <1>1, <2>2
    <3>1. /\ i \in 1..Len(q)
          /\ j = Len(q) + 1 \/ j \in 1..Len(q)
      BY <1>0, <1>2, <3>0
    <3>2. b[i] = q[i] /\ MayPrecede(q[i], r, B)
      BY <1>0, <3>0, <3>1
    <3>3. CASE j = Len(q) + 1
      BY <3>0, <3>2, <3>3
    <3>4. CASE j # Len(q) + 1
      BY <1>0, <1>2, <3>0, <3>1, <3>2, <3>4 DEF InOrderBut
    <3> QED BY <3>3, <3>4
  <2> QED BY <2>1, <2>2
<1> QED BY <1>0, <1>2 DEF InOrderBut, b

\* Without the oldest record a queue keeps the others and their order.
LEMMA TailElements ==
    ASSUME NEW q \in Seq(Value), q # << >>
    PROVE  /\ Elements(Tail(q)) \subseteq Elements(q)
           /\ Elements(q) \subseteq Elements(Tail(q)) \cup {q[1]}
           /\ InOrder(q) => InOrder(Tail(q))
           /\ \A B : InOrderBut(q, B) => InOrderBut(Tail(q), B)
<1>0. /\ Tail(q) \in Seq(Value) /\ Len(Tail(q)) = Len(q) - 1
      /\ \A i \in 1..Len(Tail(q)) : Tail(q)[i] = q[i + 1]
      /\ DOMAIN q = 1..Len(q) /\ Len(q) \in Nat
      /\ DOMAIN Tail(q) = 1..Len(Tail(q)) /\ Len(Tail(q)) \in Nat
  BY HeadTailProperties, LenProperties
<1> DEFINE t == Tail(q)
<1>1. /\ Len(t) = Len(q) - 1
      /\ \A i \in 1..(Len(q) - 1) : t[i] = q[i + 1]
      /\ DOMAIN t = 1..(Len(q) - 1)
  BY <1>0
<1> HIDE DEF t
<1>2. ASSUME NEW i \in 1..(Len(q) - 1) PROVE t[i] \in Elements(q)
  BY <1>0, <1>1 DEF Elements
<1>3. ASSUME NEW i \in 1..Len(q) PROVE q[i] \in Elements(t) \cup {q[1]}
  <2>1. i # 1 => i - 1 \in 1..(Len(q) - 1) /\ (i - 1) + 1 = i
    BY <1>0
  <2>2. i # 1 => t[i - 1] = q[i] /\ i - 1 \in DOMAIN t
    BY <1>1, <2>1
  <2> QED BY <2>2 DEF Elements
<1>4. InOrder(q) => InOrder(t)
  BY <1>0, <1>1 DEF InOrder
<1>5. ASSUME NEW B, InOrderBut(q, B) PROVE InOrderBut(t, B)
  <2>1. ASSUME NEW i \in DOMAIN t, NEW j \in DOMAIN t, i < j
        PROVE  MayPrecede(t[i], t[j], B)
    <3>1. /\ i + 1 \in DOMAIN q /\ j + 1 \in DOMAIN q /\ i + 1 < j + 1
          /\ t[i] = q[i + 1] /\ t[j] = q[j + 1]
      BY <1>0, <1>1, <2>1
    <3> QED BY <1>5, <3>1 DEF InOrderBut
  <2> QED BY <2>1 DEF InOrderBut
<1> QED BY <1>0, <1>1, <1>2, <1>3, <1>4, <1>5 DEF Elements, t

-----------------------------------------------------------------------------
(* The queue in flash as one bounded queue                                  *)

\* What flash holds has the type of a queue.
LEMMA RecoveredFacts ==
    ASSUME QueueInv
    PROVE  /\ FlashQueue \in Seq(Value) /\ Len(FlashQueue) = meta.count
           /\ meta.head \in Slot /\ meta.count \in 0..Capacity /\ meta.dropped \in Nat
           /\ slots \in [Slot -> Value]
           /\ RecoveredQueue \in Seq(Value) /\ Len(RecoveredQueue) <= Capacity
           /\ Len(RecoveredQueue) >= meta.count
           /\ RecoveredDropped \in Nat
<1>1. /\ meta.head \in Slot /\ meta.count \in 0..Capacity /\ meta.dropped \in Nat
      /\ slots \in [Slot -> Value] /\ pending.record \in Value
  BY DEF QueueInv, TypeOK, Value
<1>2. FlashQueue \in Seq(Value) /\ Len(FlashQueue) = meta.count
  BY <1>1, ContentsFacts DEF FlashQueue
<1>3. Len(FlashQueue) <= Capacity
  BY <1>1, <1>2
<1>4. /\ Bounded(FlashQueue, pending.record) \in Seq(Value)
      /\ Len(Bounded(FlashQueue, pending.record)) <= Capacity
      /\ Len(Bounded(FlashQueue, pending.record)) >= meta.count
  <2>1. Len(FlashQueue) = Capacity => Len(Bounded(FlashQueue, pending.record)) = Capacity
    BY <1>1, <1>2, <1>3, BoundedFacts
  <2>2. Len(FlashQueue) # Capacity =>
            Len(Bounded(FlashQueue, pending.record)) = Len(FlashQueue) + 1
    BY <1>1, <1>2, <1>3, BoundedFacts
  <2>3. Bounded(FlashQueue, pending.record) \in Seq(Value)
    BY <1>1, <1>2, <1>3, BoundedFacts
  <2> QED BY <1>1, <1>2, <2>1, <2>2, <2>3, CapacityAssumption
<1>5. RecoveredQueue \in Seq(Value) /\ Len(RecoveredQueue) <= Capacity
      /\ Len(RecoveredQueue) >= meta.count
  BY <1>1, <1>2, <1>3, <1>4 DEF RecoveredQueue
<1>6. RecoveredDropped \in Nat
  BY <1>1 DEF RecoveredDropped
<1> QED BY <1>1, <1>2, <1>5, <1>6

\* The journal write of a push (save_pending_enqueue) adds the record.
LEMMA JournalAdds ==
    ASSUME QueueInv, SavePendingEnqueue, nvsErrors = 0, nvsErrors' = 0
    PROVE  /\ op.record \in Record
           /\ RecoveredQueue' = Bounded(RecoveredQueue, op.record)
           /\ RecoveredDropped' = IF Len(RecoveredQueue) = Capacity
                                  THEN RecoveredDropped + 1 ELSE RecoveredDropped
           /\ stored' = stored \cup {op.record}
           /\ op' = [op EXCEPT !.step = "slot"] /\ op'.step = "slot"
           /\ UNCHANGED <<agg, comm>>
<1>1. PICK o \in Outcome :
        /\ NvsCall(o)
        /\ IF Applied(o)
           THEN /\ pending' = [present |-> TRUE, previous |-> generation,
                               record |-> op.record]
                /\ stored' = stored \cup {op.record}
           ELSE UNCHANGED <<pending, stored>>
        /\ IF o = "ok" THEN GoOn("slot") ELSE FinishPush(ring.dropped)
  BY DEF SavePendingEnqueue
<1>2. o = "ok"
  BY <1>1, NvsCallFacts
<1>3. /\ pending' = [present |-> TRUE, previous |-> generation, record |-> op.record]
      /\ stored' = stored \cup {op.record}
      /\ op' = [op EXCEPT !.step = "slot"] /\ UNCHANGED <<agg, comm>>
  BY <1>1, <1>2 DEF Applied, GoOn
<1>4. meta' = meta /\ slots' = slots /\ op.step = "journal"
  BY DEF SavePendingEnqueue
<1>5. op.record \in Record /\ op'.step = "slot"
  BY <1>3, <1>4 DEF QueueInv, ControlInv, TypeOK
<1>6. ~pending.present /\ meta.generation = generation
  BY <1>4 DEF QueueInv, JournalInv
<1>7. ~Redo /\ Redo'
  BY <1>3, <1>4, <1>6 DEF Redo
<1>8. FlashQueue' = FlashQueue /\ pending'.record = op.record
  BY <1>3, <1>4 DEF FlashQueue
<1>9. RecoveredQueue = FlashQueue /\ RecoveredQueue' = Bounded(FlashQueue, op.record)
  BY <1>7, <1>8 DEF RecoveredQueue
<1>10. /\ RecoveredDropped = meta.dropped
       /\ RecoveredDropped' = IF meta.count = Capacity THEN meta.dropped + 1 ELSE meta.dropped
  BY <1>4, <1>7 DEF RecoveredDropped
<1> QED BY <1>3, <1>5, <1>9, <1>10, RecoveredFacts

\* The metadata write of a pop (gateway_offline_pop) removes the oldest record.
LEMMA PopRemoves ==
    ASSUME QueueInv, PopAndSaveMetadata, nvsErrors = 0, nvsErrors' = 0
    PROVE  /\ RecoveredQueue # << >>
           /\ RecoveredQueue' = Tail(RecoveredQueue)
           /\ RecoveredDropped' = RecoveredDropped
           /\ op' = [op EXCEPT !.step = "poperase"] /\ op'.step = "poperase"
           /\ UNCHANGED <<agg, comm, stored>>
<1>1. PICK o \in Outcome :
        /\ NvsCall(o)
        /\ meta' = IF Applied(o) THEN MetaOf(RingPop(ring), NextGeneration(generation))
                   ELSE meta
        /\ o = "ok" => op' = [op EXCEPT !.step = "poperase"] /\ comm' = comm
  BY DEF PopAndSaveMetadata
<1>2. o = "ok"
  BY <1>1, NvsCallFacts
<1>3. /\ meta' = MetaOf(RingPop(ring), NextGeneration(generation))
      /\ op' = [op EXCEPT !.step = "poperase"] /\ comm' = comm
  BY <1>1, <1>2 DEF Applied
<1>4. /\ slots' = slots /\ pending' = pending /\ agg' = agg /\ stored' = stored
      /\ op.step = "popmeta" /\ ring.count > 0
  BY DEF PopAndSaveMetadata, observerVars
<1>5. /\ ~pending.present /\ meta.head = ring.head /\ meta.count = ring.count
      /\ meta.dropped = ring.dropped
  BY <1>4 DEF QueueInv, JournalInv
<1>6. ~Redo /\ ~Redo'
  BY <1>4, <1>5 DEF Redo
<1>7. /\ meta'.head = (meta.head + 1) % Capacity
      /\ meta'.count = meta.count - 1
      /\ meta'.dropped = meta.dropped
  BY <1>3, <1>5 DEF MetaOf, RingPop, QueueInv, TypeOK, Ring
<1>8. meta.head \in Slot /\ meta.count \in 1..Capacity /\ slots \in [Slot -> Value]
  BY <1>4, <1>5, RecoveredFacts
<1>9. FlashQueue # << >> /\ FlashQueue' = Tail(FlashQueue)
  BY <1>4, <1>7, <1>8, ContentsPop DEF FlashQueue
<1>10. op'.step = "poperase"
  BY <1>3 DEF QueueInv, TypeOK
<1> QED BY <1>3, <1>4, <1>6, <1>7, <1>9, <1>10 DEF RecoveredQueue, RecoveredDropped

\* The slot write of a push: the queue, with the journal's record, is the same,
\* though a full ring's oldest record is overwritten in place.
LEMMA SlotWriteKeeps ==
    ASSUME QueueInv, WriteSlot, nvsErrors = 0, nvsErrors' = 0
    PROVE  UNCHANGED <<RecoveredQueue, RecoveredDropped>>
<1>1. PICK o \in {"ok", "failed"} :
        /\ NvsCall(o)
        /\ slots' = IF Applied(o)
                    THEN [slots EXCEPT ![EnqueueSlot(ring)] = op.record]
                    ELSE slots
  BY DEF WriteSlot
<1>2. slots' = [slots EXCEPT ![EnqueueSlot(ring)] = op.record]
  BY <1>1, NvsCallFacts DEF Applied
<1>3. meta' = meta /\ pending' = pending /\ op.step = "slot"
  BY DEF WriteSlot
<1>4. /\ meta.head = ring.head /\ meta.count = ring.count /\ Redo
      /\ op.record \in Record /\ pending.record = op.record
  BY <1>3 DEF QueueInv, JournalInv, ControlInv, Redo
<1>5. Redo' /\ RecoveredDropped' = RecoveredDropped
  BY <1>3, <1>4 DEF Redo, RecoveredDropped
<1> DEFINE h == meta.head
           c == meta.count
           e == EnqueueSlot(ring)
           r == op.record
<1>6. /\ h \in Slot /\ c \in 0..Capacity /\ slots \in [Slot -> Value] /\ r \in Value
      /\ e = IF c = Capacity THEN h ELSE (h + c) % Capacity
  BY <1>4, RecoveredFacts DEF EnqueueSlot, Value
<1>7. e \in Slot
  BY <1>6, WrapSum
<1>8. slots' \in [Slot -> Value]
  BY <1>2, <1>6, <1>7
<1> HIDE DEF h, c, e, r
<1>9. Bounded(Contents(h, c, slots'), r) = Bounded(Contents(h, c, slots), r)
  <2>1. CASE c # Capacity
    <3>1. ASSUME NEW s \in InUse(h, c) PROVE s # e /\ s \in Slot
      <4>1. c \in 0..Capacity /\ c < Capacity
        BY <1>6, <2>1, CapacityAssumption
      <4>2. s \in Slot /\ (\/ h <= s /\ s < h + c
                           \/ s < h /\ s + Capacity < h + c)
        BY <1>6, <3>1, InUseSlots
      <4>3. e = IF h + c < Capacity THEN h + c ELSE h + c - Capacity
        BY <1>6, <2>1, WrapSum
      <4> QED BY <1>6, <4>1, <4>2, <4>3, CapacityAssumption DEF Slot
    <3>2. \A s \in InUse(h, c) : slots'[s] = slots[s]
      BY <1>2, <1>6, <3>1 DEF e
    <3> QED BY <1>6, <1>8, <3>2, ContentsFrame
  <2>2. CASE c = Capacity
    <3> DEFINE n == (h + 1) % Capacity
    <3>1. Capacity \in 1..Capacity /\ Capacity - 1 \in 0..Capacity /\ n \in Slot /\ e = h
      BY <1>6, <2>2, WrapSum, CapacityAssumption
    <3>2. \A s \in InUse(n, Capacity - 1) : s \in Slot /\ s # h
      BY <1>6, <3>1, InUsePop
    <3>3. \A s \in InUse(n, Capacity - 1) : slots'[s] = slots[s]
      BY <1>2, <1>6, <3>1, <3>2 DEF e
    <3>4. Contents(n, Capacity - 1, slots') = Contents(n, Capacity - 1, slots)
      BY <1>6, <1>8, <3>1, <3>3, ContentsFrame
    <3>5. Tail(Contents(h, c, slots')) = Tail(Contents(h, c, slots))
      BY <1>6, <1>8, <2>2, <3>1, <3>4, ContentsPop
    <3>6. Len(Contents(h, c, slots')) = c /\ Len(Contents(h, c, slots)) = c
      BY <1>6, <1>8, ContentsFacts
    <3> QED BY <2>2, <3>5, <3>6 DEF Bounded
  <2> QED BY <2>1, <2>2
<1>10. RecoveredQueue' = RecoveredQueue
  BY <1>3, <1>4, <1>5, <1>9 DEF RecoveredQueue, FlashQueue, h, c, r
<1> QED BY <1>5, <1>10

\* The metadata write of a push: the record is now named by the metadata and no
\* longer taken from the journal.
LEMMA MetadataWriteKeeps ==
    ASSUME QueueInv, PushAndSaveMetadata, nvsErrors = 0, nvsErrors' = 0
    PROVE  UNCHANGED <<RecoveredQueue, RecoveredDropped>>
<1>1. PICK o \in Outcome :
        /\ NvsCall(o)
        /\ meta' = IF Applied(o) THEN MetaOf(ring', generation') ELSE meta
  BY DEF PushAndSaveMetadata
<1>2. meta' = MetaOf(ring', generation')
  BY <1>1, NvsCallFacts DEF Applied
<1>3. /\ slots' = slots /\ pending' = pending /\ op.step = "meta"
      /\ ring' = RingPush(ring, op.record) /\ generation' = NextGeneration(generation)
  BY DEF PushAndSaveMetadata
<1>4. /\ meta.head = ring.head /\ meta.count = ring.count /\ meta.dropped = ring.dropped
      /\ meta.generation = generation /\ pending.present
      /\ pending.previous = generation /\ pending.record = op.record
      /\ op.record \in Record /\ slots[EnqueueSlot(ring)] = op.record
      /\ generation \in Generation
  BY <1>3 DEF QueueInv, JournalInv, ControlInv, TypeOK
<1>5. Redo /\ ~Redo'
  BY <1>2, <1>3, <1>4, GenerationStep DEF Redo, MetaOf
<1>6. /\ meta.head \in Slot /\ meta.count \in 0..Capacity /\ slots \in [Slot -> Value]
      /\ op.record \in Value
  BY <1>4, RecoveredFacts DEF Value
<1>7. /\ meta'.head = IF meta.count = Capacity THEN (meta.head + 1) % Capacity ELSE meta.head
      /\ meta'.count = IF meta.count = Capacity THEN Capacity ELSE meta.count + 1
      /\ meta'.dropped = IF meta.count = Capacity THEN meta.dropped + 1 ELSE meta.dropped
  <2>1. (Capacity - 1) + 1 = Capacity
    BY CapacityAssumption
  <2> QED BY <1>2, <1>3, <1>4, <2>1 DEF MetaOf, RingPush
<1>8. slots[IF meta.count = Capacity THEN meta.head
            ELSE (meta.head + meta.count) % Capacity] = op.record
  BY <1>4 DEF EnqueueSlot
<1>9. FlashQueue' = Bounded(FlashQueue, op.record)
  BY <1>3, <1>6, <1>7, <1>8, ContentsPush DEF FlashQueue
<1> QED BY <1>4, <1>5, <1>7, <1>9 DEF RecoveredQueue, RecoveredDropped

\* What a boot would recover is a matter of flash alone.
LEMMA DurableFrame ==
    ASSUME UNCHANGED durableVars
    PROVE  UNCHANGED <<RecoveredQueue, RecoveredDropped>>
BY DEF durableVars, RecoveredQueue, RecoveredDropped, FlashQueue, Redo

\* Failing NVS calls are never forgotten.
LEMMA ErrorsStay ==
    ASSUME QueueInv, [Next]_vars, nvsErrors' = 0
    PROVE  nvsErrors = 0
<1> USE DEF durableVars, taskVars, observerVars, boundVars
<1>0. nvsErrors \in Nat
  BY BoundsAssumption DEF QueueInv, TypeOK
<1>1. ASSUME nvsErrors' = nvsErrors PROVE nvsErrors = 0
  BY <1>1
<1>2. CASE Boot
  <2>1. CASE LoadRing
    BY <1>1, <2>1 DEF LoadRing
  <2>2. CASE LoadWithoutMetadata
    BY <1>0, <2>2 DEF LoadWithoutMetadata
  <2>3. CASE LoadDiscardingQueue
    BY <1>0, <2>3 DEF LoadDiscardingQueue
  <2>4. CASE LoadPending
    BY <2>4, NvsCallFacts DEF LoadPending
  <2> QED BY <1>2, <2>1, <2>2, <2>3, <2>4 DEF Boot
<1>3. CASE Push
  BY <1>3, NvsCallFacts DEF Push, SavePendingEnqueue, WriteSlot, PushAndSaveMetadata,
                            ErasePendingEnqueue
<1>4. CASE Pop
  <2>1. CASE PopAndSaveMetadata
    BY <2>1, NvsCallFacts DEF PopAndSaveMetadata
  <2>2. CASE PopEraseSlot
    BY <1>0, <2>2 DEF PopEraseSlot
  <2> QED BY <1>4, <2>1, <2>2 DEF Pop
<1>5. CASE Agg
  BY <1>1, <1>5 DEF Agg, AggProduce, AggSend, AggSendTimeout, AggStartPush
<1>6. CASE Comm
  BY <1>1, <1>6 DEF Comm, CommStart, CommPeek, CommReplayAccepted, CommReplayRefused,
                    CommStartPop, CommReceive, CommLiveAccepted, CommLiveRefused,
                    CommStartPush, Accept, Refuse
<1>7. CASE ConnectionChange \/ Crash \/ UNCHANGED vars
  BY <1>1, <1>7 DEF ConnectionChange, Crash, vars
<1> QED BY <1>2, <1>3, <1>4, <1>5, <1>6, <1>7 DEF Next

\* Every other step leaves what a boot would recover as it is: the rest of a push,
\* the erasure of the popped slot, every step of a boot, and a reset.
LEMMA OthersKeep ==
    ASSUME QueueInv, FaultInv, Next, nvsErrors = 0, nvsErrors' = 0,
           ~SavePendingEnqueue, ~PopAndSaveMetadata
    PROVE  UNCHANGED <<RecoveredQueue, RecoveredDropped>>
<1> USE DEF durableVars, taskVars, observerVars, boundVars
<1>1. CASE Boot
  <2>1. CASE LoadRing \/ LoadPending
    BY <2>1, DurableFrame DEF LoadRing, LoadPending
  <2>2. CASE LoadWithoutMetadata
    <3>1. PICK readable \in BOOLEAN, o \in Outcome :
            /\ readable => ~meta.valid
            /\ nvsErrors' = nvsErrors + (IF readable THEN 0 ELSE 1)
                                      + (IF o = "ok" THEN 0 ELSE 1)
            /\ meta' = IF Applied(o) THEN MetaOf(ring', 0) ELSE meta
      BY <2>2 DEF LoadWithoutMetadata
    <3>2. readable /\ o = "ok"
      BY <3>1
    <3>3. ~meta.valid /\ meta' = MetaOf(RingInit, 0) /\ slots' = slots /\ pending' = pending
      BY <2>2, <3>1, <3>2 DEF LoadWithoutMetadata, Applied
    <3>4. meta.count = 0 /\ meta.dropped = 0 /\ ~pending.present
      BY <3>3 DEF QueueInv, SlotsInv, JournalInv, FaultInv
    <3>5. meta'.count = 0 /\ meta'.dropped = 0 /\ ~Redo /\ ~Redo'
      BY <3>3, <3>4 DEF MetaOf, RingInit, Redo
    <3>6. FlashQueue' = FlashQueue
      BY <3>4, <3>5 DEF FlashQueue, Contents
    <3> QED BY <3>4, <3>5, <3>6 DEF RecoveredQueue, RecoveredDropped
  <2>3. CASE LoadDiscardingQueue
    <3>1. PICK readable \in BOOLEAN, o \in Outcome :
            /\ readable => \E s \in SlotsInUse : slots[s] = NoRecord
            /\ nvsErrors' = nvsErrors + (IF readable THEN 0 ELSE 1)
                                      + (IF o = "ok" THEN 0 ELSE 1)
      BY <2>3 DEF LoadDiscardingQueue
    <3>2. readable
      BY <3>1
    <3> QED BY <3>1, <3>2 DEF QueueInv, SlotsInv, SlotsInUse
  <2> QED BY <1>1, <2>1, <2>2, <2>3 DEF Boot
<1>2. CASE Push
  <2>1. CASE ErasePendingEnqueue
    <3>1. PICK o \in Outcome : NvsCall(o) /\ pending' = IF Applied(o) THEN NoPending ELSE pending
      BY <2>1 DEF ErasePendingEnqueue
    <3>2. pending' = NoPending
      BY <3>1, NvsCallFacts DEF Applied
    <3>3. meta' = meta /\ slots' = slots /\ op.step = "erase"
      BY <2>1 DEF ErasePendingEnqueue
    <3>4. pending.previous \in Generation /\ meta.generation = NextGeneration(pending.previous)
      BY <3>3 DEF QueueInv, TypeOK, JournalInv
    <3>5. ~Redo /\ ~Redo'
      BY <3>2, <3>4, GenerationStep DEF Redo, NoPending
    <3> QED BY <3>3, <3>5 DEF RecoveredQueue, RecoveredDropped, FlashQueue
  <2> QED BY <1>2, <2>1, SlotWriteKeeps, MetadataWriteKeeps DEF Push
<1>3. CASE Pop
  <2>1. PopEraseSlot
    BY <1>3 DEF Pop
  <2>2. PICK erased \in BOOLEAN :
            slots' = IF erased THEN [slots EXCEPT ![op.slot] = NoRecord] ELSE slots
    BY <2>1 DEF PopEraseSlot
  <2>3. meta' = meta /\ pending' = pending /\ op.step = "poperase"
    BY <2>1 DEF PopEraseSlot
  <2>4. /\ meta.head = ring.head /\ meta.count = ring.count /\ ~pending.present
        /\ op.slot \notin InUse(meta.head, meta.count) /\ op.slot \in Slot
    BY <2>3 DEF QueueInv, SlotsInv, JournalInv, TypeOK
  <2>5. /\ meta.head \in Slot /\ meta.count \in 0..Capacity /\ slots \in [Slot -> Value]
        /\ slots' \in [Slot -> Value]
    BY <2>2, <2>4, RecoveredFacts DEF Value
  <2>6. \A s \in InUse(meta.head, meta.count) : slots'[s] = slots[s]
    BY <2>2, <2>4, <2>5, InUseSlots
  <2>7. FlashQueue' = FlashQueue
    BY <2>3, <2>5, <2>6, ContentsFrame DEF FlashQueue
  <2> QED BY <2>3, <2>4, <2>7 DEF RecoveredQueue, RecoveredDropped, Redo
<1>4. CASE Agg
  BY <1>4, DurableFrame DEF Agg, AggProduce, AggSend, AggSendTimeout, AggStartPush
<1>5. CASE Comm
  BY <1>5, DurableFrame
     DEF Comm, CommStart, CommPeek, CommReplayAccepted, CommReplayRefused,
         CommStartPop, CommReceive, CommLiveAccepted, CommLiveRefused,
         CommStartPush, Accept, Refuse
<1>6. CASE ConnectionChange \/ Crash
  BY <1>6, DurableFrame DEF ConnectionChange, Crash
<1> QED BY <1>1, <1>2, <1>3, <1>4, <1>5, <1>6 DEF Next

-----------------------------------------------------------------------------
(* The fault of a drop                                                      *)

\* Each step keeps the account of drops since the boot.
LEMMA FaultStep == QueueInv /\ FaultInv /\ [Next]_vars => FaultInv'
<1> SUFFICES ASSUME QueueInv, FaultInv, [Next]_vars PROVE FaultInv'
  OBVIOUS
<1> USE DEF durableVars, taskVars, observerVars, boundVars
<1>0. ring.dropped \in Nat /\ loadedDropped \in Nat /\ op \in Op
  BY DEF QueueInv, TypeOK, Ring
<1>1. CASE Boot
  <2>1. /\ op.by = "boot" /\ op'.by \in {"boot", "none"}
        /\ op'.by = "none" => op'.step = "none"
    <3>1. op.by = "boot"
      BY <1>1 DEF Boot, LoadRing, LoadWithoutMetadata, LoadDiscardingQueue, LoadPending,
                  QueueInv, ControlInv
    <3>2. \/ op' = Idle
          \/ \E st \in Steps : op' = [op EXCEPT !.step = st]
          \/ op' = [op EXCEPT !.step = "slot", !.record = pending.record]
      <4>1. CASE LoadPending
        <5>1. "erase" \in Steps
          BY DEF Steps
        <5> QED BY <4>1, <5>1 DEF LoadPending, FinishLoad
      <4>2. CASE LoadRing \/ LoadWithoutMetadata \/ LoadDiscardingQueue
        BY <4>2 DEF LoadRing, LoadWithoutMetadata, LoadDiscardingQueue, FinishLoad, Steps
      <4> QED BY <1>1, <4>1, <4>2 DEF Boot
    <3>3. CASE op' = Idle
      BY <3>1, <3>3 DEF Idle
    <3>4. CASE op' # Idle
      <4>1. op'.by = op.by
        BY <1>0, <3>2, <3>4
      <4> QED BY <3>1, <4>1
    <3> QED BY <3>3, <3>4
  <2>2. CASE LoadRing
    <3>1. /\ ring'.dropped = meta.dropped /\ loadedDropped' = meta.dropped
          /\ meta' = meta /\ meta.dropped \in Nat
      BY <2>2 DEF LoadRing, QueueInv, TypeOK
    <3> QED BY <2>1, <3>1 DEF FaultInv
  <2>3. CASE LoadWithoutMetadata \/ LoadDiscardingQueue
    <3>1. ring' = RingInit /\ loadedDropped' = 0 /\ dropFault' = dropFault
          /\ (meta' = meta \/ meta' = MetaOf(RingInit, 0))
      BY <2>3 DEF LoadWithoutMetadata, LoadDiscardingQueue
    <3> QED BY <1>0, <2>1, <3>1 DEF FaultInv, RingInit, MetaOf
  <2>4. CASE LoadPending
    BY <1>0, <2>1, <2>4 DEF FaultInv, LoadPending
  <2> QED BY <1>1, <2>2, <2>3, <2>4 DEF Boot
<1>2. CASE Push
  <2>0. op.by # "none" /\ op.by \in {"boot", "agg", "comm"}
    BY <1>0, <1>2 DEF Push, SavePendingEnqueue, WriteSlot, PushAndSaveMetadata,
                      ErasePendingEnqueue, QueueInv, ControlInv
  <2>1. CASE SavePendingEnqueue \/ WriteSlot
    <3>1. /\ meta' = meta /\ ring' = ring /\ loadedDropped' = loadedDropped
          /\ op.step \in {"journal", "slot"}
          /\ GoOn("slot") \/ GoOn("meta") \/ FinishPush(ring.dropped)
      BY <2>1 DEF SavePendingEnqueue, WriteSlot
    <3>2. CASE GoOn("slot") \/ GoOn("meta")
      BY <1>0, <3>1, <3>2 DEF FaultInv, GoOn
    <3>3. CASE FinishPush(ring.dropped)
      BY <1>0, <2>0, <3>1, <3>3 DEF FaultInv, FinishPush, Idle
    <3> QED BY <3>1, <3>2, <3>3
  <2>2. CASE PushAndSaveMetadata
    <3>1. /\ meta' = meta \/ meta' = MetaOf(ring', generation')
          /\ ring' = RingPush(ring, op.record) /\ op.step = "meta"
          /\ loadedDropped' = IF op.by = "boot" THEN ring'.dropped ELSE loadedDropped
          /\ GoOn("erase") \/ FinishPush(ring'.dropped)
      BY <2>2 DEF PushAndSaveMetadata
    <3>2. ring'.dropped = ring.dropped \/ ring'.dropped = ring.dropped + 1
      BY <3>1 DEF RingPush
    <3>3. ~meta'.valid => meta'.dropped = 0
      BY <3>1 DEF MetaOf, FaultInv
    <3>4. CASE GoOn("erase")
      <4>1. op' = [op EXCEPT !.step = "erase"] /\ dropFault' = dropFault
        BY <3>4 DEF GoOn
      <4>2. op'.by = op.by /\ op'.before = op.before /\ op'.step = "erase"
        BY <1>0, <4>1
      <4> QED BY <1>0, <2>0, <3>1, <3>2, <3>3, <4>1, <4>2 DEF FaultInv
    <3>5. CASE FinishPush(ring'.dropped)
      <4>1. op'.by = "none" /\ op'.step = "none"
        BY <3>5 DEF FinishPush, Idle
      <4>2. CASE op.by = "boot"
        BY <1>0, <3>1, <3>2, <3>3, <4>1, <4>2 DEF FaultInv
      <4>3. CASE op.by # "boot"
        <5>1. op.before = ring.dropped /\ loadedDropped' = loadedDropped
          BY <2>0, <3>1, <4>3 DEF FaultInv
        <5>2. ring'.dropped # ring.dropped => dropFault'
          BY <3>5, <4>3, <5>1 DEF FinishPush
        <5>3. ring'.dropped = ring.dropped /\ ring.dropped > loadedDropped => dropFault'
          BY <3>1, <3>5 DEF FaultInv, FinishPush
        <5> QED BY <3>3, <4>1, <5>1, <5>2, <5>3 DEF FaultInv
      <4> QED BY <4>2, <4>3
    <3> QED BY <3>1, <3>4, <3>5
  <2>3. CASE ErasePendingEnqueue
    BY <1>0, <2>0, <2>3 DEF FaultInv, ErasePendingEnqueue, FinishPush, Idle
  <2> QED BY <1>2, <2>1, <2>2, <2>3 DEF Push
<1>3. CASE Pop
  <2>1. op.step \in {"popmeta", "poperase"} /\ op.by = "comm"
    BY <1>3 DEF Pop, PopAndSaveMetadata, PopEraseSlot, QueueInv, ControlInv
  <2>2. CASE PopAndSaveMetadata
    <3>1. /\ meta' = meta \/ meta' = MetaOf(RingPop(ring), NextGeneration(generation))
          /\ ring' = ring \/ ring' = RingPop(ring)
          /\ op' = [op EXCEPT !.step = "poperase"] \/ op' = Idle
          /\ dropFault' = dropFault /\ loadedDropped' = loadedDropped
      BY <2>2 DEF PopAndSaveMetadata
    <3>2. ring'.dropped = ring.dropped
      BY <3>1 DEF RingPop, QueueInv, TypeOK, Ring
    <3>3. /\ op'.by \in {"comm", "none"}
          /\ op'.step \notin {"journal", "slot", "meta", "erase"}
      BY <1>0, <2>1, <3>1 DEF Idle
    <3> QED BY <1>0, <2>1, <3>1, <3>2, <3>3 DEF FaultInv, MetaOf
  <2>3. CASE PopEraseSlot
    BY <1>0, <2>1, <2>3 DEF FaultInv, PopEraseSlot, Idle
  <2> QED BY <1>3, <2>2, <2>3 DEF Pop
<1>4. CASE Agg
  BY <1>0, <1>4 DEF Agg, AggProduce, AggSend, AggSendTimeout, AggStartPush, StartPush,
                    MutexFree, FaultInv, QueueInv, ControlInv
<1>5. CASE Comm
  <2>1. CASE CommStartPop \/ CommStartPush
    <3>1. op.by = "none" /\ op.step = "none"
      BY <2>1 DEF CommStartPop, CommStartPush, StartPush, MutexFree, QueueInv, ControlInv
    <3>2. /\ op'.by = "comm"
          /\ op'.step = "popmeta" \/ (op'.step = "journal" /\ op'.before = ring.dropped)
      <4>1. CASE CommStartPop
        BY <4>1 DEF CommStartPop, Idle
      <4>2. CASE CommStartPush
        BY <4>2 DEF CommStartPush, StartPush
      <4> QED BY <2>1, <4>1, <4>2
    <3>3. UNCHANGED <<meta, ring, loadedDropped, dropFault>>
      BY <2>1 DEF CommStartPop, CommStartPush
    <3> QED BY <3>1, <3>2, <3>3 DEF FaultInv
  <2>2. CASE ~(CommStartPop \/ CommStartPush)
    BY <1>5, <2>2 DEF Comm, CommStart, CommPeek, CommReplayAccepted, CommReplayRefused,
                      CommReceive, CommLiveAccepted, CommLiveRefused, Accept, Refuse,
                      FaultInv
  <2> QED BY <2>1, <2>2
<1>6. CASE ConnectionChange
  BY <1>6 DEF ConnectionChange, FaultInv
<1>7. CASE Crash
  BY <1>7 DEF Crash, FaultInv, Idle, RingInit
<1>8. CASE UNCHANGED vars
  BY <1>8 DEF vars, FaultInv
<1> QED BY <1>1, <1>2, <1>3, <1>4, <1>5, <1>6, <1>7, <1>8 DEF Next

-----------------------------------------------------------------------------
(* The account of losses                                                    *)

\* Sets of records are finite, so that counting them is monotonic.
LEMMA CountRecords ==
    ASSUME NEW S \in SUBSET Record, NEW T \in SUBSET Record, NEW x
    PROVE  /\ Cardinality(S) \in Nat
           /\ S \subseteq T => Cardinality(S) <= Cardinality(T)
           /\ S \subseteq T \cup {x} => Cardinality(S) <= Cardinality(T) + 1
<1>1. IsFiniteSet(Record)
  <2>1. 1 \in Int /\ MaxSequence \in Int
    BY BoundsAssumption
  <2> QED BY <2>1, FS_Interval DEF Record
<1>2. IsFiniteSet(S) /\ IsFiniteSet(T)
  BY <1>1, FS_Subset
<1>3. Cardinality(S) \in Nat /\ Cardinality(T) \in Nat
  BY <1>2, FS_CardinalityType
<1>4. S \subseteq T => Cardinality(S) <= Cardinality(T)
  BY <1>2, FS_Subset
<1>5. ASSUME S \subseteq T \cup {x} PROVE Cardinality(S) <= Cardinality(T) + 1
  <2>1. /\ IsFiniteSet(T \cup {x})
        /\ Cardinality(T \cup {x}) = IF x \in T THEN Cardinality(T) ELSE Cardinality(T) + 1
    BY <1>2, FS_AddElement
  <2>2. Cardinality(S) <= Cardinality(T \cup {x})
    BY <1>5, <2>1, FS_Subset
  <2> QED BY <1>3, <2>1, <2>2
<1> QED BY <1>3, <1>4, <1>5

\* Every step keeps the account, and the drop that pays for the pop of another
\* record than the one communication_task published.
LEMMA LossStep ==
    ASSUME QueueInv, FaultInv, LossInv, [Next]_vars, QueueInv'
    PROVE  LossInv'
<1> SUFFICES ASSUME nvsErrors' = 0 PROVE LossInv'
  BY DEF LossInv
<1> USE DEF durableVars, taskVars, observerVars, boundVars
<1> DEFINE q == RecoveredQueue
           d == RecoveredDropped
           x == comm.record
<1>0. nvsErrors = 0
  BY ErrorsStay
<1>1. /\ Cardinality(Lost) <= d
      /\ comm.pc = "publish" => x = q[1] \/ Cardinality(Lost \ {x}) < d
      /\ comm.pc = "pop" /\ op.step # "poperase" =>
                q[1] \in accepted \/ Cardinality(Lost) < d
  BY <1>0 DEF LossInv
<1>2. q \in Seq(Value) /\ Len(q) <= Capacity /\ d \in Nat /\ d' \in Nat
      /\ DOMAIN q = 1..Len(q) /\ Len(q) \in Nat
  <2>1. q \in Seq(Value) /\ Len(q) <= Capacity /\ d \in Nat
    BY RecoveredFacts
  <2>2. d' \in Nat
    BY DEF QueueInv, TypeOK, RecoveredDropped
  <2>3. DOMAIN q = 1..Len(q) /\ Len(q) \in Nat
    BY <2>1, LenProperties
  <2> QED BY <2>1, <2>2, <2>3
<1>3. Lost \in SUBSET Record /\ Lost' \in SUBSET Record
  BY DEF Lost, QueueInv, TypeOK
<1>4. /\ Cardinality(Lost) \in Nat /\ Cardinality(Lost') \in Nat
      /\ Cardinality(Lost \ {x}) \in Nat /\ Cardinality(Lost' \ {x}) \in Nat
  BY <1>3, CountRecords
\* Steps that leave the queue alone.
<1>5. ASSUME UNCHANGED <<RecoveredQueue, RecoveredDropped, stored>>,
             accepted \subseteq accepted'
      PROVE  Lost' \subseteq Lost /\ Cardinality(Lost') <= d' /\ q' = q /\ d' = d
  <2>1. Lost' \subseteq Lost
    BY <1>5 DEF Lost
  <2>2. Cardinality(Lost') <= Cardinality(Lost)
    BY <1>3, <2>1, CountRecords
  <2> QED BY <1>1, <1>2, <1>4, <1>5, <2>1, <2>2
<1>6. ASSUME UNCHANGED <<RecoveredQueue, RecoveredDropped, stored>>,
             accepted \subseteq accepted', comm'.pc \notin {"publish", "pop"}
      PROVE  LossInv'
  BY <1>5, <1>6 DEF LossInv
<1>7. ASSUME UNCHANGED <<RecoveredQueue, RecoveredDropped, stored, accepted, comm>>,
             op.step = "poperase" => op'.step = "poperase"
      PROVE  LossInv'
  <2>1. Lost' = Lost
    BY <1>7 DEF Lost
  <2> QED BY <1>0, <1>7, <2>1 DEF LossInv
<1>8. CASE SavePendingEnqueue
  <2> DEFINE r == op.record
  <2>1. /\ r \in Record /\ q' = Bounded(q, r) /\ stored' = stored \cup {r}
        /\ d' = IF Len(q) = Capacity THEN d + 1 ELSE d
        /\ comm' = comm /\ accepted' = accepted /\ op.step = "journal"
    BY <1>0, <1>8, JournalAdds DEF SavePendingEnqueue
  <2>2. /\ r \in Elements(q')
        /\ Len(q) = Capacity => Elements(q) \subseteq Elements(q') \cup {q[1]}
        /\ Len(q) # Capacity => Elements(q) \subseteq Elements(q')
    BY <1>2, <2>1, BoundedElements DEF Value
  <2>3. CASE Len(q) # Capacity
    <3>1. Lost' \subseteq Lost /\ d' = d /\ Lost' \ {x} \subseteq Lost \ {x}
      BY <2>1, <2>2, <2>3 DEF Lost
    <3>2. Cardinality(Lost') <= Cardinality(Lost)
          /\ Cardinality(Lost' \ {x}) <= Cardinality(Lost \ {x})
      BY <1>3, <3>1, CountRecords
    <3>3. comm.pc \in {"publish", "pop"} => q'[1] = q[1]
      <4>1. comm.pc \in {"publish", "pop"} => meta.count > 0
        BY <1>0, <2>1 DEF QueueInv, ControlInv, JournalInv
      <4>2. comm.pc \in {"publish", "pop"} => 1 \in 1..Len(q)
        BY <1>2, <4>1, RecoveredFacts
      <4>3. \A i \in 1..Len(q) : Bounded(q, r)[i] = q[i]
        BY <1>2, <2>1, <2>3, BoundedFacts DEF Value
      <4> QED BY <2>1, <4>2, <4>3
    <3> QED BY <1>1, <1>2, <1>4, <2>1, <3>1, <3>2, <3>3 DEF LossInv
  <2>4. CASE Len(q) = Capacity
    <3>1. Lost' \subseteq Lost \cup {q[1]} /\ d' = d + 1
          /\ Lost' \ {x} \subseteq (Lost \ {x}) \cup {q[1]}
      BY <2>1, <2>2, <2>4 DEF Lost
    <3>2. Cardinality(Lost') <= Cardinality(Lost) + 1
          /\ Cardinality(Lost' \ {x}) <= Cardinality(Lost \ {x}) + 1
      BY <1>3, <3>1, CountRecords
    <3>3. ASSUME x = q[1] PROVE Cardinality(Lost' \ {x}) <= Cardinality(Lost)
      <4>1. Lost' \ {x} \subseteq Lost
        BY <3>1, <3>3
      <4> QED BY <1>3, <4>1, CountRecords
    <3>4. ASSUME q[1] \in accepted PROVE Cardinality(Lost') <= Cardinality(Lost)
      <4>1. Lost' \subseteq Lost
        BY <2>1, <3>1, <3>4 DEF Lost
      <4> QED BY <1>3, <4>1, CountRecords
    <3>5. Cardinality(Lost') <= d'
      BY <1>1, <1>2, <1>4, <3>1, <3>2
    <3>6. comm.pc = "publish" => Cardinality(Lost' \ {x}) < d'
      BY <1>1, <1>2, <1>4, <3>1, <3>2, <3>3
    <3>7. comm.pc = "pop" => Cardinality(Lost') < d'
      BY <1>1, <1>2, <1>4, <2>1, <3>1, <3>2, <3>4
    <3> QED BY <2>1, <3>5, <3>6, <3>7 DEF LossInv
  <2> QED BY <2>3, <2>4
<1>9. CASE PopAndSaveMetadata
  <2>1. /\ q # << >> /\ q' = Tail(q) /\ d' = d /\ op'.step = "poperase"
        /\ comm' = comm /\ stored' = stored /\ accepted' = accepted
        /\ op.step = "popmeta"
    BY <1>0, <1>9, PopRemoves DEF PopAndSaveMetadata
  <2>2. comm.pc = "pop"
    BY <2>1 DEF QueueInv, ControlInv
  <2>3. Lost' \subseteq Lost \cup {q[1]}
    BY <1>2, <2>1, TailElements DEF Lost
  <2>4. q[1] \in accepted => Lost' \subseteq Lost
    BY <2>1, <2>3 DEF Lost
  <2>5. /\ Cardinality(Lost') <= Cardinality(Lost) + 1
        /\ q[1] \in accepted => Cardinality(Lost') <= Cardinality(Lost)
    BY <1>3, <2>3, <2>4, CountRecords
  <2>6. Cardinality(Lost') <= d'
    BY <1>1, <1>2, <1>4, <2>1, <2>2, <2>5
  <2> QED BY <2>1, <2>2, <2>6 DEF LossInv
<1>10. CASE Next /\ ~SavePendingEnqueue /\ ~PopAndSaveMetadata
  <2>0. UNCHANGED <<RecoveredQueue, RecoveredDropped>>
    BY <1>0, <1>10, OthersKeep
  <2>1. CASE Boot
    <3>1. comm.pc = "idle" /\ comm' = comm /\ stored' = stored /\ accepted' = accepted
      BY <2>1 DEF Boot, LoadRing, LoadWithoutMetadata, LoadDiscardingQueue, LoadPending,
                  QueueInv, ControlInv
    <3> QED BY <1>6, <2>0, <3>1
  <2>2. CASE Push
    <3>1. /\ stored' = stored /\ accepted' = accepted
          /\ comm' = comm \/ comm'.pc = "idle"
          /\ op.step \in {"slot", "meta", "erase"}
      BY <1>10, <2>2 DEF Push, WriteSlot, PushAndSaveMetadata, ErasePendingEnqueue,
                         GoOn, FinishPush
    <3> QED BY <1>6, <1>7, <2>0, <3>1
  <2>3. CASE Pop
    <3>1. comm'.pc \notin {"publish", "pop"} /\ stored' = stored /\ accepted' = accepted
      BY <1>10, <2>3 DEF Pop, PopEraseSlot, CommAt
    <3> QED BY <1>6, <2>0, <3>1
  <2>4. CASE Agg
    <3>1. /\ comm' = comm /\ stored' = stored /\ accepted' = accepted
          /\ op' = op \/ op.by = "none"
      BY <2>4 DEF Agg, AggProduce, AggSend, AggSendTimeout, AggStartPush, StartPush,
                  MutexFree
    <3>2. op.step = "poperase" => op'.step = "poperase"
      BY <3>1 DEF QueueInv, ControlInv
    <3> QED BY <1>7, <2>0, <3>1, <3>2
  <2>5. CASE CommPeek
    <3>1. /\ stored' = stored /\ accepted' = accepted /\ MutexFree
          /\ \/ comm'.pc = "receive"
             \/ ring.count # 0 /\ comm' = [pc |-> "publish", record |-> RingPeek(ring)]
      BY <2>5 DEF CommPeek, CommAt
    <3>2. CASE comm'.pc = "receive"
      BY <1>6, <2>0, <3>1, <3>2
    <3>3. CASE ring.count # 0 /\ comm' = [pc |-> "publish", record |-> RingPeek(ring)]
      <4>1. RingContents = q
        BY <1>0, <3>1, MemoryIsFlash DEF MemoryMatchesFlash
      <4>2. /\ ring.head \in Slot /\ ring.count \in 0..Capacity
            /\ ring.records \in [Slot -> Value]
        BY DEF QueueInv, TypeOK, Ring, Value
      <4>3. /\ 0 \in 0..Capacity /\ 1 \in 1..ring.count /\ 1 - 1 = 0
            /\ ring.head + 0 = ring.head /\ ring.head < Capacity
        BY <3>3, <4>2, CapacityAssumption DEF Slot
      <4>a. (ring.head + 0) % Capacity = ring.head
        BY <4>2, <4>3, WrapSum
      <4>b. RingContents[1] = ring.records[(ring.head + (1 - 1)) % Capacity]
        BY <4>2, <4>3, ContentsFacts DEF RingContents
      <4>4. RingContents[1] = ring.records[ring.head]
        BY <4>3, <4>a, <4>b
      <4>5. comm'.record = q'[1] /\ comm'.pc = "publish"
        BY <2>0, <3>3, <4>1, <4>4 DEF RingPeek
      <4> QED BY <1>5, <2>0, <3>1, <4>5 DEF LossInv
    <3> QED BY <3>1, <3>2, <3>3
  <2>6. CASE CommReplayAccepted
    <3>1. /\ stored' = stored /\ accepted' = accepted \cup {x} /\ comm.pc = "publish"
          /\ comm'.pc = "pop" /\ op' = op
      BY <2>6 DEF CommReplayAccepted, Accept, CommAt
    <3>2. Lost' = Lost \ {x}
      BY <2>0, <3>1 DEF Lost
    <3>3. q'[1] \in accepted' \/ Cardinality(Lost') < d'
      BY <1>1, <2>0, <3>1, <3>2
    <3> QED BY <1>5, <2>0, <3>1, <3>3 DEF LossInv
  <2>7. CASE CommStartPop \/ CommStartPush
    <3>1. /\ comm' = comm /\ stored' = stored /\ accepted' = accepted /\ op.by = "none"
      BY <2>7 DEF CommStartPop, CommStartPush, StartPush, MutexFree
    <3> QED BY <1>7, <2>0, <3>1 DEF QueueInv, ControlInv
  <2>8. CASE Comm /\ ~CommPeek /\ ~CommReplayAccepted /\ ~CommStartPop /\ ~CommStartPush
    <3>1. /\ stored' = stored /\ accepted \subseteq accepted'
          /\ comm'.pc \notin {"publish", "pop"}
      BY <2>8 DEF Comm, CommStart, CommReplayRefused, CommReceive, CommLiveAccepted,
                  CommLiveRefused, Accept, Refuse, CommAt
    <3> QED BY <1>6, <2>0, <3>1
  <2>9. CASE ConnectionChange
    BY <1>7, <2>0, <2>9 DEF ConnectionChange
  <2>10. CASE Crash
    <3>1. comm'.pc = "idle" /\ stored' = stored /\ accepted' = accepted
      BY <2>10 DEF Crash
    <3> QED BY <1>6, <2>0, <3>1
  <2> QED BY <1>10, <2>1, <2>2, <2>3, <2>4, <2>5, <2>6, <2>7, <2>8, <2>9, <2>10 DEF Next
<1>11. CASE UNCHANGED vars
  BY <1>7, <1>11, DurableFrame DEF vars
<1> QED BY <1>8, <1>9, <1>10, <1>11

-----------------------------------------------------------------------------
(* The order of the records on their way                                    *)

\* A record greater than all may be appended.
LEMMA AppendInOrder ==
    ASSUME NEW q \in Seq(Value), NEW r \in Value, InOrder(q), Before(Elements(q), {r})
    PROVE  InOrder(Append(q, r)) /\ Elements(Append(q, r)) \subseteq Elements(q) \cup {r}
<1> DEFINE a == Append(q, r)
<1>1. DOMAIN q = 1..Len(q) /\ Len(q) \in Nat
  BY LenProperties
<1>2. /\ Len(a) = Len(q) + 1 /\ a \in Seq(Value)
      /\ \A i \in 1..Len(q) : a[i] = q[i]
      /\ a[Len(q) + 1] = r
  BY AppendProperties
<1>3. DOMAIN a = 1..(Len(q) + 1)
  BY <1>2, LenProperties
<1>4. \A i \in 1..Len(q) : q[i] < r
  BY <1>1 DEF Before, Elements
<1> HIDE DEF a
<1>5. ASSUME NEW i \in DOMAIN a
      PROVE  \/ i \in 1..Len(q) /\ a[i] = q[i]
             \/ i = Len(q) + 1 /\ a[i] = r
  BY <1>1, <1>2, <1>3
<1>6. ASSUME NEW i \in DOMAIN a, NEW j \in DOMAIN a, i < j PROVE a[i] < a[j]
  <2>1. i \in 1..Len(q) /\ a[i] = q[i]
    BY <1>1, <1>2, <1>3, <1>6
  <2>2. CASE j \in 1..Len(q) /\ a[j] = q[j]
    BY <1>1, <1>6, <2>1, <2>2 DEF InOrder
  <2>3. CASE j = Len(q) + 1 /\ a[j] = r
    BY <1>4, <2>1, <2>3
  <2> QED BY <1>5, <2>2, <2>3
<1>7. InOrder(a)
  BY <1>6 DEF InOrder
<1>8. Elements(a) \subseteq Elements(q) \cup {r}
  BY <1>1, <1>5 DEF Elements
<1> QED BY <1>7, <1>8 DEF a

\* The oldest record of a queue in order comes before the rest.
LEMMA HeadIsFirst ==
    ASSUME NEW q \in Seq(Value), q # << >>, InOrder(q)
    PROVE  Head(q) \in Elements(q) /\ Before({Head(q)}, Elements(Tail(q)))
<1>1. /\ Tail(q) \in Seq(Value) /\ Len(Tail(q)) = Len(q) - 1
      /\ \A i \in 1..Len(Tail(q)) : Tail(q)[i] = q[i + 1]
      /\ DOMAIN q = 1..Len(q) /\ Len(q) \in Nat
      /\ DOMAIN Tail(q) = 1..Len(Tail(q)) /\ Len(Tail(q)) \in Nat
      /\ Head(q) = q[1]
  BY HeadTailProperties, LenProperties
<1>2. 1 \in DOMAIN q
  BY <1>1
<1>3. ASSUME NEW i \in DOMAIN Tail(q) PROVE q[1] < Tail(q)[i]
  <2>1. i + 1 \in DOMAIN q /\ 1 < i + 1 /\ Tail(q)[i] = q[i + 1]
    BY <1>1
  <2> QED BY <1>2, <2>1 DEF InOrder
<1> QED BY <1>1, <1>2, <1>3 DEF Before, Elements

\* What the tasks and queues hold in order, told apart from who holds it: R the
\* records of the offline queue, L those of telemetry_queue, C and A those in the
\* hands of communication_task and aggregation_task, n the next, B the bypassed.
OnTheirWay(R, C, L, A, n, B) ==
    /\ B \cap (C \cup L) = {}
    /\ Before(R \ B, C \cup L)
    /\ Before(R, A \cup {n})
    /\ Before(C, L \cup A \cup {n})
    /\ Before(L, A \cup {n})
    /\ Before(A \cup B, {n})

\* A step that moves no record forward keeps the order.
LEMMA OrderFrame ==
    ASSUME OrderInv, nvsErrors = 0,
           InOrderBut(RecoveredQueue', bypassed), InOrder(liveQueue'),
           Elements(RecoveredQueue') \subseteq Elements(RecoveredQueue),
           Elements(liveQueue') \subseteq Elements(liveQueue),
           CommHolds' \subseteq CommHolds, AggHolds' \subseteq AggHolds,
           nextSequence' = nextSequence, bypassed' = bypassed,
           agg'.pc \in {"send", "store"} => agg' = agg,
           op'.step = "journal" =>
                op'.record = IF op'.by = "agg" THEN agg'.record ELSE comm'.record
    PROVE  OrderInv'
<1> DEFINE R == Elements(RecoveredQueue)
           L == Elements(liveQueue)
           C == CommHolds
           A == AggHolds
<1>1. OnTheirWay(R, C, L, A, nextSequence, bypassed)
  BY DEF OrderInv, OnTheirWay
<1>2. /\ R' \subseteq R /\ L' \subseteq L /\ C' \subseteq C /\ A' \subseteq A
      /\ nextSequence' = nextSequence /\ bypassed' = bypassed
  OBVIOUS
<1> HIDE DEF R, L, C, A
<1>3. OnTheirWay(R', C', L', A', nextSequence', bypassed')
  BY <1>1, <1>2 DEF OnTheirWay, Before
<1>4. /\ agg'.pc = "send" => agg'.record \notin bypassed'
      /\ agg'.pc = "store" => agg'.record \in bypassed'
  BY DEF OrderInv
<1> QED BY <1>3, <1>4 DEF OrderInv, OnTheirWay, R, L, C, A

\* Every step keeps the order.
LEMMA OrderStep ==
    ASSUME QueueInv, FaultInv, OrderInv, [Next]_vars, QueueInv'
    PROVE  OrderInv'
<1> SUFFICES ASSUME nvsErrors' = 0 PROVE OrderInv'
  BY DEF OrderInv
<1> USE DEF durableVars, taskVars, observerVars, boundVars
<1> DEFINE q == RecoveredQueue
<1>0. nvsErrors = 0
  BY ErrorsStay
<1>1. /\ agg.pc = "send" => agg.record \notin bypassed
      /\ agg.pc = "store" => agg.record \in bypassed
      /\ op.step = "journal" =>
            op.record = IF op.by = "agg" THEN agg.record ELSE comm.record
      /\ InOrderBut(q, bypassed) /\ InOrder(liveQueue)
      /\ OnTheirWay(Elements(q), CommHolds, Elements(liveQueue), AggHolds,
                    nextSequence, bypassed)
  BY <1>0 DEF OrderInv, OnTheirWay
<1>2. /\ q \in Seq(Value) /\ Len(q) <= Capacity /\ liveQueue \in Seq(Value)
      /\ nextSequence \in Nat
  <2>1. q \in Seq(Value) /\ Len(q) <= Capacity
    BY RecoveredFacts
  <2>2. liveQueue \in Seq(Record) /\ Record \subseteq Value
    BY DEF QueueInv, TypeOK, Value
  <2>3. nextSequence \in Nat
    BY BoundsAssumption DEF QueueInv, TypeOK
  <2> QED BY <2>1, <2>2, <2>3
\* A step that leaves the queues and the tasks' records alone.
<1>3. ASSUME UNCHANGED <<RecoveredQueue, liveQueue, nextSequence, bypassed>>,
             CommHolds' \subseteq CommHolds, AggHolds' \subseteq AggHolds,
             agg'.pc \in {"send", "store"} => agg' = agg,
             op'.step = "journal" =>
                op'.record = IF op'.by = "agg" THEN agg'.record ELSE comm'.record
      PROVE  OrderInv'
  BY <1>0, <1>1, <1>3, OrderFrame
<1>4. ASSUME UNCHANGED <<RecoveredQueue, liveQueue, nextSequence, agg, comm, bypassed>>,
             op' = op
      PROVE  OrderInv'
  <2>1. CommHolds' = CommHolds /\ AggHolds' = AggHolds
    BY <1>4 DEF CommHolds, AggHolds, Journaled
  <2> QED BY <1>1, <1>3, <1>4, <2>1
\* What the new values must satisfy, in the same words.
<1>z. ASSUME /\ agg'.pc = "send" => agg'.record \notin bypassed'
             /\ agg'.pc = "store" => agg'.record \in bypassed'
             /\ op'.step = "journal" =>
                    op'.record = IF op'.by = "agg" THEN agg'.record ELSE comm'.record
             /\ InOrderBut(q', bypassed') /\ InOrder(liveQueue')
             /\ OnTheirWay(Elements(q'), CommHolds', Elements(liveQueue'), AggHolds',
                           nextSequence', bypassed')
      PROVE  OrderInv'
  BY <1>z DEF OrderInv, OnTheirWay
<1>5. CASE SavePendingEnqueue
  <2> DEFINE r == op.record
  <2>1. /\ r \in Record /\ q' = Bounded(q, r) /\ comm' = comm /\ agg' = agg
        /\ op' = [op EXCEPT !.step = "slot"] /\ op'.step = "slot" /\ op.step = "journal"
        /\ liveQueue' = liveQueue /\ nextSequence' = nextSequence /\ bypassed' = bypassed
    BY <1>0, <1>5, JournalAdds DEF SavePendingEnqueue
  <2>2. op'.by = op.by /\ op \in Op
    BY <2>1 DEF QueueInv, TypeOK, Op
  <2>3. \/ op.by = "comm" /\ comm.pc = "store" /\ r = comm.record
        \/ op.by = "agg" /\ agg.pc = "store" /\ r = agg.record
    BY <1>1, <2>1 DEF QueueInv, ControlInv
  <2>4. \/ /\ op.by = "comm" /\ CommHolds = {r} /\ CommHolds' = {}
           /\ AggHolds' = AggHolds
        \/ /\ op.by = "agg" /\ AggHolds = {r} /\ AggHolds' = {} /\ r \in bypassed
           /\ CommHolds' = CommHolds
    BY <1>1, <2>1, <2>2, <2>3 DEF CommHolds, AggHolds, Journaled
  <2>5. r \in Value /\ \A x \in Elements(q) : MayPrecede(x, r, bypassed)
    BY <1>1, <2>1, <2>4 DEF OnTheirWay, Before, MayPrecede, Value
  <2>6. InOrderBut(q', bypassed')
    <3>1. \A i \in DOMAIN q : MayPrecede(q[i], r, bypassed)
      BY <2>5 DEF Elements
    <3> QED BY <1>1, <1>2, <2>1, <2>5, <3>1, BoundedInOrder
  <2>7. Elements(q') \subseteq Elements(q) \cup {r}
    BY <1>2, <2>1, <2>5, BoundedElements
  <2>8. OnTheirWay(Elements(q'), CommHolds', Elements(liveQueue'), AggHolds',
                   nextSequence', bypassed')
    <3>1. CASE op.by = "comm" /\ CommHolds = {r} /\ CommHolds' = {} /\ AggHolds' = AggHolds
      <4> DEFINE L == Elements(liveQueue)
                 A == AggHolds
                 R == Elements(q)
                 T == Elements(q')
      <4>1. /\ OnTheirWay(R, {r}, L, A, nextSequence, bypassed)
            /\ T \subseteq R \cup {r}
        BY <1>1, <2>7, <3>1
      <4> HIDE DEF L, A, R, T
      <4>2. OnTheirWay(T, {}, L, A, nextSequence, bypassed)
        BY <4>1 DEF OnTheirWay, Before
      <4> QED BY <2>1, <3>1, <4>2 DEF L, A, T
    <3>2. CASE op.by = "agg" /\ AggHolds = {r} /\ AggHolds' = {} /\ r \in bypassed
               /\ CommHolds' = CommHolds
      <4> DEFINE L == Elements(liveQueue)
                 C == CommHolds
                 R == Elements(q)
                 T == Elements(q')
      <4>1. /\ OnTheirWay(R, C, L, {r}, nextSequence, bypassed) /\ r \in bypassed
            /\ T \subseteq R \cup {r}
        BY <1>1, <2>7, <3>2
      <4> HIDE DEF L, C, R, T
      <4>2. OnTheirWay(T, C, L, {}, nextSequence, bypassed)
        BY <4>1 DEF OnTheirWay, Before
      <4> QED BY <2>1, <3>2, <4>2 DEF L, C, T
    <3> QED BY <2>4, <3>1, <3>2
  <2> QED BY <1>1, <1>z, <2>1, <2>6, <2>8
<1>6. CASE PopAndSaveMetadata
  <2>1. /\ q # << >> /\ q' = Tail(q) /\ comm' = comm /\ agg' = agg
        /\ op'.step = "poperase" /\ op.step = "popmeta"
        /\ liveQueue' = liveQueue /\ nextSequence' = nextSequence /\ bypassed' = bypassed
    BY <1>0, <1>6, PopRemoves DEF PopAndSaveMetadata
  <2>2. Elements(q') \subseteq Elements(q) /\ InOrderBut(q', bypassed)
    BY <1>1, <1>2, <2>1, TailElements
  <2>3. CommHolds' = CommHolds /\ AggHolds' = AggHolds
    BY <2>1 DEF CommHolds, AggHolds, Journaled
  <2> QED BY <1>0, <1>1, <2>1, <2>2, <2>3, OrderFrame
<1>7. CASE Next /\ ~SavePendingEnqueue /\ ~PopAndSaveMetadata
  <2>0. RecoveredQueue' = RecoveredQueue
    BY <1>0, <1>7, OthersKeep
  <2>1. CASE Boot
    <3>1. /\ op.by = "boot"
          /\ UNCHANGED <<agg, comm, liveQueue, nextSequence, bypassed>>
      BY <2>1 DEF Boot, LoadRing, LoadWithoutMetadata, LoadDiscardingQueue, LoadPending,
                  QueueInv, ControlInv
    <3>2. op'.step # "journal"
      <4>1. op'.by \notin {"agg", "comm"}
        BY <3>1 DEF QueueInv, ControlInv
      <4> QED BY <4>1 DEF QueueInv, ControlInv
    <3>3. CommHolds' = {} /\ AggHolds' = {}
      BY <3>1 DEF CommHolds, AggHolds, QueueInv, ControlInv
    <3> QED BY <1>3, <2>0, <3>1, <3>2, <3>3
  <2>2. CASE Push
    <3>1. /\ UNCHANGED <<liveQueue, nextSequence, bypassed>>
          /\ op.step \in {"slot", "meta", "erase"}
          /\ \/ op' = Idle /\ agg' = (IF op.by = "agg" THEN [pc |-> "idle", record |-> NoRecord] ELSE agg)
                /\ comm' = IF op.by = "comm" THEN [pc |-> "idle", record |-> NoRecord] ELSE comm
             \/ op'.step \in {"slot", "meta", "erase"} /\ op'.by = op.by
                /\ agg' = agg /\ comm' = comm
      <4>1. op \in Op
        BY DEF QueueInv, TypeOK
      <4> QED BY <1>7, <2>2, <4>1 DEF Push, WriteSlot, PushAndSaveMetadata, ErasePendingEnqueue,
                         GoOn, FinishPush, Op
    <3>2. op'.step # "journal"
      BY <3>1 DEF Idle
    <3>3. CASE op' = Idle
      <4>1. op'.by = "none"
        BY <3>3 DEF Idle
      <4>2. CommHolds' \subseteq CommHolds
        BY <3>1, <3>3, <4>1 DEF CommHolds, Journaled, QueueInv, ControlInv
      <4>3. AggHolds' \subseteq AggHolds
        BY <3>1, <3>3, <4>1 DEF AggHolds, Journaled, QueueInv, ControlInv
      <4>4. agg'.pc \in {"send", "store"} => agg' = agg
        BY <3>1, <3>2, <3>3
      <4> QED BY <1>3, <2>0, <3>1, <3>2, <4>2, <4>3, <4>4
    <3>4. CASE op'.step \in {"slot", "meta", "erase"} /\ op'.by = op.by
               /\ agg' = agg /\ comm' = comm
      <4>1. CommHolds' = CommHolds /\ AggHolds' = AggHolds
        BY <3>1, <3>4 DEF CommHolds, AggHolds, Journaled
      <4> QED BY <1>3, <2>0, <3>1, <3>2, <3>4, <4>1
    <3> QED BY <3>1, <3>3, <3>4
  <2>3. CASE Pop
    <3>1. /\ UNCHANGED <<agg, liveQueue, nextSequence, bypassed>> /\ op' = Idle
          /\ comm'.pc \in {"peek", "receive"} /\ op.step = "poperase"
      BY <1>7, <2>3 DEF Pop, PopEraseSlot, CommAt
    <3>2. CommHolds' = {} /\ AggHolds' = AggHolds /\ op'.step # "journal"
      BY <3>1 DEF CommHolds, AggHolds, Journaled, Idle
    <3> QED BY <1>3, <2>0, <3>1, <3>2
  <2>4. CASE AggProduce
    <3>1. /\ agg' = [pc |-> "send", record |-> nextSequence] /\ agg.pc = "idle"
          /\ nextSequence' = nextSequence + 1
          /\ UNCHANGED <<op, comm, liveQueue, bypassed>>
      BY <2>4 DEF AggProduce
    <3>2. /\ AggHolds' = {nextSequence} /\ AggHolds = {} /\ CommHolds' = CommHolds
          /\ op.by # "agg"
      <4>1. op.by # "agg"
        BY <3>1 DEF QueueInv, ControlInv
      <4> QED BY <3>1, <4>1 DEF AggHolds, CommHolds, Journaled
    <3>3. /\ Elements(q) \subseteq Nat /\ CommHolds \subseteq Nat /\ Elements(liveQueue) \subseteq Nat
          /\ bypassed \subseteq Nat
      <4>1. Value \subseteq Nat
        BY BoundsAssumption DEF Value, Record, NoRecord
      <4>2. CommHolds \subseteq Nat /\ bypassed \subseteq Nat
        BY <4>1 DEF CommHolds, QueueInv, TypeOK, CommTask, Value
      <4>3. ASSUME NEW s \in Seq(Value) PROVE Elements(s) \subseteq Nat
        <5>1. \A i \in DOMAIN s : s[i] \in Value
          BY <4>3, LenProperties, ElementOfSeq
        <5> QED BY <4>1, <5>1 DEF Elements
      <4> QED BY <1>2, <4>2, <4>3
    <3>4. ASSUME NEW S, S \subseteq Nat, Before(S, {nextSequence})
          PROVE  Before(S, {nextSequence, nextSequence + 1})
      <4>1. ASSUME NEW a \in S PROVE a < nextSequence /\ a < nextSequence + 1
        <5>1. a \in Nat /\ a < nextSequence
          BY <3>4 DEF Before
        <5> QED BY <1>2, <5>1
      <4> QED BY <4>1 DEF Before
    <3>5. /\ Before(Elements(q), {nextSequence, nextSequence + 1})
          /\ Before(CommHolds, {nextSequence, nextSequence + 1})
          /\ Before(Elements(liveQueue), {nextSequence, nextSequence + 1})
          /\ Before(bypassed, {nextSequence, nextSequence + 1})
      <4>1. /\ Before(Elements(q), {nextSequence}) /\ Before(CommHolds, {nextSequence})
            /\ Before(Elements(liveQueue), {nextSequence}) /\ Before(bypassed, {nextSequence})
        BY <1>1 DEF OnTheirWay, Before
      <4> QED BY <3>3, <3>4, <4>1
    <3>6. nextSequence < nextSequence + 1 /\ nextSequence \notin bypassed
      <4>1. \A b \in bypassed : b < nextSequence
        BY <1>1 DEF OnTheirWay, Before
      <4> QED BY <1>2, <4>1
    <3>7. OnTheirWay(Elements(q), CommHolds, Elements(liveQueue), {nextSequence},
                     nextSequence + 1, bypassed)
      BY <1>1, <3>5, <3>6 DEF OnTheirWay, Before
    <3> QED BY <1>1, <1>z, <2>0, <3>1, <3>2, <3>6, <3>7
  <2>5. CASE AggSend
    <3> DEFINE r == agg.record
    <3>1. /\ agg.pc = "send" /\ agg' = [pc |-> "idle", record |-> NoRecord]
          /\ liveQueue' = Append(liveQueue, r)
          /\ UNCHANGED <<op, comm, nextSequence, bypassed>>
      BY <2>5 DEF AggSend
    <3>2. /\ AggHolds = {r} /\ AggHolds' = {} /\ CommHolds' = CommHolds /\ op.by # "agg"
      <4>1. op.by # "agg"
        BY <3>1 DEF QueueInv, ControlInv
      <4> QED BY <3>1, <4>1 DEF AggHolds, CommHolds, Journaled
    <3>3. r \in Value
      BY DEF QueueInv, TypeOK, AggTask, Value
    <3>4. Before(Elements(liveQueue), {r})
      BY <1>1, <3>2 DEF OnTheirWay, Before
    <3>5. InOrder(liveQueue') /\ Elements(liveQueue') \subseteq Elements(liveQueue) \cup {r}
      BY <1>1, <1>2, <3>1, <3>3, <3>4, AppendInOrder
    <3>6. OnTheirWay(Elements(q), CommHolds, Elements(liveQueue'), {},
                     nextSequence, bypassed)
      <4> DEFINE T == Elements(liveQueue')
      <4>1. T \subseteq Elements(liveQueue) \cup {r} /\ r \notin bypassed
        BY <1>1, <3>1, <3>5
      <4> HIDE DEF T
      <4>2. OnTheirWay(Elements(q), CommHolds, T, {}, nextSequence, bypassed)
        BY <1>1, <3>2, <4>1 DEF OnTheirWay, Before
      <4> QED BY <4>2 DEF T
    <3> QED BY <1>1, <1>z, <2>0, <3>1, <3>2, <3>5, <3>6
  <2>6. CASE AggSendTimeout
    <3> DEFINE r == agg.record
    <3>1. /\ agg.pc = "send" /\ agg' = [agg EXCEPT !.pc = "store"]
          /\ bypassed' = bypassed \cup {r}
          /\ UNCHANGED <<op, comm, liveQueue, nextSequence>>
      BY <2>6 DEF AggSendTimeout
    <3>2. agg'.pc = "store" /\ agg'.record = r /\ op.by # "agg"
      BY <3>1 DEF QueueInv, TypeOK, AggTask, ControlInv
    <3>3. AggHolds = {r} /\ AggHolds' = {r} /\ CommHolds' = CommHolds
      BY <3>1, <3>2 DEF AggHolds, CommHolds, Journaled
    <3>4. OnTheirWay(Elements(q), CommHolds, Elements(liveQueue), {r}, nextSequence, bypassed)
      BY <1>1, <3>3
    <3>5. r \in Nat
      BY <3>1, BoundsAssumption DEF QueueInv, ControlInv, Record
    <3>6. r \notin Elements(q) /\ r \notin CommHolds /\ r \notin Elements(liveQueue)
      <4>1. /\ \A x \in Elements(q) : x < r
            /\ \A x \in CommHolds : x < r
            /\ \A x \in Elements(liveQueue) : x < r
        BY <3>4 DEF OnTheirWay, Before
      <4>2. ~(r < r)
        BY <3>5
      <4> QED BY <4>1, <4>2
    <3>7. OnTheirWay(Elements(q), CommHolds, Elements(liveQueue), {r},
                     nextSequence, bypassed \cup {r})
      BY <3>4, <3>6 DEF OnTheirWay, Before
    <3>8. InOrderBut(q, bypassed \cup {r})
      <4>1. ASSUME NEW i \in DOMAIN q, NEW j \in DOMAIN q, i < j
            PROVE  MayPrecede(q[i], q[j], bypassed \cup {r})
        <5>1. MayPrecede(q[i], q[j], bypassed) /\ q[j] # r
          BY <1>1, <3>6, <4>1 DEF InOrderBut, Elements
        <5> QED BY <5>1 DEF MayPrecede
      <4> QED BY <4>1 DEF InOrderBut
    <3> QED BY <1>1, <1>z, <2>0, <3>1, <3>2, <3>3, <3>7, <3>8
  <2>7. CASE CommReceive
    <3>1. comm.pc = "receive" /\ UNCHANGED <<op, agg, nextSequence, bypassed>>
      BY <2>7 DEF CommReceive
    <3>a. AggHolds' = AggHolds /\ op.by # "comm"
      BY <3>1 DEF AggHolds, Journaled, QueueInv, ControlInv
    <3>b. op.step = "journal" => op.by = "agg"
      BY <3>a DEF QueueInv, ControlInv
    <3>2. CASE liveQueue = << >> /\ comm' = [pc |-> "idle", record |-> NoRecord]
               /\ liveQueue' = liveQueue
      <4>1. CommHolds' = {}
        BY <3>2 DEF CommHolds
      <4> QED BY <1>1, <1>3, <2>0, <3>1, <3>a, <3>b, <3>2, <4>1
    <3>3. CASE liveQueue # << >> /\ comm' = [pc |-> "live", record |-> Head(liveQueue)]
               /\ liveQueue' = Tail(liveQueue)
      <4> DEFINE h == Head(liveQueue)
                 T == Elements(liveQueue')
      <4>2. CommHolds' \subseteq {h}
        BY <3>1, <3>3 DEF CommHolds
      <4>3. h \in Elements(liveQueue) /\ Before({h}, T)
        BY <1>1, <1>2, <3>3, HeadIsFirst
      <4>4. InOrder(liveQueue') /\ T \subseteq Elements(liveQueue)
        BY <1>1, <1>2, <3>3, TailElements
      <4> HIDE DEF T, h
      <4>5. OnTheirWay(Elements(q), CommHolds', T, AggHolds, nextSequence, bypassed)
        BY <1>1, <4>2, <4>3, <4>4 DEF OnTheirWay, Before
      <4> QED BY <1>1, <1>z, <2>0, <3>1, <3>a, <3>b, <4>4, <4>5 DEF T
    <3> QED BY <2>7, <3>2, <3>3 DEF CommReceive, CommAt
  <2>8. CASE CommLiveRefused
    <3>1. /\ comm.pc = "live" /\ comm' = [pc |-> "store", record |-> comm.record]
          /\ UNCHANGED <<op, agg, liveQueue, nextSequence, bypassed>>
      BY <2>8 DEF CommLiveRefused, Refuse, CommAt
    <3>2. CommHolds' = CommHolds /\ AggHolds' = AggHolds
      BY <3>1 DEF CommHolds, AggHolds, Journaled
    <3> QED BY <1>1, <1>3, <2>0, <3>1, <3>2
  <2>9. CASE CommStartPop \/ CommStartPush \/ AggStartPush
    <3>1. /\ UNCHANGED <<comm, agg, liveQueue, nextSequence, bypassed>> /\ op.by = "none"
          /\ \/ op'.step = "popmeta"
             \/ op'.step = "journal" /\ op'.record = comm.record /\ op'.by = "comm"
             \/ op'.step = "journal" /\ op'.record = agg.record /\ op'.by = "agg"
      <4>1. CASE CommStartPop
        <5>1. op' = [Idle EXCEPT !.by = "comm", !.step = "popmeta", !.slot = ring.head]
              /\ UNCHANGED <<comm, agg, liveQueue, nextSequence, bypassed>> /\ op.by = "none"
          BY <4>1 DEF CommStartPop, MutexFree
        <5>2. op'.step = "popmeta"
          BY <5>1 DEF Idle
        <5> QED BY <5>1, <5>2
      <4>2. CASE CommStartPush
        BY <4>2 DEF CommStartPush, StartPush, MutexFree
      <4>3. CASE AggStartPush
        BY <4>3 DEF AggStartPush, StartPush, MutexFree
      <4> QED BY <2>9, <4>1, <4>2, <4>3
    <3>2. op.step = "none"
      BY <3>1 DEF QueueInv, ControlInv
    <3>3. CommHolds' = CommHolds /\ AggHolds' = AggHolds
      BY <3>1, <3>2 DEF CommHolds, AggHolds, Journaled
    <3> QED BY <1>3, <2>0, <3>1, <3>3
  <2>10. CASE \/ CommStart \/ CommPeek \/ CommReplayAccepted \/ CommReplayRefused
              \/ CommLiveAccepted
    <3>1. /\ UNCHANGED <<op, agg, liveQueue, nextSequence, bypassed>>
          /\ comm.pc # "store" /\ comm'.pc \notin {"live", "store"}
      BY <2>10 DEF CommStart, CommPeek, CommReplayAccepted, CommReplayRefused,
                   CommLiveAccepted, Accept, Refuse, CommAt
    <3>2. CommHolds' = {} /\ AggHolds' = AggHolds
      BY <3>1 DEF CommHolds, AggHolds, Journaled
    <3>3. op.step = "journal" => op.by = "agg"
      BY <3>1 DEF QueueInv, ControlInv
    <3> QED BY <1>1, <1>3, <2>0, <3>1, <3>2, <3>3
  <2>11. CASE ConnectionChange
    BY <1>4, <2>0, <2>11 DEF ConnectionChange
  <2>12. CASE Crash
    <3>1. /\ liveQueue' = << >> /\ op'.step = "load" /\ nextSequence' = nextSequence
          /\ agg' = [pc |-> "idle", record |-> NoRecord]
          /\ comm' = [pc |-> "idle", record |-> NoRecord] /\ bypassed' = bypassed
      BY <2>12 DEF Crash, Idle
    <3>2. CommHolds' = {} /\ AggHolds' = {}
      BY <3>1 DEF CommHolds, AggHolds
    <3>3. Elements(liveQueue') = {} /\ InOrder(liveQueue')
      BY <3>1 DEF Elements, InOrder
    <3> QED BY <1>0, <1>1, <2>0, <3>1, <3>2, <3>3, OrderFrame
  <2> QED BY <1>7, <2>1, <2>2, <2>3, <2>4, <2>5, <2>6, <2>7, <2>8, <2>9, <2>10, <2>11, <2>12
          DEF Next, Agg, Comm
<1>8. CASE UNCHANGED vars
  BY <1>4, <1>8, DurableFrame DEF vars
<1> QED BY <1>5, <1>6, <1>7, <1>8

\* The gateway starts with an empty queue and an empty account.
LEMMA AccountInit ==
    ASSUME Init
    PROVE  /\ FaultInv /\ LossInv /\ OrderInv
           /\ RecoveredQueue = << >> /\ RecoveredDropped = 0
<1>0. /\ meta = [valid |-> FALSE, generation |-> 0, dropped |-> 0, head |-> 0, count |-> 0]
      /\ pending = [present |-> FALSE, previous |-> 0, record |-> NoRecord]
      /\ op.by = "boot" /\ op.step = "load" /\ ring.dropped = 0 /\ loadedDropped = 0
      /\ comm.pc = "idle" /\ agg.pc = "idle" /\ liveQueue = << >>
      /\ stored = {} /\ bypassed = {}
  BY DEF Init, NoMeta, NoPending, Idle, RingInit
<1>1. FaultInv
  BY <1>0 DEF FaultInv
<1>2. RecoveredQueue = FlashQueue /\ RecoveredDropped = 0
  BY <1>0 DEF RecoveredQueue, RecoveredDropped, Redo
<1>3. FlashQueue = << >>
  <2>1. QueueInv
    BY InitStep
  <2>2. FlashQueue \in Seq(Value) /\ Len(FlashQueue) = 0
    BY <1>0, <2>1, RecoveredFacts
  <2> QED BY <2>2, EmptySeq
<1>4. Lost = {}
  BY <1>0 DEF Lost
<1>5. LossInv
  BY <1>0, <1>2, <1>4, FS_EmptySet DEF LossInv
<1>6. /\ CommHolds = {} /\ AggHolds = {}
      /\ Elements(RecoveredQueue) = {} /\ InOrderBut(RecoveredQueue, bypassed)
      /\ Elements(liveQueue) = {} /\ InOrder(liveQueue)
  BY <1>0, <1>2, <1>3 DEF CommHolds, AggHolds, Elements, InOrder, InOrderBut
<1>7. OrderInv
  BY <1>0, <1>6 DEF OrderInv, Before
<1> QED BY <1>1, <1>2, <1>3, <1>5, <1>7

-----------------------------------------------------------------------------
(* Theorems                                                                 *)

\* The inductive invariant holds in every reachable state, for every capacity
\* and any number of records, resets and NVS errors.
THEOREM QueueInvariant == Spec => []QueueInv
<1>1. QueueInv /\ [Next]_vars => QueueInv'
  <2> SUFFICES ASSUME QueueInv, [Next]_vars PROVE QueueInv'
    OBVIOUS
  <2>1. CASE UNCHANGED vars
    <3>1. TypeOK'
      BY <2>1 DEF QueueInv, TypeOK, vars, durableVars, taskVars, observerVars, boundVars
    <3>2. ControlInv'
      BY <2>1 DEF QueueInv, ControlInv, vars, durableVars, taskVars
    <3> QED BY <2>1, <3>1, <3>2, FlashUntouched DEF QueueInv, vars, durableVars, boundVars
  <2> QED BY <2>1, BootStep, PushStep, PopStep, AggStep, CommStep, ConnectionStep,
             CrashStep DEF Next
<1> QED BY <1>1, InitStep, PTL DEF Spec

\* head and count of the ring and of its metadata stay within the ring, the
\* generation within its width, and every task holds records of the right kind.
THEOREM TypeCorrect == Spec => []TypeOK
<1>1. QueueInv => TypeOK
  BY DEF QueueInv
<1> QED BY <1>1, QueueInvariant, PTL

\* gateway_offline_pop is never called on an empty ring.
THEOREM PopAlwaysFindsRecord == Spec => []PopFindsRecord
<1>1. QueueInv => PopFindsRecord
  BY DEF QueueInv, ControlInv, PopFindsRecord
<1> QED BY <1>1, QueueInvariant, PTL

\* Whatever NVS calls fail and wherever resets happen, the metadata in flash
\* names only slots that are present.
THEOREM NamedSlotsAreAlwaysPresent == Spec => []NamedSlotsArePresent
<1>1. QueueInv => NamedSlotsArePresent
  BY DEF QueueInv, SlotsInv, NamedSlotsArePresent, SlotsInUse
<1> QED BY <1>1, QueueInvariant, PTL

\* As long as no NVS call fails, the boot code never meets a journal of
\* another generation, wherever resets happen.
THEOREM JournalGenerationAlwaysMatches == Spec => []JournalGenerationMatches
<1>1. QueueInv => JournalGenerationMatches
  BY DEF QueueInv, JournalInv, JournalGenerationMatches
<1> QED BY <1>1, QueueInvariant, PTL

\* As long as no NVS call fails, whenever offline_mutex is free a reset would
\* recover exactly the ring in memory, its drop counter and its generation.
THEOREM MemoryAlwaysMatchesFlash == Spec => []MemoryMatchesFlash
BY MemoryIsFlash, QueueInvariant, PTL

\* The account of losses and of faults and the order of the records on their
\* way hold in every reachable state, for every capacity and any number of
\* records, resets and NVS errors.
THEOREM AccountInvariant == Spec => [](FaultInv /\ LossInv /\ OrderInv)
<1>1. Init => FaultInv /\ LossInv /\ OrderInv
  BY AccountInit
<1>2. /\ QueueInv /\ QueueInv' /\ FaultInv /\ LossInv /\ OrderInv /\ [Next]_vars
      => FaultInv' /\ LossInv' /\ OrderInv'
  BY FaultStep, LossStep, OrderStep
<1> QED BY <1>1, <1>2, QueueInvariant, PTL DEF Spec

\* No record is lost in silence: without NVS errors the drop counter never
\* understates the records lost, though communication_task publishes outside
\* the mutex, and, whatever NVS calls fail, a counter that grew since the boot
\* has raised the fault.
THEOREM LossIsAlwaysReported == Spec => []LossIsReported
<1>1. QueueInv /\ FaultInv /\ LossInv => LossIsReported
  <2> SUFFICES ASSUME QueueInv, FaultInv, LossInv PROVE LossIsReported
    OBVIOUS
  <2>1. LossIsCounted
    BY DEF LossInv, Lost, LossIsCounted
  <2>2. DropRaisesFault
    BY DEF FaultInv, DropRaisesFault, QueueInv, ControlInv, MutexFree
  <2> QED BY <2>1, <2>2 DEF LossIsReported
<1> QED BY <1>1, QueueInvariant, AccountInvariant, PTL

\* Without NVS errors, what a boot would recover holds no record twice and is out
\* of sequence order only where a record that found telemetry_queue full was
\* pushed past the older ones still on their way.
THEOREM OvertakenOnlyWhenQueueIsFull == Spec => []OvertakenOnlyWhenFull
<1>1. OrderInv => OvertakenOnlyWhenFull
  BY DEF OrderInv, OvertakenOnlyWhenFull
<1> QED BY <1>1, AccountInvariant, PTL

\* As long as no NVS call fails, what a boot would recover is a bounded queue
\* that drops its oldest record and counts it: the journal write of a push is
\* its enqueue, the metadata write of a pop its dequeue, and every other write,
\* every reset and every step of a boot changes nothing.
THEOREM DurableQueueIsFifo == Spec /\ [](nvsErrors = 0) => DurableFifo
<1>1. Init => Fifo!Init
  BY AccountInit DEF Fifo!Init
<1>2. ASSUME QueueInv, FaultInv, [Next]_vars, nvsErrors = 0, nvsErrors' = 0
      PROVE  [Fifo!Next]_(Fifo!vars)
  <2>1. RecoveredQueue \in Seq(Value) /\ Len(RecoveredQueue) <= Capacity
        /\ Len(RecoveredQueue) \in Nat
    BY <1>2, RecoveredFacts, LenProperties
  <2>2. CASE SavePendingEnqueue
    <3>1. /\ op.record \in Record
          /\ RecoveredQueue' = Bounded(RecoveredQueue, op.record)
          /\ RecoveredDropped' = IF Len(RecoveredQueue) = Capacity
                                 THEN RecoveredDropped + 1 ELSE RecoveredDropped
      BY <1>2, <2>2, JournalAdds
    <3>2. CASE Len(RecoveredQueue) = Capacity
      BY <3>1, <3>2 DEF Fifo!Next, Fifo!EnqueueEvicting, Bounded
    <3>3. CASE Len(RecoveredQueue) # Capacity
      <4>1. Len(RecoveredQueue) < Capacity
        BY <2>1, <3>3, CapacityAssumption
      <4> QED BY <3>1, <3>3, <4>1 DEF Fifo!Next, Fifo!Enqueue, Bounded
    <3> QED BY <3>2, <3>3
  <2>3. CASE PopAndSaveMetadata
    BY <1>2, <2>3, PopRemoves DEF Fifo!Next, Fifo!Dequeue
  <2>4. CASE Next /\ ~SavePendingEnqueue /\ ~PopAndSaveMetadata
    BY <1>2, <2>4, OthersKeep DEF Fifo!vars
  <2>5. CASE UNCHANGED vars
    BY <2>5, DurableFrame DEF vars, Fifo!vars
  <2> QED BY <1>2, <2>2, <2>3, <2>4, <2>5
<1>3. QueueInv /\ FaultInv /\ [Next]_vars /\ nvsErrors = 0 /\ (nvsErrors = 0)'
      => [Fifo!Next]_(Fifo!vars)
  BY <1>2
<1> QED BY <1>1, <1>3, QueueInvariant, AccountInvariant, PTL DEF Spec, DurableFifo, Fifo!Spec
=============================================================================
