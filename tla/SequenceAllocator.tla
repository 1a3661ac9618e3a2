------------------------- MODULE SequenceAllocator -------------------------
(***************************************************************************)
(* gateway_next_sequence (gateway_platform.c): the numbers that             *)
(* aggregation_task gives to telemetry and threshold events and health_task *)
(* to health messages.  They are reserved in NVS in blocks, so that flash   *)
(* is written once a block, and handed out from memory under                *)
(* sequence_mutex.  A reset loses the rest of the block.                    *)
(***************************************************************************)
EXTENDS Naturals

CONSTANTS
    Task,            \* the tasks that call gateway_next_sequence
    NoTask,
    Reservation,     \* SEQUENCE_RESERVATION
    MaxHighWater,    \* bound on the numbers reserved
    MaxResets,       \* bound: number of resets
    MaxReadErrors    \* bound: reads of "sequence_hi" that fail

ASSUME TaskAssumption == NoTask \notin Task
ASSUME ReservationAssumption == Reservation \in Nat \ {0}
ASSUME LimitAssumption ==
    MaxHighWater \in Nat /\ MaxResets \in Nat /\ MaxReadErrors \in Nat

VARIABLES
    highWater,       \* "sequence_hi" in NVS; 0 when absent
    sequenceNext,    \* sequence_next
    sequenceEnd,     \* sequence_end
    holder,          \* the task that holds sequence_mutex
    pc,              \* pc[t]: where task t is in gateway_next_sequence
    result,          \* result[t]: the number task t read; 0 outside of the call
    issued,          \* observer: the numbers returned to a task
    resets, readErrors

memoryVars == <<sequenceNext, sequenceEnd, holder, pc, result>>
vars == <<highWater, memoryVars, issued, resets, readErrors>>

Init ==
    /\ highWater = 0
    /\ sequenceNext = 0
    /\ sequenceEnd = 0
    /\ holder = NoTask
    /\ pc = [t \in Task |-> "idle"]
    /\ result = [t \in Task |-> 0]
    /\ issued = {}
    /\ resets = 0
    /\ readErrors = 0

\* Mutant: sequence_mutex is not waited for.
LockUnheld(t) ==
    /\ pc[t] = "idle"
    /\ holder' = t
    /\ pc' = [pc EXCEPT ![t] = "locked"]
    /\ UNCHANGED <<highWater, sequenceNext, sequenceEnd, result, issued,
                   resets, readErrors>>

\* xSemaphoreTake(sequence_mutex)
Lock(t) ==
    /\ pc[t] = "idle"
    /\ holder = NoTask
    /\ holder' = t
    /\ pc' = [pc EXCEPT ![t] = "locked"]
    /\ UNCHANGED <<highWater, sequenceNext, sequenceEnd, result, issued,
                   resets, readErrors>>

Exhausted == sequenceNext = 0 \/ sequenceNext > sequenceEnd

\* The next block, in memory.  The result of nvs_get_u64 is ignored: a read
\* that fails leaves high_water at 0, like an absent key.
Reserve(t) ==
    /\ pc[t] = "locked"
    /\ Exhausted
    /\ \E readable \in BOOLEAN :
        /\ readErrors' = IF readable THEN readErrors ELSE readErrors + 1
        /\ readErrors' <= MaxReadErrors
        /\ LET read == IF readable THEN highWater ELSE 0
           IN  /\ read + Reservation <= MaxHighWater
               /\ sequenceNext' = read + 1
               /\ sequenceEnd' = read + Reservation
    /\ pc' = [pc EXCEPT ![t] = "save"]
    /\ UNCHANGED <<highWater, holder, result, issued, resets>>

\* nvs_set_u64 and nvs_commit
Save(t) ==
    /\ pc[t] = "save"
    /\ highWater' = sequenceEnd
    /\ pc' = [pc EXCEPT ![t] = "read"]
    /\ UNCHANGED <<sequenceNext, sequenceEnd, holder, result, issued, resets,
                   readErrors>>

\* result = sequence_next++ is a read and a write of a 64-bit variable.
ReadNext(t) ==
    /\ pc[t] = "read" \/ (pc[t] = "locked" /\ ~Exhausted)
    /\ result' = [result EXCEPT ![t] = sequenceNext]
    /\ pc' = [pc EXCEPT ![t] = "advance"]
    /\ UNCHANGED <<highWater, sequenceNext, sequenceEnd, holder, issued, resets,
                   readErrors>>

\* ... then xSemaphoreGive and the return
Advance(t) ==
    /\ pc[t] = "advance"
    /\ sequenceNext' = result[t] + 1
    /\ issued' = issued \cup {result[t]}
    /\ holder' = NoTask
    /\ pc' = [pc EXCEPT ![t] = "idle"]
    /\ result' = [result EXCEPT ![t] = 0]
    /\ UNCHANGED <<highWater, sequenceEnd, resets, readErrors>>

\* A reset forgets the memory.
Forget ==
    /\ resets < MaxResets
    /\ resets' = resets + 1
    /\ sequenceNext' = 0
    /\ sequenceEnd' = 0
    /\ holder' = NoTask
    /\ pc' = [t \in Task |-> "idle"]
    /\ result' = [t \in Task |-> 0]
    /\ UNCHANGED <<issued, readErrors>>

Reset == Forget /\ UNCHANGED highWater

\* ESP_ERROR_CHECK aborts when the block cannot be saved or confirmed; the
\* write may have reached the flash.
SaveFails(t) ==
    /\ pc[t] = "save"
    /\ Forget
    /\ highWater' \in {highWater, sequenceEnd}

Next ==
    \/ \E t \in Task :
        \/ Lock(t) \/ Reserve(t) \/ Save(t) \/ SaveFails(t)
        \/ ReadNext(t) \/ Advance(t)
    \/ Reset

Spec == Init /\ [][Next]_vars

-----------------------------------------------------------------------------
(* Properties                                                               *)

\* Every variable has the type its C declaration gives it, and sequence_next
\* never runs past the reserved block by more than the one that ends it.
TypeOK ==
    /\ highWater \in Nat
    /\ sequenceNext \in Nat /\ sequenceNext <= sequenceEnd + 1
    /\ sequenceEnd \in Nat
    /\ holder \in Task \cup {NoTask}
    /\ pc \in [Task -> {"idle", "locked", "save", "read", "advance"}]
    /\ result \in [Task -> Nat]
    /\ issued \in SUBSET Nat
    /\ resets \in Nat
    /\ readErrors \in Nat

\* contracts/README.md: the sequence orders the messages of a device across a
\* reboot.  The number a task is about to return is larger than every number
\* returned before, by any task and before any reset.
Monotonic ==
    \A t \in Task : pc[t] = "advance" => \A n \in issued : n < result[t]

\* The sequence is monotonic, whatever resets and failing writes happen, as
\* long as every read of "sequence_hi" succeeds.
MonotonicAcrossResets == readErrors = 0 => Monotonic

-----------------------------------------------------------------------------
(* Inductive strengthening                                                  *)

\* Exactly the holder of the mutex is inside gateway_next_sequence, and what
\* it read is not yet stale.
MutexInv ==
    \A t \in Task :
        /\ pc[t] # "idle" <=> holder = t
        /\ pc[t] \in {"save", "read", "advance"} =>
                sequenceNext # 0 /\ sequenceNext <= sequenceEnd
        /\ pc[t] = "advance" => result[t] = sequenceNext

\* Every number that may still be returned is above the ones returned, and
\* the reservation in flash covers memory but for the block about to be saved.
ReservationInv ==
    /\ \A n \in issued : n <= highWater
    /\ sequenceNext # 0 => \A n \in issued : n < sequenceNext
    /\ IF \E t \in Task : pc[t] = "save"
       THEN sequenceEnd >= highWater
       ELSE sequenceEnd <= highWater

SequenceInv == TypeOK /\ MutexInv /\ (readErrors = 0 => ReservationInv)
=============================================================================
