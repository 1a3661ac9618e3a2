----------------------------- MODULE LossyFifo -----------------------------
(***************************************************************************)
(* What the gateway's durable offline queue promises to the tasks that use  *)
(* it: a bounded first-in first-out queue that survives resets, that evicts *)
(* its oldest record when a record is added to a full queue, and that       *)
(* counts every eviction.  A reset is not visible at this level.            *)
(***************************************************************************)
EXTENDS Naturals, Sequences

CONSTANTS
    Capacity,   \* iiot_offline_queue_t.capacity
    Record      \* the telemetry records

VARIABLES
    queue,      \* the records, oldest first
    dropped     \* dropped_message_count

vars == <<queue, dropped>>

Init ==
    /\ queue = << >>
    /\ dropped = 0

\* Add a record to a queue that still has room.
Enqueue(r) ==
    /\ Len(queue) < Capacity
    /\ queue' = Append(queue, r)
    /\ UNCHANGED dropped

\* Add a record to a full queue: exactly one record, the oldest, makes room.
EnqueueEvicting(r) ==
    /\ Len(queue) = Capacity
    /\ queue' = Append(Tail(queue), r)
    /\ dropped' = dropped + 1

\* Remove the oldest record.
Dequeue ==
    /\ queue # << >>
    /\ queue' = Tail(queue)
    /\ UNCHANGED dropped

Next ==
    \/ \E r \in Record : Enqueue(r) \/ EnqueueEvicting(r)
    \/ Dequeue

Spec == Init /\ [][Next]_vars
=============================================================================
