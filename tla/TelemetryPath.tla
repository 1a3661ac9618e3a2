--------------------------- MODULE TelemetryPath ---------------------------
(***************************************************************************)
(* A message of the gateway from its sequence number to a row: the          *)
(* allocator of SequenceAllocator, the MQTT broker (external: QoS 1, a      *)
(* retained health message, a clean session for the ingestor), the MQTT     *)
(* ingestor (mqtt_ingestor/main.py) and the API's test whether the device   *)
(* is offline.                                                              *)
(*                                                                          *)
(* Threshold events take numbers too, but the ingestor does not subscribe   *)
(* to them: here they are messages that never reach the broker.  Command    *)
(* acknowledgements have no number; CommandLifecycle has them.  The steps   *)
(* inside a transaction are in Ingestion; here it is one step.              *)
(***************************************************************************)
EXTENDS SequenceAllocator, Sequences

CONSTANTS
    HealthTask,      \* the task of Task that publishes health messages
    OfflineAfter,    \* offline_after_s
    MaxMessages,     \* bound: messages published
    MaxInFlight,     \* bound: deliveries the broker has under way at one time
    MaxTrouble       \* bound: messages of other publishers, lost connections, ends
                     \* of the ingestor and failing reads of the gateway, together

ASSUME PathAssumption ==
    /\ HealthTask \in Task
    /\ {OfflineAfter, MaxMessages, MaxInFlight, MaxTrouble} \subseteq Nat

VARIABLES
    sent,            \* messages published: [kind, number, form]; the index is message_id
    retained,        \* the retained health message; 0 when there is none
    outbox,          \* what the broker holds for the ingestor's session
    link,            \* the ingestor's process and its connection
    ready,           \* READY_PATH exists
    current,         \* the message in on_message; 0 when there is none
    handled,         \* handle_message has returned
    acked,           \* messages the ingestor has acknowledged to the broker
    stored,          \* the messages with a row in telemetry or health_snapshots
    errors,          \* rows of error_logs: [message, code]
    age,             \* time since last_seen_at, as far as device_status tells it apart
    trouble          \* messages of other publishers, lost connections and ends

brokerVars == <<retained, outbox>>
processVars == <<link, ready, current, handled>>
rowVars == <<stored, errors>>
pathVars == <<sent, brokerVars, processVars, acked, rowVars, age, trouble>>

\* The topics the ingestor subscribes to, but for command acknowledgements.
Kind == {"telemetry", "health"}

\* What a payload is to the contract: it keeps it, it breaks it, or its identity
\* is not the topic's.
Form == {"good", "contract", "identity"}

PathInit ==
    /\ Init
    /\ sent = <<>>
    /\ retained = 0 /\ outbox = <<>>
    /\ link = "down" /\ ready = FALSE /\ current = 0 /\ handled = FALSE
    /\ acked = {}
    /\ stored = {} /\ errors = {} /\ age = OfflineAfter + 1
    /\ trouble = 0

-----------------------------------------------------------------------------
(* The gateway and the broker                                               *)

\* aggregation_task and health_task put the number they get, and a fresh
\* message_id, into a message.
Publish(t) ==
    /\ Advance(t)
    /\ Len(sent) < MaxMessages
    /\ sent' = Append(sent,
            [kind |-> IF t = HealthTask THEN "health" ELSE "telemetry",
             number |-> result[t],
             form |-> "good"])
    /\ UNCHANGED <<brokerVars, processVars, acked, rowVars, age, trouble>>

\* External: another publisher uses the device's topic with a payload that
\* breaks the contract, or with an identity that is not the topic's.
StrayPublishes(form) ==
    /\ trouble + readErrors < MaxTrouble /\ Len(sent) < MaxMessages
    /\ trouble' = trouble + 1
    /\ sent' = Append(sent, [kind |-> "telemetry", number |-> 1, form |-> form])
    /\ UNCHANGED <<vars, brokerVars, processVars, acked, rowVars, age>>

\* External: a message reaches the broker: at once, after a stay in the
\* gateway's queue, again and again (QoS 1), or never.  It is kept for a session
\* that has subscribed, and lost to one that has not.
Route(i) ==
    /\ Len(outbox) < MaxInFlight
    /\ retained' = IF sent[i].kind = "health" THEN i ELSE retained
    /\ outbox' = IF link = "listening" THEN Append(outbox, i) ELSE outbox
    /\ UNCHANGED <<vars, sent, processVars, acked, rowVars, age, trouble>>

-----------------------------------------------------------------------------
(* The ingestor's connection                                                *)

\* main: connect, and then loop_forever.  A broker that does not answer the
\* first connect ends the process again.
Start ==
    /\ link = "down"
    /\ link' = "connecting"
    /\ UNCHANGED <<vars, sent, brokerVars, ready, current, handled, acked, rowVars,
                   age, trouble>>

\* Mutant: the topics are subscribed to once, after the first connection.
OnConnectOnce ==
    /\ link = "connecting"
    /\ link' = IF trouble = 0 THEN "subscribing" ELSE "connected"
    /\ ready' = TRUE
    /\ UNCHANGED <<vars, sent, brokerVars, current, handled, acked, rowVars, age,
                   trouble>>

\* on_connect, on every connection that the broker accepts: a refused one is
\* logged and tried again.  The ready file does not wait for the broker's
\* answer to the subscriptions.
OnConnect ==
    /\ link = "connecting"
    /\ link' = "subscribing"
    /\ ready' = TRUE
    /\ UNCHANGED <<vars, sent, brokerVars, current, handled, acked, rowVars, age,
                   trouble>>

\* External: the broker takes the subscriptions and passes on what it retains.
Subscribed ==
    /\ link = "subscribing"
    /\ link' = "listening"
    /\ outbox' = IF retained = 0 THEN <<>> ELSE <<retained>>
    /\ UNCHANGED <<vars, sent, retained, ready, current, handled, acked,
                   rowVars, age, trouble>>

\* External: the connection ends and with it the session of the broker, before
\* the ingestor knows.
ConnectionLost ==
    /\ link \in {"subscribing", "listening"}
    /\ trouble + readErrors < MaxTrouble
    /\ trouble' = trouble + 1
    /\ link' = "lost"
    /\ outbox' = <<>>
    /\ UNCHANGED <<vars, sent, retained, ready, current, handled, acked,
                   rowVars, age>>

\* on_disconnect, in the thread of on_message
OnDisconnect ==
    /\ link = "lost"
    /\ current = 0
    /\ link' = "connecting"
    /\ ready' = FALSE
    /\ UNCHANGED <<vars, sent, brokerVars, current, handled, acked, rowVars, age,
                   trouble>>

\* The process ends: killed, or by an error of the database, which
\* handle_message does not catch and loop_forever passes on.  The ready file
\* stays.
Die ==
    /\ link # "down"
    /\ trouble + readErrors < MaxTrouble
    /\ trouble' = trouble + 1
    /\ link' = "down"
    /\ outbox' = <<>>
    /\ current' = 0
    /\ handled' = FALSE
    /\ UNCHANGED <<vars, sent, retained, ready, acked, rowVars, age>>

-----------------------------------------------------------------------------
(* on_message                                                               *)

Take ==
    /\ link = "listening"
    /\ current = 0
    /\ outbox # <<>>
    /\ current' = Head(outbox)
    /\ outbox' = Tail(outbox)
    /\ UNCHANGED <<vars, sent, retained, link, ready, handled, acked, rowVars,
                   age, trouble>>

\* Another telemetry message of the device has the number of message i.
Collides(i) ==
    /\ sent[i].kind = "telemetry"
    /\ \E j \in stored : sent[j].kind = "telemetry" /\ sent[j].number = sent[i].number

\* What handle_message makes of message i: the parts of the topic, the
\* contract, the identities of topic and payload, then the two keys.  The site
\* the device is registered for is in Ingestion.
Outcome(i) ==
    CASE sent[i].form = "contract" -> "CONTRACT_VALIDATION"
      [] sent[i].form = "identity" -> "INVALID_MESSAGE"
      [] sent[i].form = "good" /\ i \in stored -> "duplicate"
      [] sent[i].form = "good" /\ i \notin stored /\ Collides(i) -> "SEQUENCE_COLLISION"
      [] OTHER -> "inserted"

\* Mutant: only a broken contract is recorded.
RecordErrorOfContract(i, outcome) ==
    IF outcome = "CONTRACT_VALIDATION"
    THEN errors \cup {[message |-> i, code |-> outcome]}
    ELSE errors

\* record_error
RecordError(i, outcome) ==
    IF outcome \in {"duplicate", "inserted"}
    THEN errors
    ELSE errors \cup {[message |-> i, code |-> outcome]}

\* Mutant: a repeated message counts as a sign of life.
SeenAlsoAgain(outcome) ==
    IF outcome \in {"inserted", "duplicate"} THEN 0 ELSE age

\* last_seen_at is written with the row only.
Seen(outcome) == IF outcome = "inserted" THEN 0 ELSE age

\* handle_message: one transaction for the row and the device, or one for the
\* error.
Handle ==
    /\ current # 0
    /\ ~handled
    /\ handled' = TRUE
    /\ LET outcome == Outcome(current)
       IN  /\ stored' = IF outcome = "inserted" THEN stored \cup {current} ELSE stored
           /\ errors' = RecordError(current, outcome)
           /\ age' = Seen(outcome)
    /\ UNCHANGED <<vars, sent, brokerVars, link, ready, current, acked, trouble>>

\* External: the client library acknowledges after on_message returns; a
\* message of a lost connection is acknowledged to nobody.
Acknowledge ==
    /\ handled
    /\ handled' = FALSE
    /\ current' = 0
    /\ acked' = IF link = "listening" THEN acked \cup {current} ELSE acked
    /\ UNCHANGED <<vars, sent, brokerVars, link, ready, rowVars, age, trouble>>

Tick ==
    /\ age <= OfflineAfter
    /\ age' = age + 1
    /\ UNCHANGED <<vars, sent, brokerVars, processVars, acked, rowVars, trouble>>

\* device_status: a device without a message, or whose last one is too old.  What
\* it reports otherwise, "online" or "degraded", is not modelled.
Offline == age > OfflineAfter

-----------------------------------------------------------------------------
Gateway ==
    \/ \E t \in Task :
        \/ (Lock(t) \/ Reserve(t) \/ Save(t) \/ SaveFails(t) \/ ReadNext(t))
                /\ trouble + readErrors' <= MaxTrouble
                /\ UNCHANGED pathVars
        \/ Publish(t)
    \/ Reset /\ UNCHANGED pathVars

Broker == Subscribed \/ ConnectionLost \/ \E i \in DOMAIN sent : Route(i)

Client == Start \/ OnConnect \/ OnDisconnect \/ Take \/ Handle \/ Acknowledge

PathNext ==
    \/ Gateway
    \/ \E form \in Form \ {"good"} : StrayPublishes(form)
    \/ Broker
    \/ Client
    \/ Die
    \/ Tick

\* Compose starts the process again (restart: unless-stopped), the library
\* connects again, its loop runs, and time passes.
PathSpec ==
    /\ PathInit
    /\ [][PathNext]_<<vars, pathVars>>
    /\ WF_pathVars(Client)
    /\ WF_pathVars(Subscribed)
    /\ WF_pathVars(Tick)

-----------------------------------------------------------------------------
(* Properties                                                               *)

\* The rows and messages on the way are of messages that were published, and
\* a message is only being handled by a process that runs.
PathTypeOK ==
    /\ \A i \in DOMAIN sent :
        sent[i] \in [kind : Kind, number : Nat, form : Form]
    /\ retained \in DOMAIN sent \cup {0}
    /\ \A n \in DOMAIN outbox : outbox[n] \in DOMAIN sent
    /\ link \in {"down", "connecting", "subscribing", "listening", "lost"}
    /\ ready \in BOOLEAN /\ handled \in BOOLEAN
    /\ current \in DOMAIN sent \cup {0}
    /\ current # 0 => link \in {"listening", "lost"}
    /\ handled => current # 0
    /\ acked \subseteq DOMAIN sent
    /\ stored \subseteq DOMAIN sent
    /\ \A e \in errors : e.message \in DOMAIN sent
    /\ age \in 0..(OfflineAfter + 1)

\* contracts/README.md: message_id makes a delivery idempotent and sequence
\* orders the device's messages.  As long as the gateway reads its reservation,
\* the messages of its tasks, which draw from one block and across resets from
\* several, have growing numbers in the order in which they were drawn, and none
\* is refused as a collision, however often and in whatever order it is delivered.
GatewayNeverCollides ==
    readErrors = 0 =>
        /\ \A i, j \in DOMAIN sent :
            i < j /\ sent[i].form = "good" /\ sent[j].form = "good"
                => sent[i].number < sent[j].number
        /\ \A e \in errors : e.code # "SEQUENCE_COLLISION"

\* handle_message: the broker is told to forget a message only when there is a
\* row of it or a row in error_logs that says why there is none.
AckedIsKept ==
    \A i \in acked : i \in stored \/ \E e \in errors : e.message = i

\* device_status: a device that has fallen silent is at last shown offline, and
\* stays so, although QoS 1 may repeat its messages for ever and every new
\* subscription brings the retained health message again: each message counts as
\* a sign of life once, when it is stored (also when that is late).
SilentGoesOffline ==
    \A n \in 0..MaxMessages : <>[](Len(sent) = n) => <>[]Offline

\* build_client: after every lost connection and every end of the process the
\* ingestor listens again.
ListensAgain == []<>(link = "listening")

\* At every step of gateway, broker and ingestor, what is stored, logged and
\* acknowledged are messages that were published, and nothing is acknowledged
\* that left no trace (on_message, handle_message, record_error).
PathInv == TypeOK /\ PathTypeOK /\ AckedIsKept

-----------------------------------------------------------------------------
(* Inductive strengthening                                                  *)

\* What is published and on its way, as a whole.
ShapeInv ==
    /\ sent \in Seq([kind : Kind, number : Nat, form : Form])
    /\ outbox \in Seq(DOMAIN sent)

\* As long as the gateway reads its reservation, the numbers of its messages
\* are numbers it was given.
NumbersInv ==
    readErrors = 0 =>
        \A i \in DOMAIN sent : sent[i].form = "good" => sent[i].number \in issued

\* Only messages that keep the contract have a row; what on_message returns from
\* has left a trace.
RowsInv ==
    /\ \A i \in stored : sent[i].form = "good"
    /\ handled => current \in stored \/ \E e \in errors : e.message = current

TraceInv ==
    /\ SequenceInv /\ PathTypeOK /\ ShapeInv /\ NumbersInv /\ RowsInv /\ AckedIsKept
    /\ GatewayNeverCollides
=============================================================================
