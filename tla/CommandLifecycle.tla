-------------------------- MODULE CommandLifecycle --------------------------
(***************************************************************************)
(* A relay command from the API to the gateway and its acknowledgement      *)
(* back into the database: issue_relay_command (command_service.py), the    *)
(* gateway's command_task (app_main.c) seen from outside, handle_message    *)
(* of the MQTT ingestor (mqtt_ingestor/main.py) and persist_command_ack     *)
(* (ingestion.py).                                                          *)
(*                                                                          *)
(* The API and the ingestor are two processes that update the same row      *)
(* device_commands, each from its own copy of it.  A step is one            *)
(* transaction of the database, one answer of the broker or one delivery.   *)
(***************************************************************************)
EXTENDS Naturals, Sequences

CONSTANTS
    Command,          \* the commands that are issued
    NoCommand,
    MaxDeliveries,    \* bound: copies of one command the broker passes on
    MaxAcks           \* bound: acknowledgements on their way at one time

ASSUME CommandAssumption == NoCommand \notin Command
ASSUME LimitAssumption == MaxDeliveries \in Nat /\ MaxAcks \in Nat

\* What the gateway answers.
Answer == {"completed", "rejected", "expired", "failed"}
Status == {"none", "queued", "published"} \cup Answer

VARIABLES
    row,          \* row[c]: the row of c in device_commands
    api,          \* api[c]: issue_relay_command for c
    inTransit,    \* inTransit[c]: copies of c between broker and gateway
    delivered,    \* delivered[c]: copies of c the broker has passed on
    expired,      \* the commands whose expires_at has passed
    acks,         \* topic command-acks, between gateway and ingestor
    ingest,       \* persist_command_ack, between its read and its commit
    applied,      \* observer: the commands that switched the relay
    heard         \* observer: heard[c]: the last answer to c that was ingested

vars == <<row, api, inTransit, delivered, expired, acks, ingest, applied, heard>>

NoRow == [status |-> "none", code |-> "none", acked |-> FALSE]
NoAck == [command |-> NoCommand, status |-> "none", seen |-> "none"]

Init ==
    /\ row = [c \in Command |-> NoRow]
    /\ api = [c \in Command |-> "idle"]
    /\ inTransit = [c \in Command |-> 0]
    /\ delivered = [c \in Command |-> 0]
    /\ expired = {}
    /\ acks = << >>
    /\ ingest = NoAck
    /\ applied = {}
    /\ heard = [c \in Command |-> "none"]

-----------------------------------------------------------------------------
(* issue_relay_command                                                      *)

\* The row and its audit event, in one transaction.
Issue(c) ==
    /\ api[c] = "idle"
    /\ row' = [row EXCEPT ![c] = [NoRow EXCEPT !.status = "queued"]]
    /\ api' = [api EXCEPT ![c] = "publishing"]
    /\ UNCHANGED <<inTransit, delivered, expired, acks, ingest, applied, heard>>

\* mqtt_publish.single: the broker takes the message and passes it on.  The
\* library sends it again when the connection breaks before the PUBACK.
BrokerPasses(c) ==
    /\ api[c] = "publishing"
    /\ delivered[c] < MaxDeliveries
    /\ delivered' = [delivered EXCEPT ![c] = @ + 1]
    /\ inTransit' = [inTransit EXCEPT ![c] = @ + 1]
    /\ UNCHANGED <<row, api, expired, acks, ingest, applied, heard>>

\* Mutant: every column is written, as this process read it.
PublishReturnsWholeRow(c) ==
    /\ api[c] = "publishing"
    /\ delivered[c] > 0
    /\ row' = [row EXCEPT ![c] = [NoRow EXCEPT !.status = "published"]]
    /\ api' = [api EXCEPT ![c] = "done"]
    /\ UNCHANGED <<inTransit, delivered, expired, acks, ingest, applied, heard>>

\* It returned: the status in this process's copy of the row is still
\* "queued", so the assignment is an UPDATE of that column.
PublishReturns(c) ==
    /\ api[c] = "publishing"
    /\ delivered[c] > 0
    /\ row' = [row EXCEPT ![c] = [@ EXCEPT !.status = "published"]]
    /\ api' = [api EXCEPT ![c] = "done"]
    /\ UNCHANGED <<inTransit, delivered, expired, acks, ingest, applied, heard>>

\* It raised: the broker could not be reached, or not reached again.
PublishFails(c) ==
    /\ api[c] = "publishing"
    /\ row' = [row EXCEPT ![c] = [@ EXCEPT !.status = "failed",
                                           !.code = "BROKER_PUBLISH_FAILED"]]
    /\ api' = [api EXCEPT ![c] = "done"]
    /\ UNCHANGED <<inTransit, delivered, expired, acks, ingest, applied, heard>>

\* The API process ends before the second commit.
ApiStops(c) ==
    /\ api[c] = "publishing"
    /\ api' = [api EXCEPT ![c] = "done"]
    /\ UNCHANGED <<row, inTransit, delivered, expired, acks, ingest, applied, heard>>

-----------------------------------------------------------------------------
(* The gateway and the messages on their way                                *)

Expire(c) ==
    /\ row[c].status # "none"
    /\ c \notin expired
    /\ expired' = expired \cup {c}
    /\ UNCHANGED <<row, api, inTransit, delivered, acks, ingest, applied, heard>>

\* A clean session keeps nothing for a gateway that is not connected, and a
\* full command_queue drops a command.
CommandLost(c) ==
    /\ inTransit[c] > 0
    /\ inTransit' = [inTransit EXCEPT ![c] = @ - 1]
    /\ UNCHANGED <<row, api, delivered, expired, acks, ingest, applied, heard>>

\* Mutant: the command is acknowledged as completed before its checks.
GatewayConfirms(c) ==
    /\ inTransit[c] > 0
    /\ inTransit' = [inTransit EXCEPT ![c] = @ - 1]
    /\ Len(acks) < MaxAcks
    /\ \E verdict \in IF c \in expired THEN {"failed", "expired"}
                                       ELSE {"failed", "rejected", "completed"} :
        /\ applied' = IF verdict = "completed" THEN applied \cup {c} ELSE applied
        /\ acks' = Append(acks, [command |-> c, status |-> "completed"])
    /\ UNCHANGED <<row, api, delivered, expired, ingest, heard>>

\* Mutant: the relay is switched before the checks.
GatewaySwitchesFirst(c) ==
    /\ inTransit[c] > 0
    /\ inTransit' = [inTransit EXCEPT ![c] = @ - 1]
    /\ Len(acks) < MaxAcks
    /\ applied' = applied \cup {c}
    /\ \E verdict \in IF c \in expired THEN {"failed", "expired"}
                                       ELSE {"failed", "rejected", "completed"} :
        acks' = Append(acks, [command |-> c, status |-> verdict])
    /\ UNCHANGED <<row, api, delivered, expired, ingest, heard>>

\* command_task: "failed" without a clock, "expired", "rejected" while the
\* reboot guard has the relay locked, or the relay is switched.  The
\* acknowledgement is lost when the gateway is not connected any more.
GatewayAnswers(c) ==
    /\ inTransit[c] > 0
    /\ inTransit' = [inTransit EXCEPT ![c] = @ - 1]
    /\ Len(acks) < MaxAcks
    /\ \E verdict \in IF c \in expired THEN {"failed", "expired"}
                                       ELSE {"failed", "rejected", "completed"} :
        /\ applied' = IF verdict = "completed" THEN applied \cup {c} ELSE applied
        /\ acks' = Append(acks, [command |-> c, status |-> verdict])
    /\ UNCHANGED <<row, api, delivered, expired, ingest, heard>>

\* The gateway's MQTT client sends an acknowledgement again on reconnecting.
AckDuplicated ==
    /\ acks # << >>
    /\ Len(acks) < MaxAcks
    /\ acks' = Append(acks, Head(acks))
    /\ UNCHANGED <<row, api, inTransit, delivered, expired, ingest, applied, heard>>

\* The gateway or the ingestor is not connected.
AckLost ==
    /\ acks # << >>
    /\ acks' = Tail(acks)
    /\ UNCHANGED <<row, api, inTransit, delivered, expired, ingest, applied, heard>>

-----------------------------------------------------------------------------
(* The ingestor: handle_message and persist_command_ack                     *)

\* session.get and the checks: an unknown command is an error, a repeated
\* acknowledgement a duplicate; neither changes the row.
IngestRead ==
    /\ ingest = NoAck
    /\ acks # << >>
    /\ acks' = Tail(acks)
    /\ LET ack == Head(acks)
           read == row[ack.command]
       IN  ingest' = IF \/ read.status = "none"
                        \/ read.acked /\ read.status = ack.status
                     THEN NoAck
                     ELSE [command |-> ack.command, status |-> ack.status,
                           seen |-> read.status]
    /\ UNCHANGED <<row, api, inTransit, delivered, expired, applied, heard>>

\* The commit.  The status column is written only if it differs from the
\* value that was read.
IngestCommit ==
    /\ ingest # NoAck
    /\ row' = [row EXCEPT ![ingest.command] =
                [status |-> IF ingest.seen = ingest.status THEN @.status
                                                           ELSE ingest.status,
                 code |-> "device", acked |-> TRUE]]
    /\ heard' = [heard EXCEPT ![ingest.command] = ingest.status]
    /\ ingest' = NoAck
    /\ UNCHANGED <<api, inTransit, delivered, expired, acks, applied>>

\* The transaction fails and the ingestor ends; a clean session does not give
\* it the message again.
IngestFails ==
    /\ ingest # NoAck
    /\ ingest' = NoAck
    /\ UNCHANGED <<row, api, inTransit, delivered, expired, acks, applied, heard>>

-----------------------------------------------------------------------------
Next ==
    \/ \E c \in Command :
        \/ Issue(c) \/ BrokerPasses(c) \/ PublishReturns(c) \/ PublishFails(c)
        \/ ApiStops(c) \/ Expire(c) \/ CommandLost(c) \/ GatewayAnswers(c)
    \/ AckDuplicated \/ AckLost
    \/ IngestRead \/ IngestCommit \/ IngestFails

Spec == Init /\ [][Next]_vars

-----------------------------------------------------------------------------
(* Properties                                                               *)

\* Every acknowledgement finds the row of its command: the row is committed
\* before the command is published, so "acknowledgement references an unknown
\* command" is never recorded for an answer of the gateway.
AckFindsCommand ==
    \A i \in 1..Len(acks) : row[acks[i].command].status # "none"

\* A record that says "completed" is of a command that switched the relay,
\* whatever is lost, repeated or written by the API meanwhile.
CompletedMeansApplied ==
    \A c \in Command : row[c].status = "completed" => c \in applied

\* A record that says "rejected" or "expired" is of a command that did not
\* switch the relay, unless the broker passed it on twice.
RefusedMeansNotApplied ==
    \A c \in Command :
        row[c].status \in {"rejected", "expired"} /\ delivered[c] <= 1
            => c \notin applied

\* A row over whose status the API wrote its own last word.
ApiWord(r) == r.status = "published" \/ r.code = "BROKER_PUBLISH_FAILED"

\* The record keeps that the gateway answered, and loses what it answered in one
\* way only: a row is acknowledged exactly if an answer was ingested, and its
\* status is then the last of them, though process and ingestor each write from
\* their own copy, unless issue_relay_command's second commit has come after it;
\* and such a row, acknowledged and yet "published" or failed at the broker, is
\* told apart from every other.
AnswerKeptOrMarked ==
    \A c \in Command :
        /\ row[c].acked <=> heard[c] # "none"
        /\ row[c].acked =>
            row[c].status = heard[c] \/ (api[c] = "done" /\ ApiWord(row[c]))

-----------------------------------------------------------------------------
(* Inductive strengthening                                                  *)

\* Every variable holds a value of its column or message.
TypeOK ==
    /\ row \in [Command -> [status : Status,
                            code : {"none", "BROKER_PUBLISH_FAILED", "device"},
                            acked : BOOLEAN]]
    /\ api \in [Command -> {"idle", "publishing", "done"}]
    /\ inTransit \in [Command -> Nat]
    /\ delivered \in [Command -> Nat]
    /\ expired \in SUBSET Command
    /\ acks \in Seq([command : Command, status : Answer])
    /\ \/ ingest = NoAck
       \/ ingest \in [command : Command, status : Answer, seen : Status \ {"none"}]
    /\ applied \in SUBSET Command
    /\ heard \in [Command -> Answer \cup {"none"}]

\* A command exists only after its row does, every "completed" on its way to
\* the row is of a command that was applied, and an answer nobody has
\* acknowledged is the API's own last word.
DeliveryInv ==
    /\ \A c \in Command :
        /\ row[c].status = "none" <=> api[c] = "idle"
        /\ inTransit[c] > 0 => api[c] # "idle"
        /\ row[c].status = "completed" => c \in applied
        /\ row[c].status \in Answer /\ ~row[c].acked => api[c] = "done"
        /\ heard[c] # "none" => api[c] # "idle"
    /\ \A i \in 1..Len(acks) :
        /\ api[acks[i].command] # "idle"
        /\ acks[i].status = "completed" => acks[i].command \in applied
    /\ ingest # NoAck =>
        /\ api[ingest.command] # "idle"
        /\ ingest.status = "completed" => ingest.command \in applied
        /\ ingest.seen = ingest.status =>
            /\ api[ingest.command] = "done"
            /\ row[ingest.command].status = ingest.status

Refused == {"rejected", "expired"}

\* No copy of c has reached command_task.
Unanswered(c) ==
    /\ c \notin applied
    /\ row[c].status \notin Refused
    /\ \A i \in 1..Len(acks) : acks[i].command # c
    /\ ingest.command # c

\* A command the broker passed on at most once is answered at most once.
OnceInv ==
    \A c \in Command :
        /\ inTransit[c] <= delivered[c]
        /\ delivered[c] = 0 \/ (delivered[c] = 1 /\ inTransit[c] = 1) => Unanswered(c)
        /\ delivered[c] <= 1 /\ c \in applied =>
            /\ row[c].status \notin Refused
            /\ \A i \in 1..Len(acks) : acks[i].command = c => acks[i].status \notin Refused
            /\ ingest.command = c => ingest.status \notin Refused

LifecycleInv == TypeOK /\ DeliveryInv /\ OnceInv /\ AnswerKeptOrMarked

=============================================================================
