---------------------------- MODULE GatewayAgent ----------------------------
(***************************************************************************)
(* The simulated gateway (simulator/gateway_agent.py).  The main thread     *)
(* publishes and ends the relay's timeout; paho's network thread runs       *)
(* on_connect, on_disconnect and on_message.  They share relay_on and       *)
(* relay_off_deadline without a lock, so every read and write of the two is *)
(* a step.  The process may be killed or end with an exception and is       *)
(* started again; the broker keeps the availability message.                *)
(***************************************************************************)
EXTENDS Naturals

CONSTANTS
    Command,         \* deliveries on the commands topic
    Class,           \* Class[c]: "foreign", "unsupported", "malformed", "on", "off"
    Expires,         \* Expires[c]: expires_at, in seconds
    None,
    Timeout,         \* timeout_s of the ON commands
    TelemetryPeriod, \* seconds between two publish_telemetry (2)
    MaxClock,        \* bound: seconds
    MaxFaults        \* bound: connections lost and processes killed

ASSUME CommandAssumption ==
    \A c \in Command : /\ Class[c] \in {"foreign", "unsupported", "malformed", "on", "off"}
                       /\ Expires[c] \in Nat
ASSUME PeriodAssumption == Timeout \in Nat \ {0} /\ TelemetryPeriod \in Nat \ {0, 1}
ASSUME NoneAssumption == None \notin Nat /\ None \notin {"rejected", "expired", "online"}
ASSUME BoundAssumption == MaxClock \in Nat /\ MaxFaults \in Nat

VARIABLES
    up,              \* the process runs
    connected,       \* between on_connect and on_disconnect
    relayOn, deadline,
    main,            \* [pc, now, read] of the loop of run; read: the deadline compared
    net,             \* [pc, command] of the network thread
    pending,         \* commands not delivered yet
    answers,         \* answers[c]: the status of its acknowledgement
    availability,    \* the retained message, as the broker has it
    session,         \* the broker's view of the connection
    sequence, nextTelemetry,
    published,       \* observer: telemetry numbers published
    started,         \* when the process was started
    collided,        \* observer: a number was published twice
    restartedAtOnce, \* observer: two starts within one second
    erased,          \* observer: the main thread erased a deadline it had not read
    clock, faults

relayVars == <<relayOn, deadline, erased>>
commandVars == <<pending, answers>>
brokerVars == <<availability, session>>
telemetryVars == <<sequence, nextTelemetry, published, collided>>
startVars == <<up, started, restartedAtOnce>>
vars == <<relayVars, connected, main, net, commandVars, brokerVars, telemetryVars,
          startVars, clock, faults>>

MainAt(l) == up /\ main.pc = l
NetAt(l) == up /\ net.pc = l

Init ==
    /\ up = FALSE /\ connected = FALSE
    /\ relayOn = FALSE /\ deadline = None /\ erased = FALSE
    /\ main = [pc |-> "top", now |-> 0, read |-> None]
    /\ net = [pc |-> "idle", command |-> None]
    /\ pending = Command
    /\ answers = [c \in Command |-> None]
    /\ availability = None /\ session = "none"
    /\ sequence = 0 /\ nextTelemetry = 0 /\ published = {} /\ collided = FALSE
    /\ started = None /\ restartedAtOnce = FALSE
    /\ clock = 1 /\ faults = 0

\* Mutant: the telemetry numbers of every start begin at 1.
FirstSequenceOne(t) == 1

\* __init__: self.telemetry_sequence = int(time.time())
FirstSequence(t) == t

\* __init__ and run, up to the loop.
Start ==
    /\ ~up
    /\ up' = TRUE
    /\ relayOn' = FALSE /\ deadline' = None
    /\ main' = [pc |-> "top", now |-> 0, read |-> None]
    /\ net' = [pc |-> "idle", command |-> None]
    /\ sequence' = FirstSequence(clock) /\ nextTelemetry' = 0
    /\ restartedAtOnce' = (restartedAtOnce \/ started = clock)
    /\ started' = clock
    /\ UNCHANGED <<erased, connected, commandVars, brokerVars, published, collided, clock,
                   faults>>

-----------------------------------------------------------------------------
\* on_connect: subscribe, publish "online".  The broker ends an older session
\* of the same client first.
OnConnect ==
    /\ NetAt("idle") /\ ~connected
    /\ connected' = TRUE
    /\ session' = "open"
    /\ availability' = "online"
    /\ UNCHANGED <<relayVars, main, net, commandVars, telemetryVars, startVars, clock, faults>>

\* Mutant: on_disconnect leaves the relay to its timeout.
OnDisconnectRelayStays ==
    /\ NetAt("idle") /\ connected
    /\ faults < MaxFaults
    /\ faults' = faults + 1
    /\ connected' = FALSE
    /\ session' = "lost"
    /\ net' = [net EXCEPT !.pc = "disconnect"]
    /\ UNCHANGED <<relayVars, main, commandVars, availability, telemetryVars, startVars, clock>>

\* The network thread finds the connection lost: on_disconnect, first write.
OnDisconnect ==
    /\ NetAt("idle") /\ connected
    /\ faults < MaxFaults
    /\ faults' = faults + 1
    /\ connected' = FALSE
    /\ session' = "lost"
    /\ relayOn' = FALSE
    /\ net' = [net EXCEPT !.pc = "disconnect"]
    /\ UNCHANGED <<deadline, erased, main, commandVars, availability, telemetryVars, startVars,
                   clock>>

\* on_disconnect, second write.
OnDisconnectEnd ==
    /\ NetAt("disconnect")
    /\ deadline' = None
    /\ net' = [net EXCEPT !.pc = "idle"]
    /\ UNCHANGED <<relayOn, erased, connected, main, commandVars, brokerVars, telemetryVars,
                   startVars, clock, faults>>

\* The broker publishes the last will of a connection that was lost.
LastWill ==
    /\ session = "lost"
    /\ session' = "none"
    /\ availability' = "offline"
    /\ UNCHANGED <<relayVars, connected, main, net, commandVars, telemetryVars, startVars,
                   clock, faults>>

\* on_message up to the writes: every refusal, in the code's order.  What fails
\* validation is logged and not answered.
OnMessage(c) ==
    /\ NetAt("idle") /\ connected
    /\ c \in pending
    /\ pending' = pending \ {c}
    /\ LET refusal == IF Class[c] = "foreign" THEN "rejected"
                      ELSE IF clock >= Expires[c] THEN "expired"
                      ELSE IF Class[c] = "unsupported" THEN "rejected"
                      ELSE None
       IN  /\ answers' = [answers EXCEPT ![c] = refusal]
           /\ net' = IF refusal = None /\ Class[c] # "malformed"
                     THEN [pc |-> "relay", command |-> c] ELSE net
    /\ UNCHANGED <<relayVars, connected, main, brokerVars, telemetryVars, startVars, clock,
                   faults>>

\* on_message: self.relay_on = request.relay_on
SetRelay ==
    /\ NetAt("relay")
    /\ relayOn' = (Class[net.command] = "on")
    /\ net' = [net EXCEPT !.pc = "deadline"]
    /\ UNCHANGED <<deadline, erased, connected, main, commandVars, brokerVars, telemetryVars,
                   startVars, clock, faults>>

\* on_message: self.relay_off_deadline = ...
SetDeadline ==
    /\ NetAt("deadline")
    /\ deadline' = IF Class[net.command] = "on" THEN clock + Timeout ELSE None
    /\ net' = [net EXCEPT !.pc = "ack"]
    /\ UNCHANGED <<relayOn, erased, connected, main, commandVars, brokerVars, telemetryVars,
                   startVars, clock, faults>>

\* on_message: publish_ack, with the relay as it is now.
Acknowledge ==
    /\ NetAt("ack")
    /\ answers' = [answers EXCEPT ![net.command] = IF relayOn THEN "RELAY_ON" ELSE "RELAY_OFF"]
    /\ net' = [pc |-> "idle", command |-> None]
    /\ UNCHANGED <<relayVars, connected, main, pending, brokerVars, telemetryVars, startVars,
                   clock, faults>>

-----------------------------------------------------------------------------
\* run: now = time.monotonic(), publish_health and publish_telemetry when due.
\* The numbers of health messages identify nothing (persist_health) and are left
\* out.
LoopTop ==
    /\ MainAt("top")
    /\ main' = [pc |-> "check", now |-> clock, read |-> None]
    /\ IF clock < nextTelemetry THEN UNCHANGED telemetryVars
       ELSE /\ published' = published \cup {sequence}
            /\ collided' = (collided \/ sequence \in published)
            /\ sequence' = sequence + 1
            /\ nextTelemetry' = clock + TelemetryPeriod
    /\ UNCHANGED <<relayVars, connected, net, commandVars, brokerVars, startVars, clock, faults>>

\* run: relay_off_deadline is not None
CheckDeadline ==
    /\ MainAt("check")
    /\ main' = [main EXCEPT !.pc = IF deadline = None THEN "top" ELSE "compare"]
    /\ UNCHANGED <<relayVars, connected, net, commandVars, brokerVars, telemetryVars, startVars,
                   clock, faults>>

\* run: now >= relay_off_deadline
CompareDeadline ==
    /\ MainAt("compare")
    /\ deadline # None
    /\ main' = [main EXCEPT !.pc = IF main.now >= deadline THEN "off" ELSE "top",
                            !.read = deadline]
    /\ UNCHANGED <<relayVars, connected, net, commandVars, brokerVars, telemetryVars, startVars,
                   clock, faults>>

\* The process is gone; what the broker sees of its connection.
Gone(seen) ==
    /\ up' = FALSE
    /\ connected' = FALSE
    /\ relayOn' = FALSE /\ deadline' = None
    /\ session' = IF session = "open" THEN seen ELSE session
    /\ UNCHANGED <<erased, main, net, commandVars, availability, telemetryVars, started,
                   restartedAtOnce, clock>>

\* run: the deadline was set to None since CheckDeadline, TypeError; finally:
\* disconnect(), which takes the last will back.
CompareFails ==
    /\ MainAt("compare")
    /\ deadline = None
    /\ Gone("closed")
    /\ UNCHANGED faults

\* SIGTERM or SIGKILL: the connection just breaks.
Kill ==
    /\ up
    /\ faults < MaxFaults
    /\ faults' = faults + 1
    /\ Gone("lost")

\* Mutant: the timeout ends the deadline and not the relay.
TimeoutRelayStays ==
    /\ MainAt("off")
    /\ main' = [main EXCEPT !.pc = "clear"]
    /\ UNCHANGED <<relayVars, connected, net, commandVars, brokerVars, telemetryVars, startVars,
                   clock, faults>>

\* run: self.relay_on = False
TimeoutRelay ==
    /\ MainAt("off")
    /\ relayOn' = FALSE
    /\ main' = [main EXCEPT !.pc = "clear"]
    /\ UNCHANGED <<deadline, erased, connected, net, commandVars, brokerVars, telemetryVars,
                   startVars, clock, faults>>

\* run: self.relay_off_deadline = None, the end of the round.
TimeoutClear ==
    /\ MainAt("clear")
    /\ deadline' = None
    /\ erased' = (erased \/ (relayOn /\ deadline # main.read))
    /\ main' = [main EXCEPT !.pc = "top", !.read = None]
    /\ UNCHANGED <<relayOn, connected, net, commandVars, brokerVars, telemetryVars, startVars,
                   clock, faults>>

\* Time passes, beyond the bound only as far as a deadline that stands.
Second ==
    /\ clock < MaxClock \/ (deadline # None /\ clock < deadline)
    /\ clock' = clock + 1
    /\ UNCHANGED <<relayVars, connected, main, net, commandVars, brokerVars, telemetryVars,
                   startVars, faults>>

Main == LoopTop \/ CheckDeadline \/ CompareDeadline \/ CompareFails \/ TimeoutRelay \/ TimeoutClear
Handler == OnDisconnectEnd \/ SetRelay \/ SetDeadline \/ Acknowledge

Next ==
    \/ Start \/ Kill \/ Second \/ LastWill
    \/ OnConnect \/ OnDisconnect
    \/ \E c \in Command : OnMessage(c)
    \/ Main \/ Handler

\* Both threads run, time passes, the container is started again, paho
\* reconnects and the broker notices a broken connection.
Spec == /\ Init /\ [][Next]_vars
        /\ WF_vars(Main) /\ WF_vars(Handler) /\ WF_vars(Second)
        /\ WF_vars(Start) /\ WF_vars(OnConnect) /\ WF_vars(LastWill)

-----------------------------------------------------------------------------
MainState == [pc : {"top", "check", "compare", "off", "clear"}, now : Nat,
              read : Nat \cup {None}]
NetState == [pc : {"idle", "relay", "deadline", "ack", "disconnect"},
             command : Command \cup {None}]

RelayTypeOK ==
    /\ up \in BOOLEAN /\ connected \in BOOLEAN /\ relayOn \in BOOLEAN /\ erased \in BOOLEAN
    /\ deadline \in Nat \cup {None}

ThreadTypeOK ==
    /\ main \in MainState
    /\ net \in NetState
    /\ net.pc \in {"relay", "deadline", "ack"} =>
            net.command \in Command /\ Class[net.command] \in {"on", "off"}

MessageTypeOK ==
    /\ pending \subseteq Command
    /\ answers \in [Command -> {None, "rejected", "expired", "RELAY_ON", "RELAY_OFF"}]
    /\ availability \in {None, "online", "offline"}
    /\ session \in {"none", "open", "lost", "closed"}
    /\ connected => up /\ session = "open"

NumberTypeOK ==
    /\ collided \in BOOLEAN /\ restartedAtOnce \in BOOLEAN
    /\ sequence \in Nat /\ nextTelemetry \in Nat /\ published \subseteq Nat
    /\ started \in Nat \cup {None}
    /\ clock \in Nat \ {0} /\ faults \in 0..MaxFaults

TypeOK == RelayTypeOK /\ ThreadTypeOK /\ MessageTypeOK /\ NumberTypeOK

\* Without a connection the relay is off, at every step of both threads: a
\* command begun before the loss is over when on_disconnect runs
\* (on_disconnect, on_message on the one network thread).
OffWithoutConnection == relayOn => up /\ connected

\* A relay that is on has a deadline, unless the main thread erased it between
\* its two writes (run), or on_message is about to write it.
OnHasDeadline == relayOn /\ net.pc # "deadline" => deadline # None \/ erased

\* No telemetry number is published twice, over any restarts that are not within
\* one second: the numbers grow slower than the clock they start from
\* (telemetry_sequence).
NumbersAreFresh == collided => restartedAtOnce

\* A relay that is on goes off again, unless its deadline was erased (run).
ReturnsToOff == relayOn ~> (~relayOn \/ erased)

\* The broker's message says "online" only while the connection stands, is not
\* yet known to be broken, or was closed by disconnect(), which publishes nothing
\* and takes the last will back (will_set, on_connect, run).
OnlineIsExplained == availability = "online" => session # "none"

\* What the two threads share stays explained at every step of either: a relay
\* that is on has its connection and its deadline, and an availability of
\* "online" its session (run, on_message, on_disconnect, will_set).
AgentInv == TypeOK /\ OffWithoutConnection /\ OnHasDeadline /\ OnlineIsExplained

-----------------------------------------------------------------------------
(* The inductive invariant.                                                  *)

\* A command is carried out within one connection, on_disconnect after it, and
\* the deadline written last is that of the command that switched the relay.
NetInv ==
    /\ up /\ net.pc \in {"relay", "deadline", "ack"} => connected
    /\ up /\ net.pc = "disconnect" => ~connected
    /\ net.pc = "deadline" /\ relayOn => Class[net.command] = "on"

\* The deadline that the main thread is about to erase has passed, so that of a
\* command that came in between is another one.
MainInv ==
    /\ main.now <= clock
    /\ main.pc \in {"off", "clear"} => main.read \in Nat /\ main.read <= main.now
    /\ main.pc = "clear" /\ relayOn /\ net.pc # "deadline" => erased \/ deadline # main.read

\* After its first telemetry a process is behind the clock with its numbers.
SequenceInv ==
    /\ \A n \in published : n < clock \/ (n = clock /\ started = clock)
    /\ up => /\ started \in Nat /\ started <= clock
             /\ nextTelemetry = 0 => sequence = started
             /\ nextTelemetry # 0 => sequence < nextTelemetry
             /\ restartedAtOnce \/ \A n \in published : n < sequence

ThreadsInv == AgentInv /\ NetInv /\ MainInv /\ SequenceInv /\ NumbersAreFresh
=============================================================================
