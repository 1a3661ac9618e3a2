---------------------------- MODULE RelayControl ----------------------------
(***************************************************************************)
(* The gateway's demonstration relay: who may energize it, and what takes   *)
(* it off again (app_main.c, gateway_platform.c).                           *)
(*                                                                          *)
(* Four FreeRTOS tasks call relay_gpio, which is not protected by a lock    *)
(* and writes twice, first the variable relay_on, then the pin:             *)
(*   command   command_task, which executes the commands in command_queue;  *)
(*   timer     the esp_timer task, which runs relay_timeout;                *)
(*   mqtt      the MQTT client task, which runs network_event;              *)
(*   wifi      the system event task, which also runs network_event.        *)
(* A step is what a task does between two of these writes, between two      *)
(* timer calls or between two queue operations.                             *)
(***************************************************************************)
EXTENDS Naturals, Sequences

CONSTANTS
    Command,          \* identifiers of the commands that are sent
    NoCommand,        \* command_task has none
    Form,             \* Form[c]: what the payload of command c is
    QueueLength,      \* length of command_queue
    LockAfter,        \* consecutive resets that lock the relay: 3
    MaxDeliveries,    \* bound: deliveries of one command by the broker
    MaxBoots          \* bound: number of boots

\* A payload that is no command for want of JSON, version or identifier;
\* one for another device; one whose expiry is no time; one of another kind;
\* one with bad parameters; and the two valid ones.
Forms == {"malformed", "foreign", "undated", "unsupported", "badparams",
          "on", "off"}

ASSUME FormAssumption == Form \in [Command -> Forms] /\ NoCommand \notin Command
ASSUME LimitAssumption ==
    /\ QueueLength \in Nat \ {0}
    /\ LockAfter \in Nat \ {0}
    /\ MaxDeliveries \in Nat
    /\ MaxBoots \in Nat

Task == {"command", "timer", "mqtt", "wifi"}

VARIABLES
    pin,            \* the level of IIOT_RELAY_GPIO
    relayOn,        \* relay_on
    writing,        \* writing[t]: what task t is about to write to the pin
    timerArmed,     \* relay_timer is running
    timerDue,       \* its callback was dispatched and has not begun
    commandQueue,   \* command_queue
    cmdPc,          \* command_task: the step it has reached
    cmdId,          \* command_task: the command it executes
    connected,      \* MQTT_CONNECTED_BIT
    synced,         \* gateway_utc_now has a time to give
    expired,        \* the commands whose expires_at has passed
    running,        \* app_main has started the tasks
    relayLocked,    \* relay_locked
    reboots,        \* consecutive_reboots, in RTC memory
    \* what an observer remembers
    boots,          \* boots since power was first applied
    unstableBoots,  \* boots since the last power-on or 60 s of operation
    delivered       \* delivered[c]: deliveries of c by the broker

relayVars == <<pin, relayOn, writing, timerArmed, timerDue>>
queueVars == <<commandQueue, cmdPc, cmdId>>
guardVars == <<running, relayLocked, reboots, boots, unstableBoots>>
vars == <<relayVars, queueVars, connected, synced, expired, guardVars,
          delivered>>

Quiet == [t \in Task |-> "none"]

Init ==
    /\ pin = FALSE
    /\ relayOn = FALSE
    /\ writing = Quiet
    /\ timerArmed = FALSE
    /\ timerDue = FALSE
    /\ commandQueue = << >>
    /\ cmdPc = "idle"
    /\ cmdId = NoCommand
    /\ connected = FALSE
    /\ synced = FALSE
    /\ expired = {}
    /\ running = FALSE
    /\ relayLocked = FALSE
    /\ reboots = 0
    /\ boots = 0
    /\ unstableBoots = 0
    /\ delivered = [c \in Command |-> 0]

-----------------------------------------------------------------------------
(* relay_gpio                                                               *)

SetFlag(t, level) ==
    /\ writing[t] = "none"
    /\ relayOn' = (level = "on")
    /\ writing' = [writing EXCEPT ![t] = level]

SetPin(t) ==
    /\ writing[t] # "none"
    /\ pin' = (writing[t] = "on")
    /\ writing' = [writing EXCEPT ![t] = "none"]

\* The second half of relay_gpio in the tasks that only force the relay off.
ForceOffPin(t) ==
    /\ SetPin(t)
    /\ UNCHANGED <<relayOn, timerArmed, timerDue, queueVars, connected, synced,
                   expired, guardVars, delivered>>

-----------------------------------------------------------------------------
(* Boot and reset                                                           *)

\* Mutant: the guard locks one boot late.
BootLocksLate ==
    /\ ~running
    /\ boots < MaxBoots
    /\ \E powerOn \in BOOLEAN :
        /\ boots = 0 => powerOn
        /\ reboots' = IF powerOn THEN 1 ELSE reboots + 1
        /\ unstableBoots' = IF powerOn THEN 1 ELSE unstableBoots + 1
    /\ relayLocked' = (reboots' > LockAfter)
    /\ boots' = boots + 1
    /\ running' = TRUE
    /\ pin' = FALSE
    /\ relayOn' = FALSE
    /\ UNCHANGED <<writing, timerArmed, timerDue, queueVars, connected, synced,
                   expired, delivered>>

\* app_main up to the start of the tasks: the relay is forced off, then
\* initialize_reboot_guard counts the boot.  RTC memory survives every reset
\* but a power-on.
Boot ==
    /\ ~running
    /\ boots < MaxBoots
    /\ \E powerOn \in BOOLEAN :
        /\ boots = 0 => powerOn
        /\ reboots' = IF powerOn THEN 1 ELSE reboots + 1
        /\ unstableBoots' = IF powerOn THEN 1 ELSE unstableBoots + 1
    /\ relayLocked' = (reboots' >= LockAfter)
    /\ boots' = boots + 1
    /\ running' = TRUE
    /\ pin' = FALSE
    /\ relayOn' = FALSE
    /\ UNCHANGED <<writing, timerArmed, timerDue, queueVars, connected, synced,
                   expired, delivered>>

\* A reset at any point.  The pin falls with the chip; the clock may be kept.
Reset ==
    /\ running
    /\ boots < MaxBoots
    /\ running' = FALSE
    /\ pin' = FALSE
    /\ relayOn' = FALSE
    /\ writing' = Quiet
    /\ timerArmed' = FALSE
    /\ timerDue' = FALSE
    /\ commandQueue' = << >>
    /\ cmdPc' = "idle"
    /\ cmdId' = NoCommand
    /\ connected' = FALSE
    /\ synced' \in {synced, FALSE}
    /\ relayLocked' = FALSE
    /\ UNCHANGED <<expired, reboots, boots, unstableBoots, delivered>>

\* stability_task, 60 s after it was started
Stabilize ==
    /\ running
    /\ reboots # 0
    /\ reboots' = 0
    /\ relayLocked' = FALSE
    /\ unstableBoots' = 0
    /\ UNCHANGED <<relayVars, queueVars, connected, synced, expired, running,
                   boots, delivered>>

-----------------------------------------------------------------------------
(* network_event and the world outside                                      *)

\* MQTT_EVENT_CONNECTED
MqttConnected ==
    /\ running
    /\ writing["mqtt"] = "none"
    /\ ~connected
    /\ connected' = TRUE
    /\ UNCHANGED <<relayVars, queueVars, synced, expired, guardVars, delivered>>

\* MQTT_EVENT_DISCONNECTED (t = "mqtt"), WIFI_EVENT_STA_DISCONNECTED ("wifi"):
\* clear the bits, then relay_gpio(false).
Disconnected(t) ==
    /\ running
    /\ connected' = FALSE
    /\ SetFlag(t, "off")
    /\ UNCHANGED <<pin, timerArmed, timerDue, queueVars, synced, expired,
                   guardVars, delivered>>

\* MQTT_EVENT_DATA and mqtt_command_received.  The broker delivers at QoS 1:
\* at least once, so a command may come again, and command_task, which keeps
\* no record of the commands it has executed, executes it again.  A full
\* queue drops it.
CommandReceived(c) ==
    /\ connected
    /\ writing["mqtt"] = "none"
    /\ delivered[c] < MaxDeliveries
    /\ delivered' = [delivered EXCEPT ![c] = @ + 1]
    /\ commandQueue' = IF Len(commandQueue) < QueueLength
                       THEN Append(commandQueue, c)
                       ELSE commandQueue
    /\ UNCHANGED <<relayVars, cmdPc, cmdId, connected, synced, expired,
                   guardVars>>

\* SNTP sets the clock; time passes the expiry of a command.
ClockSynchronized ==
    /\ running
    /\ ~synced
    /\ synced' = TRUE
    /\ UNCHANGED <<relayVars, queueVars, connected, expired, guardVars,
                   delivered>>

CommandExpires(c) ==
    /\ c \notin expired
    /\ expired' = expired \cup {c}
    /\ UNCHANGED <<relayVars, queueVars, connected, synced, guardVars,
                   delivered>>

-----------------------------------------------------------------------------
(* The auto-off timer                                                       *)

\* The timer expires: its callback will run and can no longer be stopped.
TimerExpires ==
    /\ timerArmed
    /\ ~timerDue
    /\ timerArmed' = FALSE
    /\ timerDue' = TRUE
    /\ UNCHANGED <<pin, relayOn, writing, queueVars, connected, synced, expired,
                   guardVars, delivered>>

\* Mutant: the timer's callback updates relay_on only.
RelayTimeoutFlagOnly ==
    /\ timerDue
    /\ timerDue' = FALSE
    /\ relayOn' = FALSE
    /\ UNCHANGED <<pin, writing, timerArmed, queueVars, connected, synced,
                   expired, guardVars, delivered>>

\* relay_timeout
RelayTimeout ==
    /\ timerDue
    /\ timerDue' = FALSE
    /\ SetFlag("timer", "off")
    /\ UNCHANGED <<pin, timerArmed, queueVars, connected, synced, expired,
                   guardVars, delivered>>

-----------------------------------------------------------------------------
(* command_task                                                             *)

\* The answer of command_task to a command, in the order of its checks.
Verdict(c) ==
    CASE Form[c] = "malformed"   -> "ignored"
      [] Form[c] = "foreign"     -> "rejected"
      [] Form[c] = "undated" \/ ~synced -> "failed"
      [] c \in expired           -> "expired"
      [] Form[c] = "unsupported" -> "rejected"
      [] relayLocked             -> "rejected"
      [] Form[c] = "badparams"   -> "rejected"
      [] OTHER                   -> "accepted"

\* Take a command from the queue; every verdict but "accepted" ends there.
CommandTaken ==
    /\ cmdPc = "idle"
    /\ commandQueue # << >>
    /\ commandQueue' = Tail(commandQueue)
    /\ IF Verdict(Head(commandQueue)) = "accepted"
       THEN cmdPc' = "stop" /\ cmdId' = Head(commandQueue)
       ELSE UNCHANGED <<cmdPc, cmdId>>
    /\ UNCHANGED <<relayVars, connected, synced, expired, guardVars, delivered>>

\* Mutant: the command is acknowledged before the pin is written.
StopTimerThenAcknowledge ==
    /\ cmdPc = "stop"
    /\ timerArmed' = FALSE
    /\ cmdPc' = IF Form[cmdId] = "on" THEN "flag" ELSE "ack"
    /\ UNCHANGED <<pin, relayOn, writing, timerDue, commandQueue, cmdId,
                   connected, synced, expired, guardVars, delivered>>

\* esp_timer_stop
StopTimer ==
    /\ cmdPc = "stop"
    /\ timerArmed' = FALSE
    /\ cmdPc' = "flag"
    /\ UNCHANGED <<pin, relayOn, writing, timerDue, commandQueue, cmdId,
                   connected, synced, expired, guardVars, delivered>>

\* gateway_relay_set
SetRelayFlag ==
    /\ cmdPc = "flag"
    /\ SetFlag("command", Form[cmdId])
    /\ cmdPc' = "pin"
    /\ UNCHANGED <<pin, timerArmed, timerDue, commandQueue, cmdId, connected,
                   synced, expired, guardVars, delivered>>

\* Mutant: the timer is started only for a relay that relay_on reports on.
SetRelayPinThenTest ==
    /\ cmdPc = "pin"
    /\ SetPin("command")
    /\ cmdPc' = IF relayOn THEN "start" ELSE "ack"
    /\ UNCHANGED <<relayOn, timerArmed, timerDue, commandQueue, cmdId,
                   connected, synced, expired, guardVars, delivered>>

SetRelayPin ==
    /\ cmdPc = "pin"
    /\ SetPin("command")
    /\ cmdPc' = IF Form[cmdId] = "on" THEN "start" ELSE "ack"
    /\ UNCHANGED <<relayOn, timerArmed, timerDue, commandQueue, cmdId,
                   connected, synced, expired, guardVars, delivered>>

\* esp_timer_start_once
StartTimer ==
    /\ cmdPc = "start"
    /\ timerArmed' = TRUE
    /\ cmdPc' = "ack"
    /\ UNCHANGED <<pin, relayOn, writing, timerDue, commandQueue, cmdId,
                   connected, synced, expired, guardVars, delivered>>

\* publish_command_ack with status "completed" and the value of relay_on
Acknowledge ==
    /\ cmdPc = "ack"
    /\ cmdPc' = "idle"
    /\ cmdId' = NoCommand
    /\ UNCHANGED <<relayVars, commandQueue, connected, synced, expired,
                   guardVars, delivered>>

-----------------------------------------------------------------------------
CommandTask ==
    \/ CommandTaken \/ StopTimer \/ SetRelayFlag \/ SetRelayPin \/ StartTimer
    \/ Acknowledge

TimerTask == TimerExpires \/ RelayTimeout

Network ==
    \/ MqttConnected
    \/ \E t \in {"mqtt", "wifi"} : Disconnected(t)
    \/ \E c \in Command : CommandReceived(c)

Next ==
    \/ Boot \/ Reset \/ Stabilize
    \/ Network
    \/ ClockSynchronized
    \/ \E c \in Command : CommandExpires(c)
    \/ TimerTask
    \/ \E t \in {"timer", "mqtt", "wifi"} : ForceOffPin(t)
    \/ CommandTask

Spec == Init /\ [][Next]_vars

(* The scheduler runs every ready task and a running timer expires; nothing *)
(* is assumed of the network, of resets or of the senders of commands.      *)
FairSpec ==
    /\ Spec
    /\ WF_vars(CommandTask)
    /\ WF_vars(TimerExpires)
    /\ WF_vars(RelayTimeout)
    /\ WF_vars(ForceOffPin("timer"))

-----------------------------------------------------------------------------
(* Properties                                                               *)

\* Every variable has the type its C declaration gives it.
TypeOK ==
    /\ pin \in BOOLEAN
    /\ relayOn \in BOOLEAN
    /\ writing \in [Task -> {"none", "off", "on"}]
    /\ timerArmed \in BOOLEAN
    /\ timerDue \in BOOLEAN
    /\ commandQueue \in Seq(Command)
    /\ Len(commandQueue) <= QueueLength
    /\ cmdPc \in {"idle", "stop", "flag", "pin", "start", "ack"}
    /\ cmdId \in Command \cup {NoCommand}
    /\ connected \in BOOLEAN
    /\ synced \in BOOLEAN
    /\ expired \in SUBSET Command
    /\ running \in BOOLEAN
    /\ relayLocked \in BOOLEAN
    /\ reboots \in Nat
    /\ boots \in Nat
    /\ unstableBoots \in Nat
    /\ delivered \in [Command -> Nat]

\* An energized relay always has something on its way that will release it:
\* the running timer, the timer's callback, or command_task between the two
\* timer calls of a command, whatever the other tasks write meanwhile.
EnergizedIsTimed ==
    pin => \/ timerArmed
           \/ timerDue
           \/ writing["timer"] # "none"
           \/ cmdPc \in {"flag", "pin", "start"}

\* From the LockAfter-th boot without 60 s of operation or a power-on in
\* between, the relay is not energized, whatever commands arrive.
RelayOffInRebootLoop == unstableBoots >= LockAfter => ~pin /\ ~relayOn

\* When a command to switch off is acknowledged as completed, the pin is low:
\* no task that runs in between can have raised it again.
OffAcknowledgedWhenOff ==
    cmdPc = "ack" /\ cmdId \in Command /\ Form[cmdId] = "off" => ~pin

-----------------------------------------------------------------------------
(* Inductive strengthening                                                  *)

\* Only command_task may be about to raise the pin, and it writes to the pin
\* exactly what its command asks for.
WritersInv ==
    /\ \A t \in {"timer", "mqtt", "wifi"} : writing[t] # "on"
    /\ cmdPc # "idle" => cmdId \in Command /\ Form[cmdId] \in {"on", "off"}
    /\ cmdPc = "start" => Form[cmdId] = "on"
    /\ writing["command"] = IF cmdPc = "pin" THEN Form[cmdId] ELSE "none"

\* The boots that consecutive_reboots counts are the unstable ones, and a
\* locked relay is off and has no command on its way.
GuardInv ==
    /\ reboots = unstableBoots
    /\ ~running => cmdPc = "idle" /\ commandQueue = << >> /\ ~connected
                    /\ ~pin /\ ~relayOn
    /\ running /\ unstableBoots >= LockAfter => relayLocked
    /\ relayLocked => cmdPc = "idle" /\ ~pin /\ ~relayOn

RelayInv ==
    TypeOK /\ WritersInv /\ GuardInv /\ EnergizedIsTimed /\ OffAcknowledgedWhenOff

-----------------------------------------------------------------------------
(* Liveness                                                                 *)

\* The relay never stays energized.
RelayReturnsToOff == pin ~> ~pin
=============================================================================
