------------------------ MODULE RelayControl_proofs ------------------------
(***************************************************************************)
(* Proofs about the relay for any set of commands, any queue length, any    *)
(* number of boots and deliveries and any lock threshold.                   *)
(***************************************************************************)
EXTENDS RelayControl, TLAPS

\* Every step of command_task keeps the relay's inductive invariant.
LEMMA CommandTaskStep == RelayInv /\ CommandTask => RelayInv'
<1> SUFFICES ASSUME RelayInv, CommandTask PROVE RelayInv'
  OBVIOUS
<1> USE FormAssumption, LimitAssumption
        DEF RelayInv, TypeOK, WritersInv, GuardInv, EnergizedIsTimed,
            OffAcknowledgedWhenOff, relayVars, guardVars, Task, Forms
<1>1. CASE CommandTaken
  <2> DEFINE c == Head(commandQueue)
  <2>1. c \in Command /\ Tail(commandQueue) \in Seq(Command)
        /\ Len(Tail(commandQueue)) <= QueueLength
    BY <1>1 DEF CommandTaken
  <2>2. Verdict(c) = "accepted" => Form[c] \in {"on", "off"} /\ ~relayLocked
    BY <2>1 DEF Verdict
  <2>3. running
    BY <1>1 DEF CommandTaken
  <2> HIDE DEF c
  <2>4. UNCHANGED <<relayVars, connected, synced, expired, guardVars, delivered>>
        /\ commandQueue' = Tail(commandQueue)
        /\ \/ Verdict(c) = "accepted" /\ cmdPc' = "stop" /\ cmdId' = c
           \/ UNCHANGED <<cmdPc, cmdId>>
    BY <1>1 DEF CommandTaken, c
  <2> QED BY <1>1, <2>1, <2>2, <2>3, <2>4 DEF CommandTaken
<1>2. CASE StopTimer
  BY <1>2 DEF StopTimer
<1>3. CASE SetRelayFlag
  BY <1>3 DEF SetRelayFlag, SetFlag
<1>4. CASE SetRelayPin
  BY <1>4 DEF SetRelayPin, SetPin
<1>5. CASE StartTimer
  BY <1>5 DEF StartTimer
<1>6. CASE Acknowledge
  BY <1>6 DEF Acknowledge
<1> QED BY <1>1, <1>2, <1>3, <1>4, <1>5, <1>6 DEF CommandTask

\* Every step of the network and timer tasks keeps it.
LEMMA OtherTaskStep ==
    RelayInv /\ (Network \/ TimerTask
                 \/ \E t \in {"timer", "mqtt", "wifi"} : ForceOffPin(t))
        => RelayInv'
<1> SUFFICES ASSUME RelayInv,
                    Network \/ TimerTask
                    \/ \E t \in {"timer", "mqtt", "wifi"} : ForceOffPin(t)
             PROVE  RelayInv'
  OBVIOUS
<1> USE FormAssumption, LimitAssumption
        DEF RelayInv, TypeOK, WritersInv, GuardInv, EnergizedIsTimed,
            OffAcknowledgedWhenOff, relayVars, queueVars, guardVars, Task, Forms
<1>1. CASE MqttConnected
  BY <1>1 DEF MqttConnected
<1>2. ASSUME NEW t \in {"mqtt", "wifi"}, Disconnected(t) PROVE RelayInv'
  BY <1>2 DEF Disconnected, SetFlag
<1>3. ASSUME NEW c \in Command, CommandReceived(c) PROVE RelayInv'
  <2>1. running /\ commandQueue' \in Seq(Command)
        /\ Len(commandQueue') <= QueueLength
    BY <1>3 DEF CommandReceived
  <2>2. delivered' \in [Command -> Nat]
    BY <1>3 DEF CommandReceived
  <2> QED BY <1>3, <2>1, <2>2 DEF CommandReceived
<1>4. CASE TimerExpires
  BY <1>4 DEF TimerExpires
<1>5. CASE RelayTimeout
  BY <1>5 DEF RelayTimeout, SetFlag
<1>6. ASSUME NEW t \in {"timer", "mqtt", "wifi"}, ForceOffPin(t) PROVE RelayInv'
  BY <1>6 DEF ForceOffPin, SetPin
<1> QED BY <1>1, <1>2, <1>3, <1>4, <1>5, <1>6 DEF Network, TimerTask

\* Boots, resets, the stability task and the passing of time keep it.
LEMMA SystemStep ==
    RelayInv /\ (Boot \/ Reset \/ Stabilize \/ ClockSynchronized
                 \/ \E c \in Command : CommandExpires(c))
        => RelayInv'
<1> SUFFICES ASSUME RelayInv,
                    Boot \/ Reset \/ Stabilize \/ ClockSynchronized
                    \/ \E c \in Command : CommandExpires(c)
             PROVE  RelayInv'
  OBVIOUS
<1> USE FormAssumption, LimitAssumption
        DEF RelayInv, TypeOK, WritersInv, GuardInv, EnergizedIsTimed,
            OffAcknowledgedWhenOff, relayVars, queueVars, guardVars, Task, Forms
<1>1. CASE Boot
  <2>1. TypeOK'
    <3>1. reboots' \in Nat /\ boots' \in Nat /\ unstableBoots' \in Nat
      BY <1>1 DEF Boot
    <3>2. relayLocked' \in BOOLEAN
      <4>1. (reboots' >= LockAfter) \in BOOLEAN
        BY <3>1
      <4>2. relayLocked' = (reboots' >= LockAfter)
        BY <1>1 DEF Boot
      <4> QED BY <4>1, <4>2
    <3>3. pin' \in BOOLEAN /\ relayOn' \in BOOLEAN /\ running' \in BOOLEAN
      BY <1>1 DEF Boot
    <3> QED BY <1>1, <3>1, <3>2, <3>3 DEF Boot
  <2>2. WritersInv'
    BY <1>1 DEF Boot
  <2>3. GuardInv'
    BY <1>1 DEF Boot
  <2>4. EnergizedIsTimed' /\ OffAcknowledgedWhenOff'
    BY <1>1 DEF Boot
  <2> QED BY <2>1, <2>2, <2>3, <2>4
<1>2. CASE Reset
  <2>1. TypeOK'
    <3>1. writing' \in [Task -> {"none", "off", "on"}]
      BY <1>2 DEF Reset, Quiet
    <3>2. commandQueue' \in Seq(Command) /\ Len(commandQueue') <= QueueLength
      BY <1>2 DEF Reset
    <3>3. synced' \in BOOLEAN
      BY <1>2, Zenon DEF Reset
    <3> QED BY <1>2, <3>1, <3>2, <3>3 DEF Reset
  <2>2. WritersInv'
    BY <1>2 DEF Reset, Quiet
  <2>3. GuardInv'
    BY <1>2 DEF Reset
  <2>4. EnergizedIsTimed' /\ OffAcknowledgedWhenOff'
    BY <1>2 DEF Reset
  <2> QED BY <2>1, <2>2, <2>3, <2>4
<1>3. CASE Stabilize
  <2>1. TypeOK'
    BY <1>3 DEF Stabilize
  <2>2. WritersInv'
    BY <1>3 DEF Stabilize
  <2>3. GuardInv'
    BY <1>3 DEF Stabilize
  <2>4. EnergizedIsTimed' /\ OffAcknowledgedWhenOff'
    BY <1>3 DEF Stabilize
  <2> QED BY <2>1, <2>2, <2>3, <2>4
<1>4. CASE ClockSynchronized
  BY <1>4 DEF ClockSynchronized
<1>5. ASSUME NEW c \in Command, CommandExpires(c) PROVE RelayInv'
  BY <1>5 DEF CommandExpires
<1> QED BY <1>1, <1>2, <1>3, <1>4, <1>5

\* The relay's inductive invariant holds in every reachable state: the tasks
\* that write relay_gpio without a lock cannot break it in any order.
THEOREM RelayInvariant == Spec => []RelayInv
<1>1. Init => RelayInv
  <2> SUFFICES ASSUME Init PROVE RelayInv
    OBVIOUS
  <2> USE FormAssumption, LimitAssumption DEF Init
  <2>1. TypeOK
    <3>1. writing \in [Task -> {"none", "off", "on"}]
      BY DEF Quiet
    <3>2. commandQueue \in Seq(Command) /\ Len(commandQueue) <= QueueLength
      OBVIOUS
    <3>3. delivered \in [Command -> Nat]
      OBVIOUS
    <3> QED BY <3>1, <3>2, <3>3 DEF TypeOK
  <2>2. WritersInv
    BY DEF WritersInv, Quiet, Task
  <2>3. GuardInv
    BY DEF GuardInv
  <2>4. EnergizedIsTimed /\ OffAcknowledgedWhenOff
    BY DEF EnergizedIsTimed, OffAcknowledgedWhenOff
  <2> QED BY <2>1, <2>2, <2>3, <2>4 DEF RelayInv
<1>2. RelayInv /\ [Next]_vars => RelayInv'
  <2> SUFFICES ASSUME RelayInv, [Next]_vars PROVE RelayInv'
    OBVIOUS
  <2>1. CASE Next
    BY <2>1, CommandTaskStep, OtherTaskStep, SystemStep DEF Next
  <2>2. CASE UNCHANGED vars
    BY <2>2 DEF RelayInv, TypeOK, WritersInv, GuardInv, EnergizedIsTimed,
         OffAcknowledgedWhenOff, vars, relayVars, queueVars, guardVars
  <2> QED BY <2>1, <2>2
<1> QED BY <1>1, <1>2, PTL DEF Spec

\* Every variable of the relay keeps its type.
THEOREM TypeCorrect == Spec => []TypeOK
BY RelayInvariant, PTL DEF RelayInv

\* An energized relay always has its release on the way.
THEOREM EnergizedIsAlwaysTimed == Spec => []EnergizedIsTimed
BY RelayInvariant, PTL DEF RelayInv

\* In a reboot loop the relay stays off.
THEOREM RelayIsOffInRebootLoop == Spec => []RelayOffInRebootLoop
<1>1. RelayInv => RelayOffInRebootLoop
  BY LimitAssumption DEF RelayInv, TypeOK, GuardInv, RelayOffInRebootLoop
<1> QED BY <1>1, RelayInvariant, PTL

\* An acknowledged switch-off has happened.
THEOREM OffIsAcknowledgedWhenOff == Spec => []OffAcknowledgedWhenOff
BY RelayInvariant, PTL DEF RelayInv
=============================================================================
