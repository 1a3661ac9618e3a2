------------------------ MODULE GatewayAgent_proofs ------------------------
(***************************************************************************)
(* Proofs about the simulated gateway for any set of commands, any timeout, *)
(* any period of at least two seconds and any number of faults.             *)
(***************************************************************************)
EXTENDS GatewayAgent, TLAPS

\* The parts of the inductive invariant about the relay and its two threads.
RelayPart == TypeOK /\ OffWithoutConnection /\ OnHasDeadline /\ OnlineIsExplained
                /\ NetInv /\ MainInv

\* The program starts in the invariant.
LEMMA InitEstablishes == Init => ThreadsInv
<1> SUFFICES ASSUME Init PROVE ThreadsInv
  OBVIOUS
<1> USE CommandAssumption, PeriodAssumption, NoneAssumption, BoundAssumption DEF Init
<1>1. TypeOK
  <2>1. RelayTypeOK
    BY DEF RelayTypeOK
  <2>2. ThreadTypeOK
    BY DEF ThreadTypeOK, MainState, NetState
  <2>3. MessageTypeOK
    BY DEF MessageTypeOK
  <2>4. NumberTypeOK
    <3>1. collided \in BOOLEAN /\ restartedAtOnce \in BOOLEAN
      OBVIOUS
    <3>2. faults \in 0..MaxFaults
      OBVIOUS
    <3> QED BY <3>1, <3>2 DEF NumberTypeOK
  <2> QED BY <2>1, <2>2, <2>3, <2>4 DEF TypeOK
<1>2. OffWithoutConnection /\ OnHasDeadline /\ OnlineIsExplained
  BY DEF OffWithoutConnection, OnHasDeadline, OnlineIsExplained
<1>3. NetInv
  BY DEF NetInv
<1>4. MainInv
  BY DEF MainInv
<1>5. SequenceInv /\ NumbersAreFresh
  BY DEF SequenceInv, NumbersAreFresh
<1> QED BY <1>1, <1>2, <1>3, <1>4, <1>5 DEF ThreadsInv, AgentInv

\* Every step of the network thread keeps the relay explained.
LEMMA HandlerStep ==
    ASSUME RelayPart,
           OnConnect \/ OnDisconnect \/ Handler \/ \E c \in Command : OnMessage(c)
    PROVE  RelayPart'
<1> USE CommandAssumption, PeriodAssumption, NoneAssumption, BoundAssumption
        DEF RelayPart, TypeOK, RelayTypeOK, ThreadTypeOK, MessageTypeOK,
            NumberTypeOK, OffWithoutConnection, OnHasDeadline, OnlineIsExplained,
            NetInv, MainInv, MainState, NetState, relayVars, commandVars, brokerVars,
            telemetryVars, startVars,
            NetAt
<1>1. CASE OnConnect
  BY <1>1 DEF OnConnect
<1>2. CASE OnDisconnect
  <2>1. TypeOK'
    <3>1. RelayTypeOK'
      BY <1>2 DEF OnDisconnect
    <3>2. ThreadTypeOK'
      BY <1>2 DEF OnDisconnect
    <3>3. MessageTypeOK'
      BY <1>2 DEF OnDisconnect
    <3>4. NumberTypeOK'
      BY <1>2 DEF OnDisconnect
    <3> QED BY <3>1, <3>2, <3>3, <3>4
  <2>2. OffWithoutConnection' /\ OnHasDeadline' /\ OnlineIsExplained'
    BY <1>2 DEF OnDisconnect
  <2>3. NetInv'
    BY <1>2 DEF OnDisconnect
  <2>4. MainInv'
    BY <1>2 DEF OnDisconnect
  <2> QED BY <2>1, <2>2, <2>3, <2>4
<1>3. CASE OnDisconnectEnd
  BY <1>3 DEF OnDisconnectEnd
<1>4. CASE SetRelay
  <2>1. TypeOK'
    <3>1. RelayTypeOK'
      BY <1>4 DEF SetRelay
    <3>2. ThreadTypeOK'
      BY <1>4 DEF SetRelay
    <3>3. MessageTypeOK'
      BY <1>4 DEF SetRelay
    <3>4. NumberTypeOK'
      BY <1>4 DEF SetRelay
    <3> QED BY <3>1, <3>2, <3>3, <3>4
  <2>2. OffWithoutConnection' /\ OnHasDeadline' /\ OnlineIsExplained'
    BY <1>4 DEF SetRelay
  <2>3. NetInv'
    BY <1>4 DEF SetRelay
  <2>4. MainInv'
    BY <1>4 DEF SetRelay
  <2> QED BY <2>1, <2>2, <2>3, <2>4
<1>5. CASE SetDeadline
  BY <1>5 DEF SetDeadline
<1>6. CASE Acknowledge
  BY <1>6 DEF Acknowledge
<1>7. ASSUME NEW c \in Command, OnMessage(c) PROVE RelayPart'
  BY <1>7 DEF OnMessage
<1> QED BY <1>1, <1>2, <1>3, <1>4, <1>5, <1>6, <1>7 DEF Handler

\* So does every step of the main thread.
LEMMA MainStep == ASSUME RelayPart, Main PROVE RelayPart'
<1> USE CommandAssumption, PeriodAssumption, NoneAssumption, BoundAssumption
        DEF RelayPart, TypeOK, RelayTypeOK, ThreadTypeOK, MessageTypeOK,
            NumberTypeOK, OffWithoutConnection, OnHasDeadline, OnlineIsExplained,
            NetInv, MainInv, MainState, NetState, relayVars, commandVars, brokerVars,
            telemetryVars, startVars,
            MainAt
<1>1. CASE LoopTop
  <2>1. TypeOK'
    <3>1. RelayTypeOK'
      BY <1>1 DEF LoopTop
    <3>2. ThreadTypeOK'
      BY <1>1 DEF LoopTop
    <3>3. MessageTypeOK'
      BY <1>1 DEF LoopTop
    <3>4. NumberTypeOK'
      <4>1. CASE clock < nextTelemetry
        BY <1>1, <4>1 DEF LoopTop
      <4>2. CASE ~(clock < nextTelemetry)
        <5>1. collided' \in BOOLEAN
          BY <1>1, <4>2 DEF LoopTop
        <5>2. sequence' \in Nat /\ nextTelemetry' \in Nat
          BY <1>1, <4>2 DEF LoopTop
        <5>3. published' \subseteq Nat
          BY <1>1, <4>2 DEF LoopTop
        <5>4. UNCHANGED <<startVars, clock, faults>>
          BY <1>1 DEF LoopTop
        <5> QED BY <5>1, <5>2, <5>3, <5>4
      <4> QED BY <4>1, <4>2
    <3> QED BY <3>1, <3>2, <3>3, <3>4
  <2>2. OffWithoutConnection' /\ OnHasDeadline' /\ OnlineIsExplained'
    BY <1>1 DEF LoopTop
  <2>3. NetInv'
    BY <1>1 DEF LoopTop
  <2>4. MainInv'
    BY <1>1 DEF LoopTop
  <2> QED BY <2>1, <2>2, <2>3, <2>4
<1>2. CASE CheckDeadline
  BY <1>2 DEF CheckDeadline
<1>3. CASE CompareDeadline
  <2>1. TypeOK'
    <3>1. RelayTypeOK'
      BY <1>3 DEF CompareDeadline
    <3>2. ThreadTypeOK'
      BY <1>3 DEF CompareDeadline
    <3>3. MessageTypeOK'
      BY <1>3 DEF CompareDeadline
    <3>4. NumberTypeOK'
      BY <1>3 DEF CompareDeadline
    <3> QED BY <3>1, <3>2, <3>3, <3>4
  <2>2. OffWithoutConnection' /\ OnHasDeadline' /\ OnlineIsExplained'
    BY <1>3 DEF CompareDeadline
  <2>3. NetInv'
    BY <1>3 DEF CompareDeadline
  <2>4. MainInv'
    BY <1>3 DEF CompareDeadline
  <2> QED BY <2>1, <2>2, <2>3, <2>4
<1>4. CASE CompareFails
  <2>1. TypeOK'
    <3>1. RelayTypeOK'
      BY <1>4 DEF CompareFails, Gone
    <3>2. ThreadTypeOK'
      BY <1>4 DEF CompareFails, Gone
    <3>3. MessageTypeOK'
      BY <1>4 DEF CompareFails, Gone
    <3>4. NumberTypeOK'
      BY <1>4 DEF CompareFails, Gone
    <3> QED BY <3>1, <3>2, <3>3, <3>4
  <2>2. OffWithoutConnection' /\ OnHasDeadline' /\ OnlineIsExplained'
    BY <1>4 DEF CompareFails, Gone
  <2>3. NetInv'
    BY <1>4 DEF CompareFails, Gone
  <2>4. MainInv'
    BY <1>4 DEF CompareFails, Gone
  <2> QED BY <2>1, <2>2, <2>3, <2>4
<1>5. CASE TimeoutRelay
  <2>1. TypeOK'
    <3>1. RelayTypeOK'
      BY <1>5 DEF TimeoutRelay
    <3>2. ThreadTypeOK'
      BY <1>5 DEF TimeoutRelay
    <3>3. MessageTypeOK'
      BY <1>5 DEF TimeoutRelay
    <3>4. NumberTypeOK'
      BY <1>5 DEF TimeoutRelay
    <3> QED BY <3>1, <3>2, <3>3, <3>4
  <2>2. OffWithoutConnection' /\ OnHasDeadline' /\ OnlineIsExplained'
    BY <1>5 DEF TimeoutRelay
  <2>3. NetInv'
    BY <1>5 DEF TimeoutRelay
  <2>4. MainInv'
    BY <1>5 DEF TimeoutRelay
  <2> QED BY <2>1, <2>2, <2>3, <2>4
<1>6. CASE TimeoutClear
  <2>1. TypeOK'
    <3>1. RelayTypeOK'
      BY <1>6 DEF TimeoutClear
    <3>2. ThreadTypeOK'
      BY <1>6 DEF TimeoutClear
    <3>3. MessageTypeOK'
      BY <1>6 DEF TimeoutClear
    <3>4. NumberTypeOK'
      BY <1>6 DEF TimeoutClear
    <3> QED BY <3>1, <3>2, <3>3, <3>4
  <2>2. OffWithoutConnection' /\ OnHasDeadline' /\ OnlineIsExplained'
    BY <1>6 DEF TimeoutClear
  <2>3. NetInv'
    BY <1>6 DEF TimeoutClear
  <2>4. MainInv'
    BY <1>6 DEF TimeoutClear
  <2> QED BY <2>1, <2>2, <2>3, <2>4
<1> QED BY <1>1, <1>2, <1>3, <1>4, <1>5, <1>6 DEF Main

\* So do starts, ends of the process, the broker and time.
LEMMA OutsideStep ==
    ASSUME RelayPart, Start \/ Kill \/ Second \/ LastWill
    PROVE  RelayPart'
<1> USE CommandAssumption, PeriodAssumption, NoneAssumption, BoundAssumption
        DEF RelayPart, TypeOK, RelayTypeOK, ThreadTypeOK, MessageTypeOK,
            NumberTypeOK, OffWithoutConnection, OnHasDeadline, OnlineIsExplained,
            NetInv, MainInv, MainState, NetState, relayVars, commandVars, brokerVars,
            telemetryVars, startVars
<1>1. CASE Start
  <2>1. TypeOK'
    <3>1. RelayTypeOK'
      BY <1>1 DEF Start, FirstSequence
    <3>2. ThreadTypeOK'
      BY <1>1 DEF Start, FirstSequence
    <3>3. MessageTypeOK'
      BY <1>1 DEF Start, FirstSequence
    <3>4. NumberTypeOK'
      BY <1>1 DEF Start, FirstSequence
    <3> QED BY <3>1, <3>2, <3>3, <3>4
  <2>2. OffWithoutConnection' /\ OnHasDeadline' /\ OnlineIsExplained'
    BY <1>1 DEF Start
  <2>3. NetInv' /\ MainInv'
    BY <1>1 DEF Start
  <2> QED BY <2>1, <2>2, <2>3
<1>2. CASE Kill
  <2>1. TypeOK'
    <3>1. RelayTypeOK'
      BY <1>2 DEF Kill, Gone
    <3>2. ThreadTypeOK'
      BY <1>2 DEF Kill, Gone
    <3>3. MessageTypeOK'
      BY <1>2 DEF Kill, Gone
    <3>4. NumberTypeOK'
      BY <1>2 DEF Kill, Gone
    <3> QED BY <3>1, <3>2, <3>3, <3>4
  <2>2. OffWithoutConnection' /\ OnHasDeadline' /\ OnlineIsExplained'
    BY <1>2 DEF Kill, Gone
  <2>3. NetInv'
    BY <1>2 DEF Kill, Gone
  <2>4. MainInv'
    BY <1>2 DEF Kill, Gone
  <2> QED BY <2>1, <2>2, <2>3, <2>4
<1>3. CASE Second
  BY <1>3 DEF Second
<1>4. CASE LastWill
  BY <1>4 DEF LastWill
<1> QED BY <1>1, <1>2, <1>3, <1>4

\* Every step keeps the telemetry numbers behind the clock they start from.
LEMMA NumbersStep ==
    ASSUME TypeOK, SequenceInv, NumbersAreFresh, Next
    PROVE  SequenceInv' /\ NumbersAreFresh'
<1> USE PeriodAssumption, NoneAssumption
        DEF TypeOK, RelayTypeOK, ThreadTypeOK, NumberTypeOK, SequenceInv, NumbersAreFresh, telemetryVars, startVars
<1>1. CASE Start
  <2>1. clock \in Nat /\ published \subseteq Nat /\ started' = clock /\ nextTelemetry' = 0
        /\ sequence' = clock /\ UNCHANGED <<published, clock, collided>>
        /\ restartedAtOnce' = (restartedAtOnce \/ started = clock)
    BY <1>1 DEF Start, FirstSequence
  <2>2. NumbersAreFresh'
    BY <2>1
  <2>3. restartedAtOnce' \/ \A n \in published : n < clock
    BY <2>1
  <2> QED BY <2>1, <2>2, <2>3
<1>2. CASE LoopTop
  <2>1. CASE clock < nextTelemetry
    BY <1>2, <2>1 DEF LoopTop
  <2>2. CASE ~(clock < nextTelemetry)
    <3>1. /\ up /\ UNCHANGED <<startVars, clock>>
          /\ published' = published \cup {sequence}
          /\ collided' = (collided \/ sequence \in published)
          /\ sequence' = sequence + 1
          /\ nextTelemetry' = clock + TelemetryPeriod
      BY <1>2, <2>2 DEF LoopTop, MainAt
    <3>2. sequence < clock \/ (sequence = clock /\ started = clock)
      BY <2>2, <3>1
    <3>3. sequence' < nextTelemetry' /\ nextTelemetry' # 0
      BY <3>1, <3>2
    <3>4. restartedAtOnce \/ sequence \notin published
      BY <3>1
    <3>5. \A n \in published' : n < clock \/ (n = clock /\ started = clock)
      BY <3>1, <3>2
    <3>6. restartedAtOnce \/ \A n \in published' : n < sequence'
      BY <3>1
    <3> QED BY <3>1, <3>3, <3>4, <3>5, <3>6
  <2> QED BY <2>1, <2>2
<1>3. CASE Second
  BY <1>3 DEF Second
<1>4. CASE Kill \/ CompareFails
  BY <1>4 DEF Kill, CompareFails, Gone
<1>5. CASE UNCHANGED <<telemetryVars, startVars, clock>>
  BY <1>5
<1>6. ASSUME NEW c \in Command, OnMessage(c) PROVE UNCHANGED <<telemetryVars, startVars, clock>>
  BY <1>6 DEF OnMessage
<1> QED
  BY <1>1, <1>2, <1>3, <1>4, <1>5, <1>6
     DEF Next, Main, Handler, OnConnect, OnDisconnect, LastWill, CheckDeadline, CompareDeadline,
         TimeoutRelay, TimeoutClear, OnDisconnectEnd, SetRelay, SetDeadline, Acknowledge

\* Steps and stuttering keep the inductive invariant.
LEMMA StepKeeps == ThreadsInv /\ [Next]_vars => ThreadsInv'
<1> SUFFICES ASSUME ThreadsInv, [Next]_vars PROVE ThreadsInv'
  OBVIOUS
<1>1. CASE Next
  <2>1. RelayPart /\ SequenceInv /\ NumbersAreFresh
    BY DEF ThreadsInv, AgentInv, RelayPart
  <2>2. RelayPart'
    BY <1>1, <2>1, HandlerStep, MainStep, OutsideStep DEF Next
  <2>3. SequenceInv' /\ NumbersAreFresh'
    BY <1>1, <2>1, NumbersStep DEF RelayPart
  <2> QED BY <2>2, <2>3 DEF ThreadsInv, AgentInv, RelayPart
<1>2. CASE UNCHANGED vars
  BY <1>2 DEF ThreadsInv, AgentInv, TypeOK, RelayTypeOK, ThreadTypeOK, MessageTypeOK,
              NumberTypeOK, OffWithoutConnection, OnHasDeadline,
              OnlineIsExplained, NetInv, MainInv, SequenceInv, NumbersAreFresh, vars,
              relayVars, commandVars, brokerVars, telemetryVars, startVars
<1> QED BY <1>1, <1>2

\* The two threads of the simulated gateway (gateway_agent.py) keep the inductive
\* invariant, whatever commands come, whenever connections break and processes
\* are killed.
THEOREM ThreadsInvariant == Spec => []ThreadsInv
BY InitEstablishes, StepKeeps, PTL DEF Spec

\* AgentInv for every set of commands, timeout and number of faults: a relay that
\* is on has its connection and, unless the main loop erased it between its two
\* writes, its deadline; a retained "online" has its session.
THEOREM AgentAlwaysExplained == Spec => []AgentInv
<1>1. ThreadsInv => AgentInv
  BY DEF ThreadsInv
<1> QED BY <1>1, ThreadsInvariant, PTL

\* NumbersAreFresh for every period of at least two seconds: telemetry_sequence
\* started from the clock never repeats a number over restarts a second apart.
THEOREM NumbersAreAlwaysFresh == Spec => []NumbersAreFresh
<1>1. ThreadsInv => NumbersAreFresh
  BY DEF ThreadsInv
<1> QED BY <1>1, ThreadsInvariant, PTL
=============================================================================
