------------------------ MODULE TelemetryPath_proofs ------------------------
(***************************************************************************)
(* The sequence numbers of a device, by themselves, and the path from a     *)
(* number to a row, for any number of tasks, messages, repeated and         *)
(* reordered deliveries, lost connections, ends of the ingestor and resets  *)
(* of the gateway.  The lemmas about the allocator serve both: its steps    *)
(* are the gateway's steps on the path.                                     *)
(***************************************************************************)
EXTENDS TelemetryPath, SequenceTheorems, TLAPS

-----------------------------------------------------------------------------
(* The sequence allocator                                                   *)

\* Only the holder of the mutex is inside the critical section.
LEMMA OneInside ==
    ASSUME SequenceInv, NEW t \in Task, pc[t] # "idle"
    PROVE  /\ holder = t
           /\ \A u \in Task : u # t => pc[u] = "idle"
BY DEF SequenceInv, MutexInv

\* Every step of gateway_next_sequence, and every reset, keeps the invariant.
LEMMA SequenceStep ==
    ASSUME SequenceInv, Next PROVE SequenceInv'
<1> USE DEF memoryVars
<1>0. TypeOK /\ MutexInv /\ (readErrors = 0 => ReservationInv)
  BY DEF SequenceInv
<1>1. ASSUME NEW t \in Task, Lock(t) PROVE SequenceInv'
  <2>1. TypeOK'
    BY <1>0, <1>1 DEF TypeOK, Lock
  <2>2. MutexInv'
    BY <1>0, <1>1, TaskAssumption DEF TypeOK, MutexInv, Lock
  <2>3. (readErrors = 0 => ReservationInv)'
    BY <1>0, <1>1, TaskAssumption DEF TypeOK, MutexInv, ReservationInv, Lock
  <2> QED BY <2>1, <2>2, <2>3 DEF SequenceInv
<1>2. ASSUME NEW t \in Task, Reserve(t) PROVE SequenceInv'
  <2>0. \A u \in Task : u # t => pc[u] = "idle"
    BY <1>2, OneInside DEF Reserve
  <2>1. PICK readable \in BOOLEAN :
        /\ readErrors' = IF readable THEN readErrors ELSE readErrors + 1
        /\ sequenceNext' = (IF readable THEN highWater ELSE 0) + 1
        /\ sequenceEnd' = (IF readable THEN highWater ELSE 0) + Reservation
    BY <1>2 DEF Reserve
  <2>2. /\ sequenceNext' \in Nat /\ sequenceEnd' \in Nat /\ readErrors' \in Nat
        /\ sequenceNext' <= sequenceEnd' /\ sequenceNext' # 0
        /\ readErrors' = 0 =>
            readErrors = 0 /\ sequenceNext' = highWater + 1
                           /\ sequenceEnd' = highWater + Reservation
    BY <1>0, <2>1, ReservationAssumption DEF TypeOK
  <2>3. TypeOK'
    BY <1>0, <1>2, <2>2 DEF TypeOK, Reserve
  <2>4. MutexInv'
    BY <1>0, <1>2, <2>0, <2>2 DEF TypeOK, MutexInv, Reserve
  <2>5. pc'[t] = "save"
    BY <1>0, <1>2 DEF TypeOK, Reserve
  <2>6. (readErrors = 0 => ReservationInv)'
    BY <1>0, <1>2, <2>2, <2>5, ReservationAssumption
    DEF TypeOK, ReservationInv, Reserve
  <2> QED BY <2>3, <2>4, <2>6 DEF SequenceInv
<1>3. ASSUME NEW t \in Task, Save(t) PROVE SequenceInv'
  <2>0. \A u \in Task : u # t => pc[u] = "idle"
    BY <1>3, OneInside DEF Save
  <2>1. TypeOK'
    BY <1>0, <1>3 DEF TypeOK, Save
  <2>2. MutexInv'
    BY <1>0, <1>3, <2>0 DEF TypeOK, MutexInv, Save
  <2>3. \A u \in Task : pc'[u] # "save"
    BY <1>0, <1>3, <2>0 DEF TypeOK, Save
  <2>4. (readErrors = 0 => ReservationInv)'
    BY <1>0, <1>3, <2>3 DEF TypeOK, ReservationInv, Save
  <2> QED BY <2>1, <2>2, <2>4 DEF SequenceInv
<1>4. ASSUME NEW t \in Task, SaveFails(t) PROVE SequenceInv'
  <2>1. TypeOK'
    BY <1>0, <1>4 DEF TypeOK, SaveFails, Forget
  <2>2. MutexInv'
    BY <1>4, TaskAssumption DEF MutexInv, SaveFails, Forget
  <2>3. (readErrors = 0 => ReservationInv)'
    BY <1>0, <1>4 DEF TypeOK, ReservationInv, SaveFails, Forget
  <2> QED BY <2>1, <2>2, <2>3 DEF SequenceInv
<1>5. ASSUME NEW t \in Task, ReadNext(t) PROVE SequenceInv'
  <2>0. \A u \in Task : u # t => pc[u] = "idle"
    BY <1>5, OneInside DEF ReadNext
  <2>1. TypeOK'
    BY <1>0, <1>5 DEF TypeOK, ReadNext
  <2>2. sequenceNext # 0 /\ sequenceNext <= sequenceEnd
    BY <1>0, <1>5 DEF TypeOK, MutexInv, ReadNext, Exhausted
  <2>3. MutexInv'
    BY <1>0, <1>5, <2>0, <2>2 DEF TypeOK, MutexInv, ReadNext
  <2>4. \A u \in Task : pc[u] # "save" /\ pc'[u] # "save"
    BY <1>0, <1>5, <2>0 DEF TypeOK, ReadNext
  <2>5. (readErrors = 0 => ReservationInv)'
    BY <1>0, <1>5, <2>4 DEF TypeOK, ReservationInv, ReadNext
  <2> QED BY <2>1, <2>3, <2>5 DEF SequenceInv
<1>6. ASSUME NEW t \in Task, Advance(t) PROVE SequenceInv'
  <2>0. \A u \in Task : u # t => pc[u] = "idle"
    BY <1>6, OneInside DEF Advance
  <2>1. result[t] = sequenceNext /\ sequenceNext # 0 /\ sequenceNext <= sequenceEnd
    BY <1>0, <1>6 DEF MutexInv, Advance
  <2>2. TypeOK'
    BY <1>0, <1>6, <2>1 DEF TypeOK, Advance
  <2>3. \A u \in Task : pc'[u] = "idle"
    BY <1>0, <1>6, <2>0 DEF TypeOK, Advance
  <2>4. MutexInv'
    BY <1>6, <2>3, TaskAssumption DEF MutexInv, Advance
  <2>5. \A u \in Task : pc[u] # "save"
    BY <1>6, <2>0 DEF Advance
  <2>6. (readErrors = 0 => ReservationInv)'
    BY <1>0, <1>6, <2>1, <2>3, <2>5 DEF TypeOK, ReservationInv, Advance
  <2> QED BY <2>2, <2>4, <2>6 DEF SequenceInv
<1>7. CASE Reset
  <2>1. TypeOK'
    BY <1>0, <1>7 DEF TypeOK, Reset, Forget
  <2>2. MutexInv'
    BY <1>7, TaskAssumption DEF MutexInv, Reset, Forget
  <2>3. (readErrors = 0 => ReservationInv)'
    BY <1>0, <1>7 DEF TypeOK, ReservationInv, Reset, Forget
  <2> QED BY <2>1, <2>2, <2>3 DEF SequenceInv
<1> QED BY <1>1, <1>2, <1>3, <1>4, <1>5, <1>6, <1>7 DEF Next

\* So does a step of others.
LEMMA SequenceFrame ==
    ASSUME SequenceInv, UNCHANGED vars PROVE SequenceInv'
BY DEF SequenceInv, TypeOK, MutexInv, ReservationInv, vars, memoryVars

\* The number that is about to be returned is above all that were.
LEMMA NextIsAbove == SequenceInv => MonotonicAcrossResets
BY DEF SequenceInv, TypeOK, MutexInv, ReservationInv, MonotonicAcrossResets, Monotonic

LEMMA SequenceInitStep == Init => SequenceInv
BY TaskAssumption DEF Init, SequenceInv, TypeOK, MutexInv, ReservationInv

\* The inductive invariant: memory is covered by the reservation in flash.
THEOREM SequenceInvariant == Spec => []SequenceInv
<1>1. SequenceInv /\ [Next]_vars => SequenceInv'
  BY SequenceStep, SequenceFrame
<1> QED BY <1>1, SequenceInitStep, PTL DEF Spec

\* sequence_next never runs past the reserved block.
THEOREM SequenceTypeCorrect == Spec => []TypeOK
<1>1. SequenceInv => TypeOK
  BY DEF SequenceInv
<1> QED BY <1>1, SequenceInvariant, PTL

\* As long as "sequence_hi" can be read, every number gateway_next_sequence
\* returns is larger than all before it, across resets, for all tasks.
THEOREM SequenceIsMonotonic == Spec => []MonotonicAcrossResets
BY NextIsAbove, SequenceInvariant, PTL

-----------------------------------------------------------------------------
(* The path                                                                 *)

Message == [kind : Kind, number : Nat, form : Form]

-----------------------------------------------------------------------------
(* Frames                                                                   *)

\* What is published stays published.
LEMMA SentGrows ==
    ASSUME ShapeInv, NEW m \in Message, sent' = Append(sent, m)
    PROVE  /\ sent' \in Seq(Message)
           /\ DOMAIN sent' = DOMAIN sent \cup {Len(sent) + 1}
           /\ Len(sent) + 1 \notin DOMAIN sent
           /\ \A i \in DOMAIN sent : sent'[i] = sent[i]
           /\ sent'[Len(sent) + 1] = m
<1>1. sent \in Seq(Message)
  BY DEF ShapeInv, Message
<1>2. DOMAIN sent = 1..Len(sent) /\ Len(sent) \in Nat
  BY <1>1, LenProperties
<1>3. /\ sent' \in Seq(Message) /\ Len(sent') = Len(sent) + 1
      /\ \A i \in 1..Len(sent) : sent'[i] = sent[i]
      /\ sent'[Len(sent) + 1] = m
  BY <1>1, AppendProperties
<1>4. DOMAIN sent' = 1..(Len(sent) + 1)
  BY <1>3, LenProperties
<1> QED BY <1>2, <1>3, <1>4

\* The messages that have an index.
LEMMA Indices ==
    ASSUME ShapeInv, PathTypeOK
    PROVE  /\ 0 \notin DOMAIN sent
           /\ \A i \in DOMAIN sent : sent[i] \in Message /\ i \in Nat
           /\ Len(sent) \in Nat /\ \A i \in DOMAIN sent : i < Len(sent) + 1
<1>1. sent \in Seq(Message)
  BY DEF ShapeInv, Message
<1>2. DOMAIN sent = 1..Len(sent) /\ Len(sent) \in Nat
  BY <1>1, LenProperties
<1>3. \A i \in DOMAIN sent : sent[i] \in Message
  BY DEF PathTypeOK, Message
<1> QED BY <1>2, <1>3

\* A step that leaves the rows as they are.
LEMMA RowsKept ==
    ASSUME ShapeInv, PathTypeOK, RowsInv, AckedIsKept,
           \A i \in DOMAIN sent : sent'[i] = sent[i],
           UNCHANGED <<stored, errors>>,
           handled' => handled /\ current' = current,
           \A i \in acked' : i \in acked \/ (handled /\ i = current)
    PROVE  RowsInv' /\ AckedIsKept'
<1>1. stored \subseteq DOMAIN sent
  BY DEF PathTypeOK
<1>2. RowsInv'
  BY <1>1 DEF RowsInv
<1>3. AckedIsKept'
  BY DEF AckedIsKept, RowsInv
<1> QED BY <1>2, <1>3

\* The numbers are not touched by a step that publishes nothing.
LEMMA NumbersKept ==
    ASSUME NumbersInv, GatewayNeverCollides, sent' = sent, errors' = errors,
           issued \subseteq issued', readErrors' = 0 => readErrors = 0
    PROVE  NumbersInv' /\ GatewayNeverCollides'
BY DEF NumbersInv, GatewayNeverCollides

-----------------------------------------------------------------------------
(* The gateway                                                              *)

LEMMA GatewayStep ==
    ASSUME TraceInv, Gateway PROVE TraceInv'
<1> USE DEF brokerVars, processVars, rowVars
<1>0. /\ SequenceInv /\ PathTypeOK /\ ShapeInv /\ NumbersInv /\ RowsInv /\ AckedIsKept
      /\ GatewayNeverCollides /\ readErrors \in Nat /\ TypeOK
  BY DEF TraceInv, SequenceInv, TypeOK
<1>1. SequenceInv'
  <2>1. Next
    BY DEF Gateway, Publish, Next
  <2> QED BY <1>0, <2>1, SequenceStep
\* A step inside gateway_next_sequence.
<1>2. ASSUME UNCHANGED pathVars, issued' = issued, readErrors' = 0 => readErrors = 0
      PROVE  TraceInv'
  <2>1. NumbersInv' /\ GatewayNeverCollides'
    BY <1>0, <1>2, NumbersKept DEF pathVars
  <2>2. PathTypeOK' /\ ShapeInv'
    BY <1>0, <1>2 DEF pathVars, PathTypeOK, ShapeInv
  <2>3. RowsInv' /\ AckedIsKept'
    BY <1>0, <1>2, RowsKept DEF pathVars
  <2> QED BY <1>1, <2>1, <2>2, <2>3 DEF TraceInv
<1>3. ASSUME NEW t \in Task,
             Lock(t) \/ Reserve(t) \/ Save(t) \/ SaveFails(t) \/ ReadNext(t),
             UNCHANGED pathVars
      PROVE  TraceInv'
  <2>1. issued' = issued
    BY <1>3 DEF Lock, Reserve, Save, SaveFails, Forget, ReadNext
  <2>2. readErrors' = 0 => readErrors = 0
    BY <1>0, <1>3 DEF Lock, Reserve, Save, SaveFails, Forget, ReadNext
  <2> QED BY <1>2, <1>3, <2>1, <2>2
<1>4. ASSUME Reset, UNCHANGED pathVars PROVE TraceInv'
  BY <1>2, <1>4 DEF Reset, Forget
<1>5. ASSUME NEW t \in Task, Publish(t) PROVE TraceInv'
  <2> DEFINE m == [kind |-> IF t = HealthTask THEN "health" ELSE "telemetry",
                   number |-> result[t], form |-> "good"]
             k == Len(sent) + 1
  <2>1. /\ Advance(t) /\ sent' = Append(sent, m)
        /\ UNCHANGED <<brokerVars, processVars, acked, rowVars, age, trouble>>
    BY <1>5 DEF Publish
  <2>2. /\ pc[t] = "advance" /\ issued' = issued \cup {result[t]}
        /\ readErrors' = readErrors /\ result[t] \in Nat
    BY <1>0, <2>1 DEF Advance, TypeOK
  <2>3. m \in Message
    BY <2>2 DEF Message, Kind, Form
  <2>4. /\ sent' \in Seq(Message)
        /\ DOMAIN sent' = DOMAIN sent \cup {k} /\ k \notin DOMAIN sent
        /\ \A i \in DOMAIN sent : sent'[i] = sent[i]
        /\ sent'[k] = m
    BY <1>0, <2>1, <2>3, SentGrows
  <2> HIDE DEF k
  <2>5. ShapeInv'
    <3>1. DOMAIN sent \subseteq DOMAIN sent'
      BY <2>4
    <3>2. outbox \in Seq(DOMAIN sent')
      BY <1>0, <3>1, SeqMonotonic DEF ShapeInv
    <3> QED BY <2>1, <2>4, <3>2 DEF ShapeInv, Message
  <2>6. PathTypeOK'
    <3>1. \A i \in DOMAIN sent' : sent'[i] \in [kind : Kind, number : Nat, form : Form]
      BY <1>0, <2>3, <2>4 DEF PathTypeOK, Message
    <3>2. DOMAIN sent \subseteq DOMAIN sent'
      BY <2>4
    <3> QED BY <1>0, <2>1, <3>1, <3>2 DEF PathTypeOK
  <2>7. NumbersInv' /\ GatewayNeverCollides'
    <3> SUFFICES ASSUME readErrors = 0 PROVE NumbersInv' /\ GatewayNeverCollides'
      BY <2>2 DEF NumbersInv, GatewayNeverCollides
    <3>1. \A n \in issued : n < result[t]
      BY <1>0, <2>2, NextIsAbove DEF MonotonicAcrossResets, Monotonic
    <3>3. sent'[k].number = result[t]
      BY <2>4
    <3>4. \A i \in DOMAIN sent : sent[i].form = "good" => sent[i].number \in issued
      BY <1>0 DEF NumbersInv
    <3>5. ASSUME NEW i \in DOMAIN sent', sent'[i].form = "good"
          PROVE  sent'[i].number \in issued'
      BY <2>2, <2>4, <3>3, <3>4, <3>5
    <3>6. ASSUME NEW i \in DOMAIN sent', sent'[i].form = "good",
                 NEW j \in DOMAIN sent', sent'[j].form = "good", i < j
          PROVE  sent'[i].number < sent'[j].number
      <4>0. i # k
        <5>1. k \in Nat /\ \A x \in DOMAIN sent : x \in Nat /\ x < k
          BY <1>0, Indices DEF k
        <5> QED BY <2>4, <3>6, <5>1
      <4>1. i \in DOMAIN sent /\ sent'[i] = sent[i]
        BY <2>4, <4>0
      <4>2. CASE j = k
        BY <3>1, <3>3, <3>4, <3>6, <4>1, <4>2
      <4>3. CASE j # k
        <5>1. j \in DOMAIN sent /\ sent'[j] = sent[j]
          BY <2>4, <4>3
        <5> QED BY <1>0, <3>6, <4>1, <5>1 DEF GatewayNeverCollides
      <4> QED BY <4>2, <4>3
    <3>7. GatewayNeverCollides'
      BY <1>0, <2>1, <3>6 DEF GatewayNeverCollides
    <3> QED BY <3>5, <3>7 DEF NumbersInv
  <2>8. RowsInv' /\ AckedIsKept'
    BY <1>0, <2>1, <2>4, RowsKept
  <2> QED BY <1>1, <2>5, <2>6, <2>7, <2>8 DEF TraceInv
<1> QED BY <1>3, <1>4, <1>5 DEF Gateway

-----------------------------------------------------------------------------
(* Other publishers, the broker and the connection                          *)

LEMMA StrayStep ==
    ASSUME TraceInv, NEW form \in Form \ {"good"}, StrayPublishes(form) PROVE TraceInv'
<1> USE DEF brokerVars, processVars, rowVars
<1> DEFINE m == [kind |-> "telemetry", number |-> 1, form |-> form]
           k == Len(sent) + 1
<1>0. /\ SequenceInv /\ PathTypeOK /\ ShapeInv /\ NumbersInv /\ RowsInv /\ AckedIsKept
      /\ GatewayNeverCollides
  BY DEF TraceInv
<1>1. /\ sent' = Append(sent, m) /\ UNCHANGED vars
      /\ UNCHANGED <<brokerVars, processVars, acked, rowVars, age>>
      /\ readErrors' = readErrors /\ issued' = issued
  BY DEF StrayPublishes, vars
<1>2. m \in Message
  BY DEF Message, Kind
<1>3. /\ sent' \in Seq(Message)
      /\ DOMAIN sent' = DOMAIN sent \cup {k} /\ k \notin DOMAIN sent
      /\ \A i \in DOMAIN sent : sent'[i] = sent[i]
      /\ sent'[k] = m
  BY <1>0, <1>1, <1>2, SentGrows
<1> HIDE DEF k
<1>4. SequenceInv'
  BY <1>0, <1>1, SequenceFrame
<1>5. ShapeInv'
  <2>1. DOMAIN sent \subseteq DOMAIN sent'
    BY <1>3
  <2>2. outbox \in Seq(DOMAIN sent')
    BY <1>0, <2>1, SeqMonotonic DEF ShapeInv
  <2> QED BY <1>1, <1>3, <2>2 DEF ShapeInv, Message
<1>6. PathTypeOK'
  <2>1. \A i \in DOMAIN sent' : sent'[i] \in [kind : Kind, number : Nat, form : Form]
    BY <1>0, <1>2, <1>3 DEF PathTypeOK, Message
  <2>2. DOMAIN sent \subseteq DOMAIN sent'
    BY <1>3
  <2> QED BY <1>0, <1>1, <2>1, <2>2 DEF PathTypeOK
<1>7. NumbersInv' /\ GatewayNeverCollides'
  <2>1. \A i \in DOMAIN sent' :
            sent'[i].form = "good" => i \in DOMAIN sent /\ sent'[i] = sent[i]
    BY <1>3
  <2> QED BY <1>0, <1>1, <2>1 DEF NumbersInv, GatewayNeverCollides
<1>8. RowsInv' /\ AckedIsKept'
  BY <1>0, <1>1, <1>3, RowsKept
<1> QED BY <1>4, <1>5, <1>6, <1>7, <1>8 DEF TraceInv

\* Deliveries, connections and ends of the process touch no row.
LEMMA LinkStep ==
    ASSUME TraceInv,
           \/ Subscribed \/ ConnectionLost \/ \E i \in DOMAIN sent : Route(i)
           \/ Start \/ OnConnect \/ OnDisconnect \/ Take \/ Acknowledge \/ Die \/ Tick
           \/ UNCHANGED <<vars, pathVars>>
    PROVE  TraceInv'
<1> USE DEF brokerVars, processVars, rowVars
<1>0. /\ SequenceInv /\ PathTypeOK /\ ShapeInv /\ NumbersInv /\ RowsInv /\ AckedIsKept
      /\ GatewayNeverCollides
  BY DEF TraceInv
<1>1. /\ UNCHANGED vars /\ UNCHANGED <<sent, stored, errors>>
  BY DEF Subscribed, ConnectionLost, Route, Start, OnConnect, OnDisconnect, Take,
         Acknowledge, Die, Tick, pathVars
<1>2. SequenceInv' /\ NumbersInv' /\ GatewayNeverCollides'
  <2>1. issued' = issued /\ readErrors' = readErrors
    BY <1>1 DEF vars
  <2> QED BY <1>0, <1>1, <2>1, SequenceFrame, NumbersKept
<1>3. RowsInv' /\ AckedIsKept'
  <2>2. handled' => handled /\ current' = current
    BY <1>0 DEF Subscribed, ConnectionLost, Route, Start, OnConnect, OnDisconnect, Take,
           Acknowledge, Die, Tick, pathVars, PathTypeOK
  <2>3. \A i \in acked' : i \in acked \/ (handled /\ i = current)
    BY DEF Subscribed, ConnectionLost, Route, Start, OnConnect, OnDisconnect, Take,
           Acknowledge, Die, Tick, pathVars
  <2> QED BY <1>0, <1>1, <2>2, <2>3, RowsKept
<1>4. age' \in 0..(OfflineAfter + 1)
  <2>1. age \in 0..(OfflineAfter + 1) /\ OfflineAfter \in Nat
    BY <1>0, PathAssumption DEF PathTypeOK
  <2>2. age' = age \/ (age <= OfflineAfter /\ age' = age + 1)
    BY DEF Subscribed, ConnectionLost, Route, Start, OnConnect, OnDisconnect, Take,
         Acknowledge, Die, Tick, pathVars
  <2> QED BY <2>1, <2>2
<1>5. retained' \in DOMAIN sent \cup {0}
  BY <1>0 DEF PathTypeOK, Subscribed, ConnectionLost, Route, Start, OnConnect,
         OnDisconnect, Take, Acknowledge, Die, Tick, pathVars
<1>6. outbox' \in Seq(DOMAIN sent)
  <2>1. outbox \in Seq(DOMAIN sent)
    BY <1>0 DEF ShapeInv
  <2>2. CASE outbox' = outbox
    BY <2>1, <2>2
  <2>3. ASSUME NEW i \in DOMAIN sent, Route(i) PROVE outbox' \in Seq(DOMAIN sent)
    <3>1. outbox' = Append(outbox, i) \/ outbox' = outbox
      BY <2>3 DEF Route
    <3> QED BY <2>1, <2>3, <3>1, AppendProperties
  <2>4. CASE Take
    <3>1. outbox # << >> /\ outbox' = Tail(outbox)
      BY <2>4 DEF Take
    <3> QED BY <2>1, <3>1, HeadTailProperties
  <2>5. CASE Subscribed
    <3>1. outbox' = << >> \/ (retained \in DOMAIN sent /\ outbox' = <<retained>>)
      BY <1>0, <2>5 DEF Subscribed, PathTypeOK
    <3>2. << >> \in Seq(DOMAIN sent)
      BY EmptySeq
    <3>3. ASSUME retained \in DOMAIN sent PROVE <<retained>> \in Seq(DOMAIN sent)
      BY <3>3
    <3> QED BY <3>1, <3>2, <3>3
  <2>6. CASE ConnectionLost \/ Die
    BY <2>6, EmptySeq DEF ConnectionLost, Die
  <2> QED BY <2>2, <2>3, <2>4, <2>5, <2>6
          DEF Start, OnConnect, OnDisconnect, Acknowledge, Tick, pathVars
<1>7. ShapeInv'
  BY <1>0, <1>1, <1>6 DEF ShapeInv
<1>8. PathTypeOK'
  <2>1. \A n \in DOMAIN outbox' : outbox'[n] \in DOMAIN sent
    BY <1>6, LenProperties, ElementOfSeq
  <2>2. /\ link' \in {"down", "connecting", "subscribing", "listening", "lost"}
        /\ ready' \in BOOLEAN /\ handled' \in BOOLEAN
    BY <1>0 DEF PathTypeOK, Subscribed, ConnectionLost, Route, Start, OnConnect,
           OnDisconnect, Take, Acknowledge, Die, Tick, pathVars
  <2>3. current' \in DOMAIN sent \cup {0}
    <3>1. CASE Take
      <4>1. current' = Head(outbox) /\ outbox # << >> /\ outbox \in Seq(DOMAIN sent)
        BY <1>0, <3>1 DEF Take, ShapeInv
      <4> QED BY <4>1, HeadTailProperties
    <3>2. CASE ~Take
      BY <1>0, <3>2 DEF PathTypeOK, Subscribed, ConnectionLost, Route, Start,
             OnConnect, OnDisconnect, Acknowledge, Die, Tick, pathVars
    <3> QED BY <3>1, <3>2
  <2>4. current' # 0 => link' \in {"listening", "lost"}
    BY <1>0 DEF PathTypeOK, Subscribed, ConnectionLost, Route, Start, OnConnect,
           OnDisconnect, Take, Acknowledge, Die, Tick, pathVars
  <2>5. handled' => current' # 0
    BY <1>0 DEF PathTypeOK, Subscribed, ConnectionLost, Route, Start, OnConnect,
           OnDisconnect, Take, Acknowledge, Die, Tick, pathVars
  <2>6. acked' \subseteq DOMAIN sent
    BY <1>0 DEF PathTypeOK, Subscribed, ConnectionLost, Route, Start, OnConnect,
           OnDisconnect, Take, Acknowledge, Die, Tick, pathVars
  <2> QED BY <1>0, <1>1, <1>4, <1>5, <2>1, <2>2, <2>3, <2>4, <2>5, <2>6 DEF PathTypeOK
<1> QED BY <1>2, <1>3, <1>7, <1>8 DEF TraceInv

-----------------------------------------------------------------------------
(* handle_message                                                           *)

\* A message of the gateway meets no other row with its number.
LEMMA NoCollision ==
    ASSUME TraceInv, readErrors = 0, NEW i \in DOMAIN sent,
           sent[i].form = "good", i \notin stored
    PROVE  ~Collides(i)
<1> SUFFICES ASSUME NEW j \in stored, sent[j].number = sent[i].number
             PROVE  FALSE
  BY DEF Collides
<1>1. j \in DOMAIN sent /\ j # i /\ sent[j].form = "good"
  BY DEF TraceInv, PathTypeOK, RowsInv
<1>2. i \in Nat /\ j \in Nat /\ sent[i].number \in Nat
  BY <1>1, Indices DEF TraceInv, Message
<1>3. i < j \/ j < i
  BY <1>1, <1>2
<1>4. sent[i].number < sent[j].number \/ sent[j].number < sent[i].number
  BY <1>1, <1>3 DEF TraceInv, GatewayNeverCollides
<1> QED BY <1>2, <1>4

LEMMA HandleStep ==
    ASSUME TraceInv, Handle PROVE TraceInv'
<1> USE DEF brokerVars
<1> DEFINE outcome == Outcome(current)
<1>0. /\ SequenceInv /\ PathTypeOK /\ ShapeInv /\ NumbersInv /\ RowsInv /\ AckedIsKept
      /\ GatewayNeverCollides
  BY DEF TraceInv
<1>1. /\ current # 0 /\ ~handled /\ handled' = TRUE
      /\ stored' = IF outcome = "inserted" THEN stored \cup {current} ELSE stored
      /\ errors' = RecordError(current, outcome)
      /\ age' = Seen(outcome)
      /\ UNCHANGED <<vars, sent, retained, outbox, link, ready, current, acked>>
  BY DEF Handle
<1>2. current \in DOMAIN sent /\ sent[current].form \in Form
  <2>1. current \in DOMAIN sent
    BY <1>0, <1>1 DEF PathTypeOK
  <2> QED BY <1>0, <2>1, Indices DEF Message
<1>3. age' \in 0..(OfflineAfter + 1)
  BY <1>0, <1>1, PathAssumption DEF PathTypeOK, Seen
<1>4. SequenceInv' /\ readErrors' = readErrors /\ issued' = issued
  <2>1. issued' = issued /\ readErrors' = readErrors
    BY <1>1 DEF vars
  <2> QED BY <1>0, <1>1, <2>1, SequenceFrame
<1>5. /\ outcome = "inserted" => sent[current].form = "good" /\ current \notin stored
      /\ outcome = "duplicate" => current \in stored
      /\ outcome = "SEQUENCE_COLLISION" =>
            sent[current].form = "good" /\ current \notin stored /\ Collides(current)
  BY <1>2 DEF Outcome, Form
<1> HIDE DEF outcome
<1>6. ShapeInv' /\ NumbersInv'
  BY <1>0, <1>1, <1>4 DEF ShapeInv, NumbersInv
\* The row and the device, in one transaction, or one row in error_logs.
<1>7. /\ stored \subseteq stored' /\ stored' \subseteq stored \cup {current}
      /\ errors \subseteq errors'
      /\ \A e \in errors' : \/ e \in errors
                            \/ e = [message |-> current, code |-> outcome]
      /\ current \in stored' \/ [message |-> current, code |-> outcome] \in errors'
      /\ current \in stored' => current \in stored \/ sent[current].form = "good"
  <2>1. CASE outcome = "inserted"
    BY <1>1, <1>5, <2>1 DEF RecordError
  <2>2. CASE outcome # "inserted"
    BY <1>1, <1>5, <2>2 DEF RecordError
  <2> QED BY <2>1, <2>2
<1>8. PathTypeOK'
  BY <1>0, <1>1, <1>2, <1>3, <1>7 DEF PathTypeOK
<1>10. RowsInv'
  <2>1. \A i \in stored' : sent[i].form = "good"
    BY <1>0, <1>7 DEF RowsInv
  <2>2. current \in stored' \/ \E e \in errors' : e.message = current
    <3>1. CASE [message |-> current, code |-> outcome] \in errors'
      BY <3>1
    <3> QED BY <1>7, <3>1
  <2> QED BY <1>1, <2>1, <2>2 DEF RowsInv
<1>11. AckedIsKept'
  BY <1>0, <1>1, <1>7 DEF AckedIsKept
<1>12. GatewayNeverCollides'
  <2> SUFFICES ASSUME readErrors = 0 PROVE GatewayNeverCollides'
    BY <1>4 DEF GatewayNeverCollides
  <2>1. outcome # "SEQUENCE_COLLISION"
    BY <1>2, <1>5, NoCollision
  <2>2. \A e \in errors' : e.code # "SEQUENCE_COLLISION"
    BY <1>0, <1>7, <2>1 DEF GatewayNeverCollides
  <2> QED BY <1>0, <1>1, <2>2 DEF GatewayNeverCollides
<1> QED BY <1>4, <1>6, <1>8, <1>10, <1>11, <1>12 DEF TraceInv

LEMMA PathInitStep == PathInit => TraceInv
<1> SUFFICES ASSUME PathInit PROVE TraceInv
  OBVIOUS
<1>1. SequenceInv
  BY SequenceInitStep DEF PathInit
<1>2. ShapeInv
  BY EmptySeq DEF PathInit, ShapeInv
<1>3. PathTypeOK
  <2>1. DOMAIN sent = {} /\ DOMAIN outbox = {}
    BY DEF PathInit
  <2>2. age \in 0..(OfflineAfter + 1)
    BY PathAssumption DEF PathInit
  <2> QED BY <2>1, <2>2 DEF PathInit, PathTypeOK
<1>4. NumbersInv /\ RowsInv /\ AckedIsKept /\ GatewayNeverCollides
  BY DEF PathInit, NumbersInv, RowsInv, AckedIsKept, GatewayNeverCollides
<1> QED BY <1>1, <1>2, <1>3, <1>4 DEF TraceInv

-----------------------------------------------------------------------------
(* Theorems                                                                 *)

\* Every message that is stored, refused or acknowledged can be traced: the
\* inductive invariant holds in every reachable state.
THEOREM TraceInvariant == PathSpec => []TraceInv
<1>1. TraceInv /\ [PathNext]_<<vars, pathVars>> => TraceInv'
  BY GatewayStep, StrayStep, LinkStep, HandleStep DEF PathNext, Broker, Client
<1> QED BY <1>1, PathInitStep, PTL DEF PathSpec

\* The ingestor acknowledges no message that left neither a row nor an error,
\* whatever connections are lost and whenever its process ends.
THEOREM PathIsTraced == PathSpec => []PathInv
<1>1. TraceInv => PathInv
  BY DEF TraceInv, SequenceInv, PathInv
<1> QED BY <1>1, TraceInvariant, PTL

\* As long as the gateway reads its reservation, the numbers of its messages grow
\* in the order in which its tasks draw them, across blocks and resets, and the
\* ingestor refuses none of them as a collision.
THEOREM NoMessageOfGatewayCollides == PathSpec => []GatewayNeverCollides
<1>1. TraceInv => GatewayNeverCollides
  BY DEF TraceInv
<1> QED BY <1>1, TraceInvariant, PTL
=============================================================================
