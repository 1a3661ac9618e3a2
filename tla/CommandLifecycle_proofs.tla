---------------------- MODULE CommandLifecycle_proofs ----------------------
(***************************************************************************)
(* What the record of a command may say, for any number of commands, of    *)
(* repeated deliveries and of acknowledgements on their way.                *)
(***************************************************************************)
EXTENDS CommandLifecycle, SequenceTheorems, TLAPS

\* The acknowledgements that are on their way after one of them was taken or
\* another one was appended (topic command-acks).
LEMMA AckQueue ==
    ASSUME NEW S, NEW s \in Seq(S), NEW x \in S
    PROVE  /\ Append(s, x) \in Seq(S)
           /\ Len(Append(s, x)) = Len(s) + 1
           /\ \A i \in 1..Len(Append(s, x)) :
                \/ i \in 1..Len(s) /\ Append(s, x)[i] = s[i]
                \/ Append(s, x)[i] = x
           /\ s # << >> =>
                /\ Head(s) = s[1] /\ Head(s) \in S /\ 1 \in 1..Len(s)
                /\ Tail(s) \in Seq(S)
                /\ \A i \in 1..Len(Tail(s)) :
                    i + 1 \in 1..Len(s) /\ Tail(s)[i] = s[i + 1]
OBVIOUS

\* Every acknowledgement on its way has the type of one.
LEMMA AckElement ==
    ASSUME NEW S, NEW s \in Seq(S)
    PROVE  /\ \A i \in 1..Len(s) : s[i] \in S
           /\ s # << >> => Head(s) \in S /\ Head(s) = s[1] /\ 1 \in 1..Len(s)
OBVIOUS

\* What issue_relay_command does keeps the invariant.
LEMMA ApiStep ==
    ASSUME LifecycleInv, NEW c \in Command,
           \/ Issue(c) \/ BrokerPasses(c) \/ PublishReturns(c)
           \/ PublishFails(c) \/ ApiStops(c) \/ Expire(c) \/ CommandLost(c)
    PROVE  LifecycleInv'
<1>0. TypeOK /\ DeliveryInv /\ OnceInv /\ AnswerKeptOrMarked
  BY DEF LifecycleInv
<1> USE DEF Answer, Status, Refused
<1>1. UNCHANGED <<acks, ingest, applied, heard>>
  BY DEF Issue, BrokerPasses, PublishReturns, PublishFails, ApiStops, Expire, CommandLost
<1>2. TypeOK'
  <2> DEFINE Row == [status : Status,
                     code : {"none", "BROKER_PUBLISH_FAILED", "device"},
                     acked : BOOLEAN]
  <2>0. row \in [Command -> Row] /\ row[c] \in Row
    BY <1>0 DEF TypeOK
  <2>1. CASE Issue(c)
    <3> DEFINE new == [NoRow EXCEPT !.status = "queued"]
    <3>1. new \in Row
      BY <2>0 DEF NoRow
    <3>2. row' \in [Command -> Row]
      BY <2>0, <2>1, <3>1 DEF Issue
    <3> QED BY <1>0, <2>1, <3>2 DEF TypeOK, Issue
  <2>2. CASE BrokerPasses(c)
    BY <1>0, <2>2 DEF TypeOK, BrokerPasses
  <2>3. CASE PublishReturns(c)
    <3> DEFINE new == [row[c] EXCEPT !.status = "published"]
    <3>1. new \in Row
      BY <2>0
    <3>2. row' \in [Command -> Row]
      BY <2>0, <2>3, <3>1 DEF PublishReturns
    <3> QED BY <1>0, <2>3, <3>2 DEF TypeOK, PublishReturns
  <2>4. CASE PublishFails(c)
    <3> DEFINE new == [row[c] EXCEPT !.status = "failed", !.code = "BROKER_PUBLISH_FAILED"]
    <3>1. new \in Row
      BY <2>0
    <3>2. row' \in [Command -> Row]
      BY <2>0, <2>4, <3>1 DEF PublishFails
    <3> QED BY <1>0, <2>4, <3>2 DEF TypeOK, PublishFails
  <2>5. CASE ApiStops(c) \/ Expire(c)
    BY <1>0, <2>5 DEF TypeOK, ApiStops, Expire
  <2>6. CASE CommandLost(c)
    BY <1>0, <2>6 DEF TypeOK, CommandLost
  <2> QED BY <2>1, <2>2, <2>3, <2>4, <2>5, <2>6
<1>3. \A i \in 1..Len(acks) : acks[i].command \in Command
  <2>1. acks \in Seq([command : Command, status : Answer])
    BY <1>0 DEF TypeOK
  <2>2. \A i \in 1..Len(acks) : acks[i] \in [command : Command, status : Answer]
    BY <2>1, AckElement
  <2> QED BY <2>2
<1>4. ingest # NoAck => ingest.command \in Command
  BY <1>0 DEF TypeOK
<1>5. DeliveryInv'
  <2>1. CASE Issue(c)
    BY <1>0, <1>1, <1>3, <1>4, <2>1 DEF TypeOK, DeliveryInv, Issue
  <2>2. CASE BrokerPasses(c)
    BY <1>0, <1>1, <1>3, <1>4, <2>2 DEF TypeOK, DeliveryInv, BrokerPasses
  <2>3. CASE PublishReturns(c)
    BY <1>0, <1>1, <1>3, <1>4, <2>3 DEF TypeOK, DeliveryInv, PublishReturns
  <2>4. CASE PublishFails(c)
    BY <1>0, <1>1, <1>3, <1>4, <2>4 DEF TypeOK, DeliveryInv, PublishFails
  <2>5. CASE ApiStops(c) \/ Expire(c)
    BY <1>0, <1>1, <1>3, <1>4, <2>5 DEF TypeOK, DeliveryInv, ApiStops, Expire
  <2>6. CASE CommandLost(c)
    BY <1>0, <1>1, <1>3, <1>4, <2>6 DEF TypeOK, DeliveryInv, CommandLost
  <2> QED BY <2>1, <2>2, <2>3, <2>4, <2>5, <2>6
<1>6. OnceInv'
  <2> USE DEF OnceInv, Unanswered
  <2>1. CASE Issue(c)
    BY <1>0, <1>1, <2>1 DEF TypeOK, Issue
  <2>2. CASE BrokerPasses(c)
    <3>1. \A d \in Command \ {c} : delivered'[d] = delivered[d] /\ inTransit'[d] = inTransit[d]
      BY <1>0, <2>2 DEF TypeOK, BrokerPasses
    <3>2. /\ delivered[c] \in Nat /\ inTransit[c] \in Nat
          /\ delivered'[c] = delivered[c] + 1 /\ inTransit'[c] = inTransit[c] + 1
      BY <1>0, <2>2 DEF TypeOK, BrokerPasses
    <3>3. row' = row
      BY <2>2 DEF BrokerPasses
    <3>4. delivered'[c] <= 1 => delivered[c] = 0
      BY <3>2
    <3> QED BY <1>0, <1>1, <3>1, <3>2, <3>3, <3>4
  <2>3. CASE PublishReturns(c)
    BY <1>0, <1>1, <2>3 DEF TypeOK, PublishReturns
  <2>4. CASE PublishFails(c)
    BY <1>0, <1>1, <2>4 DEF TypeOK, PublishFails
  <2>5. CASE ApiStops(c) \/ Expire(c)
    BY <1>0, <1>1, <2>5 DEF TypeOK, ApiStops, Expire
  <2>6. CASE CommandLost(c)
    BY <1>0, <1>1, <2>6 DEF TypeOK, CommandLost
  <2> QED BY <2>1, <2>2, <2>3, <2>4, <2>5, <2>6
<1>7. AnswerKeptOrMarked'
  <2> USE DEF AnswerKeptOrMarked, ApiWord
  <2>1. CASE Issue(c)
    <3>1. heard[c] = "none"
      BY <1>0, <2>1 DEF DeliveryInv, Issue
    <3> QED BY <1>0, <1>1, <2>1, <3>1 DEF TypeOK, Issue, NoRow
  <2>2. CASE PublishReturns(c)
    BY <1>0, <1>1, <2>2 DEF TypeOK, PublishReturns
  <2>3. CASE PublishFails(c)
    BY <1>0, <1>1, <2>3 DEF TypeOK, PublishFails
  <2>4. CASE ApiStops(c)
    BY <1>0, <1>1, <2>4 DEF TypeOK, ApiStops
  <2>5. CASE BrokerPasses(c) \/ Expire(c) \/ CommandLost(c)
    BY <1>0, <1>1, <2>5 DEF BrokerPasses, Expire, CommandLost
  <2> QED BY <2>1, <2>2, <2>3, <2>4, <2>5
<1> QED BY <1>2, <1>5, <1>6, <1>7 DEF LifecycleInv

\* An answer of command_task keeps the invariant.
LEMMA GatewayStep ==
    ASSUME LifecycleInv, NEW c \in Command, GatewayAnswers(c)
    PROVE  LifecycleInv'
<1>0. TypeOK /\ DeliveryInv /\ OnceInv /\ AnswerKeptOrMarked
  BY DEF LifecycleInv
<1>1. PICK verdict \in Answer :
        /\ c \in expired => verdict # "completed"
        /\ applied' = IF verdict = "completed" THEN applied \cup {c} ELSE applied
        /\ acks' = Append(acks, [command |-> c, status |-> verdict])
  BY DEF GatewayAnswers, Answer
<1>2. /\ UNCHANGED <<row, api, delivered, expired, ingest, heard>>
      /\ inTransit[c] > 0
      /\ inTransit' = [inTransit EXCEPT ![c] = @ - 1]
  BY DEF GatewayAnswers
<1>3. [command |-> c, status |-> verdict] \in [command : Command, status : Answer]
  OBVIOUS
<1>4. /\ acks' \in Seq([command : Command, status : Answer])
      /\ \A i \in 1..Len(acks') :
            \/ i \in 1..Len(acks) /\ acks'[i] = acks[i]
            \/ acks'[i] = [command |-> c, status |-> verdict]
  BY <1>0, <1>1, <1>3, AckQueue DEF TypeOK
<1>5. TypeOK'
  BY <1>0, <1>1, <1>2, <1>4 DEF TypeOK
<1>6. DeliveryInv'
  BY <1>0, <1>1, <1>2, <1>4 DEF TypeOK, DeliveryInv
<1>7. OnceInv'
  <2> SUFFICES ASSUME NEW d \in Command PROVE OnceInv!(d)'
    BY DEF OnceInv
  <2>1. inTransit[d] <= delivered[d] /\ OnceInv!(d)
    BY <1>0 DEF OnceInv
  <2>2. CASE d = c
    <3>1. delivered[d] <= 1 => delivered[d] = 1 /\ inTransit[d] = 1 /\ inTransit'[d] = 0
      BY <1>0, <1>2, <2>1, <2>2 DEF TypeOK
    <3>2. inTransit'[d] <= delivered'[d]
      BY <1>0, <1>2, <2>1, <2>2 DEF TypeOK
    <3>3. delivered[d] <= 1 => Unanswered(d)
      BY <2>1, <3>1
    <3>4. delivered[d] <= 1 /\ d \in applied' => verdict = "completed"
      BY <1>1, <3>3 DEF Unanswered
    <3> QED
      BY <1>0, <1>1, <1>2, <1>4, <2>2, <3>1, <3>2, <3>3, <3>4
      DEF Unanswered, Refused, TypeOK
  <2>3. CASE d # c
    BY <1>0, <1>1, <1>2, <1>4, <2>1, <2>3 DEF Unanswered, TypeOK
  <2> QED BY <2>2, <2>3
<1>8. AnswerKeptOrMarked'
  BY <1>0, <1>2 DEF AnswerKeptOrMarked
<1> QED BY <1>5, <1>6, <1>7, <1>8 DEF LifecycleInv

\* Losing or repeating an acknowledgement keeps the invariant.
LEMMA AckStep ==
    ASSUME LifecycleInv, AckDuplicated \/ AckLost
    PROVE  LifecycleInv'
<1>0. TypeOK /\ DeliveryInv /\ OnceInv /\ AnswerKeptOrMarked
  BY DEF LifecycleInv
<1> DEFINE Ack == [command : Command, status : Answer]
<1>1. acks \in Seq(Ack) /\ acks # << >>
  BY <1>0 DEF TypeOK, AckDuplicated, AckLost
<1>2. Head(acks) \in Ack /\ Head(acks) = acks[1] /\ 1 \in 1..Len(acks)
  BY <1>1, AckElement
<1>3. /\ acks' \in Seq(Ack)
      /\ \A i \in 1..Len(acks') : \E j \in 1..Len(acks) : acks'[i] = acks[j]
  <2>1. CASE AckDuplicated
    BY <1>1, <1>2, <2>1, AckQueue DEF AckDuplicated
  <2>2. CASE AckLost
    BY <1>1, <1>2, <2>2, AckQueue DEF AckLost
  <2> QED BY <2>1, <2>2
<1>4. UNCHANGED <<row, api, inTransit, delivered, expired, ingest, applied, heard>>
  BY DEF AckDuplicated, AckLost
<1>5. TypeOK'
  BY <1>0, <1>3, <1>4 DEF TypeOK
<1>6. DeliveryInv'
  BY <1>0, <1>3, <1>4 DEF DeliveryInv
<1>7. OnceInv'
  BY <1>0, <1>3, <1>4 DEF OnceInv, Unanswered
<1>8. AnswerKeptOrMarked'
  BY <1>0, <1>4 DEF AnswerKeptOrMarked
<1> QED BY <1>5, <1>6, <1>7, <1>8 DEF LifecycleInv

\* persist_command_ack, from its read to its commit, keeps the invariant.
LEMMA IngestStep ==
    ASSUME LifecycleInv, IngestRead \/ IngestCommit \/ IngestFails
    PROVE  LifecycleInv'
<1>0. TypeOK /\ DeliveryInv /\ OnceInv /\ AnswerKeptOrMarked
  BY DEF LifecycleInv
<1> DEFINE Ack == [command : Command, status : Answer]
           Row == [status : Status,
                   code : {"none", "BROKER_PUBLISH_FAILED", "device"},
                   acked : BOOLEAN]
<1>1. CASE IngestRead
  <2>1. acks \in Seq(Ack) /\ acks # << >>
    BY <1>0, <1>1 DEF TypeOK, IngestRead
  <2>2. Head(acks) \in Ack /\ Head(acks) = acks[1] /\ 1 \in 1..Len(acks)
    BY <2>1, AckElement
  <2>3. /\ acks' = Tail(acks)
        /\ UNCHANGED <<row, api, inTransit, delivered, expired, applied, heard>>
    BY <1>1 DEF IngestRead
  <2>4. /\ acks' \in Seq(Ack)
        /\ \A i \in 1..Len(acks') : \E j \in 1..Len(acks) : acks'[i] = acks[j]
    BY <2>1, <2>2, <2>3, AckQueue
  <2> DEFINE ack == Head(acks)
             read == row[ack.command]
  <2>5. ack.command \in Command /\ ack.status \in Answer
    BY <2>2
  <2>6. read \in Row
    BY <1>0, <2>5 DEF TypeOK
  <2>7. \/ ingest' = NoAck
        \/ /\ read.status # "none"
           /\ ~(read.acked /\ read.status = ack.status)
           /\ ingest' = [command |-> ack.command, status |-> ack.status,
                         seen |-> read.status]
    BY <1>1 DEF IngestRead
  <2>8. TypeOK'
    BY <1>0, <2>3, <2>4, <2>5, <2>6, <2>7 DEF TypeOK
  <2>9. DeliveryInv'
    <3>1. ingest' # NoAck => /\ read.status # "none"
                             /\ ~(read.acked /\ read.status = ack.status)
                             /\ ingest'.command = ack.command
                             /\ ingest'.status = ack.status
                             /\ ingest'.seen = read.status
      BY <2>7
    <3>2. DeliveryInv!3'
      BY <1>0, <2>2, <2>3, <2>5, <2>6, <3>1 DEF DeliveryInv
    <3>3. DeliveryInv!1' /\ DeliveryInv!2'
      BY <1>0, <2>3, <2>4 DEF DeliveryInv
    <3> QED BY <3>2, <3>3 DEF DeliveryInv
  <2>10. OnceInv'
    <3>1. \/ ingest'.command = NoCommand
          \/ ingest'.command = ack.command /\ ingest'.status = ack.status
      <4>1. CASE ingest' = NoAck
        BY <4>1 DEF NoAck
      <4>2. CASE ingest' # NoAck
        BY <2>7, <4>2
      <4> QED BY <4>1, <4>2
    <3> QED BY <1>0, <2>2, <2>3, <2>4, <3>1, CommandAssumption DEF OnceInv, Unanswered
  <2>11. AnswerKeptOrMarked'
    BY <1>0, <2>3 DEF AnswerKeptOrMarked
  <2> QED BY <2>8, <2>9, <2>10, <2>11 DEF LifecycleInv
<1>2. CASE IngestCommit
  <2> DEFINE d == ingest.command
             new == [status |-> IF ingest.seen = ingest.status THEN row[d].status
                                                               ELSE ingest.status,
                     code |-> "device", acked |-> TRUE]
  <2>1. /\ ingest # NoAck
        /\ row' = [row EXCEPT ![d] = new]
        /\ ingest' = NoAck
        /\ heard' = [heard EXCEPT ![d] = ingest.status]
        /\ UNCHANGED <<api, inTransit, delivered, expired, acks, applied>>
    BY <1>2 DEF IngestCommit
  <2>2. /\ d \in Command /\ ingest.status \in Answer
        /\ row[d] \in Row /\ row \in [Command -> Row]
    BY <1>0, <2>1 DEF TypeOK
  <2>3. new.status = ingest.status /\ new.status \in Answer /\ new.acked = TRUE
    BY <1>0, <2>1, <2>2 DEF DeliveryInv
  <2>4. row' \in [Command -> Row] /\ row'[d] = new
        /\ \A c \in Command \ {d} : row'[c] = row[c]
    BY <2>1, <2>2, <2>3 DEF Status
  <2>5. TypeOK'
    BY <1>0, <2>1, <2>4 DEF TypeOK
  <2>6. DeliveryInv'
    BY <1>0, <2>1, <2>2, <2>3, <2>4 DEF DeliveryInv, Answer
  <2>7. OnceInv'
    BY <1>0, <2>1, <2>2, <2>4, CommandAssumption DEF OnceInv, Unanswered, NoAck
  <2>8. AnswerKeptOrMarked'
    <3>1. heard'[d] = ingest.status /\ ingest.status # "none"
          /\ \A c \in Command \ {d} : heard'[c] = heard[c]
      BY <1>0, <2>1, <2>2 DEF TypeOK, Answer
    <3> QED BY <1>0, <2>1, <2>3, <2>4, <3>1 DEF AnswerKeptOrMarked
  <2> QED BY <2>5, <2>6, <2>7, <2>8 DEF LifecycleInv
<1>3. CASE IngestFails
  <2>1. /\ ingest' = NoAck
        /\ UNCHANGED <<row, api, inTransit, delivered, expired, acks, applied, heard>>
    BY <1>3 DEF IngestFails
  <2>2. TypeOK' /\ DeliveryInv' /\ AnswerKeptOrMarked'
    BY <1>0, <2>1 DEF TypeOK, DeliveryInv, AnswerKeptOrMarked
  <2>3. OnceInv'
    BY <1>0, <2>1, CommandAssumption DEF OnceInv, Unanswered, NoAck
  <2> QED BY <2>2, <2>3 DEF LifecycleInv
<1> QED BY <1>1, <1>2, <1>3

-----------------------------------------------------------------------------
\* The strengthened invariant of the command's life holds throughout.
THEOREM LifecycleInvariant == Spec => []LifecycleInv
<1>1. Init => LifecycleInv
  <2> SUFFICES ASSUME Init PROVE LifecycleInv
    OBVIOUS
  <2>1. TypeOK
    BY DEF Init, TypeOK, NoRow, Status
  <2>2. DeliveryInv
    BY DEF Init, DeliveryInv, NoRow, Answer
  <2>3. OnceInv
    <3> SUFFICES ASSUME NEW c \in Command PROVE OnceInv!(c)
      BY DEF OnceInv
    <3>1. row[c].status = "none" /\ Len(acks) = 0 /\ c \notin applied
      BY DEF Init, NoRow
    <3>2. ingest.command # c
      BY CommandAssumption DEF Init, NoAck
    <3>3. inTransit[c] = 0 /\ delivered[c] = 0
      BY DEF Init
    <3> QED BY <3>1, <3>2, <3>3 DEF Unanswered, Refused
  <2>4. AnswerKeptOrMarked
    BY DEF Init, NoRow, AnswerKeptOrMarked
  <2> QED BY <2>1, <2>2, <2>3, <2>4 DEF LifecycleInv
<1>2. LifecycleInv /\ [Next]_vars => LifecycleInv'
  <2> SUFFICES ASSUME LifecycleInv, [Next]_vars PROVE LifecycleInv'
    OBVIOUS
  <2>1. CASE Next
    BY <2>1, ApiStep, GatewayStep, AckStep, IngestStep DEF Next
  <2>2. CASE UNCHANGED vars
    BY <2>2 DEF vars, LifecycleInv, TypeOK, DeliveryInv, OnceInv, Unanswered,
                AnswerKeptOrMarked
  <2> QED BY <2>1, <2>2
<1> QED BY <1>1, <1>2, PTL DEF Spec

\* An acknowledgement of the gateway always finds the row of its command.
THEOREM AckAlwaysFindsCommand == Spec => []AckFindsCommand
<1>1. LifecycleInv => AckFindsCommand
  <2> SUFFICES ASSUME LifecycleInv, NEW i \in 1..Len(acks)
               PROVE  row[acks[i].command].status # "none"
    BY DEF AckFindsCommand
  <2>1. acks[i] \in [command : Command, status : Answer]
    BY AckElement DEF LifecycleInv, TypeOK
  <2> QED BY <2>1 DEF LifecycleInv, DeliveryInv
<1> QED BY <1>1, LifecycleInvariant, PTL

\* A record that says "completed" is of a command that switched the relay.
THEOREM CompletedAlwaysMeansApplied == Spec => []CompletedMeansApplied
<1>1. LifecycleInv => CompletedMeansApplied
  BY DEF LifecycleInv, DeliveryInv, CompletedMeansApplied
<1> QED BY <1>1, LifecycleInvariant, PTL

\* A record that says "rejected" or "expired" is of a command that did not
\* switch the relay, unless the broker passed it on twice.
THEOREM RefusedNeverApplied == Spec => []RefusedMeansNotApplied
<1>1. LifecycleInv => RefusedMeansNotApplied
  BY DEF LifecycleInv, OnceInv, Refused, RefusedMeansNotApplied
<1> QED BY <1>1, LifecycleInvariant, PTL

\* The row of a command is acknowledged exactly if an answer of the gateway was
\* ingested, and says the last one, or is marked by the API's second commit.
THEOREM AnswerAlwaysKeptOrMarked == Spec => []AnswerKeptOrMarked
<1>1. LifecycleInv => AnswerKeptOrMarked
  BY DEF LifecycleInv
<1> QED BY <1>1, LifecycleInvariant, PTL
=============================================================================
