------------------------ MODULE AnomalyWorker_proofs ------------------------
(***************************************************************************)
(* The anomaly worker.  Rows, files and the worker of one device's models,  *)
(* for any number of trainings at once, versions, damaged files, upgrades   *)
(* and days, and any minimum of feature rows; then the scoring of its       *)
(* telemetry, for any number of rows, any batch, any context of at least a  *)
(* window, and any sensor rules.                                            *)
(***************************************************************************)
EXTENDS ModelStore, Scoring, FiniteSetTheorems, WellFoundedInduction, TLAPS

-----------------------------------------------------------------------------
(* The gates of train_model and load_bundle                                 *)

LEMMA MaxOfTwo ==
    ASSUME NEW a \in Nat, NEW b \in Nat
    PROVE  Max({a, b}) \in {a, b} /\ Max({a, b}) >= a /\ Max({a, b}) >= b
<1>1. \E x \in {a, b} : \A y \in {a, b} : x >= y
  OBVIOUS
<1> QED BY <1>1 DEF Max

\* A training that passes its gates has what load_bundle asks for.
LEMMA TrainModelIsGood ==
    ASSUME NEW n \in RowCounts, ~TooFewRows(n), release \in Nat, clock \in Nat
    PROVE  /\ TrainModel(n) \in Metadata /\ GoodMetadata(TrainModel(n))
           /\ TrainModel(n).release = release
<1>1. n \in Nat /\ MinimumRows \in Nat
  BY RowsAssumption
<1>2. /\ (n * 4) \div 5 \in Nat /\ (MinimumRows * 3) \div 4 \in Nat
      /\ MinimumRows \div 10 \in Nat
  BY <1>1
<1>3. Split(n) \in Nat /\ Split(n) >= (n * 4) \div 5
  BY <1>2, MaxOfTwo DEF Split
<1>4. n >= Split(n) + 20
  <2>1. ~(n < Split(n) + Max({20, MinimumRows \div 10}))
    BY DEF TooFewRows
  <2>2. Max({20, MinimumRows \div 10}) \in Nat /\ Max({20, MinimumRows \div 10}) >= 20
    BY <1>2, MaxOfTwo
  <2> QED BY <1>1, <1>3, <2>1, <2>2
<1>5. (n * 4) \div 5 >= 1
  BY <1>1, <1>3, <1>4
<1>6. Split(n) >= 1 /\ n - Split(n) >= 20 /\ n - Split(n) \in Nat
  BY <1>1, <1>2, <1>3, <1>4, <1>5
<1> HIDE DEF Split
<1>7. Payload(n) \in Contents
  BY <1>6 DEF Payload, Contents
<1>8. TrainModel(n) \in Metadata
  BY <1>3, <1>6, <1>7 DEF TrainModel, Metadata
<1>9. GoodMetadata(TrainModel(n))
  BY <1>6 DEF GoodMetadata, TrainModel, Payload
<1> QED BY <1>8, <1>9 DEF TrainModel

\* What load_bundle has seen when it returns a bundle.
LEMMA LoadedFacts ==
    ASSUME NEW v, LoadBundle(v) = "loaded"
    PROVE  /\ files[v].metadata # None /\ files[v].artifact # None
           /\ files[v].artifact = files[v].metadata.checksum
           /\ files[v].metadata.release = release
BY DEF LoadBundle, Verify

\* Good metadata, its payload and its release are all that it asks for.
LEMMA GoodLoads ==
    ASSUME NEW v, files[v].metadata # None, GoodMetadata(files[v].metadata),
           files[v].metadata \in Metadata,
           files[v].metadata.release = release, files[v].artifact # None,
           files[v].artifact = files[v].metadata.checksum
    PROVE  LoadBundle(v) = "loaded"
<1>1. MetadataValid(files[v].metadata)
  BY DEF GoodMetadata, MetadataValid
<1>2. files[v].artifact.references >= 20
  BY DEF GoodMetadata, Metadata
<1>3. ~(files[v].artifact.references < 20)
  BY <1>2 DEF Metadata, Contents
<1> QED BY <1>1, <1>3 DEF LoadBundle, Verify, LoadPayload

-----------------------------------------------------------------------------
(* The newest row                                                           *)

\* A set of numbers below a bound has a largest one.
LEMMA LargestNumber ==
    ASSUME NEW B \in Nat, NEW S \in SUBSET (0..B), S # {}
    PROVE  \E x \in S : \A y \in S : y <= x
<1> DEFINE T == {B - x : x \in S}
<1>1. T \subseteq Nat /\ T # {}
  <2>1. ASSUME NEW x \in S PROVE B - x \in Nat
    <3>1. x \in Nat /\ x <= B
      OBVIOUS
    <3> QED BY <3>1
  <2> QED BY <2>1
<1>2. PICK m \in T : \A k \in T : ~(<<k, m>> \in OpToRel(<, Nat))
  BY <1>1, NatLessThanWellFounded, WFMin
<1>3. \A k \in T : ~(k < m)
  BY <1>1, <1>2 DEF OpToRel
<1>4. PICK x \in S : m = B - x
  OBVIOUS
<1>5. ASSUME NEW y \in S PROVE y <= x
  <2>1. B - y \in T
    OBVIOUS
  <2>2. ~(B - y < B - x)
    BY <1>3, <1>4, <2>1
  <2> QED BY <2>2
<1> QED BY <1>5

\* Rows are compared by time and then by id: there is a newest one.
LEMMA LatestExists ==
    ASSUME WrittenInv, Registered # {}
    PROVE  LatestRegistry \in Registered
<1>1. /\ TypeOK /\ RegisteredWasSaved /\ DiskInv /\ RegistryInv
  BY DEF WrittenInv, StoreInv
<1>2. /\ \A v \in Registered : v \in Version /\ registry[v] \in Row
      /\ clock \in Nat
  BY <1>1 DEF TypeOK, Registered
<1>3. \A v \in Registered : registry[v].created \in Nat /\ registry[v].id \in Nat
  BY <1>2 DEF Row
<1>4. \A v \in Registered : registry[v].created <= clock
  BY <1>1, <1>2 DEF RegisteredWasSaved, DiskInv, GoodMetadata
<1>5. Cardinality(Registered) \in Nat
  BY <1>1, FS_CardinalityType DEF RegistryInv
<1> DEFINE Times == {registry[v].created : v \in Registered}
<1>6. Times \in SUBSET (0..clock) /\ Times # {}
  BY <1>2, <1>3, <1>4
<1>7. PICK c \in Times : \A d \in Times : d <= c
  BY <1>2, <1>6, LargestNumber
<1> DEFINE Last == {v \in Registered : registry[v].created = c}
           Numbers == {registry[v].id : v \in Last}
<1>8. Numbers \in SUBSET (0..Cardinality(Registered)) /\ Numbers # {}
  BY <1>1, <1>3, <1>5 DEF RegistryInv
<1>9. PICK i \in Numbers : \A j \in Numbers : j <= i
  BY <1>5, <1>8, LargestNumber
<1>10. PICK v \in Last : registry[v].id = i
  OBVIOUS
<1>11. ASSUME NEW w \in Registered, w # v PROVE Newer(v, w)
  <2>1. registry[w].created <= c
    BY <1>7
  <2>2. CASE registry[w].created = c
    <3>1. registry[w].id <= i
      BY <1>9, <2>2
    <3>2. registry[w].id # i
      BY <1>1, <1>10, <1>11 DEF RegistryInv
    <3>3. registry[v].id > registry[w].id
      BY <1>3, <1>10, <3>1, <3>2
    <3> QED BY <1>10, <2>2, <3>3 DEF Newer
  <2>3. CASE registry[w].created # c
    <3>1. registry[v].created > registry[w].created
      BY <1>3, <1>10, <2>1, <2>3
    <3> QED BY <3>1 DEF Newer
  <2> QED BY <2>2, <2>3
<1>12. \E x \in Registered : \A w \in Registered \ {x} : Newer(x, w)
  BY <1>10, <1>11
<1> QED BY <1>12 DEF LatestRegistry

-----------------------------------------------------------------------------
(* Training                                                                 *)

FileState == [directory : BOOLEAN, artifact : Contents \union {None},
              metadata : Metadata \union {None}]
TrainerState ==
    [pc : {"idle", "save", "artifact", "metadata", "register", "commit"},
     version : Version \union {None}, metadata : Metadata \union {None},
     seen : Status \union {None}]

LEMMA WrittenFacts ==
    ASSUME WrittenInv
    PROVE  /\ TypeOK /\ RegisteredWasSaved /\ ScoresWithTrained
           /\ DiskInv /\ TrainerInv /\ RegistryInv /\ WorkerInv
BY DEF WrittenInv, StoreInv

\* What the parts of the invariant rest on.
LEMMA RowsFrame ==
    ASSUME RegisteredWasSaved, RegistryInv, UNCHANGED <<trained, registry>>
    PROVE  RegisteredWasSaved' /\ RegistryInv' /\ Registered' = Registered
BY DEF RegisteredWasSaved, RegistryInv, Registered

LEMMA WorkerFrame ==
    ASSUME ScoresWithTrained, WorkerInv, UNCHANGED <<trained, registry, worker, release>>
    PROVE  ScoresWithTrained' /\ WorkerInv'
BY DEF ScoresWithTrained, WorkerInv, Registered

LEMMA DiskFrame ==
    ASSUME DiskInv, UNCHANGED <<trained, files, clock>> PROVE DiskInv'
BY DEF DiskInv, GoodMetadata

\* A training goes on without writing.
LEMMA TrainerGoesOn ==
    ASSUME WrittenInv, NEW t \in Trainer, NEW s \in TrainerState,
           trainer' = [trainer EXCEPT ![t] = s],
           UNCHANGED <<files, trained, release, clock>>,
           s.pc \notin {"artifact", "metadata"},
           s.pc # "idle" => /\ s.version \in Version /\ s.metadata \in Metadata
                            /\ GoodMetadata(s.metadata) /\ s.metadata.release = release,
           s.pc \in {"register", "commit"} => trained[s.version] = s.metadata
    PROVE  TrainerInv' /\ trainer' \in [Trainer -> TrainerState]
<1>1. TypeOK /\ TrainerInv
  BY WrittenFacts
<1>2. trainer \in [Trainer -> TrainerState]
  BY <1>1 DEF TypeOK, TrainerState
<1>3. trainer'[t] = s /\ \A u \in Trainer : u # t => trainer'[u] = trainer[u]
  BY <1>2
<1>4. ~Writing(t)' /\ \A u \in Trainer : u # t => (Writing(u)' <=> Writing(u))
  BY <1>3 DEF Writing
<1>5. \A m : GoodMetadata(m)' <=> GoodMetadata(m)
  BY DEF GoodMetadata
<1>6. ASSUME NEW u \in Trainer PROVE TrainerOK(u)'
  <2>1. CASE u = t
    BY <1>3, <1>4, <1>5, <2>1 DEF TrainerOK
  <2>2. CASE u # t
    <3>1. TrainerOK(u)
      BY <1>1 DEF TrainerInv
    <3> QED BY <1>3, <1>4, <1>5, <2>2, <3>1 DEF TrainerOK
  <2> QED BY <2>1, <2>2
<1>7. TrainerInv'
  BY <1>6 DEF TrainerInv
<1> QED BY <1>2, <1>7

\* The same, when rows and worker are left alone too.
LEMMA QuietTraining ==
    ASSUME WrittenInv, NEW t \in Trainer, NEW s \in TrainerState,
           trainer' = [trainer EXCEPT ![t] = s],
           UNCHANGED <<files, trained, release, clock, registry, worker>>,
           trainings' \in 0..MaxTrainings, faults' \in 0..MaxFaults,
           s.pc \notin {"artifact", "metadata"},
           s.pc # "idle" => /\ s.version \in Version /\ s.metadata \in Metadata
                            /\ GoodMetadata(s.metadata) /\ s.metadata.release = release,
           s.pc \in {"register", "commit"} => trained[s.version] = s.metadata
    PROVE  WrittenInv'
<1>1. TrainerInv' /\ trainer' \in [Trainer -> TrainerState]
  BY TrainerGoesOn
<1>2. TypeOK'
  BY <1>1, WrittenFacts DEF TypeOK, TrainerState
<1>3. RegisteredWasSaved' /\ RegistryInv'
  BY WrittenFacts, RowsFrame
<1>4. ScoresWithTrained' /\ WorkerInv'
  BY WrittenFacts, WorkerFrame
<1>5. DiskInv'
  BY WrittenFacts, DiskFrame
<1> QED BY <1>1, <1>2, <1>3, <1>4, <1>5 DEF WrittenInv, StoreInv

LEMMA IdleState == Idle \in TrainerState /\ Idle.pc = "idle"
BY DEF Idle, TrainerState

LEMMA BoundsOK ==
    ASSUME TypeOK
    PROVE  /\ trainings \in 0..MaxTrainings /\ faults \in 0..MaxFaults
           /\ trainings < MaxTrainings => trainings + 1 \in 0..MaxTrainings
           /\ faults < MaxFaults => faults + 1 \in 0..MaxFaults
BY BoundAssumption DEF TypeOK

LEMMA TrainKeeps ==
    ASSUME WrittenInv, NEW t \in Trainer, NEW v \in Version, NEW n \in RowCounts,
           Train(t, v, n)
    PROVE  WrittenInv'
<1> DEFINE s == [pc |-> "save", version |-> v, seen |-> None, metadata |-> TrainModel(n)]
<1>1. TypeOK /\ ~TooFewRows(n)
  BY WrittenFacts DEF Train
<1>2. /\ TrainModel(n) \in Metadata /\ GoodMetadata(TrainModel(n))
      /\ TrainModel(n).release = release
  BY <1>1, TrainModelIsGood DEF TypeOK
<1>3. /\ s \in TrainerState /\ s.pc = "save" /\ s.version = v
      /\ s.metadata = TrainModel(n)
  BY <1>2 DEF TrainerState
<1>4. /\ trainer' = [trainer EXCEPT ![t] = s]
      /\ UNCHANGED <<files, trained, release, clock, registry, worker>>
      /\ trainings' = trainings + 1 /\ trainings < MaxTrainings /\ faults' = faults
  BY DEF Train, diskVars
<1>5. trainings' \in 0..MaxTrainings /\ faults' \in 0..MaxFaults
  BY <1>1, <1>4, BoundsOK
<1> HIDE DEF s
<1> QED BY <1>2, <1>3, <1>4, <1>5, QuietTraining

\* A training that finds the directory takes what is in it.
LEMMA UseExistingKeeps ==
    ASSUME WrittenInv, NEW t \in Trainer, UseExisting(t) PROVE WrittenInv'
<1> DEFINE v == trainer[t].version
           s == IF LoadBundle(v) = "loaded"
                THEN [trainer[t] EXCEPT !.pc = "register", !.metadata = files[v].metadata]
                ELSE Idle
<1>1. /\ TypeOK /\ DiskInv /\ TrainerOK(t)
  BY WrittenFacts DEF TrainerInv
<1>2. /\ trainer[t].pc = "save" /\ trainer' = [trainer EXCEPT ![t] = s]
      /\ UNCHANGED <<files, trained, release, clock, registry, worker, trainings, faults>>
  BY DEF UseExisting, diskVars, bounds
<1>3. trainings' \in 0..MaxTrainings /\ faults' \in 0..MaxFaults
  BY <1>1, <1>2, BoundsOK
<1>4. v \in Version /\ trainer[t] \in TrainerState
  BY <1>1, <1>2 DEF TrainerOK, TypeOK, TrainerState
<1>5. CASE LoadBundle(v) = "loaded"
  <2>1. /\ files[v].metadata # None /\ files[v].metadata.release = release
    BY <1>5, LoadedFacts
  <2>2. files[v].metadata \in Metadata
    BY <1>1, <1>4, <2>1 DEF TypeOK
  <2>3. files[v].metadata = trained[v] /\ GoodMetadata(files[v].metadata)
    BY <1>1, <1>4, <2>1 DEF DiskInv
  <2>4. /\ s \in TrainerState /\ s.pc = "register" /\ s.version = v
        /\ s.metadata = files[v].metadata
    BY <1>4, <1>5, <2>2 DEF TrainerState
  <2> HIDE DEF s, v
  <2> QED BY <1>2, <1>3, <1>4, <2>1, <2>2, <2>3, <2>4, QuietTraining
<1>6. CASE LoadBundle(v) # "loaded"
  <2>1. s \in TrainerState /\ s.pc = "idle"
    BY <1>6, IdleState
  <2> HIDE DEF s
  <2> QED BY <1>2, <1>3, <2>1, QuietTraining
<1> QED BY <1>5, <1>6

LEMMA RegisterReadKeeps ==
    ASSUME WrittenInv, NEW t \in Trainer, RegisterRead(t) PROVE WrittenInv'
<1> DEFINE row == registry[trainer[t].version]
           status == IF row = None THEN None ELSE row.status
           s == [trainer[t] EXCEPT !.pc = "commit", !.seen = status]
<1>1. TypeOK /\ TrainerOK(t)
  BY WrittenFacts DEF TrainerInv
<1>2. /\ trainer[t].pc = "register" /\ trainer' = [trainer EXCEPT ![t] = s]
      /\ UNCHANGED <<files, trained, release, clock, registry, worker, trainings, faults>>
  BY DEF RegisterRead, diskVars, bounds
<1>3. trainings' \in 0..MaxTrainings /\ faults' \in 0..MaxFaults
  BY <1>1, <1>2, BoundsOK
<1>4. trainer[t] \in TrainerState /\ trainer[t].version \in Version
  BY <1>1, <1>2 DEF TrainerOK, TypeOK, TrainerState
<1>5. status \in Status \union {None}
  BY <1>1, <1>4 DEF TypeOK, Row
<1> HIDE DEF status
<1>6. /\ s \in TrainerState /\ s.pc = "commit" /\ s.version = trainer[t].version
      /\ s.metadata = trainer[t].metadata
  BY <1>4, <1>5 DEF TrainerState
<1>7. /\ s.version \in Version /\ s.metadata \in Metadata /\ GoodMetadata(s.metadata)
      /\ s.metadata.release = release /\ trained[s.version] = s.metadata
  BY <1>1, <1>2, <1>6 DEF TrainerOK
<1> HIDE DEF s
<1> QED BY <1>2, <1>3, <1>6, <1>7, QuietTraining

LEMMA TrainerCrashKeeps ==
    ASSUME WrittenInv, NEW t \in Trainer, TrainerCrash(t) PROVE WrittenInv'
<1>1. /\ trainer' = [trainer EXCEPT ![t] = Idle]
      /\ UNCHANGED <<files, trained, release, clock, registry, worker, trainings>>
      /\ faults < MaxFaults /\ faults' = faults + 1
  BY DEF TrainerCrash, diskVars
<1>2. trainings' \in 0..MaxTrainings /\ faults' \in 0..MaxFaults
  BY <1>1, WrittenFacts, BoundsOK
<1> QED BY <1>1, <1>2, IdleState, QuietTraining

\* mkdir with exist_ok=False: whoever makes the directory is alone in it.
LEMMA MakeDirectoryKeeps ==
    ASSUME WrittenInv, NEW t \in Trainer, MakeDirectory(t) PROVE WrittenInv'
<1> DEFINE v == trainer[t].version
<1>1. /\ TypeOK /\ DiskInv /\ TrainerInv /\ TrainerOK(t)
  BY WrittenFacts DEF TrainerInv
<1>2. /\ trainer[t].pc = "save" /\ ~files[v].directory
      /\ files' = [files EXCEPT ![v].directory = TRUE]
      /\ trainer' = [trainer EXCEPT ![t].pc = "artifact"]
      /\ UNCHANGED <<trained, registry, worker, release, clock, trainings, faults>>
  BY DEF MakeDirectory, bounds
<1>3. v \in Version
  BY <1>1, <1>2 DEF TrainerOK
<1>4. trained[v] = None /\ \A u \in Trainer : Writing(u) => trainer[u].version # v
  BY <1>1, <1>2, <1>3 DEF DiskInv, TrainerInv, TrainerOK
<1>5. /\ files'[v].directory /\ files'[v].metadata = files[v].metadata
      /\ files'[v].artifact = files[v].artifact
      /\ \A w \in Version : w # v => files'[w] = files[w]
  BY <1>1, <1>2, <1>3 DEF TypeOK
<1>6. /\ trainer'[t].pc = "artifact" /\ trainer'[t].version = v
      /\ trainer'[t].metadata = trainer[t].metadata
      /\ \A u \in Trainer : u # t => trainer'[u] = trainer[u]
  BY <1>1, <1>2 DEF TypeOK
<1>7. TypeOK'
  <2>1. files' \in [Version -> FileState]
    <3>1. files \in [Version -> FileState]
      BY <1>1 DEF TypeOK, FileState
    <3>2. [files[v] EXCEPT !.directory = TRUE] \in FileState
      BY <1>3, <3>1 DEF FileState
    <3>3. files' = [files EXCEPT ![v] = [files[v] EXCEPT !.directory = TRUE]]
      BY <1>2
    <3> QED BY <3>1, <3>2, <3>3
  <2>2. trainer' \in [Trainer -> TrainerState]
    BY <1>1, <1>2 DEF TypeOK, TrainerState
  <2> QED BY <1>1, <1>2, <2>1, <2>2 DEF TypeOK, TrainerState, FileState
<1>8. DiskInv'
  BY <1>1, <1>2, <1>5 DEF DiskInv, GoodMetadata
<1>9. TrainerInv'
  <2>1. \A m : GoodMetadata(m)' <=> GoodMetadata(m)
    BY <1>2 DEF GoodMetadata
  <2>2. Writing(t)' /\ \A u \in Trainer : u # t => (Writing(u)' <=> Writing(u))
    BY <1>6 DEF Writing
  <2>3. TrainerOK(t)'
    BY <1>1, <1>2, <1>3, <1>4, <1>5, <1>6, <2>1, <2>2 DEF TrainerOK
  <2>4. ASSUME NEW u \in Trainer, u # t PROVE TrainerOK(u)'
    <3>1. TrainerOK(u)
      BY <1>1 DEF TrainerInv
    <3>2. trainer[u].pc # "idle" => trainer[u].version \in Version
      BY <3>1 DEF TrainerOK
    <3>3. Writing(u) => trainer[u].version # v
      BY <1>4
    <3>4. \A w \in Trainer : w # u /\ Writing(w)' /\ Writing(u) =>
                trainer'[w].version # trainer[u].version
      BY <1>6, <2>2, <3>1, <3>3 DEF TrainerOK
    <3> QED BY <1>2, <1>5, <1>6, <2>1, <2>2, <2>4, <3>1, <3>2, <3>3, <3>4
            DEF TrainerOK, Writing
  <2> QED BY <2>3, <2>4 DEF TrainerInv
<1>10. RegisteredWasSaved' /\ RegistryInv' /\ ScoresWithTrained' /\ WorkerInv'
  BY <1>2, WrittenFacts, RowsFrame, WorkerFrame
<1> QED BY <1>7, <1>8, <1>9, <1>10 DEF WrittenInv, StoreInv

LEMMA SaveArtifactKeeps ==
    ASSUME WrittenInv, NEW t \in Trainer, SaveArtifact(t) PROVE WrittenInv'
<1> DEFINE v == trainer[t].version
           a == trainer[t].metadata.checksum
<1>1. /\ TypeOK /\ DiskInv /\ TrainerInv /\ TrainerOK(t)
  BY WrittenFacts DEF TrainerInv
<1>2. /\ trainer[t].pc = "artifact"
      /\ files' = [files EXCEPT ![v].artifact = a]
      /\ trainer' = [trainer EXCEPT ![t].pc = "metadata"]
      /\ UNCHANGED <<trained, registry, worker, release, clock, trainings, faults>>
  BY DEF SaveArtifact, bounds
<1>3. v \in Version /\ Writing(t) /\ trainer[t].metadata \in Metadata /\ a \in Contents
  BY <1>1, <1>2 DEF TrainerOK, Writing, Metadata
<1>4. \A u \in Trainer : u # t /\ Writing(u) => trainer[u].version # v
  BY <1>1, <1>3 DEF TrainerOK
<1>5. /\ files'[v].artifact = a /\ files'[v].metadata = files[v].metadata
      /\ files'[v].directory = files[v].directory
      /\ \A w \in Version : w # v => files'[w] = files[w]
  BY <1>1, <1>2, <1>3 DEF TypeOK
<1>6. /\ trainer'[t].pc = "metadata" /\ trainer'[t].version = v
      /\ trainer'[t].metadata = trainer[t].metadata
      /\ \A u \in Trainer : u # t => trainer'[u] = trainer[u]
  BY <1>1, <1>2 DEF TypeOK
<1>7. TypeOK'
  <2>1. files' \in [Version -> FileState]
    <3>1. files \in [Version -> FileState]
      BY <1>1 DEF TypeOK, FileState
    <3>2. [files[v] EXCEPT !.artifact = a] \in FileState
      BY <1>3, <3>1 DEF FileState
    <3>3. files' = [files EXCEPT ![v] = [files[v] EXCEPT !.artifact = a]]
      BY <1>2
    <3> QED BY <1>3, <3>1, <3>2, <3>3
  <2>2. trainer' \in [Trainer -> TrainerState]
    BY <1>1, <1>2 DEF TypeOK, TrainerState
  <2> QED BY <1>1, <1>2, <2>1, <2>2 DEF TypeOK, TrainerState, FileState
<1>8. DiskInv'
  <2>1. trained[v] = None
    BY <1>1, <1>3 DEF TrainerOK
  <2>2. \A x : GoodMetadata(x)' <=> GoodMetadata(x)
    BY <1>2 DEF GoodMetadata
  <2> HIDE DEF v, a
  <2> QED BY <1>1, <1>2, <1>5, <2>1, <2>2 DEF DiskInv
<1>9. TrainerInv'
  <2>1. \A m : GoodMetadata(m)' <=> GoodMetadata(m)
    BY <1>2 DEF GoodMetadata
  <2>2. Writing(t)' /\ \A u \in Trainer : u # t => (Writing(u)' <=> Writing(u))
    BY <1>6 DEF Writing
  <2>3. TrainerOK(t)'
    BY <1>1, <1>2, <1>3, <1>4, <1>5, <1>6, <2>1, <2>2 DEF TrainerOK
  <2>4. ASSUME NEW u \in Trainer, u # t PROVE TrainerOK(u)'
    <3>1. TrainerOK(u)
      BY <1>1 DEF TrainerInv
    <3>2. trainer[u].pc # "idle" => trainer[u].version \in Version
      BY <3>1 DEF TrainerOK
    <3>3. Writing(u) => trainer[u].version # v
      BY <1>4, <2>4
    <3>4. \A w \in Trainer : w # u /\ Writing(w)' /\ Writing(u) =>
                trainer'[w].version # trainer[u].version
      BY <1>6, <2>2, <3>1, <3>3 DEF TrainerOK
    <3> QED BY <1>2, <1>5, <1>6, <2>1, <2>2, <2>4, <3>1, <3>2, <3>3, <3>4
            DEF TrainerOK, Writing
  <2> QED BY <2>3, <2>4 DEF TrainerInv
<1>10. RegisteredWasSaved' /\ RegistryInv' /\ ScoresWithTrained' /\ WorkerInv'
  BY <1>2, WrittenFacts, RowsFrame, WorkerFrame
<1> QED BY <1>7, <1>8, <1>9, <1>10 DEF WrittenInv, StoreInv

\* The metadata is written once: nobody has registered the version, scores with
\* it or writes it too.
LEMMA SaveMetadataKeeps ==
    ASSUME WrittenInv, NEW t \in Trainer, SaveMetadata(t) PROVE WrittenInv'
<1> DEFINE v == trainer[t].version
           m == trainer[t].metadata
<1>1. /\ TypeOK /\ DiskInv /\ TrainerInv /\ TrainerOK(t) /\ RegisteredWasSaved
      /\ ScoresWithTrained /\ RegistryInv /\ WorkerInv
  BY WrittenFacts DEF TrainerInv
<1>2. /\ trainer[t].pc = "metadata"
      /\ files' = [files EXCEPT ![v].metadata = [m EXCEPT !.checksum = files[v].artifact]]
      /\ trained' = [trained EXCEPT ![v] = [m EXCEPT !.checksum = files[v].artifact]]
      /\ trainer' = [trainer EXCEPT ![t].pc = "register",
                                    ![t].metadata = [m EXCEPT !.checksum = files[v].artifact]]
      /\ UNCHANGED <<registry, worker, release, clock, trainings, faults>>
  BY DEF SaveMetadata, bounds
<1>3. /\ v \in Version /\ Writing(t) /\ m \in Metadata /\ GoodMetadata(m)
      /\ files[v].artifact = m.checksum /\ files[v].directory /\ trained[v] = None
      /\ m.release = release /\ m # None
      /\ \A u \in Trainer : u # t /\ Writing(u) => trainer[u].version # v
  BY <1>1, <1>2, NoneAssumption DEF TrainerOK, Writing
<1>4. [m EXCEPT !.checksum = files[v].artifact] = m
  BY <1>3 DEF Metadata
<1>5. /\ files'[v].artifact = files[v].artifact /\ files'[v].metadata = m
      /\ files'[v].directory = files[v].directory
      /\ \A w \in Version : w # v => files'[w] = files[w]
  <2>1. files' = [files EXCEPT ![v].metadata = m] /\ files \in [Version -> FileState]
    BY <1>1, <1>2, <1>4 DEF TypeOK, FileState
  <2> HIDE DEF m, v
  <2> QED BY <1>3, <2>1 DEF FileState
<1>6. /\ trainer'[t].pc = "register" /\ trainer'[t].version = v
      /\ trainer'[t].metadata = m
      /\ \A u \in Trainer : u # t => trainer'[u] = trainer[u]
  BY <1>1, <1>2, <1>4 DEF TypeOK
<1>7. trained'[v] = m /\ \A w \in Version : w # v => trained'[w] = trained[w]
  BY <1>1, <1>2, <1>3, <1>4 DEF TypeOK
<1>8. TypeOK'
  <2>1. files' \in [Version -> FileState]
    <3>1. files' = [files EXCEPT ![v].metadata = m] /\ files \in [Version -> FileState]
      BY <1>1, <1>2, <1>4 DEF TypeOK, FileState
    <3> HIDE DEF m, v
    <3> QED BY <1>3, <3>1 DEF FileState
  <2>2. trainer' \in [Trainer -> TrainerState]
    <3>1. trainer' = [trainer EXCEPT ![t].pc = "register", ![t].metadata = m]
      BY <1>2, <1>4
    <3>2. trainer \in [Trainer -> TrainerState]
      BY <1>1 DEF TypeOK, TrainerState
    <3>3. [trainer[t] EXCEPT !.pc = "register", !.metadata = m] \in TrainerState
      <4>1. trainer[t] \in TrainerState
        BY <3>2
      <4> HIDE DEF m
      <4> QED BY <1>3, <4>1 DEF TrainerState
    <3>4. trainer' = [trainer EXCEPT ![t] = [trainer[t] EXCEPT !.pc = "register",
                                                               !.metadata = m]]
      BY <3>1
    <3> QED BY <3>2, <3>3, <3>4
  <2>3. trained' \in [Version -> Metadata \union {None}]
    BY <1>1, <1>2, <1>3, <1>4 DEF TypeOK
  <2> QED BY <1>1, <1>2, <2>1, <2>2, <2>3 DEF TypeOK, TrainerState, FileState
<1> HIDE DEF v, m
<1>9. \A x : GoodMetadata(x)' <=> GoodMetadata(x)
  BY <1>2 DEF GoodMetadata
<1>10. DiskInv'
  BY <1>1, <1>3, <1>5, <1>7, <1>9 DEF DiskInv
<1>11. TrainerInv'
  <2>1. ~Writing(t)' /\ \A u \in Trainer : u # t => (Writing(u)' <=> Writing(u))
    BY <1>6 DEF Writing
  <2>2. TrainerOK(t)'
    BY <1>2, <1>3, <1>6, <1>7, <1>9, <2>1 DEF TrainerOK
  <2>3. ASSUME NEW u \in Trainer, u # t PROVE TrainerOK(u)'
    <3>1. TrainerOK(u)
      BY <1>1 DEF TrainerInv
    <3>2. trainer[u].pc # "idle" => trainer[u].version \in Version
      BY <3>1 DEF TrainerOK
    <3>3. Writing(u) => trainer[u].version # v
      BY <1>3, <2>3
    <3>4. trainer[u].pc \in {"register", "commit"} => trainer[u].version # v
      BY <1>3, <3>1, NoneAssumption DEF TrainerOK
    <3>5. trainer'[u] = trainer[u] /\ (Writing(u)' <=> Writing(u))
      BY <1>6, <2>1, <2>3
    <3>6. CASE Writing(u)
      <4>1. /\ trainer[u].version \in Version
            /\ files'[trainer[u].version] = files[trainer[u].version]
            /\ trained'[trainer[u].version] = trained[trainer[u].version]
        BY <1>5, <1>7, <3>2, <3>3, <3>6 DEF Writing
      <4>2. \A w \in Trainer : w # u /\ Writing(w)' => trainer'[w].version # trainer[u].version
        BY <1>6, <2>1, <3>1, <3>6 DEF TrainerOK
      <4> QED BY <1>2, <1>9, <3>1, <3>5, <3>6, <4>1, <4>2 DEF TrainerOK, Writing
    <3>7. CASE ~Writing(u)
      <4>1. trainer[u].pc \in {"register", "commit"} =>
                trained'[trainer[u].version] = trained[trainer[u].version]
        BY <1>7, <3>2, <3>4
      <4> QED BY <1>2, <1>9, <3>1, <3>5, <3>7, <4>1 DEF TrainerOK, Writing
    <3> QED BY <3>6, <3>7
  <2> QED BY <2>2, <2>3 DEF TrainerInv
<1>12. v \notin Registered /\ Registered' = Registered
  BY <1>1, <1>2, <1>3 DEF RegisteredWasSaved, Registered
<1>13. RegisteredWasSaved' /\ RegistryInv'
  <2>1. Registered \subseteq Version
    BY DEF Registered
  <2>2. RegisteredWasSaved'
    BY <1>1, <1>2, <1>7, <1>12, <2>1 DEF RegisteredWasSaved
  <2> QED BY <1>1, <1>2, <1>12, <2>2 DEF RegistryInv
<1>14. ScoresWithTrained' /\ WorkerInv'
  <2>1. worker.pc # "idle" => worker.version \in Version /\ worker.version # v
    BY <1>1, <1>12 DEF WorkerInv, Registered
  <2>2. worker.pc # "idle" => trained'[worker.version] = trained[worker.version]
    BY <1>7, <2>1
  <2> QED BY <1>1, <1>2, <1>12, <2>2 DEF ScoresWithTrained, WorkerInv
<1> QED BY <1>8, <1>10, <1>11, <1>13, <1>14 DEF WrittenInv, StoreInv

\* A row is added with the next id, or the row that is there gets what the
\* training of its version wrote.
LEMMA RegisterCommitKeeps ==
    ASSUME WrittenInv, NEW t \in Trainer, RegisterCommit(t) PROVE WrittenInv'
<1> DEFINE v == trainer[t].version
           m == trainer[t].metadata
           new == [status |-> "ready", created |-> m.created, checksum |-> m.checksum,
                   id |-> Cardinality(Registered) + 1]
           changed == [registry[v] EXCEPT
                        !.status = IF trainer[t].seen = "ready" THEN registry[v].status
                                   ELSE "ready",
                        !.created = m.created, !.checksum = m.checksum]
<1>1. /\ TypeOK /\ DiskInv /\ TrainerOK(t) /\ RegisteredWasSaved
      /\ ScoresWithTrained /\ RegistryInv /\ WorkerInv
  BY WrittenFacts DEF TrainerInv
<1>2. /\ trainer[t].pc = "commit"
      /\ trainer' = [trainer EXCEPT ![t] = Idle]
      /\ registry' = [registry EXCEPT ![v] =
                        IF registry[v] = None THEN new
                        ELSE IF trainer[t].seen = None THEN registry[v] ELSE changed]
      /\ UNCHANGED <<files, trained, worker, release, clock, trainings, faults>>
  BY DEF RegisterCommit, diskVars, bounds
<1>3. /\ v \in Version /\ m \in Metadata /\ trained[v] = m /\ m # None
  BY <1>1, <1>2, NoneAssumption DEF TrainerOK
<1>4. TrainerInv' /\ trainer' \in [Trainer -> TrainerState]
  BY <1>2, IdleState, TrainerGoesOn
<1>5. registry \in [Version -> Row \union {None}]
  BY <1>1 DEF TypeOK
<1>6. IsFiniteSet(Registered) /\ Cardinality(Registered) \in Nat
  BY <1>1, FS_CardinalityType DEF RegistryInv
<1> HIDE DEF v, m
<1>7. m.created \in Nat /\ m.checksum \in Contents
  BY <1>3 DEF Metadata
<1>8. /\ new \in Row /\ new # None /\ new.id = Cardinality(Registered) + 1
      /\ new.created = m.created /\ new.checksum = m.checksum
  BY <1>6, <1>7, NoneAssumption DEF Row, Status
<1>9. registry[v] # None =>
        /\ changed \in Row /\ changed # None /\ changed.id = registry[v].id
        /\ changed.created = m.created /\ changed.checksum = m.checksum
  <2>1. SUFFICES ASSUME registry[v] \in Row
                 PROVE  /\ changed \in Row /\ changed.id = registry[v].id
                        /\ changed.created = m.created /\ changed.checksum = m.checksum
    BY <1>3, <1>5, NoneAssumption
  <2> QED BY <1>7, <2>1 DEF Row, Status
<1> HIDE DEF new, changed
<1>10. registry' \in [Version -> Row \union {None}]
  BY <1>2, <1>3, <1>5, <1>8, <1>9
<1>11. TypeOK'
  BY <1>1, <1>2, <1>4, <1>10 DEF TypeOK, TrainerState
<1>12. DiskInv'
  BY <1>1, <1>2, DiskFrame
<1>13. /\ Registered' = Registered \cup (IF registry[v] = None THEN {v} ELSE {})
       /\ \A w \in Registered : w \in Version /\ w # v => registry'[w] = registry[w]
  BY <1>2, <1>3, <1>5, <1>8, <1>9 DEF Registered
<1>14. RegisteredWasSaved'
  <2>1. ASSUME NEW w \in Registered'
        PROVE  /\ trained[w] # None
               /\ registry'[w].checksum = trained[w].checksum
               /\ registry'[w].created = trained[w].created
    <3>1. CASE w # v
      <4>1. w \in Registered /\ w \in Version /\ registry'[w] = registry[w]
        BY <1>13, <2>1, <3>1 DEF Registered
      <4> QED BY <1>1, <4>1 DEF RegisteredWasSaved
    <3>2. CASE w = v /\ (registry[v] = None \/ trainer[t].seen # None)
      BY <1>2, <1>3, <1>5, <1>8, <1>9, <3>2
    <3>3. CASE w = v /\ registry[v] # None /\ trainer[t].seen = None
      <4>1. registry'[v] = registry[v] /\ v \in Registered
        BY <1>2, <1>3, <1>5, <3>3 DEF Registered
      <4> QED BY <1>1, <3>3, <4>1 DEF RegisteredWasSaved
    <3> QED BY <3>1, <3>2, <3>3
  <2> QED BY <1>2, <2>1 DEF RegisteredWasSaved
<1>15. RegistryInv'
  <2>1. CASE registry[v] = None
    <3>1. v \notin Registered /\ Registered' = Registered \cup {v} /\ registry'[v] = new
      BY <1>2, <1>3, <1>5, <1>13, <2>1 DEF Registered
    <3>2. IsFiniteSet(Registered') /\ Cardinality(Registered') = Cardinality(Registered) + 1
      BY <1>6, <3>1, FS_AddElement
    <3>3. \A w \in Registered : registry'[w] = registry[w] /\ registry[w].id \in Nat
      BY <1>5, <1>13, <3>1 DEF Registered, Row
    <3>4. \A w \in Registered : registry[w].id <= Cardinality(Registered)
      BY <1>1 DEF RegistryInv
    <3>5. \A w \in Registered' : registry'[w].id <= Cardinality(Registered')
      BY <1>6, <1>8, <3>1, <3>2, <3>3, <3>4
    <3>6. \A w \in Registered : registry'[w].id # registry'[v].id
      BY <1>6, <1>8, <3>1, <3>3, <3>4
    <3>7. \A w, x \in Registered : registry'[w].id = registry'[x].id => w = x
      BY <1>1, <3>3 DEF RegistryInv
    <3>8. \A w, x \in Registered' : registry'[w].id = registry'[x].id => w = x
      BY <3>1, <3>6, <3>7
    <3> QED BY <3>2, <3>5, <3>8 DEF RegistryInv
  <2>2. CASE registry[v] # None
    <3>1. Registered' = Registered /\ v \in Registered
      BY <1>3, <1>13, <2>2 DEF Registered
    <3>2. registry'[v].id = registry[v].id
      BY <1>2, <1>3, <1>5, <1>9, <2>2
    <3>3. \A w \in Registered : registry'[w].id = registry[w].id
      BY <1>13, <3>2 DEF Registered
    <3> QED BY <1>1, <3>1, <3>3 DEF RegistryInv
  <2> QED BY <2>1, <2>2
<1>16. ScoresWithTrained' /\ WorkerInv'
  BY <1>1, <1>2, <1>13 DEF ScoresWithTrained, WorkerInv
<1> QED BY <1>4, <1>11, <1>12, <1>14, <1>15, <1>16 DEF WrittenInv, StoreInv

-----------------------------------------------------------------------------
(* The worker                                                               *)

LEMMA TrainerFrame ==
    ASSUME TrainerInv, UNCHANGED <<trainer, files, trained, release, clock>>
    PROVE  TrainerInv'
<1>1. /\ \A t : Writing(t)' <=> Writing(t)
      /\ \A m : GoodMetadata(m)' <=> GoodMetadata(m)
  BY DEF Writing, GoodMetadata
<1>2. ASSUME NEW t \in Trainer PROVE TrainerOK(t)'
  <2>1. TrainerOK(t)
    BY DEF TrainerInv
  <2> QED BY <1>1, <2>1 DEF TrainerOK
<1> QED BY <1>2 DEF TrainerInv

WorkerState ==
    [pc : {"idle", "loading", "scoring"}, version : Version \union {None},
     seen : Status \union {None}, checksum : Contents \union {None},
     metadata : Metadata \union {None}, status : Status \union {None},
     bundle : Contents \union {None}]

\* Metadata that passes the first gates is what training wrote, for this release.
LEMMA WorkerVerifyKeeps ==
    ASSUME WrittenInv, WorkerVerify PROVE WrittenInv'
<1> DEFINE v == LatestRegistry
           ok == Verify(v) = "verified"
           m == IF ok THEN files[v].metadata ELSE None
           status == IF ok THEN None ELSE "error"
           pc == IF ok THEN "loading" ELSE "scoring"
<1>1. /\ TypeOK /\ DiskInv /\ TrainerInv /\ RegisteredWasSaved /\ RegistryInv
  BY WrittenFacts
<1>2. /\ v # None
      /\ worker' = [pc |-> pc, version |-> v, seen |-> registry[v].status,
                    checksum |-> registry[v].checksum, metadata |-> m,
                    status |-> status, bundle |-> None]
      /\ UNCHANGED <<files, trained, registry, trainer, release, clock, trainings, faults>>
  BY DEF WorkerVerify, diskVars, bounds
<1>3. v \in Registered
  <2>1. Registered # {}
    BY <1>2 DEF LatestRegistry
  <2> QED BY <2>1, LatestExists
<1> HIDE DEF v
<1>4. v \in Version /\ registry[v] \in Row
  BY <1>1, <1>3 DEF TypeOK, Registered
<1>5. registry[v].status \in Status /\ registry[v].checksum \in Contents
  BY <1>4 DEF Row
<1>6. m \in Metadata \union {None}
  BY <1>1, <1>4 DEF TypeOK
<1>7. ok => m = trained[v] /\ m.release = release
  <2> SUFFICES ASSUME ok PROVE m = trained[v] /\ m.release = release
    OBVIOUS
  <2>1. files[v].metadata # None /\ files[v].metadata.release = release
    BY DEF Verify
  <2> QED BY <1>1, <1>4, <2>1 DEF DiskInv
<1>8. status \in Status \union {None} /\ (~ok => status \in Status)
  BY DEF Status
<1>9. pc = IF ok THEN "loading" ELSE "scoring"
  OBVIOUS
<1> HIDE DEF ok, m, status, pc
<1>10. worker' \in WorkerState
  BY <1>2, <1>4, <1>5, <1>6, <1>8, <1>9 DEF WorkerState
<1>11. TypeOK'
  BY <1>1, <1>2, <1>10 DEF TypeOK, WorkerState
<1>12. ScoresWithTrained' /\ WorkerInv'
  <2>1. Registered' = Registered
    BY <1>2 DEF Registered
  <2>2. /\ worker'.bundle = None /\ worker'.version = v /\ worker'.metadata = m
        /\ worker'.status = status /\ worker'.pc = pc
    BY <1>2
  <2>3. ScoresWithTrained'
    BY <2>2 DEF ScoresWithTrained
  <2> QED BY <1>2, <1>3, <1>7, <1>8, <1>9, <2>1, <2>2, <2>3 DEF WorkerInv
<1>13. RegisteredWasSaved' /\ RegistryInv' /\ DiskInv' /\ TrainerInv'
  BY <1>1, <1>2, RowsFrame, DiskFrame, TrainerFrame
<1> QED BY <1>11, <1>12, <1>13 DEF WrittenInv, StoreInv

\* An artefact that loads is the one that training wrote, even if it is not the
\* one whose checksum was compared.
LEMMA WorkerLoadKeeps ==
    ASSUME WrittenInv, WorkerLoad PROVE WrittenInv'
<1> DEFINE v == worker.version
           status == IF \/ LoadPayload(v) # "loaded"
                        \/ worker.metadata.checksum # worker.checksum
                     THEN "error"
                     ELSE IF Stale(worker.metadata.created) THEN "stale" ELSE "ready"
           b == IF status = "ready" THEN files[v].artifact ELSE None
<1>1. /\ TypeOK /\ DiskInv /\ TrainerInv /\ RegisteredWasSaved /\ RegistryInv
      /\ WorkerInv
  BY WrittenFacts
<1>2. /\ worker.pc = "loading"
      /\ worker' = [worker EXCEPT !.pc = "scoring", !.status = status, !.bundle = b]
      /\ UNCHANGED <<files, trained, registry, trainer, release, clock, trainings, faults>>
  BY DEF WorkerLoad, diskVars, bounds
<1>3. /\ v \in Registered /\ v \in Version
      /\ worker.metadata = trained[v] /\ worker.metadata.release = release
  BY <1>1, <1>2 DEF WorkerInv, Registered
<1>4. trained[v] # None /\ GoodMetadata(trained[v])
  BY <1>1, <1>3 DEF RegisteredWasSaved, DiskInv
<1>5. b # None =>
        /\ b \in Contents /\ b = trained[v].checksum /\ b.release = release
  <2> SUFFICES ASSUME b # None
               PROVE  b \in Contents /\ b = trained[v].checksum /\ b.release = release
    OBVIOUS
  <2>1. status = "ready" /\ b = files[v].artifact
    OBVIOUS
  <2>2. LoadPayload(v) = "loaded"
    BY <2>1
  <2>3. b # None /\ ~(b.references < 20)
    BY <2>1, <2>2 DEF LoadPayload
  <2>4. b # Damaged
    BY <2>3 DEF Damaged
  <2>5. b = trained[v].checksum
    BY <1>1, <1>3, <1>4, <2>1, <2>3, <2>4 DEF DiskInv
  <2>6. b \in Contents
    BY <1>1, <1>3, <2>1 DEF TypeOK
  <2>7. b.release = release
    BY <1>3, <1>4, <2>5 DEF GoodMetadata
  <2> QED BY <2>5, <2>6, <2>7
<1>6. status \in Status
  BY DEF Status
<1> HIDE DEF b, status, v
<1>7. worker \in WorkerState
  BY <1>1 DEF TypeOK, WorkerState
<1>8. worker' \in WorkerState
  BY <1>2, <1>5, <1>6, <1>7 DEF WorkerState
<1>9. /\ worker'.pc = "scoring" /\ worker'.status = status /\ worker'.bundle = b
      /\ worker'.version = v
  BY <1>2, <1>7 DEF WorkerState, v
<1>10. TypeOK'
  BY <1>1, <1>2, <1>8 DEF TypeOK, WorkerState
<1>11. ScoresWithTrained' /\ WorkerInv'
  <2>1. Registered' = Registered
    BY <1>2 DEF Registered
  <2>2. ScoresWithTrained'
    BY <1>2, <1>5, <1>9 DEF ScoresWithTrained
  <2> QED BY <1>3, <1>6, <1>9, <2>1, <2>2 DEF WorkerInv
<1>12. RegisteredWasSaved' /\ RegistryInv' /\ DiskInv' /\ TrainerInv'
  BY <1>1, <1>2, RowsFrame, DiskFrame, TrainerFrame
<1> QED BY <1>10, <1>11, <1>12 DEF WrittenInv, StoreInv

LEMMA WorkerIdleFacts ==
    WorkerIdle \in WorkerState /\ WorkerIdle.pc = "idle" /\ WorkerIdle.bundle = None
BY DEF WorkerIdle, WorkerState

LEMMA WorkerCommitKeeps ==
    ASSUME WrittenInv, WorkerCommit PROVE WrittenInv'
<1> DEFINE v == worker.version
<1>1. /\ TypeOK /\ DiskInv /\ TrainerInv /\ RegisteredWasSaved /\ RegistryInv /\ WorkerInv
  BY WrittenFacts
<1>2. /\ worker.pc = "scoring" /\ worker' = WorkerIdle
      /\ registry' = IF worker.status = worker.seen THEN registry
                     ELSE [registry EXCEPT ![v].status = worker.status]
      /\ UNCHANGED <<files, trained, trainer, release, clock, trainings, faults>>
  BY DEF WorkerCommit, diskVars, bounds
<1>3. v \in Registered /\ v \in Version /\ registry[v] \in Row /\ worker.status \in Status
  BY <1>1, <1>2 DEF WorkerInv, Registered, TypeOK
<1>4. registry \in [Version -> Row \union {None}]
  BY <1>1 DEF TypeOK
<1> DEFINE row == [registry[v] EXCEPT !.status = worker.status]
<1>5. /\ row \in Row /\ row # None /\ row.id = registry[v].id
      /\ row.created = registry[v].created /\ row.checksum = registry[v].checksum
  BY <1>3, NoneAssumption DEF Row
<1>6. registry' = IF worker.status = worker.seen THEN registry
                  ELSE [registry EXCEPT ![v] = row]
  BY <1>2
<1> HIDE DEF row, v
<1>7. registry' \in [Version -> Row \union {None}]
  BY <1>3, <1>4, <1>5, <1>6
<1>8. /\ Registered' = Registered
      /\ \A w \in Registered : /\ registry'[w].id = registry[w].id
                               /\ registry'[w].created = registry[w].created
                               /\ registry'[w].checksum = registry[w].checksum
  BY <1>3, <1>4, <1>5, <1>6 DEF Registered
<1>9. TypeOK'
  BY <1>1, <1>2, <1>7, WorkerIdleFacts DEF TypeOK, WorkerState
<1>10. RegisteredWasSaved'
  BY <1>1, <1>2, <1>8 DEF RegisteredWasSaved
<1>11. RegistryInv'
  BY <1>1, <1>8 DEF RegistryInv
<1>12. ScoresWithTrained' /\ WorkerInv'
  BY <1>2, WorkerIdleFacts DEF ScoresWithTrained, WorkerInv
<1>13. DiskInv' /\ TrainerInv'
  BY <1>1, <1>2, DiskFrame, TrainerFrame
<1> QED BY <1>9, <1>10, <1>11, <1>12, <1>13 DEF WrittenInv, StoreInv

LEMMA WorkerFailsKeeps ==
    ASSUME WrittenInv, WorkerFails PROVE WrittenInv'
<1>1. /\ worker' = WorkerIdle /\ faults < MaxFaults /\ faults' = faults + 1
      /\ UNCHANGED <<files, trained, registry, trainer, release, clock, trainings>>
  BY DEF WorkerFails, diskVars
<1>2. faults' \in 0..MaxFaults
  BY <1>1, WrittenFacts, BoundsOK
<1>3. TypeOK'
  BY <1>1, <1>2, WrittenFacts, WorkerIdleFacts DEF TypeOK, WorkerState
<1>4. ScoresWithTrained' /\ WorkerInv'
  BY <1>1, WorkerIdleFacts DEF ScoresWithTrained, WorkerInv
<1>5. RegisteredWasSaved' /\ RegistryInv' /\ DiskInv' /\ TrainerInv'
  BY <1>1, WrittenFacts, RowsFrame, DiskFrame, TrainerFrame
<1> QED BY <1>3, <1>4, <1>5 DEF WrittenInv, StoreInv

-----------------------------------------------------------------------------
(* Files, releases and days                                                 *)

\* Files of a version that was written to the end are of no concern to whoever
\* still writes.
LEMMA FilesChange ==
    ASSUME WrittenInv, NEW v \in Version, trained[v] # None,
           NEW a \in Contents \union {None},
           a \in {None, Damaged, trained[v].checksum}, NEW m \in {None, trained[v]},
           files' = [files EXCEPT ![v].artifact = a, ![v].metadata = m],
           faults' \in 0..MaxFaults,
           UNCHANGED <<trained, registry, trainer, worker, release, clock, trainings>>
    PROVE  WrittenInv'
<1>1. /\ TypeOK /\ DiskInv /\ TrainerInv
  BY WrittenFacts
<1>2. files \in [Version -> FileState] /\ m \in Metadata \union {None}
  BY <1>1 DEF TypeOK, FileState
<1> DEFINE f == [files[v] EXCEPT !.artifact = a, !.metadata = m]
<1>3. f \in FileState /\ f.directory = files[v].directory /\ f.metadata = m
      /\ f.artifact = a
  BY <1>2 DEF FileState
<1>4. files' = [files EXCEPT ![v] = f]
  OBVIOUS
<1> HIDE DEF f
<1>5. files' \in [Version -> FileState]
  BY <1>2, <1>3, <1>4
<1>6. files'[v] = f /\ \A w \in Version : w # v => files'[w] = files[w]
  BY <1>2, <1>4
<1>7. TypeOK'
  BY <1>1, <1>5 DEF TypeOK, FileState
<1>8. \A x : GoodMetadata(x)' <=> GoodMetadata(x)
  BY DEF GoodMetadata
<1>9. DiskInv'
  BY <1>1, <1>3, <1>6, <1>8 DEF DiskInv
<1>10. ASSUME NEW t \in Trainer PROVE TrainerOK(t)'
  <2>1. TrainerOK(t)
    BY <1>1 DEF TrainerInv
  <2>2. \A u : Writing(u)' <=> Writing(u)
    BY DEF Writing
  <2>3. CASE Writing(t)
    <3>1. trainer[t].version \in Version /\ trainer[t].version # v
      BY <2>1, <2>3 DEF TrainerOK, Writing
    <3>2. files'[trainer[t].version] = files[trainer[t].version]
      BY <1>6, <3>1
    <3> QED BY <1>8, <2>1, <2>2, <2>3, <3>2 DEF TrainerOK
  <2>4. CASE ~Writing(t)
    <3>1. trainer[t].pc # "metadata"
      BY <2>4 DEF Writing
    <3> QED BY <1>8, <2>1, <2>2, <2>4, <3>1 DEF TrainerOK
  <2> QED BY <2>3, <2>4
<1>11. RegisteredWasSaved' /\ RegistryInv' /\ ScoresWithTrained' /\ WorkerInv'
  BY WrittenFacts, RowsFrame, WorkerFrame
<1> QED BY <1>7, <1>9, <1>10, <1>11 DEF WrittenInv, StoreInv, TrainerInv

LEMMA DamageKeeps ==
    ASSUME WrittenInv, NEW v \in Version, Damage(v) PROVE WrittenInv'
<1>1. TypeOK /\ DiskInv
  BY WrittenFacts
<1>2. PICK a \in {None, Damaged, files[v].artifact}, m \in {None, files[v].metadata} :
        files' = [files EXCEPT ![v].artifact = a, ![v].metadata = m]
  BY DEF Damage
<1>3. /\ files[v].metadata # None /\ faults < MaxFaults /\ faults' = faults + 1
      /\ UNCHANGED <<trained, registry, trainer, worker, release, clock, trainings>>
  BY DEF Damage
<1>4. files[v].metadata = trained[v] /\ trained[v] # None
  BY <1>1, <1>3 DEF DiskInv
<1>5. a \in Contents \union {None} /\ a \in {None, Damaged, trained[v].checksum}
  BY <1>1, <1>4 DEF TypeOK, DiskInv, Damaged, Contents
<1>6. faults' \in 0..MaxFaults
  BY <1>1, <1>3, BoundsOK
<1> QED BY <1>2, <1>3, <1>4, <1>5, <1>6, FilesChange

LEMMA RestoreKeeps ==
    ASSUME WrittenInv, NEW v \in Version, Restore(v) PROVE WrittenInv'
<1>1. TypeOK
  BY WrittenFacts
<1>2. /\ trained[v] # None
      /\ files' = [files EXCEPT ![v].artifact = trained[v].checksum,
                                ![v].metadata = trained[v]]
      /\ UNCHANGED <<trained, registry, trainer, worker, release, clock, trainings, faults>>
  BY DEF Restore, bounds
<1>3. trained[v].checksum \in Contents
  BY <1>1, <1>2 DEF TypeOK, Metadata
<1>4. faults' \in 0..MaxFaults
  BY <1>1, <1>2, BoundsOK
<1> QED BY <1>2, <1>3, <1>4, FilesChange

LEMMA UpgradeKeeps ==
    ASSUME WrittenInv, Upgrade PROVE WrittenInv'
<1>1. TypeOK /\ DiskInv /\ RegisteredWasSaved /\ RegistryInv
  BY WrittenFacts
<1>2. /\ release' = release + 1 /\ trainer' = [t \in Trainer |-> Idle]
      /\ worker' = WorkerIdle /\ faults < MaxFaults /\ faults' = faults + 1
      /\ UNCHANGED <<files, trained, registry, clock, trainings>>
  BY DEF Upgrade, diskVars
<1>3. faults' \in 0..MaxFaults /\ release' \in Nat
  BY <1>1, <1>2, BoundsOK DEF TypeOK
<1>4. trainer' \in [Trainer -> TrainerState] /\ \A t \in Trainer : trainer'[t].pc = "idle"
  BY <1>2, IdleState
<1>5. TypeOK'
  BY <1>1, <1>2, <1>3, <1>4, WorkerIdleFacts DEF TypeOK, TrainerState, WorkerState
<1>6. TrainerInv'
  BY <1>4 DEF TrainerInv, TrainerOK, Writing
<1>7. ScoresWithTrained' /\ WorkerInv'
  BY <1>2, WorkerIdleFacts DEF ScoresWithTrained, WorkerInv
<1>8. RegisteredWasSaved' /\ RegistryInv' /\ DiskInv'
  BY <1>1, <1>2, RowsFrame, DiskFrame
<1> QED BY <1>5, <1>6, <1>7, <1>8 DEF WrittenInv, StoreInv

LEMMA DayKeeps ==
    ASSUME WrittenInv, Day PROVE WrittenInv'
<1>1. TypeOK /\ DiskInv /\ TrainerInv
  BY WrittenFacts
<1>2. /\ clock' = clock + 1 /\ clock \in Nat
      /\ UNCHANGED <<files, trained, registry, trainer, worker, release, trainings, faults>>
  BY <1>1 DEF Day, diskVars, bounds, TypeOK
<1>3. TypeOK'
  BY <1>1, <1>2 DEF TypeOK
<1>4. \A m \in Metadata : GoodMetadata(m) => GoodMetadata(m)'
  BY <1>2 DEF GoodMetadata, Metadata
<1>5. DiskInv'
  <2>1. \A v \in Version : trained[v] # None => trained[v] \in Metadata
    BY <1>1 DEF TypeOK
  <2> QED BY <1>1, <1>2, <1>4, <2>1 DEF DiskInv
<1>6. ASSUME NEW t \in Trainer PROVE TrainerOK(t)'
  <2>1. TrainerOK(t)
    BY <1>1 DEF TrainerInv
  <2>2. \A u : Writing(u)' <=> Writing(u)
    BY <1>2 DEF Writing
  <2> QED BY <1>2, <1>4, <2>1, <2>2 DEF TrainerOK
<1>7. RegisteredWasSaved' /\ RegistryInv' /\ ScoresWithTrained' /\ WorkerInv'
  BY <1>2, WrittenFacts, RowsFrame, WorkerFrame
<1> QED BY <1>3, <1>5, <1>6, <1>7 DEF WrittenInv, StoreInv, TrainerInv

-----------------------------------------------------------------------------
(* Theorems                                                                 *)

LEMMA WrittenInit == Init => WrittenInv
<1> SUFFICES ASSUME Init PROVE WrittenInv
  OBVIOUS
<1>1. /\ files = [v \in Version |-> NoFiles] /\ registry = [v \in Version |-> None]
      /\ trainer = [t \in Trainer |-> Idle] /\ worker = WorkerIdle
      /\ release = 1 /\ clock = 1 /\ trained = [v \in Version |-> None]
      /\ trainings = 0 /\ faults = 0
  BY DEF Init
<1>2. NoFiles \in FileState /\ NoFiles.metadata = None
  BY DEF NoFiles, FileState
<1>3. files \in [Version -> FileState] /\ trainer \in [Trainer -> TrainerState]
  BY <1>1, <1>2, IdleState
<1>4. TypeOK
  BY <1>1, <1>3, WorkerIdleFacts, BoundAssumption DEF TypeOK, FileState, TrainerState,
     WorkerState
<1>5. Registered = {}
  BY <1>1 DEF Registered
<1>6. RegisteredWasSaved /\ RegistryInv
  BY <1>5, FS_EmptySet DEF RegisteredWasSaved, RegistryInv
<1>7. ScoresWithTrained /\ WorkerInv
  BY <1>1, WorkerIdleFacts DEF ScoresWithTrained, WorkerInv
<1>8. DiskInv
  BY <1>1, <1>2 DEF DiskInv
<1>9. TrainerInv
  BY <1>1, IdleState DEF TrainerInv, TrainerOK, Writing
<1> QED BY <1>4, <1>6, <1>7, <1>8, <1>9 DEF WrittenInv, StoreInv

LEMMA WrittenNext == WrittenInv /\ [Next]_vars => WrittenInv'
<1> SUFFICES ASSUME WrittenInv, [Next]_vars PROVE WrittenInv'
  OBVIOUS
<1>1. ASSUME NEW t \in Trainer, NEW v \in Version, NEW n \in RowCounts, Train(t, v, n)
      PROVE  WrittenInv'
  BY <1>1, TrainKeeps
<1>2. ASSUME NEW t \in Trainer, TrainerStep(t) \/ TrainerCrash(t) PROVE WrittenInv'
  BY <1>2, MakeDirectoryKeeps, SaveArtifactKeeps, SaveMetadataKeeps, UseExistingKeeps,
     RegisterReadKeeps, RegisterCommitKeeps, TrainerCrashKeeps DEF TrainerStep
<1>3. ASSUME NEW v \in Version, Damage(v) \/ Restore(v) PROVE WrittenInv'
  BY <1>3, DamageKeeps, RestoreKeeps
<1>4. CASE WorkerVerify \/ WorkerLoad \/ WorkerCommit \/ WorkerFails
  BY <1>4, WorkerVerifyKeeps, WorkerLoadKeeps, WorkerCommitKeeps, WorkerFailsKeeps
<1>5. CASE Upgrade \/ Day
  BY <1>5, UpgradeKeeps, DayKeeps
<1>6. CASE UNCHANGED vars
  <2>1. UNCHANGED <<files, trained, registry, trainer, worker, release, clock, trainings,
                    faults>>
    BY <1>6 DEF vars, diskVars, bounds
  <2>2. TypeOK'
    BY <2>1, WrittenFacts DEF TypeOK
  <2>3. /\ RegisteredWasSaved' /\ RegistryInv' /\ ScoresWithTrained' /\ WorkerInv'
        /\ DiskInv' /\ TrainerInv'
    BY <2>1, WrittenFacts, RowsFrame, WorkerFrame, DiskFrame, TrainerFrame
  <2> QED BY <2>2, <2>3 DEF WrittenInv, StoreInv
<1> QED BY <1>1, <1>2, <1>3, <1>4, <1>5, <1>6 DEF Next

\* The inductive invariant: one training writes a version's directory, once, and
\* everything that refers to the version has what it wrote (save_bundle,
\* train_and_register).
THEOREM WrittenInvariant == Spec => []WrittenInv
BY WrittenInit, WrittenNext, PTL DEF Spec

\* Rows name artefacts that were written to the end, and the worker scores with
\* what training wrote, under the release that wrote it, whatever trainings ran
\* at once and whatever files were damaged (save_bundle, _register_bundle,
\* load_bundle).
THEOREM StoreIsSound == Spec => []StoreInv
<1>1. WrittenInv => StoreInv
  BY DEF WrittenInv
<1> QED BY <1>1, WrittenInvariant, PTL

\* For every minimum of feature rows, a model that passes the gates of
\* train_model passes those of load_bundle.
THEOREM TrainedAlwaysLoads == Spec => []TrainedLoads
<1>1. WrittenInv => TrainedLoads
  <2> SUFFICES ASSUME WrittenInv, NEW t \in Trainer,
                      trainer[t].pc \in {"register", "commit"},
                      files[trainer[t].version].metadata # None,
                      files[trainer[t].version].artifact = trainer[t].metadata.checksum
               PROVE  LoadBundle(trainer[t].version) = "loaded"
    BY DEF TrainedLoads
  <2> DEFINE v == trainer[t].version
             m == trainer[t].metadata
  <2>1. TypeOK /\ DiskInv /\ TrainerOK(t)
    BY WrittenFacts DEF TrainerInv
  <2>2. /\ v \in Version /\ m \in Metadata /\ GoodMetadata(m) /\ m.release = release
        /\ trained[v] = m
    BY <2>1 DEF TrainerOK
  <2>3. files[v].metadata = m
    BY <2>1, <2>2 DEF DiskInv
  <2>4. m.checksum # None
    BY <2>2, NoneAssumption DEF Metadata
  <2> QED BY <2>2, <2>3, <2>4, GoodLoads
<1> QED BY <1>1, WrittenInvariant, PTL

-----------------------------------------------------------------------------
(* Rows in the order of their ids                                           *)

\* The first and the last of a set of rows.
LEMMA MinMax ==
    ASSUME NEW S \in SUBSET (1..MaxRows), S # {}
    PROVE  /\ Max(S) \in S /\ \A y \in S : y <= Max(S)
           /\ Min(S) \in S /\ \A y \in S : Min(S) <= y
<1>1. S \subseteq Nat /\ MaxRows \in Nat /\ S \in SUBSET (0..MaxRows)
  BY ScoringAssumption
<1>2. \E x \in S : \A y \in S : x >= y
  <2>1. PICK x \in S : \A y \in S : y <= x
    BY <1>1, LargestNumber
  <2> QED BY <1>1, <2>1
<1>3. \E x \in S : \A y \in S : x =< y
  <2>1. PICK x \in S : \A k \in S : ~(<<k, x>> \in OpToRel(<, Nat))
    BY <1>1, NatLessThanWellFounded, WFMin
  <2>2. \A k \in S : ~(k < x)
    BY <1>1, <2>1 DEF OpToRel
  <2> QED BY <1>1, <2>2
<1>4. Max(S) \in S /\ \A y \in S : Max(S) >= y
  BY <1>2 DEF Max
<1>5. Min(S) \in S /\ \A y \in S : Min(S) =< y
  BY <1>3 DEF Min
<1> QED BY <1>1, <1>4, <1>5

\* Sets of rows are finite, and a part is no larger than the whole.
LEMMA RowSets ==
    ASSUME NEW S \in SUBSET (1..MaxRows)
    PROVE  /\ IsFiniteSet(S) /\ Cardinality(S) \in Nat
           /\ \A T \in SUBSET S : /\ IsFiniteSet(T) /\ Cardinality(T) \in Nat
                                  /\ Cardinality(T) <= Cardinality(S)
<1>1. IsFiniteSet(1..MaxRows)
  BY ScoringAssumption, FS_Interval
<1>2. IsFiniteSet(S)
  BY <1>1, FS_Subset
<1> QED BY <1>2, FS_Subset, FS_CardinalityType

\* A part of the rows that is enough to judge row n by its k newest rows: with a row
\* it has all from there up to n, and what it lacks is followed by k rows.
Enough(C, R, n, k) ==
    /\ n \in C /\ C \subseteq R
    /\ \A i \in C, j \in R : i <= j /\ j <= n => j \in C
    /\ \A u \in R : u < n /\ u \notin C => Cardinality({j \in R : u < j /\ j <= n}) >= k

\* The rows that the worker reads around its targets.
ContextIds(R, targets) ==
    Newest(ContextRows - 1, {i \in R : i < Min(targets)})
        \cup {i \in R : i \in Min(targets)..Max(targets)}

\* They are enough for every target: the batch, and CONTEXT_ROWS - 1 rows before it.
LEMMA ContextIsEnough ==
    ASSUME NEW R \in SUBSET (1..MaxRows), NEW targets \in SUBSET R, NEW n \in targets
    PROVE  Enough(ContextIds(R, targets), R, n, ContextRows)
<1> DEFINE lo == Min(targets)
           hi == Max(targets)
           S == {i \in R : i < lo}
           C == ContextIds(R, targets)
           Above(i) == {k \in S : k > i}
<1>1. R \subseteq Nat /\ targets \subseteq Nat /\ ContextRows \in Nat
  BY ScoringAssumption, BatchAssumption
<1>2. lo \in targets /\ hi \in targets /\ lo <= n /\ n <= hi
  BY MinMax
<1>3. \A i : i \in C <=> \/ i \in S /\ Cardinality(Above(i)) < ContextRows - 1
                         \/ i \in R /\ lo <= i /\ i <= hi
  BY <1>1, <1>2 DEF ContextIds, Newest
<1>4. \A i : Above(i) \in SUBSET S /\ S \in SUBSET R
  OBVIOUS
<1>5. \A i : IsFiniteSet(Above(i)) /\ Cardinality(Above(i)) \in Nat
  <2> SUFFICES ASSUME NEW i PROVE IsFiniteSet(Above(i)) /\ Cardinality(Above(i)) \in Nat
    OBVIOUS
  <2>1. Above(i) \in SUBSET R
    OBVIOUS
  <2> HIDE DEF Above
  <2> QED BY <2>1, RowSets
<1> HIDE DEF C, lo, hi
<1>6. n \in C /\ C \subseteq R
  BY <1>1, <1>2, <1>3
<1>7. ASSUME NEW i \in C, NEW j \in R, i <= j, j <= n PROVE j \in C
  <2>1. CASE lo <= j
    <3>1. j <= hi
      BY <1>1, <1>2, <1>7
    <3> QED BY <1>3, <2>1, <3>1
  <2>2. CASE j < lo
    <3>1. i \in S /\ j \in S /\ Cardinality(Above(i)) < ContextRows - 1
      BY <1>1, <1>2, <1>3, <1>6, <1>7, <2>2
    <3>2. Above(j) \in SUBSET Above(i)
      <4> SUFFICES ASSUME NEW k \in Above(j) PROVE k \in Above(i)
        OBVIOUS
      <4>1. k \in Nat /\ i \in Nat /\ j \in Nat /\ k > j /\ i <= j
        BY <1>1, <1>6, <1>7
      <4>2. k > i
        BY <4>1
      <4> QED BY <4>2
    <3> HIDE DEF Above, S
    <3>3. Cardinality(Above(j)) <= Cardinality(Above(i))
      BY <1>5, <3>2, FS_Subset
    <3>4. Cardinality(Above(j)) < ContextRows - 1
      BY <1>1, <1>5, <3>1, <3>3
    <3> QED BY <1>3, <3>1, <3>4
  <2> QED BY <1>1, <1>2, <2>1, <2>2
<1>8. ASSUME NEW u \in R, u < n, u \notin C
      PROVE  Cardinality({j \in R : u < j /\ j <= n}) >= ContextRows
  <2> DEFINE after == {j \in R : u < j /\ j <= n}
  <2>0. u \in Nat /\ n \in Nat /\ lo \in Nat /\ hi \in Nat
    BY <1>1, <1>2
  <2>1. u \in S /\ ~(Cardinality(Above(u)) < ContextRows - 1)
    <3>1. u <= hi
      BY <1>2, <1>8, <2>0
    <3>2. lo <= u => u \in C
      BY <1>3, <3>1
    <3>3. u < lo
      BY <1>8, <2>0, <3>2
    <3> QED BY <1>3, <1>8, <3>3
  <2>2. Above(u) \cup {n} \in SUBSET after /\ n \notin Above(u)
    <3>1. ASSUME NEW k \in Above(u) PROVE k \in after /\ k # n
      <4>1. k \in R /\ k \in Nat /\ k < lo /\ k > u
        BY <1>1
      <4> QED BY <1>2, <2>0, <4>1
    <3>2. n \in after
      BY <1>8, <2>0
    <3> QED BY <3>1, <3>2
  <2>3. after \in SUBSET R
    OBVIOUS
  <2> HIDE DEF after, Above, S
  <2>4. IsFiniteSet(after) /\ Cardinality(after) \in Nat
    BY <2>3, RowSets
  <2>5. Cardinality(Above(u) \cup {n}) = Cardinality(Above(u)) + 1
    BY <1>5, <2>2, FS_AddElement
  <2>6. Cardinality(Above(u) \cup {n}) <= Cardinality(after)
    BY <2>2, <2>4, FS_Subset
  <2>7. Cardinality(after) >= ContextRows
    BY <1>1, <1>5, <2>1, <2>4, <2>5, <2>6
  <2> QED BY <2>7 DEF after
<1> QED BY <1>6, <1>7, <1>8 DEF Enough, C

\* Rows that arrive behind n leave what there was enough for n.
LEMMA NewRowsAreBehind ==
    ASSUME NEW R \in SUBSET (1..MaxRows), NEW n \in R, NEW m \in 1..MaxRows, NEW k,
           \A i \in R : i < m
    PROVE  Enough(R, R \cup {m}, n, k)
<1>1. R \subseteq Nat /\ m \in Nat /\ MaxRows \in Nat
  BY ScoringAssumption
<1>2. ASSUME NEW j \in R \cup {m}, j <= n PROVE j \in R
  BY <1>1, <1>2
<1>3. ASSUME NEW u \in R \cup {m}, u < n PROVE u \in R
  BY <1>1, <1>3
<1> QED BY <1>2, <1>3 DEF Enough

\* What is enough has the same newest rows up to n.
LEMMA SameNewest ==
    ASSUME NEW C, NEW R \in SUBSET (1..MaxRows), NEW n, NEW k \in Nat, Enough(C, R, n, k)
    PROVE  \A x : x \in Newest(k, {i \in C : i <= n}) <=> x \in Newest(k, {i \in R : i <= n})
<1>1. R \subseteq Nat /\ n \in C /\ C \subseteq R /\ n \in Nat
  BY ScoringAssumption DEF Enough
<1> DEFINE A(X, x) == {i \in {j \in X : j <= n} : i > x}
<1>2. \A X, x : x \in Newest(k, {i \in X : i <= n})
                  <=> x \in X /\ x <= n /\ Cardinality(A(X, x)) < k
  BY DEF Newest
<1>3. ASSUME NEW x \in C, x <= n PROVE A(C, x) = A(R, x)
  <2>1. ASSUME NEW i \in A(R, x) PROVE i \in A(C, x)
    <3>1. i \in R /\ i <= n /\ i > x
      OBVIOUS
    <3>2. x <= i
      BY <1>1, <3>1
    <3>3. i \in C
      BY <3>1, <3>2 DEF Enough
    <3> QED BY <3>1, <3>3
  <2>2. ASSUME NEW i \in A(C, x) PROVE i \in A(R, x)
    BY <1>1
  <2> QED BY <2>1, <2>2
<1>4. ASSUME NEW x \in R, x <= n, x \notin C PROVE ~(Cardinality(A(R, x)) < k)
  <2>1. x < n
    BY <1>1, <1>4
  <2>2. A(R, x) = {j \in R : x < j /\ j <= n}
    BY <1>1
  <2>3. A(R, x) \in SUBSET R
    OBVIOUS
  <2> HIDE DEF A
  <2>4. Cardinality(A(R, x)) >= k
    BY <1>4, <2>1, <2>2 DEF Enough
  <2>5. Cardinality(A(R, x)) \in Nat
    BY <2>3, RowSets
  <2> QED BY <2>4, <2>5
<1> HIDE DEF A
<1>5. ASSUME NEW x
      PROVE  x \in Newest(k, {i \in C : i <= n}) <=> x \in Newest(k, {i \in R : i <= n})
  <2>1. x \in C /\ x <= n => Cardinality(A(C, x)) = Cardinality(A(R, x))
    BY <1>3
  <2>2. x \in R /\ x <= n /\ x \notin C => ~(Cardinality(A(R, x)) < k)
    BY <1>4
  <2>3. x \in C => x \in R
    BY <1>1
  <2> QED BY <1>2, <2>1, <2>2, <2>3
<1> QED BY <1>5

\* Samples by their ids.
Samples(f, X) == {f[i] : i \in X}

\* Diagnostics are those of the samples with the newest ids.
LEMMA DiagnosedFrom ==
    ASSUME NEW f, NEW X, NEW n, \A i \in X : f[i].id = i
    PROVE  Diagnosed(n, Samples(f, X))
              <=> DetectSensorFailures(Samples(f, Newest(ContextRows, {i \in X : i <= n}))) # {}
<1> DEFINE ids == Newest(ContextRows, {i \in X : i <= n})
           given == {s.id : s \in {u \in Samples(f, X) : u.id <= n}}
           history == {s \in Samples(f, X) : s.id \in ids}
<1>1. given = {i \in X : i <= n}
  <2>1. ASSUME NEW x \in given PROVE x \in {i \in X : i <= n}
    BY DEF Samples
  <2>2. ASSUME NEW x \in X, x <= n PROVE x \in given
    <3>1. f[x] \in Samples(f, X) /\ f[x].id = x
      BY DEF Samples
    <3> QED BY <2>2, <3>1
  <2> QED BY <2>1, <2>2
<1>2. ids \subseteq X
  BY DEF Newest
<1>3. history = Samples(f, ids)
  <2> HIDE DEF ids
  <2> QED BY <1>2 DEF Samples
<1>4. Diagnosed(n, Samples(f, X)) <=> \E i \in {Newest(ContextRows, given)} :
        \E h \in {{s \in Samples(f, X) : s.id \in i}} : DetectSensorFailures(h) # {}
  BY DEF Diagnosed
<1>5. Newest(ContextRows, given) = ids
  BY <1>1
<1>6. Diagnosed(n, Samples(f, X)) <=> \E h \in {history} : DetectSensorFailures(h) # {}
  <2> HIDE DEF given, ids
  <2> QED BY <1>4, <1>5
<1> HIDE DEF ids, history
<1>7. Diagnosed(n, Samples(f, X)) <=> DetectSensorFailures(history) # {}
  BY <1>6
<1>8. DetectSensorFailures(history) = DetectSensorFailures(Samples(f, ids))
  BY <1>3
<1> QED BY <1>7, <1>8 DEF ids

\* So a part that is enough gives the diagnostics of the whole.
LEMMA SameDiagnosis ==
    ASSUME NEW f, NEW C, NEW R \in SUBSET (1..MaxRows), NEW n,
           Enough(C, R, n, ContextRows), \A i \in R : f[i].id = i
    PROVE  Diagnosed(n, Samples(f, C)) <=> Diagnosed(n, Samples(f, R))
<1>1. \A i \in C : f[i].id = i
  BY DEF Enough
<1>2. Newest(ContextRows, {i \in C : i <= n}) = Newest(ContextRows, {i \in R : i <= n})
  <2> DEFINE A == Newest(ContextRows, {i \in C : i <= n})
             B == Newest(ContextRows, {i \in R : i <= n})
  <2>1. \A x : x \in A <=> x \in B
    BY SameNewest, BatchAssumption
  <2> HIDE DEF A, B
  <2>2. A = B
    BY <2>1, SetExtensionality
  <2> QED BY <2>2 DEF A, B
<1>3. /\ Diagnosed(n, Samples(f, C)) <=>
            DetectSensorFailures(Samples(f, Newest(ContextRows, {i \in C : i <= n}))) # {}
      /\ Diagnosed(n, Samples(f, R)) <=>
            DetectSensorFailures(Samples(f, Newest(ContextRows, {i \in R : i <= n}))) # {}
  BY <1>1, DiagnosedFrom
<1> QED BY <1>2, <1>3

-----------------------------------------------------------------------------
(* Windows                                                                  *)

\* Samples of the rows X: their ids are the rows, their times are numbers.
SamplesOf(f, X) == \A i \in X : f[i].id = i /\ f[i].timestamp \in Int

\* A sample is in its own window, whatever the order of the others.
LEMMA OwnWindow ==
    ASSUME NEW f, NEW X \in SUBSET (1..MaxRows), SamplesOf(f, X), NEW n \in X
    PROVE  f[n] \in Window(f[n], Samples(f, X))
<1>1. X \subseteq Nat
  BY ScoringAssumption
<1>2. ASSUME NEW x \in UpTo(f[n], Samples(f, X)) PROVE ~Precedes(f[n], x)
  <2>1. PICK i \in X : x = f[i]
    BY DEF UpTo, Samples
  <2>2. /\ f[i].id \in Nat /\ f[n].id \in Nat
        /\ f[i].timestamp \in Int /\ f[n].timestamp \in Int
    BY <1>1 DEF SamplesOf
  <2>3. x = f[n] \/ Precedes(x, f[n])
    BY DEF UpTo
  <2> QED BY <2>1, <2>2, <2>3 DEF Precedes
<1> DEFINE segment == {u \in UpTo(f[n], Samples(f, X)) : Contiguous(u, f[n], Samples(f, X))}
<1>3. f[n] \in segment
  <2>1. f[n] \in UpTo(f[n], Samples(f, X))
    BY DEF UpTo, Samples
  <2>2. Contiguous(f[n], f[n], Samples(f, X))
    BY <1>2 DEF Contiguous
  <2> QED BY <2>1, <2>2
<1>4. {x \in segment : Precedes(f[n], x)} = {}
  BY <1>2
<1>5. Cardinality({x \in segment : Precedes(f[n], x)}) < WindowSize
  <2>1. Cardinality({x \in segment : Precedes(f[n], x)}) = 0
    BY <1>4, FS_EmptySet
  <2> HIDE DEF segment
  <2> QED BY <2>1, WindowAssumption
<1> QED BY <1>3, <1>5 DEF Window

\* The order of the rows is that of their times.
Ordered(f, X) ==
    /\ SamplesOf(f, X)
    /\ \A i, j \in X : i < j => f[i].timestamp < f[j].timestamp

LEMMA RowsInOrder ==
    ASSUME NEW f, NEW X \in SUBSET (1..MaxRows), Ordered(f, X), NEW i \in X, NEW j \in X
    PROVE  /\ Precedes(f[i], f[j]) <=> i < j
           /\ f[i] = f[j] <=> i = j
<1>1. X \subseteq Nat
  BY ScoringAssumption
<1>2. /\ i \in Nat /\ j \in Nat /\ f[i].id = i /\ f[j].id = j
      /\ f[i].timestamp \in Int /\ f[j].timestamp \in Int
  BY <1>1 DEF Ordered, SamplesOf
<1>3. /\ i < j => f[i].timestamp < f[j].timestamp
      /\ j < i => f[j].timestamp < f[i].timestamp
  BY DEF Ordered
<1>4. f[i] = f[j] <=> i = j
  BY <1>2
<1>5. i < j => Precedes(f[i], f[j])
  BY <1>3 DEF Precedes
<1>6. Precedes(f[i], f[j]) => i < j
  BY <1>2, <1>3 DEF Precedes
<1> QED BY <1>4, <1>5, <1>6

\* The rows from i to n follow one another without a gap among X.
Unbroken(f, X, n, i) ==
    \A x \in X : i < x /\ x <= n =>
        \E y \in X : y < x /\ f[x].timestamp - f[y].timestamp <= MaximumGap

Segment(f, X, n) == {i \in X : i <= n /\ Unbroken(f, X, n, i)}
SegmentAfter(f, X, n, i) == {x \in Segment(f, X, n) : i < x}
WindowIds(f, X, n) ==
    {i \in Segment(f, X, n) : Cardinality(SegmentAfter(f, X, n, i)) < WindowSize}

\* As many samples as rows.
LEMMA SamplesCount ==
    ASSUME NEW f, NEW X \in SUBSET (1..MaxRows), SamplesOf(f, X), NEW J \in SUBSET X
    PROVE  Cardinality(Samples(f, J)) = Cardinality(J)
<1> DEFINE g == [i \in J |-> f[i]]
<1>1. g \in Bijection(J, Samples(f, J))
  <2>1. g \in [J -> Samples(f, J)] /\ DOMAIN g = J
    BY DEF Samples
  <2>2. \A a, b \in J : g[a] = g[b] => a = b
    BY DEF SamplesOf
  <2>3. \A t \in Samples(f, J) : \E i \in J : g[i] = t
    BY DEF Samples
  <2> HIDE DEF g
  <2> QED BY <2>1, <2>2, <2>3 DEF Bijection, Injection, Surjection, IsInjective
<1>2. IsFiniteSet(J)
  <2>1. J \in SUBSET (1..MaxRows)
    OBVIOUS
  <2> QED BY <2>1, RowSets
<1>3. ExistsBijection(J, Samples(f, J))
  BY <1>1 DEF ExistsBijection
<1> QED BY <1>2, <1>3, FS_Bijection

\* The window of a row is that of its id.
LEMMA WindowById ==
    ASSUME NEW f, NEW X \in SUBSET (1..MaxRows), Ordered(f, X), NEW n \in X
    PROVE  Window(f[n], Samples(f, X)) = Samples(f, WindowIds(f, X, n))
<1> DEFINE all == Samples(f, X)
           segment == {u \in UpTo(f[n], all) : Contiguous(u, f[n], all)}
<1>1. X \subseteq Nat /\ SamplesOf(f, X)
  BY ScoringAssumption DEF Ordered
<1>2. ASSUME NEW i \in X PROVE f[i] \in UpTo(f[n], all) <=> i <= n
  <2>1. f[i] \in all
    BY DEF Samples
  <2>2. f[i] \in UpTo(f[n], all) <=> f[i] = f[n] \/ Precedes(f[i], f[n])
    BY <2>1 DEF UpTo
  <2>3. /\ Precedes(f[i], f[n]) <=> i < n
        /\ f[i] = f[n] <=> i = n
    BY RowsInOrder
  <2> QED BY <1>1, <2>2, <2>3
<1>3. ASSUME NEW i \in X PROVE Contiguous(f[i], f[n], all) <=> Unbroken(f, X, n, i)
  <2>1. ASSUME Contiguous(f[i], f[n], all), NEW x \in X, i < x, x <= n
        PROVE  \E y \in X : y < x /\ f[x].timestamp - f[y].timestamp <= MaximumGap
    <3>1. f[x] \in UpTo(f[n], all) /\ Precedes(f[i], f[x])
      BY <1>2, <2>1, RowsInOrder
    <3>2. PICK s \in all : Precedes(s, f[x]) /\ f[x].timestamp - s.timestamp <= MaximumGap
      BY <2>1, <3>1 DEF Contiguous
    <3>3. PICK y \in X : s = f[y]
      BY DEF Samples
    <3>4. y < x
      BY <3>2, <3>3, RowsInOrder
    <3> QED BY <3>2, <3>3, <3>4
  <2>2. ASSUME Unbroken(f, X, n, i), NEW s \in UpTo(f[n], all), Precedes(f[i], s)
        PROVE  \E u \in all : Precedes(u, s) /\ s.timestamp - u.timestamp <= MaximumGap
    <3>1. PICK x \in X : s = f[x]
      BY DEF UpTo, Samples
    <3>2. x <= n /\ i < x
      BY <1>2, <2>2, <3>1, RowsInOrder
    <3>3. PICK y \in X : y < x /\ f[x].timestamp - f[y].timestamp <= MaximumGap
      BY <2>2, <3>2 DEF Unbroken
    <3>4. f[y] \in all /\ Precedes(f[y], f[x])
      BY <3>3, RowsInOrder DEF Samples
    <3> QED BY <3>1, <3>3, <3>4
  <2> QED BY <2>1, <2>2 DEF Contiguous, Unbroken
<1>4. segment = Samples(f, Segment(f, X, n))
  <2>1. ASSUME NEW u \in segment PROVE u \in Samples(f, Segment(f, X, n))
    <3>1. PICK i \in X : u = f[i]
      BY DEF UpTo, Samples
    <3>2. i \in Segment(f, X, n)
      BY <1>2, <1>3, <3>1 DEF Segment
    <3> QED BY <3>1, <3>2 DEF Samples
  <2>2. ASSUME NEW u \in Samples(f, Segment(f, X, n)) PROVE u \in segment
    <3>1. PICK i \in Segment(f, X, n) : u = f[i]
      BY DEF Samples
    <3>2. i \in X /\ i <= n /\ Unbroken(f, X, n, i)
      BY DEF Segment
    <3> QED BY <1>2, <1>3, <3>1, <3>2
  <2> QED BY <2>1, <2>2
<1>5. ASSUME NEW i \in X
      PROVE  Cardinality({x \in segment : Precedes(f[i], x)})
                = Cardinality(SegmentAfter(f, X, n, i))
  <2> HIDE DEF segment
  <2>1. {x \in segment : Precedes(f[i], x)} = Samples(f, SegmentAfter(f, X, n, i))
    <3>1. ASSUME NEW x \in segment, Precedes(f[i], x)
          PROVE  x \in Samples(f, SegmentAfter(f, X, n, i))
      <4>1. PICK j \in Segment(f, X, n) : x = f[j]
        BY <1>4 DEF Samples
      <4>2. j \in X
        BY DEF Segment
      <4>3. i < j
        BY <3>1, <4>1, <4>2, RowsInOrder
      <4> QED BY <4>1, <4>3 DEF Samples, SegmentAfter
    <3>2. ASSUME NEW x \in Samples(f, SegmentAfter(f, X, n, i))
          PROVE  x \in segment /\ Precedes(f[i], x)
      <4>1. PICK j \in Segment(f, X, n) : x = f[j] /\ i < j
        BY DEF Samples, SegmentAfter
      <4>2. j \in X
        BY DEF Segment
      <4>3. Precedes(f[i], f[j])
        BY <4>1, <4>2, RowsInOrder
      <4> QED BY <1>4, <4>1, <4>3 DEF Samples
    <3> QED BY <3>1, <3>2
  <2>2. SegmentAfter(f, X, n, i) \in SUBSET X
    BY DEF SegmentAfter, Segment
  <2> QED BY <1>1, <2>1, <2>2, SamplesCount
<1>6. Window(f[n], all) =
        {u \in segment : Cardinality({x \in segment : Precedes(u, x)}) < WindowSize}
  BY DEF Window
<1> HIDE DEF segment, all
<1>7. ASSUME NEW u \in Window(f[n], all) PROVE u \in Samples(f, WindowIds(f, X, n))
  <2>1. u \in segment /\ Cardinality({x \in segment : Precedes(u, x)}) < WindowSize
    BY <1>6
  <2>2. PICK i \in Segment(f, X, n) : u = f[i]
    BY <1>4, <2>1 DEF Samples
  <2>3. i \in X
    BY DEF Segment
  <2>4. Cardinality(SegmentAfter(f, X, n, i)) < WindowSize
    BY <1>5, <2>1, <2>2, <2>3
  <2> QED BY <2>2, <2>4 DEF Samples, WindowIds
<1>8. ASSUME NEW u \in Samples(f, WindowIds(f, X, n)) PROVE u \in Window(f[n], all)
  <2>1. PICK i \in Segment(f, X, n) : /\ u = f[i]
                                      /\ Cardinality(SegmentAfter(f, X, n, i)) < WindowSize
    BY DEF Samples, WindowIds
  <2>2. i \in X /\ u \in segment
    BY <1>4, <2>1 DEF Segment, Samples
  <2>3. Cardinality({x \in segment : Precedes(u, x)}) < WindowSize
    BY <1>5, <2>1, <2>2
  <2> QED BY <1>6, <2>2, <2>3
<1> QED BY <1>7, <1>8 DEF all

\* A part of the rows that is enough gives the window of the whole.
LEMMA SameWindow ==
    ASSUME NEW f, NEW C, NEW R \in SUBSET (1..MaxRows), NEW n,
           Enough(C, R, n, WindowSize), Ordered(f, R)
    PROVE  Window(f[n], Samples(f, C)) = Window(f[n], Samples(f, R))
<1>1. /\ R \subseteq Nat /\ n \in C /\ C \subseteq R /\ n \in Nat /\ n \in R
      /\ C \in SUBSET (1..MaxRows)
  BY ScoringAssumption DEF Enough
<1>2. Ordered(f, C)
  BY <1>1 DEF Ordered, SamplesOf
<1>3. ASSUME NEW i \in C, NEW j \in R, i <= j, j <= n PROVE j \in C
  BY <1>3 DEF Enough
<1>4. ASSUME NEW i \in C, i <= n PROVE Unbroken(f, C, n, i) <=> Unbroken(f, R, n, i)
  <2>1. ASSUME Unbroken(f, C, n, i), NEW x \in R, i < x, x <= n
        PROVE  \E y \in R : y < x /\ f[x].timestamp - f[y].timestamp <= MaximumGap
    <3>1. i <= x
      BY <1>1, <2>1
    <3>2. x \in C
      BY <1>3, <2>1, <3>1
    <3>3. \E y \in C : y < x /\ f[x].timestamp - f[y].timestamp <= MaximumGap
      BY <2>1, <3>2 DEF Unbroken
    <3> QED BY <1>1, <3>3
  <2>2. ASSUME Unbroken(f, R, n, i), NEW x \in C, i < x, x <= n
        PROVE  \E y \in C : y < x /\ f[x].timestamp - f[y].timestamp <= MaximumGap
    <3>1. PICK y \in R : y < x /\ f[x].timestamp - f[y].timestamp <= MaximumGap
      BY <1>1, <2>2 DEF Unbroken
    <3>2. CASE y \in C
      BY <3>1, <3>2
    <3>3. CASE y \notin C
      <4>1. x \in Nat /\ y \in Nat /\ i \in Nat /\ i \in R
        BY <1>1
      <4>2. y <= n
        BY <1>1, <2>2, <3>1, <4>1
      <4>3. y < i
        BY <1>3, <3>3, <4>1, <4>2
      <4>4. f[y].timestamp < f[i].timestamp
        BY <4>1, <4>3 DEF Ordered
      <4>5. f[y].timestamp \in Int /\ f[i].timestamp \in Int /\ f[x].timestamp \in Int
        BY <1>1, <4>1 DEF Ordered, SamplesOf
      <4>6. MaximumGap \in Nat
        BY WindowAssumption
      <4>7. f[x].timestamp - f[i].timestamp <= MaximumGap
        BY <3>1, <4>4, <4>5, <4>6
      <4> QED BY <2>2, <4>7
    <3> QED BY <3>2, <3>3
  <2> QED BY <2>1, <2>2 DEF Unbroken
<1>5. ASSUME NEW i \in C PROVE i \in Segment(f, C, n) <=> i \in Segment(f, R, n)
  BY <1>1, <1>4 DEF Segment
<1>6. ASSUME NEW i \in C PROVE SegmentAfter(f, C, n, i) = SegmentAfter(f, R, n, i)
  <2>1. ASSUME NEW x \in SegmentAfter(f, C, n, i) PROVE x \in SegmentAfter(f, R, n, i)
    <3>1. x \in C /\ x \in Segment(f, C, n) /\ i < x
      BY DEF SegmentAfter, Segment
    <3> QED BY <1>5, <3>1 DEF SegmentAfter
  <2>2. ASSUME NEW x \in SegmentAfter(f, R, n, i) PROVE x \in SegmentAfter(f, C, n, i)
    <3>1. x \in R /\ x <= n /\ x \in Segment(f, R, n) /\ i < x
      BY DEF SegmentAfter, Segment
    <3>2. i <= x
      BY <1>1, <3>1
    <3>3. x \in C
      BY <1>3, <3>1, <3>2
    <3> QED BY <1>5, <3>1, <3>3 DEF SegmentAfter
  <2> QED BY <2>1, <2>2
<1>7. ASSUME NEW i \in Segment(f, R, n), i \notin C
      PROVE  ~(Cardinality(SegmentAfter(f, R, n, i)) < WindowSize)
  <2> DEFINE after == {j \in R : i < j /\ j <= n}
  <2>1. i \in R /\ i <= n /\ Unbroken(f, R, n, i) /\ i \in Nat /\ i < n
    BY <1>1, <1>7 DEF Segment
  <2>2. ASSUME NEW j \in after PROVE j \in SegmentAfter(f, R, n, i)
    <3>1. j \in R /\ j \in Nat /\ i < j /\ j <= n
      BY <1>1
    <3>2. ASSUME NEW x \in R, j < x PROVE i < x
      BY <1>1, <2>1, <3>1, <3>2
    <3>3. Unbroken(f, R, n, j)
      BY <2>1, <3>2 DEF Unbroken
    <3> QED BY <3>1, <3>3 DEF Segment, SegmentAfter
  <2>3. SegmentAfter(f, R, n, i) \in SUBSET R
    BY DEF SegmentAfter, Segment
  <2>4. Cardinality(after) >= WindowSize
    BY <1>7, <2>1 DEF Enough
  <2>5. after \in SUBSET SegmentAfter(f, R, n, i) /\ after \in SUBSET R
    BY <2>2
  <2> HIDE DEF after
  <2>6. SegmentAfter(f, R, n, i) \in SUBSET (1..MaxRows)
    BY <2>3
  <2>7. /\ Cardinality(after) <= Cardinality(SegmentAfter(f, R, n, i))
        /\ Cardinality(after) \in Nat /\ Cardinality(SegmentAfter(f, R, n, i)) \in Nat
    BY <2>5, <2>6, RowSets
  <2> QED BY <2>4, <2>7, WindowAssumption
<1>8. WindowIds(f, C, n) = WindowIds(f, R, n)
  <2>1. ASSUME NEW i \in WindowIds(f, C, n) PROVE i \in WindowIds(f, R, n)
    <3>1. i \in C /\ i \in Segment(f, C, n) /\ Cardinality(SegmentAfter(f, C, n, i)) < WindowSize
      BY DEF WindowIds, Segment
    <3> QED BY <1>5, <1>6, <3>1 DEF WindowIds
  <2>2. ASSUME NEW i \in WindowIds(f, R, n) PROVE i \in WindowIds(f, C, n)
    <3>1. i \in Segment(f, R, n) /\ Cardinality(SegmentAfter(f, R, n, i)) < WindowSize
      BY DEF WindowIds
    <3>2. i \in C
      BY <1>7, <3>1
    <3> QED BY <1>5, <1>6, <3>1, <3>2 DEF WindowIds
  <2> QED BY <2>1, <2>2
<1>9. /\ Window(f[n], Samples(f, C)) = Samples(f, WindowIds(f, C, n))
      /\ Window(f[n], Samples(f, R)) = Samples(f, WindowIds(f, R, n))
  BY <1>1, <1>2, WindowById
<1> QED BY <1>8, <1>9

\* More rows are enough for fewer.
LEMMA EnoughForFewer ==
    ASSUME NEW C, NEW R \in SUBSET (1..MaxRows), NEW n, NEW k \in Nat, NEW m \in Nat,
           m <= k, Enough(C, R, n, k)
    PROVE  Enough(C, R, n, m)
<1>1. ASSUME NEW u \in R, u < n, u \notin C
      PROVE  Cardinality({j \in R : u < j /\ j <= n}) >= m
  <2> DEFINE after == {j \in R : u < j /\ j <= n}
  <2>1. after \in SUBSET R /\ Cardinality(after) >= k
    BY <1>1 DEF Enough
  <2> HIDE DEF after
  <2>2. Cardinality(after) \in Nat
    BY <2>1, RowSets
  <2>3. Cardinality(after) >= m
    BY <2>1, <2>2
  <2> QED BY <2>3 DEF after
<1> QED BY <1>1 DEF Enough

-----------------------------------------------------------------------------
(* Verdicts                                                                 *)

\* The rows of the table as a table of samples.
LEMMA SamplesOfTable ==
    ASSUME TableInv, ScoringTypeOK, NEW f, f = [i \in Received |-> Sample(i)]
    PROVE  /\ History = Samples(f, Received) /\ SamplesOf(f, Received)
           /\ \A i \in Received : f[i] = Sample(i) /\ f[i].id = i
           /\ InOrder => Ordered(f, Received)
           /\ \A t : Context(t) = Samples(f, ContextIds(Received, t))
<1>1. \A i \in Received : f[i] = Sample(i)
  OBVIOUS
<1>2. SamplesOf(f, Received)
  BY <1>1 DEF SamplesOf, Sample, TableInv, TelemetryRow
<1>3. InOrder => Ordered(f, Received)
  BY <1>1, <1>2 DEF InOrder, Ordered, Sample
<1>4. ASSUME NEW t PROVE Context(t) = Samples(f, ContextIds(Received, t))
  <2>1. ContextIds(Received, t) \subseteq Received
    BY DEF ContextIds, Newest
  <2>2. Context(t) = {Sample(n) : n \in ContextIds(Received, t)}
    BY DEF Context, ContextIds
  <2> HIDE DEF ContextIds
  <2> QED BY <1>1, <2>1, <2>2 DEF Samples
<1>5. History = Samples(f, Received)
  BY <1>1 DEF History, Samples
<1>6. \A i \in Received : f[i].id = i
  BY <1>1 DEF Sample
<1> QED BY <1>1, <1>2, <1>3, <1>4, <1>5, <1>6

\* A row that a model judged has a reason, and _targets takes the oldest of the rest.
LEMMA DoneRows ==
    ASSUME ScoringTypeOK
    PROVE  /\ Judged \subseteq WithReason /\ WithReason \subseteq Received
           /\ Received \in SUBSET (1..MaxRows)
           /\ \A ready \in BOOLEAN :
                 Targets(ready) = Oldest(MaxBatchRows, Received \ Done(ready))
<1>1. Judged \subseteq WithReason /\ WithReason \subseteq Received
  BY NoValueAssumption DEF Judged, WithReason, ScoringTypeOK, Reason
<1>2. Targets(TRUE) = Oldest(MaxBatchRows, Received \ Done(TRUE))
  <2>1. {n \in Received : rows[n].score = NoValue /\ rows[n].reason # "FEATURE_WINDOW_NOT_READY"}
            = Received \ Done(TRUE)
    BY DEF Done, Judged
  <2> QED BY <2>1 DEF Targets
<1>3. Targets(FALSE) = Oldest(MaxBatchRows, Received \ Done(FALSE))
  <2>1. {n \in Received : rows[n].score = NoValue /\ rows[n].reason = NoValue}
            = Received \ Done(FALSE)
    BY NoValueAssumption DEF Done, WithReason, ScoringTypeOK, Reason
  <2> QED BY <2>1 DEF Targets
<1> QED BY <1>1, <1>2, <1>3 DEF ScoringTypeOK

\* The oldest rows of a set are a beginning of it, and there is one if there is a row.
LEMMA OldestRows ==
    ASSUME NEW S \in SUBSET (1..MaxRows)
    PROVE  /\ Oldest(MaxBatchRows, S) \in SUBSET S
           /\ \A n \in Oldest(MaxBatchRows, S), i \in S : i < n => i \in Oldest(MaxBatchRows, S)
           /\ S # {} => Oldest(MaxBatchRows, S) # {}
<1> DEFINE Below(n) == {i \in S : i < n}
<1>1. S \subseteq Nat /\ MaxBatchRows \in Nat /\ MaxBatchRows > 0
  BY ScoringAssumption, BatchAssumption
<1>2. \A n : n \in Oldest(MaxBatchRows, S) <=> n \in S /\ Cardinality(Below(n)) < MaxBatchRows
  BY DEF Oldest
<1>3. ASSUME NEW n \in S, NEW i \in S, i < n PROVE Below(i) \in SUBSET Below(n)
  <2> SUFFICES ASSUME NEW k \in Below(i) PROVE k \in Below(n)
    OBVIOUS
  <2>1. k \in Nat /\ i \in Nat /\ n \in Nat /\ k < i
    BY <1>1
  <2> QED BY <1>3, <2>1
<1>4. \A n : Below(n) \in SUBSET (1..MaxRows)
  OBVIOUS
<1>5. ASSUME S # {} PROVE Oldest(MaxBatchRows, S) # {}
  <2>1. Min(S) \in S /\ \A y \in S : Min(S) <= y
    BY <1>5, MinMax
  <2>2. Below(Min(S)) = {}
    <3> SUFFICES ASSUME NEW k \in Below(Min(S)) PROVE FALSE
      OBVIOUS
    <3>1. k \in Nat /\ Min(S) \in Nat /\ k < Min(S) /\ Min(S) <= k
      BY <1>1, <2>1
    <3> QED BY <3>1
  <2> HIDE DEF Below
  <2>3. Cardinality(Below(Min(S))) < MaxBatchRows
    BY <1>1, <2>2, FS_EmptySet
  <2> QED BY <1>2, <2>1, <2>3
<1> HIDE DEF Below
<1>6. ASSUME NEW n \in Oldest(MaxBatchRows, S), NEW i \in S, i < n
      PROVE  i \in Oldest(MaxBatchRows, S)
  <2>1. n \in S /\ Cardinality(Below(n)) < MaxBatchRows
    BY <1>2
  <2>2. /\ Cardinality(Below(i)) <= Cardinality(Below(n))
        /\ Cardinality(Below(i)) \in Nat /\ Cardinality(Below(n)) \in Nat
    BY <1>3, <1>4, <1>6, <2>1, RowSets
  <2>3. Cardinality(Below(i)) < MaxBatchRows
    BY <1>1, <2>1, <2>2
  <2> QED BY <1>2, <2>3
<1> QED BY <1>2, <1>5, <1>6

-----------------------------------------------------------------------------
(* JudgementInv is inductive                                                *)

LEMMA ScoringInitInv == ScoringInit => JudgementInv
<1> SUFFICES ASSUME ScoringInit PROVE JudgementInv
  OBVIOUS
<1> USE DEF ScoringInit
<1>1. Received = {} /\ Judged = {} /\ WithReason = {}
  BY DEF Received, Judged, WithReason
<1>2. ScoringInv
  <2>1. /\ hours \in [Code -> Nat] /\ entries \in [Code -> Nat] /\ recent \subseteq Code
        /\ failures \in 0..MaxFailures /\ modelError \in Code \cup {NoValue}
    BY ScoringAssumption, CodeAssumption
  <2>2. /\ pass.pc \in {"idle", "scoring"} /\ pass.targets \subseteq Received
        /\ (pass.pc = "scoring") = (pass.targets # {})
    BY DEF NoPass
  <2>3. ScoringTypeOK
    BY <1>1, <2>1, <2>2 DEF ScoringTypeOK
  <2>4. LogIsBounded
    BY <1>1 DEF LogIsBounded
  <2> QED BY <2>3, <2>4 DEF ScoringInv
<1>3. TableInv
  <2>1. rows \in [Received -> TelemetryRow]
    BY <1>1
  <2> QED BY <2>1 DEF TableInv, NoPass
<1>4. VerdictInv
  BY <1>1 DEF VerdictInv, Closed, NoPass, Done
<1>5. AlarmInv
  BY <1>1 DEF AlarmInv
<1>6. ScoredFromHistory
  BY <1>1 DEF ScoredFromHistory
<1> QED BY <1>2, <1>3, <1>4, <1>5, <1>6 DEF JudgementInv

\* What only the table of rows tells stays while the rows do.
LEMMA SameRows ==
    ASSUME UNCHANGED tableVars
    PROVE  /\ Received' = Received /\ Judged' = Judged /\ WithReason' = WithReason
           /\ History' = History /\ ScoredFromHistory' = ScoredFromHistory
           /\ \A ready : Done(ready)' = Done(ready)
           /\ \A S : Closed(S)' = Closed(S)
<1>1. rows' = rows /\ late' = late
  BY DEF tableVars
<1>2. Received' = Received
  BY <1>1 DEF Received
<1>3. Judged' = Judged /\ WithReason' = WithReason
  BY <1>1, <1>2 DEF Judged, WithReason
<1>4. History' = History
  BY <1>1, <1>2 DEF History, Sample
<1>5. ScoredFromHistory' = ScoredFromHistory
  BY <1>1, <1>2 DEF ScoredFromHistory, InOrder, Sample
<1>6. \A ready : Done(ready)' = Done(ready)
  BY <1>3 DEF Done
<1>7. \A S : Closed(S)' = Closed(S)
  BY <1>2 DEF Closed
<1> QED BY <1>2, <1>3, <1>4, <1>5, <1>6, <1>7

LEMMA SameAlarms ==
    ASSUME UNCHANGED tableVars, UNCHANGED alarmVars, AlarmInv
    PROVE  AlarmInv'
<1>1. rows' = rows /\ late' = late /\ sensorAlarm' = sensorAlarm /\ anomalyAlarm' = anomalyAlarm
  BY DEF tableVars, alarmVars
<1> QED BY <1>1, SameRows DEF AlarmInv, Anomalous

\* Models come and go and hours pass: no row, pass or alarm changes.
LEMMA SurroundingsStep ==
    ASSUME JudgementInv,
           \/ ModelTrained
           \/ \E c \in Code : ModelLost(c) \/ IntervalPasses(c)
           \/ UNCHANGED scoringVars
    PROVE  JudgementInv'
<1>1. UNCHANGED tableVars /\ UNCHANGED alarmVars /\ pass' = pass /\ entries' = entries
  BY DEF ModelTrained, ModelLost, IntervalPasses, scoringVars, tableVars, alarmVars, logVars
<1>2. rows' = rows /\ late' = late /\ Received' = Received
  BY <1>1 DEF tableVars, Received
<1>3. /\ entries \in [Code -> Nat] /\ hours \in [Code -> Nat] /\ recent \subseteq Code
      /\ \A c \in recent : entries[c] > 0
      /\ \A c \in Code : entries[c] <= IF c \in recent THEN hours[c] + 1 ELSE hours[c]
  BY DEF JudgementInv, ScoringInv, ScoringTypeOK, TableInv
<1>4. /\ hours' \in [Code -> Nat] /\ recent' \subseteq recent
      /\ \A c \in Code : entries[c] <= IF c \in recent' THEN hours'[c] + 1 ELSE hours'[c]
  <2>1. CASE \E c \in Code : IntervalPasses(c)
    <3>1. PICK d \in Code : IntervalPasses(d)
      BY <2>1
    <3>2. /\ d \in recent /\ recent' = recent \ {d}
          /\ hours' = [hours EXCEPT ![d] = @ + 1]
      BY <3>1 DEF IntervalPasses
    <3>3. hours' \in [Code -> Nat]
      BY <1>3, <3>2
    <3>4. ASSUME NEW c \in Code
          PROVE  entries[c] <= IF c \in recent' THEN hours'[c] + 1 ELSE hours'[c]
      <4>1. entries[c] \in Nat /\ hours[c] \in Nat
        BY <1>3
      <4> QED BY <1>3, <3>2, <4>1
    <3> QED BY <3>2, <3>3, <3>4
  <2>2. CASE ~\E c \in Code : IntervalPasses(c)
    <3>1. recent' = recent /\ hours' = hours
      BY <2>2 DEF ModelTrained, ModelLost, scoringVars, logVars
    <3> QED BY <1>3, <3>1
  <2> QED BY <2>1, <2>2
<1>5. failures' \in 0..MaxFailures
  <2>1. failures \in 0..MaxFailures /\ MaxFailures \in Nat
    BY ScoringAssumption DEF JudgementInv, ScoringInv, ScoringTypeOK
  <2>2. failures' = failures \/ (failures < MaxFailures /\ failures' = failures + 1)
    BY DEF ModelTrained, ModelLost, IntervalPasses, scoringVars
  <2> QED BY <2>1, <2>2
<1>6. modelError' \in Code \cup {NoValue}
  BY DEF JudgementInv, ScoringInv, ScoringTypeOK, ModelTrained, ModelLost, IntervalPasses,
         scoringVars
<1>7. ScoringTypeOK'
  <2>1. sensorAlarm' = sensorAlarm /\ anomalyAlarm' = anomalyAlarm
    BY <1>1 DEF alarmVars
  <2> QED BY <1>1, <1>2, <1>3, <1>4, <1>5, <1>6, <2>1
          DEF JudgementInv, ScoringInv, ScoringTypeOK
<1>8. LogIsBounded'
  <2>1. ASSUME NEW c \in Code PROVE entries'[c] <= hours'[c] + 1
    <3>1. entries[c] \in Nat /\ hours'[c] \in Nat
      BY <1>3, <1>4
    <3> QED BY <1>1, <1>4, <3>1
  <2> QED BY <1>1, <1>2, <2>1 DEF JudgementInv, ScoringInv, LogIsBounded
<1>9. TableInv'
  BY <1>1, <1>2, <1>3, <1>4 DEF JudgementInv, TableInv
<1>10. VerdictInv'
  BY <1>1, <1>2, SameRows DEF JudgementInv, VerdictInv
<1>11. AlarmInv'
  BY <1>1, SameAlarms DEF JudgementInv
<1>12. ScoredFromHistory'
  BY <1>1, SameRows DEF JudgementInv
<1> QED BY <1>7, <1>8, <1>9, <1>10, <1>11, <1>12 DEF JudgementInv, ScoringInv

\* A pass begins or fails: what changes is its targets.
LEMMA PassStep ==
    ASSUME JudgementInv, ReadTargets \/ PassFails
    PROVE  JudgementInv'
<1> USE DEF JudgementInv, ScoringInv
<1>1. UNCHANGED tableVars /\ UNCHANGED alarmVars /\ UNCHANGED logVars /\ modelError' = modelError
  BY DEF ReadTargets, PassFails
<1>2. /\ rows' = rows /\ late' = late /\ Received' = Received
      /\ entries' = entries /\ recent' = recent /\ hours' = hours
      /\ sensorAlarm' = sensorAlarm /\ anomalyAlarm' = anomalyAlarm
  BY <1>1 DEF tableVars, alarmVars, logVars, Received
<1>3. failures' \in 0..MaxFailures
  BY ScoringAssumption DEF ScoringTypeOK, ReadTargets, PassFails
<1>4. PICK targets \in SUBSET Received, ready \in BOOLEAN, code \in Code \cup {NoValue} :
        /\ pass' = [pc |-> IF targets = {} THEN "idle" ELSE "scoring", ready |-> ready,
                    code |-> code, targets |-> targets]
        /\ targets # {} /\ ~ready => code \in Code
        /\ targets \cap Done(ready) = {}
        /\ ~late => Closed(Done(ready) \cup targets)
  <2>1. CASE ReadTargets
    <3> DEFINE t == Targets(modelReady)
    <3>1. /\ modelReady \in BOOLEAN /\ modelError \in Code \cup {NoValue}
          /\ ~modelReady => modelError \in Code
      BY DEF ScoringTypeOK, modelReady
    <3>2. t = Oldest(MaxBatchRows, Received \ Done(modelReady))
      BY <3>1, DoneRows
    <3>3. Received \ Done(modelReady) \in SUBSET (1..MaxRows)
      BY DoneRows
    <3>4. /\ t \in SUBSET (Received \ Done(modelReady))
          /\ \A n \in t, i \in Received \ Done(modelReady) : i < n => i \in t
      BY <3>2, <3>3, OldestRows
    <3>5. pass' = [pc |-> "scoring", ready |-> modelReady, code |-> modelError, targets |-> t]
          /\ t # {}
      BY <2>1 DEF ReadTargets
    <3> HIDE DEF t
    <3>6. ~late => Closed(Done(modelReady))
      BY DEF VerdictInv, Done
    <3>7. ~late => Closed(Done(modelReady) \cup t)
      BY <3>4, <3>6 DEF Closed
    <3> QED BY <3>1, <3>4, <3>5, <3>7
  <2>2. CASE PassFails
    <3>1. pass' = [pc |-> "idle", ready |-> FALSE, code |-> NoValue, targets |-> {}]
      BY <2>2 DEF PassFails, NoPass
    <3>2. ~late => Closed(Done(FALSE) \cup {})
      BY DEF VerdictInv, Done, Closed
    <3> QED BY <3>1, <3>2
  <2> QED BY <2>1, <2>2
<1>5. pass'.targets = targets /\ pass'.ready = ready
  BY <1>4
<1>6. ScoringTypeOK'
  <2>1. /\ pass'.pc \in {"idle", "scoring"} /\ pass'.targets \subseteq Received'
        /\ (pass'.pc = "scoring") = (pass'.targets # {})
        /\ pass'.pc = "scoring" /\ ~pass'.ready => pass'.code \in Code
    BY <1>2, <1>4
  <2> QED BY <1>1, <1>2, <1>3, <2>1 DEF ScoringTypeOK
<1>7. LogIsBounded'
  BY <1>2 DEF LogIsBounded
<1>8. TableInv'
  <2>1. pass' \in [pc : {"idle", "scoring"}, ready : BOOLEAN, code : Code \cup {NoValue},
                   targets : SUBSET (1..MaxRows)]
    BY <1>4 DEF ScoringTypeOK
  <2> QED BY <1>2, <2>1 DEF TableInv
<1>9. VerdictInv'
  BY <1>1, <1>2, <1>4, <1>5, SameRows DEF VerdictInv
<1>10. AlarmInv'
  BY <1>1, SameAlarms
<1>11. ScoredFromHistory'
  BY <1>1, SameRows
<1> QED BY <1>6, <1>7, <1>8, <1>9, <1>10, <1>11

\* A writer commits a row.
LEMMA StoreStep ==
    ASSUME JudgementInv, NEW n \in 1..MaxRows, NEW v \in Value, NEW t \in {n, n - ReplayDelay},
           Store(n, v, t)
    PROVE  JudgementInv'
<1> USE DEF JudgementInv, ScoringInv
<1> DEFINE row == [deviceTime |-> t, value |-> v, score |-> NoValue, reason |-> NoValue]
<1>1. /\ n \notin Received /\ Received' = Received \cup {n}
      /\ rows' = [i \in Received' |-> IF i = n THEN row ELSE rows[i]]
      /\ rows'[n] = row /\ \A i \in Received : rows'[i] = rows[i]
  BY DEF Store, Received
<1>2. /\ pass' = pass /\ modelError' = modelError /\ failures' = failures
      /\ entries' = entries /\ recent' = recent /\ hours' = hours
      /\ sensorAlarm' = sensorAlarm /\ anomalyAlarm' = anomalyAlarm
      /\ late' = (late \/ \E i \in Received : i > n)
  BY DEF Store, alarmVars, logVars
<1>3. Received \in SUBSET (1..MaxRows) /\ Received' \in SUBSET (1..MaxRows) /\ Received \subseteq Nat
  BY <1>1, ScoringAssumption DEF ScoringTypeOK
<1>4. n \in Nat /\ t \in Int
  BY ScoringAssumption
<1>5. row \in TelemetryRow
  BY <1>4 DEF TelemetryRow
<1>6. Judged' = Judged /\ WithReason' = WithReason
  BY <1>1, NoValueAssumption DEF Judged, WithReason, Reason
<1>7. ScoringTypeOK'
  <2>1. late' \in BOOLEAN
    BY <1>2
  <2>2. ASSUME NEW i \in Received'
        PROVE  /\ rows'[i].value \in Value
               /\ rows'[i].deviceTime \in {i, i - ReplayDelay}
               /\ rows'[i].score = NoValue \/ i \in rows'[i].score
               /\ rows'[i].reason \in Reason \cup {NoValue}
               /\ rows'[i].score # NoValue => rows'[i].reason \in {"diagnostic", "score"}
    BY <1>1 DEF ScoringTypeOK
  <2>3. pass'.targets \subseteq Received'
    BY <1>1, <1>2 DEF ScoringTypeOK
  <2> QED BY <1>2, <1>3, <2>1, <2>2, <2>3 DEF ScoringTypeOK
<1>8. LogIsBounded'
  BY <1>1, <1>2, NoValueAssumption, CodeAssumption DEF LogIsBounded, Reason
<1>9. TableInv'
  <2>1. rows' \in [Received' -> TelemetryRow]
    BY <1>1, <1>5 DEF TableInv
  <2> QED BY <1>2, <2>1 DEF TableInv
<1>10. ASSUME ~late' PROVE ~late /\ \A i \in Received : i < n
  <2>1. ~late /\ ~\E i \in Received : i > n
    BY <1>2, <1>10
  <2>2. ASSUME NEW i \in Received PROVE i < n
    <3>1. i \in Nat /\ i # n /\ ~(i > n)
      BY <1>1, <1>3, <2>1
    <3> QED BY <1>4, <3>1
  <2> QED BY <2>1, <2>2
<1>11. VerdictInv'
  <2>1. pass'.targets \cap Done(pass.ready)' = {} /\ Done(pass.ready)' = Done(pass.ready)
    BY <1>2, <1>6 DEF VerdictInv, Done
  <2>2. ASSUME ~late', NEW S \in SUBSET Received, Closed(S) PROVE Closed(S)'
    BY <1>1, <1>3, <1>4, <1>10, <2>2 DEF Closed
  <2>3. /\ Judged \in SUBSET Received /\ WithReason \in SUBSET Received
        /\ Done(pass.ready) \cup pass.targets \in SUBSET Received
    BY DoneRows DEF Done, ScoringTypeOK
  <2>4. ASSUME ~late' PROVE /\ Closed(Judged') /\ Closed(WithReason')
                            /\ Closed(Done(pass.ready) \cup pass.targets)
    BY <1>6, <1>10, <2>4 DEF VerdictInv
  <2> QED BY <1>2, <1>6, <2>1, <2>2, <2>3, <2>4 DEF VerdictInv
<1>12. PICK f : f = [i \in Received' |-> Sample(i)']
  OBVIOUS
<1>13. /\ \A i \in Received : f[i] = Sample(i) /\ Sample(i)' = Sample(i)
       /\ \A i \in Received' : f[i] = Sample(i)' /\ f[i].id = i
  BY <1>1, <1>12 DEF Sample
<1>14. History = Samples(f, Received) /\ History' = Samples(f, Received')
  BY <1>13 DEF History, Samples
<1>15. ASSUME ~late', NEW i \in Received
       PROVE  Diagnosed(i, History') <=> Diagnosed(i, History)
  <2>1. Enough(Received, Received', i, ContextRows)
    <3>1. \A j \in Received : j < n
      BY <1>10, <1>15
    <3>2. Enough(Received, Received \cup {n}, i, ContextRows)
      BY <1>3, <3>1, NewRowsAreBehind
    <3> QED BY <1>1, <3>2
  <2> QED BY <1>3, <1>13, <1>14, <2>1, SameDiagnosis
<1>16. AlarmInv'
  <2> SUFFICES ASSUME ~late'
               PROVE  /\ WithReason # {} =>
                            \/ /\ Judged # {}
                               /\ sensorAlarm <=> Diagnosed(Max(Judged), History')
                            \/ /\ WithReason # Judged
                               /\ sensorAlarm <=> Diagnosed(Max(WithReason), History')
                      /\ Judged # {} =>
                            (anomalyAlarm <=> /\ rows'[Max(Judged)].score # NoValue
                                              /\ rows'[Max(Judged)].value \in Odd)
    BY <1>2, <1>6 DEF AlarmInv, Anomalous
  <2>1. ~late
    BY <1>10
  <2>2. /\ Judged # {} => Max(Judged) \in Received
        /\ WithReason # {} => Max(WithReason) \in Received
    <3>1. /\ Judged \in SUBSET (1..MaxRows) /\ WithReason \in SUBSET (1..MaxRows)
          /\ Judged \subseteq Received /\ WithReason \subseteq Received
          /\ Judged \subseteq WithReason
      BY <1>3, DoneRows
    <3> QED BY <3>1, MinMax
  <2>3. /\ Judged # {} => (Diagnosed(Max(Judged), History') <=> Diagnosed(Max(Judged), History))
        /\ WithReason # {} =>
            (Diagnosed(Max(WithReason), History') <=> Diagnosed(Max(WithReason), History))
    BY <1>15, <2>2
  <2>4. Judged # {} => rows'[Max(Judged)] = rows[Max(Judged)]
    BY <1>1, <2>2
  <2> QED BY <2>1, <2>3, <2>4 DEF AlarmInv, Anomalous
<1>17. ScoredFromHistory'
  <2>1. ASSUME InOrder', NEW i \in Received', rows'[i].score # NoValue
        PROVE  rows'[i].score = {u.id : u \in Window(Sample(i)', History')}
    <3>1. i \in Received /\ rows'[i] = rows[i]
      BY <1>1, <2>1
    <3>2. ~late' /\ \A j, k \in Received' : j < k => rows'[j].deviceTime < rows'[k].deviceTime
      BY <2>1 DEF InOrder
    <3>3. InOrder
      BY <1>1, <1>10, <3>2 DEF InOrder
    <3>4. rows[i].score = {u.id : u \in Window(Sample(i), History)}
      BY <2>1, <3>1, <3>3 DEF ScoredFromHistory, History
    <3>5. Ordered(f, Received')
      <4>1. ASSUME NEW j \in Received' PROVE f[j].timestamp = rows'[j].deviceTime
        <5>1. f[j] = [id |-> j, timestamp |-> rows'[j].deviceTime, value |-> rows'[j].value]
          BY <1>12 DEF Sample
        <5> QED BY <5>1
      <4>2. \A j \in Received' : rows'[j].deviceTime \in Int
        BY <1>9 DEF TableInv, TelemetryRow
      <4> QED BY <1>13, <3>2, <4>1, <4>2 DEF Ordered, SamplesOf
    <3>6. Enough(Received, Received', i, WindowSize)
      <4>1. \A j \in Received : j < n
        BY <1>10, <3>2
      <4>2. Enough(Received, Received \cup {n}, i, WindowSize)
        BY <1>3, <3>1, <4>1, NewRowsAreBehind
      <4> QED BY <1>1, <4>2
    <3>7. Window(f[i], Samples(f, Received)) = Window(f[i], Samples(f, Received'))
      BY <1>3, <3>5, <3>6, SameWindow
    <3>8. Window(Sample(i), History) = Window(Sample(i)', History')
      BY <1>13, <1>14, <3>1, <3>7
    <3> QED BY <3>1, <3>4, <3>8
  <2> QED BY <2>1 DEF ScoredFromHistory, History
<1> QED BY <1>7, <1>8, <1>9, <1>11, <1>16, <1>17

\* What a pass makes of a row: the score and reason of a target, nothing else.
LEMMA ExplainedRow ==
    ASSUME JudgementInv, pass.pc = "scoring", NEW n \in pass.targets, NEW context,
           context = Context(pass.targets)
    PROVE  /\ Explained(n, context) \in TelemetryRow
           /\ Explained(n, context).value = rows[n].value
           /\ Explained(n, context).deviceTime = rows[n].deviceTime
           /\ ~pass.ready =>
                /\ rows[n].score = NoValue /\ Explained(n, context).score = NoValue
                /\ Explained(n, context).reason \in {"diagnostic", pass.code}
                /\ pass.code \in Code
                /\ n \notin Judged
           /\ pass.ready /\ ~HasFeatures(Sample(n), context) =>
                /\ Explained(n, context).score = NoValue
                /\ Explained(n, context).reason = "FEATURE_WINDOW_NOT_READY"
           /\ pass.ready /\ HasFeatures(Sample(n), context) =>
                /\ Explained(n, context).score # NoValue
                /\ n \in Explained(n, context).score
                /\ Explained(n, context).score = {u.id : u \in Window(Sample(n), context)}
                /\ Explained(n, context).reason \in {"diagnostic", "score"}
<1> USE DEF JudgementInv, ScoringInv
<1>1. /\ n \in Received /\ rows[n] \in TelemetryRow /\ Received \in SUBSET (1..MaxRows)
      /\ pass.targets \in SUBSET Received
  BY DEF ScoringTypeOK, TableInv
<1>2. rows[n].score = NoValue
  BY <1>1, NoValueAssumption DEF VerdictInv, Done, Judged, WithReason, ScoringTypeOK, Reason
<1>3. PICK f : f = [i \in Received |-> Sample(i)]
  OBVIOUS
<1>4. PICK C : C = ContextIds(Received, pass.targets)
  OBVIOUS
<1>5. context = Samples(f, C) /\ SamplesOf(f, Received) /\ f[n] = Sample(n)
  BY <1>1, <1>3, <1>4, SamplesOfTable
<1>6. Enough(C, Received, n, ContextRows)
  BY <1>1, <1>4, ContextIsEnough
<1>7. n \in C /\ C \in SUBSET (1..MaxRows) /\ C \subseteq Received
  BY <1>1, <1>6 DEF Enough
<1>8. SamplesOf(f, C)
  BY <1>5, <1>7 DEF SamplesOf
<1>9. f[n] \in Window(f[n], Samples(f, C))
  BY <1>7, <1>8, OwnWindow
<1> DEFINE ids == {u.id : u \in Window(Sample(n), context)}
<1>10. n \in ids
  <2>1. Sample(n).id = n /\ Sample(n) \in Window(Sample(n), context)
    BY <1>5, <1>9 DEF Sample
  <2> QED BY <2>1
<1>11. ids \in SUBSET (1..MaxRows)
  <2>1. ASSUME NEW u \in Window(Sample(n), context) PROVE u.id \in 1..MaxRows
    <3>1. u \in context
      BY DEF Window, UpTo
    <3>2. PICK i \in C : u = f[i]
      BY <1>5, <3>1 DEF Samples
    <3> QED BY <1>7, <1>8, <3>2 DEF SamplesOf
  <2> QED BY <2>1
<1> HIDE DEF ids
<1>12. ids # NoValue
  BY <1>11, NoValueAssumption
<1>13. CASE ~pass.ready
  <2>1. PICK r \in {"diagnostic", pass.code} :
            Explained(n, context) = [rows[n] EXCEPT !.reason = r]
    BY <1>13 DEF Explained
  <2>2. pass.code \in Code
    BY <1>13 DEF ScoringTypeOK
  <2>3. n \notin Judged
    BY <1>13, NoValueAssumption DEF VerdictInv, Done, Judged, WithReason, ScoringTypeOK, Reason
  <2> QED BY <1>1, <1>2, <1>13, <2>1, <2>2, <2>3 DEF TelemetryRow, Reason
<1>14. CASE pass.ready /\ ~HasFeatures(Sample(n), context)
  <2>1. Explained(n, context) = [rows[n] EXCEPT !.reason = "FEATURE_WINDOW_NOT_READY"]
    BY <1>14 DEF Explained
  <2> QED BY <1>1, <1>2, <1>14, <2>1 DEF TelemetryRow, Reason
<1>15. CASE pass.ready /\ HasFeatures(Sample(n), context)
  <2>1. PICK r \in {"diagnostic", "score"} :
            Explained(n, context) = [rows[n] EXCEPT !.score = ids, !.reason = r]
    BY <1>15 DEF Explained, ReasonOfScore, ids
  <2>2. /\ Explained(n, context) \in TelemetryRow
        /\ Explained(n, context).value = rows[n].value
        /\ Explained(n, context).deviceTime = rows[n].deviceTime
        /\ Explained(n, context).score = ids /\ Explained(n, context).reason = r
    BY <1>1, <1>11, <2>1 DEF TelemetryRow, Reason
  <2> QED BY <1>10, <1>12, <1>15, <2>1, <2>2 DEF ids
<1> QED BY <1>13, <1>14, <1>15

\* A pass commits its verdicts.
LEMMA ScoreStep ==
    ASSUME JudgementInv, Score
    PROVE  JudgementInv'
<1> USE DEF JudgementInv, ScoringInv
<1>1. PICK context, last, targets, ready, code :
        /\ context = Context(pass.targets) /\ last = Max(pass.targets)
        /\ targets = pass.targets /\ ready = pass.ready /\ code = pass.code
  OBVIOUS
<1>2. /\ pass.pc = "scoring"
      /\ rows' = [n \in Received |-> IF n \in targets THEN Explained(n, context) ELSE rows[n]]
      /\ sensorAlarm' = Diagnosed(last, context)
      /\ anomalyAlarm' = AnomalyAfter(last, context)
      /\ IF ready \/ code \in recent THEN entries' = entries /\ recent' = recent
         ELSE /\ entries' = [entries EXCEPT ![code] = @ + 1]
              /\ recent' = recent \cup {code}
      /\ pass' = NoPass
      /\ late' = late /\ modelError' = modelError /\ hours' = hours /\ failures' = failures
  BY <1>1 DEF Score, Deciding, LogDiagnostic
<1>3. /\ Received' = Received /\ Received \in SUBSET (1..MaxRows) /\ Received \subseteq Nat
      /\ targets \in SUBSET Received /\ targets # {} /\ ready \in BOOLEAN
  BY <1>1, <1>2, ScoringAssumption DEF Received, ScoringTypeOK, TableInv
<1>4. /\ last \in targets /\ last \in Received /\ last \in Nat
      /\ \A y \in targets : y <= last
  BY <1>1, <1>3, MinMax
<1>5. ASSUME NEW n \in targets
      PROVE  /\ rows'[n] = Explained(n, context) /\ rows'[n] \in TelemetryRow
             /\ rows'[n].value = rows[n].value /\ rows'[n].deviceTime = rows[n].deviceTime
             /\ ~ready => /\ rows[n].score = NoValue /\ rows'[n].score = NoValue
                          /\ rows'[n].reason \in {"diagnostic", code} /\ n \notin Judged
                          /\ code \in Code
             /\ ready /\ ~HasFeatures(Sample(n), context) =>
                    /\ rows'[n].score = NoValue
                    /\ rows'[n].reason = "FEATURE_WINDOW_NOT_READY"
             /\ ready /\ HasFeatures(Sample(n), context) =>
                    /\ rows'[n].score # NoValue /\ n \in rows'[n].score
                    /\ rows'[n].score = {u.id : u \in Window(Sample(n), context)}
                    /\ rows'[n].reason \in {"diagnostic", "score"}
  <2>1. n \in pass.targets /\ rows'[n] = Explained(n, context)
    BY <1>1, <1>2, <1>3
  <2> QED BY <1>1, <1>2, <2>1, ExplainedRow
<1>6. \A n \in Received \ targets : rows'[n] = rows[n]
  BY <1>2
<1>7. ASSUME NEW n \in Received
      PROVE  /\ rows'[n] \in TelemetryRow /\ Sample(n)' = Sample(n)
             /\ rows'[n].value = rows[n].value /\ rows'[n].deviceTime = rows[n].deviceTime
  BY <1>5, <1>6 DEF Sample, TableInv
<1>8. History' = History
  BY <1>3, <1>7 DEF History
<1>9. /\ entries \in [Code -> Nat] /\ hours \in [Code -> Nat] /\ recent \subseteq Code
      /\ ~ready => code \in Code
      /\ \A c \in recent : entries[c] > 0
      /\ \A c \in Code : entries[c] <= IF c \in recent THEN hours[c] + 1 ELSE hours[c]
  BY <1>1, <1>2 DEF ScoringTypeOK, TableInv
<1>10. ScoringTypeOK'
  <2>1. ASSUME NEW i \in Received
        PROVE  /\ rows'[i].value \in Value
               /\ rows'[i].deviceTime \in {i, i - ReplayDelay}
               /\ rows'[i].score = NoValue \/ i \in rows'[i].score
               /\ rows'[i].reason \in Reason \cup {NoValue}
               /\ rows'[i].score # NoValue => rows'[i].reason \in {"diagnostic", "score"}
    <3>1. CASE i \in targets
      BY <1>5, <1>7, <3>1 DEF ScoringTypeOK, Reason
    <3>2. CASE i \notin targets
      BY <1>6, <3>2 DEF ScoringTypeOK
    <3> QED BY <3>1, <3>2
  <2>2. sensorAlarm' \in BOOLEAN
    BY <1>2 DEF Diagnosed
  <2>3. anomalyAlarm' \in BOOLEAN
    BY <1>2 DEF AnomalyAfter, ScoringTypeOK
  <2>4. /\ pass'.pc \in {"idle", "scoring"} /\ pass'.targets \subseteq Received'
        /\ (pass'.pc = "scoring") = (pass'.targets # {})
        /\ pass'.pc = "scoring" /\ ~pass'.ready => pass'.code \in Code
    BY <1>2 DEF NoPass
  <2>5. entries' \in [Code -> Nat]
    BY <1>2, <1>9
  <2>6. recent' \subseteq Code
    BY <1>2, <1>9 DEF ScoringTypeOK
  <2> QED BY <1>2, <1>3, <2>1, <2>2, <2>3, <2>4, <2>5, <2>6 DEF ScoringTypeOK
<1>11. /\ \A c \in recent' : entries'[c] > 0
       /\ \A c \in Code : entries'[c] <= IF c \in recent' THEN hours[c] + 1 ELSE hours[c]
       /\ \A c \in Code : entries'[c] \in Nat /\ entries'[c] >= entries[c]
       /\ ~ready => entries'[code] > 0
  <2>1. CASE ready \/ code \in recent
    <3>1. entries' = entries /\ recent' = recent
      BY <1>2, <2>1
    <3>2. \A c \in Code : entries[c] \in Nat /\ entries[c] >= entries[c]
      BY <1>9
    <3> QED BY <1>9, <2>1, <3>1, <3>2
  <2>2. CASE ~(ready \/ code \in recent)
    <3>1. /\ code \in Code /\ code \notin recent
          /\ entries' = [entries EXCEPT ![code] = @ + 1] /\ recent' = recent \cup {code}
      BY <1>2, <1>9, <2>2
    <3>2. ASSUME NEW c \in Code
          PROVE  /\ entries'[c] = IF c = code THEN entries[c] + 1 ELSE entries[c]
                 /\ entries[c] \in Nat /\ hours[c] \in Nat
      BY <1>9, <3>1
    <3>3. ASSUME NEW c \in Code
          PROVE  /\ entries'[c] <= IF c \in recent' THEN hours[c] + 1 ELSE hours[c]
                 /\ entries'[c] \in Nat /\ entries'[c] >= entries[c]
                 /\ c \in recent' => entries'[c] > 0
                 /\ c = code => entries'[c] > 0
      BY <1>9, <3>1, <3>2
    <3> QED BY <1>9, <3>1, <3>3
  <2> QED BY <2>1, <2>2
<1>12. TableInv'
  <2>1. rows' \in [Received' -> TelemetryRow]
    BY <1>2, <1>3, <1>7
  <2>2. pass' \in [pc : {"idle", "scoring"}, ready : BOOLEAN, code : Code \cup {NoValue},
                   targets : SUBSET (1..MaxRows)]
    BY <1>2 DEF NoPass
  <2> QED BY <1>2, <1>11, <2>1, <2>2 DEF TableInv
<1>13. LogIsBounded'
  <2>1. ASSUME NEW c \in Code PROVE entries'[c] <= hours'[c] + 1
    <3>1. entries'[c] \in Nat /\ hours[c] \in Nat
      BY <1>9, <1>11
    <3> QED BY <1>2, <1>11, <3>1
  <2>2. ASSUME NEW c \in Code, entries[c] > 0 PROVE entries'[c] > 0
    <3>1. entries'[c] \in Nat /\ entries[c] \in Nat /\ entries'[c] >= entries[c]
      BY <1>9, <1>11
    <3> QED BY <2>2, <3>1
  <2>3. ASSUME NEW n \in Received
        PROVE  /\ rows'[n].reason \in Code => entries'[rows'[n].reason] > 0
               /\ rows'[n].score = NoValue /\ rows'[n].reason = "diagnostic" =>
                        \E c \in Code : entries'[c] > 0
    <3>1. CASE n \notin targets
      <4>1. rows'[n] = rows[n]
        BY <1>6, <3>1
      <4>2. /\ rows[n].reason \in Code => entries[rows[n].reason] > 0
            /\ rows[n].score = NoValue /\ rows[n].reason = "diagnostic" =>
                        \E c \in Code : entries[c] > 0
        BY DEF LogIsBounded
      <4> QED BY <2>2, <4>1, <4>2
    <3>2. CASE n \in targets /\ ready
      <4>1. /\ rows'[n].reason \notin Code
            /\ rows'[n].score = NoValue => rows'[n].reason # "diagnostic"
        BY <1>5, <3>2, CodeAssumption
      <4> QED BY <4>1
    <3>3. CASE n \in targets /\ ~ready
      <4>1. rows'[n].reason \in {"diagnostic", code} /\ code \in Code
        BY <1>5, <3>3
      <4>2. entries'[code] > 0
        BY <1>11, <3>3
      <4> QED BY <4>1, <4>2, CodeAssumption
    <3> QED BY <1>3, <3>1, <3>2, <3>3
  <2> QED BY <1>2, <1>3, <2>1, <2>3 DEF LogIsBounded
<1>14. WithReason' = WithReason \cup targets
  <2>1. ASSUME NEW n \in targets PROVE rows'[n].reason # NoValue
    BY <1>3, <1>5, NoValueAssumption DEF Reason
  <2> QED BY <1>3, <1>6, <2>1 DEF WithReason
<1>15. Judged' = IF ready THEN Judged \cup targets ELSE Judged
  <2>1. CASE ready
    <3>1. ASSUME NEW n \in targets
          PROVE  rows'[n].score # NoValue \/ rows'[n].reason = "FEATURE_WINDOW_NOT_READY"
      BY <1>5, <2>1
    <3> QED BY <1>3, <1>6, <2>1, <3>1 DEF Judged
  <2>2. CASE ~ready
    <3>1. ASSUME NEW n \in targets
          PROVE  /\ rows'[n].score = NoValue /\ rows'[n].reason # "FEATURE_WINDOW_NOT_READY"
                 /\ n \notin Judged
      BY <1>5, <2>2, CodeAssumption
    <3> QED BY <1>3, <1>6, <2>2, <3>1 DEF Judged
  <2> QED BY <1>3, <2>1, <2>2
<1>16. /\ Judged \subseteq WithReason /\ WithReason \subseteq Received
       /\ targets \cap Done(ready) = {}
       /\ ready => Done(ready) = Judged
       /\ ~ready => Done(ready) = WithReason
  <2>1. Judged \subseteq WithReason /\ WithReason \subseteq Received
    BY DoneRows
  <2>2. targets \cap Done(ready) = {}
    BY <1>1 DEF VerdictInv
  <2>3. (ready => Done(ready) = Judged) /\ (~ready => Done(ready) = WithReason)
    BY DEF Done
  <2> QED BY <2>1, <2>2, <2>3
<1>17. VerdictInv'
  <2>1. pass'.targets = {} /\ pass'.ready = FALSE
    BY <1>2 DEF NoPass
  <2>2. PICK J, W : J = Judged' /\ W = WithReason'
    OBVIOUS
  <2>3. ASSUME ~late PROVE Closed(J) /\ Closed(W)
    <3>1. Closed(Judged) /\ Closed(WithReason) /\ Closed(Done(ready) \cup targets)
      BY <1>1, <2>3 DEF VerdictInv
    <3>2. Closed(J)
      BY <1>15, <1>16, <2>2, <3>1
    <3>3. Closed(WithReason \cup targets)
      <4>1. Done(ready) \subseteq WithReason
        BY <1>3, <1>16
      <4> QED BY <3>1, <4>1 DEF Closed
    <3> QED BY <1>14, <2>2, <3>2, <3>3
  <2>4. ASSUME ~late PROVE /\ Closed(Judged)' /\ Closed(WithReason)'
                           /\ Closed(WithReason \cup {})'
    BY <1>3, <2>2, <2>3, <2>4 DEF Closed
  <2>5. pass' = [pc |-> "idle", ready |-> FALSE, code |-> NoValue, targets |-> {}]
    BY <1>2 DEF NoPass
  <2> QED BY <1>2, <2>1, <2>4, <2>5 DEF VerdictInv, Done
<1>18. PICK f : f = [i \in Received |-> Sample(i)]
  OBVIOUS
<1>19. PICK C : C = ContextIds(Received, targets)
  OBVIOUS
<1>20. /\ context = Samples(f, C) /\ History = Samples(f, Received)
       /\ InOrder => Ordered(f, Received)
       /\ \A i \in Received : f[i] = Sample(i) /\ f[i].id = i
  BY <1>1, <1>18, <1>19, SamplesOfTable
<1>21. \A n \in targets : Enough(C, Received, n, ContextRows)
  BY <1>3, <1>19, ContextIsEnough
<1>22. AlarmInv'
  <2> SUFFICES ASSUME ~late
               PROVE  /\ WithReason' # {} =>
                            \/ /\ Judged' # {}
                               /\ sensorAlarm' <=> Diagnosed(Max(Judged'), History)
                            \/ /\ WithReason' # Judged'
                               /\ sensorAlarm' <=> Diagnosed(Max(WithReason'), History)
                      /\ Judged' # {} =>
                            (anomalyAlarm' <=> /\ rows'[Max(Judged')].score # NoValue
                                               /\ rows'[Max(Judged')].value \in Odd)
    BY <1>2, <1>8 DEF AlarmInv, Anomalous
  <2>1. sensorAlarm' <=> Diagnosed(last, History)
    <3>1. Diagnosed(last, Samples(f, C)) <=> Diagnosed(last, Samples(f, Received))
      BY <1>3, <1>4, <1>20, <1>21, SameDiagnosis
    <3> QED BY <1>2, <1>20, <3>1
  <2>2. Max(Done(ready) \cup targets) = last
    <3>1. PICK S : S = Done(ready) \cup targets
      OBVIOUS
    <3>2. S \in SUBSET (1..MaxRows) /\ S \subseteq Nat /\ S # {} /\ last \in S
      BY <1>3, <1>4, <1>16, <3>1
    <3>3. Max(S) \in S /\ \A y \in S : y <= Max(S)
      BY <3>2, MinMax
    <3>4. Closed(Done(ready))
      BY <1>3, <1>16 DEF VerdictInv
    <3>5. Max(S) \notin Done(ready) \/ ~(last < Max(S))
      BY <1>4, <1>16, <3>4 DEF Closed
    <3>6. Max(S) <= last
      <4>1. CASE Max(S) \in targets
        BY <1>4, <4>1
      <4>2. CASE Max(S) \in Done(ready)
        <5>1. Max(S) \in Nat /\ ~(last < Max(S))
          BY <3>2, <3>3, <3>5, <4>2
        <5> QED BY <1>4, <5>1
      <4> QED BY <3>1, <3>3, <4>1, <4>2
    <3>7. last <= Max(S) /\ Max(S) \in Nat
      BY <3>2, <3>3
    <3>8. Max(S) = last
      BY <1>4, <3>6, <3>7
    <3> QED BY <3>1, <3>8
  <2>3. CASE ready
    <3>1. Judged' = Done(ready) \cup targets /\ Judged' # {}
      BY <1>3, <1>15, <1>16, <2>3
    <3>2. Max(Judged') = last
      BY <2>2, <3>1
    <3>3. anomalyAlarm' <=> HasFeatures(Sample(last), context) /\ rows[last].value \in Odd
      BY <1>1, <1>2, <2>3 DEF AnomalyAfter, Anomalous
    <3>4. /\ rows'[last].score # NoValue <=> HasFeatures(Sample(last), context)
          /\ rows'[last].value = rows[last].value
      BY <1>4, <1>5, <2>3
    <3> QED BY <2>1, <3>1, <3>2, <3>3, <3>4
  <2>4. CASE ~ready
    <3>1. WithReason' = Done(ready) \cup targets /\ Judged' = Judged
      BY <1>14, <1>15, <1>16, <2>4
    <3>2. last \in WithReason' /\ last \notin Judged'
      BY <1>4, <1>5, <2>4, <3>1
    <3>3. Max(WithReason') = last
      BY <2>2, <3>1
    <3>4. ASSUME Judged # {}
          PROVE  /\ rows'[Max(Judged)] = rows[Max(Judged)]
                 /\ anomalyAlarm' = anomalyAlarm
                 /\ anomalyAlarm <=> /\ rows[Max(Judged)].score # NoValue
                                     /\ rows[Max(Judged)].value \in Odd
      <4>1. Judged \in SUBSET (1..MaxRows) /\ Judged \subseteq Received
        BY <1>3, <1>16
      <4>2. Max(Judged) \in Judged
        BY <3>4, <4>1, MinMax
      <4>3. Max(Judged) \notin targets
        BY <1>5, <2>4, <4>2
      <4>4. rows'[Max(Judged)] = rows[Max(Judged)]
        BY <1>6, <4>1, <4>2, <4>3
      <4>5. anomalyAlarm' = anomalyAlarm
        BY <1>1, <1>2, <2>4 DEF AnomalyAfter
      <4> QED BY <3>4, <4>4, <4>5 DEF AlarmInv, Anomalous
    <3> QED BY <2>1, <3>1, <3>2, <3>3, <3>4
  <2> QED BY <1>3, <2>3, <2>4
<1>23. ScoredFromHistory'
  <2>1. ASSUME InOrder', NEW n \in Received, rows'[n].score # NoValue
        PROVE  rows'[n].score = {u.id : u \in Window(Sample(n), History)}
    <3>1. InOrder
      BY <1>2, <1>3, <1>7, <2>1 DEF InOrder
    <3>2. CASE n \in targets
      <4>1. rows'[n].score = {u.id : u \in Window(Sample(n), context)}
        BY <1>3, <1>5, <2>1, <3>2
      <4>2. Enough(C, Received, n, WindowSize)
        BY <1>3, <1>21, <3>2, BatchAssumption, WindowAssumption, EnoughForFewer
      <4>3. Window(f[n], Samples(f, C)) = Window(f[n], Samples(f, Received))
        BY <1>3, <1>20, <3>1, <4>2, SameWindow
      <4> QED BY <1>20, <4>1, <4>3
    <3>3. CASE n \notin targets
      BY <1>6, <2>1, <3>1, <3>3 DEF ScoredFromHistory, History
    <3> QED BY <3>2, <3>3
  <2>2. \A n \in Received : Sample(n)' = Sample(n)
    BY <1>7
  <2>3. ASSUME InOrder', NEW n \in Received', rows'[n].score # NoValue
        PROVE  rows'[n].score = {u.id : u \in Window(Sample(n)', History')}
    <3>1. n \in Received /\ Sample(n)' = Sample(n)
      BY <1>3, <2>2
    <3> QED BY <1>8, <2>1, <2>3, <3>1
  <2> QED BY <2>3 DEF ScoredFromHistory, History
<1> QED BY <1>10, <1>12, <1>13, <1>17, <1>22, <1>23

-----------------------------------------------------------------------------
(* The theorems                                                             *)

\* JudgementInv is an invariant: the worker gives its verdicts from the oldest row on,
\* in batches, and each alarm is that of the newest row judged (_targets,
\* score_device_once).
THEOREM JudgementInvariant == ScoringSpec => []JudgementInv
<1>1. ScoringInit => JudgementInv
  BY ScoringInitInv
<1>2. JudgementInv /\ [ScoringNext]_scoringVars => JudgementInv'
  <2> SUFFICES ASSUME JudgementInv, [ScoringNext]_scoringVars PROVE JudgementInv'
    OBVIOUS
  <2>1. CASE \E n \in 1..MaxRows, v \in Value : \E t \in {n, n - ReplayDelay} : Store(n, v, t)
    BY <2>1, StoreStep
  <2>2. CASE ReadTargets \/ PassFails
    BY <2>2, PassStep
  <2>3. CASE Score
    BY <2>3, ScoreStep
  <2>4. CASE \/ ModelTrained
             \/ \E c \in Code : ModelLost(c) \/ IntervalPasses(c)
             \/ UNCHANGED scoringVars
    BY <2>4, SurroundingsStep
  <2> QED BY <2>1, <2>2, <2>3, <2>4 DEF ScoringNext
<1> QED BY <1>1, <1>2, PTL DEF ScoringSpec

\* Rows, verdicts and the error log agree, for any set of error codes: every verdict has
\* its reason, a verdict without a model an entry of its own code, a score is of the row
\* itself among others, and for each code the log grows with the hours and not with the
\* polls (score_device_once, _log_diagnostic).
THEOREM VerdictsAndLogAgree == ScoringSpec => []ScoringInv
<1>1. JudgementInv => ScoringInv
  BY DEF JudgementInv
<1> QED BY <1>1, JudgementInvariant, PTL

\* However the rows fall into batches, while they come in order each score is computed
\* from the window that the whole history gives (_context_rows, generate_features).
THEOREM BatchesScoreAsHistory == ScoringSpec => []ScoredFromHistory
<1>1. JudgementInv => ScoredFromHistory
  BY DEF JudgementInv
<1> QED BY <1>1, JudgementInvariant, PTL

\* When the worker has caught up, both alarms are those of the newest row
\* (score_device_once, _set_alarm).
THEOREM AlarmsAreOfNewest == ScoringSpec => []AlarmsFollowNewest
<1>1. ASSUME JudgementInv PROVE AlarmsFollowNewest
  <2> USE DEF JudgementInv, ScoringInv
  <2>1. /\ Judged \subseteq WithReason /\ WithReason \subseteq Received
        /\ Received \in SUBSET (1..MaxRows) /\ modelReady \in BOOLEAN
    BY <1>1, DoneRows DEF ScoringTypeOK, modelReady
  <2>2. ASSUME Quiet PROVE Done(modelReady) = Received /\ Received # {}
    <3>1. Targets(modelReady) = {} /\ Received # {}
      BY <2>2 DEF Quiet
    <3>2. Oldest(MaxBatchRows, Received \ Done(modelReady)) = {}
      BY <1>1, <2>1, <3>1, DoneRows
    <3>3. Received \ Done(modelReady) \in SUBSET (1..MaxRows)
      BY <2>1
    <3>4. Received \ Done(modelReady) = {}
      BY <3>2, <3>3, OldestRows
    <3>5. Done(modelReady) \subseteq Received
      BY <2>1 DEF Done
    <3> QED BY <3>1, <3>4, <3>5
  <2>3. ASSUME Quiet, ~late, modelReady
        PROVE  /\ sensorAlarm <=> Diagnosed(Max(Received), History)
               /\ anomalyAlarm <=> /\ rows[Max(Received)].score # NoValue
                                   /\ Anomalous(Max(Received))
    <3>1. Judged = Received /\ WithReason = Received /\ Received # {}
      BY <2>1, <2>2, <2>3 DEF Done
    <3> QED BY <1>1, <2>3, <3>1 DEF AlarmInv
  <2>4. ASSUME Quiet, ~late, ~modelReady, ~ModelUsed
        PROVE  sensorAlarm <=> Diagnosed(Max(Received), History)
    <3>1. WithReason = Received /\ Received # {}
      BY <2>2, <2>4 DEF Done
    <3>2. Judged = {}
      BY <2>4 DEF ModelUsed, Judged
    <3> QED BY <1>1, <2>4, <3>1, <3>2 DEF AlarmInv
  <2>5. SensorAlarmFollowsNewest
    BY <2>3, <2>4 DEF SensorAlarmFollowsNewest, History
  <2>6. AnomalyAlarmFollowsNewest
    BY <2>3 DEF AnomalyAlarmFollowsNewest
  <2> QED BY <2>5, <2>6 DEF AlarmsFollowNewest
<1> QED BY <1>1, JudgementInvariant, PTL
=============================================================================
