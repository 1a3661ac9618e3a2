----------------------------- MODULE ModelStore -----------------------------
(***************************************************************************)
(* The Isolation Forest models of one device: the artefact directories      *)
(* that training writes (anomaly_worker/modeling.py), the rows of           *)
(* anomaly_models that point to them (worker.py, models.py), the worker     *)
(* that loads the newest one for every batch, and what the API says of it   *)
(* (main.py).  Trainings run concurrently, in processes of their own, and   *)
(* may end between any two steps.  A version names a baseline window and a  *)
(* contamination, and so its directory; neither the time of training nor    *)
(* the release of scikit-learn is part of it.                               *)
(***************************************************************************)
EXTENDS Naturals, FiniteSets, FiniteSetsExt

CONSTANTS
    Version,         \* _model_version: one per window and contamination
    Trainer,         \* processes that run "anomaly_worker train"
    None,
    RowCounts,       \* healthy feature rows a training may find
    MinimumRows,     \* anomaly_minimum_feature_rows
    MaxAge,          \* model_stale_after_days
    MaxClock,        \* bound: days
    MaxTrainings,    \* bound: trainings started
    MaxFaults        \* bound: crashes, damaged files and upgrades together

ASSUME RowsAssumption == RowCounts \subseteq Nat /\ MinimumRows \in Nat
ASSUME TimeAssumption == MaxAge \in Nat /\ MaxClock \in Nat
ASSUME BoundAssumption == MaxTrainings \in Nat /\ MaxFaults \in Nat

VARIABLES
    files,           \* files[v]: the directory of version v
    registry,        \* registry[v]: the row of version v, or None
    trainer,         \* trainer[t]: one "train" process
    worker,          \* the worker's pass over the device
    release,         \* the installed scikit-learn
    clock,
    trained,         \* observer: trained[v]: the metadata that training wrote
    trainings, faults

diskVars == <<files, trained>>
bounds == <<trainings, faults>>
vars == <<diskVars, registry, trainer, worker, release, clock, bounds>>

-----------------------------------------------------------------------------
\* The rows of the training part: int(len(rows) * 0.8), at least 3/4 of the minimum.
Split(n) == Max({(n * 4) \div 5, (MinimumRows * 3) \div 4})

\* Mutant: the validation part is compared with a tenth of the minimum only.
TooFewRowsUnfloored(n) ==
    \/ n < MinimumRows
    \/ n < Split(n) + MinimumRows \div 10

\* train_model: the gates on the number of healthy feature rows.
TooFewRows(n) ==
    \/ n < MinimumRows
    \/ n < Split(n) + Max({20, MinimumRows \div 10})

\* What joblib.dump writes; it decides the checksum of the file.
Payload(n) == [references |-> n - Split(n), release |-> release]

\* train_model: the metadata of the bundle it returns for n feature rows.  The
\* checksum is filled in by save_bundle, from the file.
TrainModel(n) ==
    [training |-> Split(n), validation |-> n - Split(n), release |-> release,
     created |-> clock, checksum |-> Payload(n)]

\* External: a file that is not what training wrote.
Damaged == [references |-> 0, release |-> 0]

\* ModelMetadata.from_dict: the counts it accepts.
MetadataValid(m) == m.training >= 1 /\ m.validation >= 20

\* load_bundle as far as the checksum: the first gate that the files of version v
\* fail.  Feature names and schema version change with the code's release, as
\* scikit-learn does.
Verify(v) ==
    LET m == files[v].metadata
        a == files[v].artifact
    IN  CASE m = None -> "MODEL_METADATA_UNREADABLE"
          [] m # None /\ ~MetadataValid(m) -> "MODEL_METADATA_INVALID"
          [] m # None /\ MetadataValid(m) /\ m.release # release ->
                "MODEL_LIBRARY_VERSION_MISMATCH"
          [] OTHER -> IF a = None THEN "MODEL_ARTIFACT_UNREADABLE"
                      ELSE IF a # m.checksum THEN "MODEL_ARTIFACT_CHECKSUM_MISMATCH"
                      ELSE "verified"

\* load_bundle after the checksum: joblib.load opens the artefact again, which
\* may be lost or another one by now.
LoadPayload(v) ==
    LET a == files[v].artifact
    IN  IF a = None \/ a.references < 20 THEN "MODEL_ARTIFACT_INVALID" ELSE "loaded"

\* load_bundle of files that nobody touches between its two looks.
LoadBundle(v) == IF Verify(v) = "verified" THEN LoadPayload(v) ELSE Verify(v)

\* model_is_stale
Stale(created) == clock - created > MaxAge

Registered == {v \in Version : registry[v] # None}

\* _latest_registry: by created_at, then by id.
Newer(v, w) ==
    \/ registry[v].created > registry[w].created
    \/ registry[v].created = registry[w].created /\ registry[v].id > registry[w].id

LatestRegistry ==
    IF Registered = {} THEN None
    ELSE CHOOSE v \in Registered : \A w \in Registered \ {v} : Newer(v, w)

\* _load_ready_bundle without its effects: the status it would give to the row
\* if the files stay as they are.
Outcome(v) ==
    IF \/ LoadBundle(v) # "loaded"
       \/ files[v].metadata.checksum # registry[v].checksum
    THEN "error"
    ELSE IF Stale(files[v].metadata.created) THEN "stale" ELSE "ready"

\* to_anomaly_model_view and get_anomaly_model: what the API shows.
ModelView ==
    LET v == LatestRegistry
    IN  IF v = None THEN "model_not_ready"
        ELSE IF registry[v].status = "error" THEN "error"
        ELSE IF registry[v].status = "stale" \/ Stale(registry[v].created) THEN "stale"
        ELSE "ready"

-----------------------------------------------------------------------------
NoFiles == [directory |-> FALSE, artifact |-> None, metadata |-> None]
Idle == [pc |-> "idle", version |-> None, metadata |-> None, seen |-> None]
WorkerIdle == [pc |-> "idle", version |-> None, seen |-> None, checksum |-> None,
               metadata |-> None, status |-> None, bundle |-> None]

Init ==
    /\ files = [v \in Version |-> NoFiles]
    /\ registry = [v \in Version |-> None]
    /\ trainer = [t \in Trainer |-> Idle]
    /\ worker = WorkerIdle
    /\ release = 1
    /\ clock = 1
    /\ trained = [v \in Version |-> None]
    /\ trainings = 0
    /\ faults = 0

\* train_and_register as far as the bundle in memory: the gates of train_model
\* passed (a training that fails one of them changes nothing).
Train(t, v, n) ==
    /\ trainer[t].pc = "idle"
    /\ trainings < MaxTrainings
    /\ ~TooFewRows(n)
    /\ trainer' = [trainer EXCEPT ![t] =
            [pc |-> "save", version |-> v, seen |-> None, metadata |-> TrainModel(n)]]
    /\ trainings' = trainings + 1
    /\ UNCHANGED <<diskVars, registry, worker, release, clock, faults>>

\* Mutant: directory.mkdir(parents=True, exist_ok=True)
MakeDirectoryAgain(t) ==
    LET v == trainer[t].version
    IN  /\ trainer[t].pc = "save"
        /\ files' = [files EXCEPT ![v].directory = TRUE]
        /\ trainer' = [trainer EXCEPT ![t].pc = "artifact"]
        /\ UNCHANGED <<trained, registry, worker, release, clock, bounds>>

\* save_bundle: directory.mkdir(parents=True, exist_ok=False)
MakeDirectory(t) ==
    LET v == trainer[t].version
    IN  /\ trainer[t].pc = "save"
        /\ ~files[v].directory
        /\ files' = [files EXCEPT ![v].directory = TRUE]
        /\ trainer' = [trainer EXCEPT ![t].pc = "artifact"]
        /\ UNCHANGED <<trained, registry, worker, release, clock, bounds>>

\* save_bundle: dump to a temporary file, os.replace(artifact)
SaveArtifact(t) ==
    LET v == trainer[t].version
    IN  /\ trainer[t].pc = "artifact"
        /\ files' = [files EXCEPT ![v].artifact = trainer[t].metadata.checksum]
        /\ trainer' = [trainer EXCEPT ![t].pc = "metadata"]
        /\ UNCHANGED <<trained, registry, worker, release, clock, bounds>>

\* save_bundle: the checksum of the file, the metadata, os.replace(metadata_path)
SaveMetadata(t) ==
    LET v == trainer[t].version
        m == [trainer[t].metadata EXCEPT !.checksum = files[v].artifact]
    IN  /\ trainer[t].pc = "metadata"
        /\ files[v].artifact # None
        /\ files' = [files EXCEPT ![v].metadata = m]
        /\ trained' = [trained EXCEPT ![v] = m]
        /\ trainer' = [trainer EXCEPT ![t].pc = "register", ![t].metadata = m]
        /\ UNCHANGED <<registry, worker, release, clock, bounds>>

\* train_and_register, except FileExistsError: the existing artefact is loaded;
\* ArtifactError ends the training.  Nothing but metadata is kept of it, so one
\* look at the artefact gives what two looks would: a file lost between them only
\* ends the training, as it may end anyhow (TrainerCrash).
UseExisting(t) ==
    LET v == trainer[t].version
    IN  /\ trainer[t].pc = "save"
        /\ files[v].directory
        /\ trainer' = [trainer EXCEPT ![t] =
                IF LoadBundle(v) = "loaded"
                THEN [trainer[t] EXCEPT !.pc = "register", !.metadata = files[v].metadata]
                ELSE Idle]
        /\ UNCHANGED <<diskVars, registry, worker, release, clock, bounds>>

\* _register_bundle: the row is looked for.
RegisterRead(t) ==
    LET row == registry[trainer[t].version]
    IN  /\ trainer[t].pc = "register"
        /\ trainer' = [trainer EXCEPT ![t].pc = "commit",
                ![t].seen = IF row = None THEN None ELSE row.status]
        /\ UNCHANGED <<diskVars, registry, worker, release, clock, bounds>>

\* _register_bundle: session.commit().  An INSERT fails when the row exists by
\* now; an UPDATE writes status only when it differs from what was read.
RegisterCommit(t) ==
    LET v == trainer[t].version
        m == trainer[t].metadata
        row == registry[v]
        seen == trainer[t].seen
    IN  /\ trainer[t].pc = "commit"
        /\ trainer' = [trainer EXCEPT ![t] = Idle]
        /\ registry' = [registry EXCEPT ![v] =
                IF row = None
                THEN [status |-> "ready", created |-> m.created, checksum |-> m.checksum,
                      id |-> Cardinality(Registered) + 1]
                ELSE IF seen = None THEN row
                ELSE [row EXCEPT !.status = IF seen = "ready" THEN row.status ELSE "ready",
                                 !.created = m.created, !.checksum = m.checksum]]
        /\ UNCHANGED <<diskVars, worker, release, clock, bounds>>

-----------------------------------------------------------------------------
\* _load_ready_bundle: the newest row, and load_bundle as far as the checksum.
WorkerVerify ==
    LET v == LatestRegistry
        ok == Verify(v) = "verified"
    IN  /\ worker.pc = "idle"
        /\ v # None
        /\ worker' =
            [pc |-> IF ok THEN "loading" ELSE "scoring", version |-> v,
             seen |-> registry[v].status, checksum |-> registry[v].checksum,
             metadata |-> IF ok THEN files[v].metadata ELSE None,
             status |-> IF ok THEN None ELSE "error", bundle |-> None]
        /\ UNCHANGED <<diskVars, registry, trainer, release, clock, bounds>>

\* _load_ready_bundle: the payload is loaded, and only then is the metadata
\* compared with the row that was read, and its age with the limit.
WorkerLoad ==
    LET v == worker.version
        status == IF LoadPayload(v) # "loaded" \/ worker.metadata.checksum # worker.checksum
                  THEN "error"
                  ELSE IF Stale(worker.metadata.created) THEN "stale" ELSE "ready"
    IN  /\ worker.pc = "loading"
        /\ worker' = [worker EXCEPT !.pc = "scoring", !.status = status,
                !.bundle = IF status = "ready" THEN files[v].artifact ELSE None]
        /\ UNCHANGED <<diskVars, registry, trainer, release, clock, bounds>>

\* Mutant: the status of a row is only ever written when loading failed.
WorkerCommitErrors ==
    /\ worker.pc = "scoring"
    /\ registry' = IF worker.status = "ready" THEN registry
                   ELSE [registry EXCEPT ![worker.version].status = worker.status]
    /\ worker' = WorkerIdle
    /\ UNCHANGED <<diskVars, trainer, release, clock, bounds>>

\* score_device_once: session.commit(), with status when it differs from what
\* was read.
WorkerCommit ==
    /\ worker.pc = "scoring"
    /\ registry' = IF worker.status = worker.seen THEN registry
                   ELSE [registry EXCEPT ![worker.version].status = worker.status]
    /\ worker' = WorkerIdle
    /\ UNCHANGED <<diskVars, trainer, release, clock, bounds>>

\* An exception while loading or scoring: _run prints it and the session rolls back.
WorkerFails ==
    /\ worker.pc # "idle"
    /\ faults < MaxFaults
    /\ worker' = WorkerIdle
    /\ faults' = faults + 1
    /\ UNCHANGED <<diskVars, registry, trainer, release, clock, trainings>>

\* A training process ends between two of its steps.
TrainerCrash(t) ==
    /\ trainer[t].pc # "idle"
    /\ faults < MaxFaults
    /\ trainer' = [trainer EXCEPT ![t] = Idle]
    /\ faults' = faults + 1
    /\ UNCHANGED <<diskVars, registry, worker, release, clock, trainings>>

\* External: saved files of a version are lost or changed outside the program.
Damage(v) ==
    /\ files[v].metadata # None
    /\ faults < MaxFaults
    /\ \E a \in {None, Damaged, files[v].artifact}, m \in {None, files[v].metadata} :
          files' = [files EXCEPT ![v].artifact = a, ![v].metadata = m]
    /\ faults' = faults + 1
    /\ UNCHANGED <<trained, registry, trainer, worker, release, clock, trainings>>

\* External: the files as training left them are put back.
Restore(v) ==
    /\ trained[v] # None
    /\ files' = [files EXCEPT ![v].artifact = trained[v].checksum, ![v].metadata = trained[v]]
    /\ UNCHANGED <<trained, registry, trainer, worker, release, clock, bounds>>

\* A new image: every process is restarted with another release.
Upgrade ==
    /\ faults < MaxFaults
    /\ release' = release + 1
    /\ trainer' = [t \in Trainer |-> Idle]
    /\ worker' = WorkerIdle
    /\ faults' = faults + 1
    /\ UNCHANGED <<diskVars, registry, clock, trainings>>

Day ==
    /\ clock < MaxClock
    /\ clock' = clock + 1
    /\ UNCHANGED <<diskVars, registry, trainer, worker, release, bounds>>

TrainerStep(t) ==
    \/ MakeDirectory(t)
    \/ SaveArtifact(t)
    \/ SaveMetadata(t)
    \/ UseExisting(t)
    \/ RegisterRead(t)
    \/ RegisterCommit(t)

Next ==
    \/ \E t \in Trainer, v \in Version, n \in RowCounts : Train(t, v, n)
    \/ \E t \in Trainer : TrainerStep(t) \/ TrainerCrash(t)
    \/ \E v \in Version : Damage(v) \/ Restore(v)
    \/ WorkerVerify \/ WorkerLoad \/ WorkerCommit \/ WorkerFails
    \/ Upgrade \/ Day

\* The worker polls for ever (_run); nothing else is promised.
Spec ==
    /\ Init /\ [][Next]_vars
    /\ WF_vars(WorkerVerify) /\ WF_vars(WorkerLoad) /\ WF_vars(WorkerCommit)

-----------------------------------------------------------------------------
Contents == [references : Nat, release : Nat]
Metadata == [training : Nat, validation : Nat, release : Nat, created : Nat,
             checksum : Contents]
Status == {"ready", "stale", "error"}
Row == [status : Status, created : Nat, checksum : Contents, id : Nat]

ASSUME NoneAssumption == None \notin Contents \cup Metadata \cup Row

TypeOK ==
    /\ files \in [Version -> [directory : BOOLEAN, artifact : Contents \union {None},
                              metadata : Metadata \union {None}]]
    /\ registry \in [Version -> Row \union {None}]
    /\ trainer \in [Trainer ->
            [pc : {"idle", "save", "artifact", "metadata", "register", "commit"},
             version : Version \union {None}, metadata : Metadata \union {None},
             seen : Status \union {None}]]
    /\ worker \in [pc : {"idle", "loading", "scoring"}, version : Version \union {None},
                   seen : Status \union {None}, checksum : Contents \union {None},
                   metadata : Metadata \union {None}, status : Status \union {None},
                   bundle : Contents \union {None}]
    /\ trained \in [Version -> Metadata \union {None}]
    /\ release \in Nat /\ clock \in Nat
    /\ trainings \in 0..MaxTrainings /\ faults \in 0..MaxFaults

\* Whatever trainings ran at once and wherever one ended, a row of
\* anomaly_models names an artefact that was written to the end, with the
\* checksum and the time of that training (save_bundle, _register_bundle).
RegisteredWasSaved ==
    \A v \in Registered :
        /\ trained[v] # None
        /\ registry[v].checksum = trained[v].checksum
        /\ registry[v].created = trained[v].created

\* What passes the gates of train_model passes those of load_bundle: a model
\* about to be registered loads, unless its files were damaged or the release
\* changed since (max(20, ...) in train_model; 20 in from_dict and load_bundle).
TrainedLoads ==
    \A t \in Trainer :
        (/\ trainer[t].pc \in {"register", "commit"}
         /\ files[trainer[t].version].metadata # None
         /\ files[trainer[t].version].artifact = trainer[t].metadata.checksum)
        => LoadBundle(trainer[t].version) = "loaded"

\* The worker scores only with the payload that the training of that version
\* wrote, under the release that wrote it, although load_bundle opens the artefact
\* once for the checksum and once more to load it.
ScoresWithTrained ==
    worker.bundle # None =>
        /\ worker.bundle = trained[worker.version].checksum
        /\ worker.bundle.release = release

\* When trainings, faults and the calendar stop, what the API shows of the
\* newest model is what loading it gives, for ever (_load_ready_bundle,
\* to_anomaly_model_view).
ViewSettles ==
    <>[](LatestRegistry # None => ModelView = Outcome(LatestRegistry))

\* Rows and worker refer to nothing but what a training wrote to the end,
\* whatever trainings, ends, damaged files and upgrades came between
\* (save_bundle, _register_bundle, load_bundle).
StoreInv == TypeOK /\ RegisteredWasSaved /\ ScoresWithTrained

-----------------------------------------------------------------------------
(* Inductive strengthening                                                  *)

\* What train_model's gates leave: enough rows, and the payload they decide.
GoodMetadata(m) ==
    /\ m.training >= 1 /\ m.validation >= 20
    /\ m.checksum = [references |-> m.validation, release |-> m.release]
    /\ m.created <= clock

\* Metadata that can be read is what training wrote, into a directory that is
\* there for ever.
DiskInv ==
    \A v \in Version :
        /\ trained[v] # None => GoodMetadata(trained[v]) /\ files[v].directory
        /\ trained[v] # None => files[v].artifact \in {None, Damaged, trained[v].checksum}
        /\ files[v].metadata # None => files[v].metadata = trained[v]

Writing(t) == trainer[t].pc \in {"artifact", "metadata"}

\* Whoever made the directory writes alone, and once; whoever registers has
\* what was written.
TrainerOK(t) ==
    LET v == trainer[t].version
        m == trainer[t].metadata
    IN  /\ trainer[t].pc # "idle" =>
                /\ v \in Version /\ m \in Metadata
                /\ GoodMetadata(m) /\ m.release = release
        /\ Writing(t) =>
                /\ files[v].directory /\ trained[v] = None
                /\ \A u \in Trainer : u # t /\ Writing(u) => trainer[u].version # v
        /\ trainer[t].pc = "metadata" => files[v].artifact = m.checksum
        /\ trainer[t].pc \in {"register", "commit"} => trained[v] = m

TrainerInv == \A t \in Trainer : TrainerOK(t)

\* Ids are given in turn, so the newest row is one row.
RegistryInv ==
    /\ IsFiniteSet(Registered)
    /\ \A v \in Registered : registry[v].id <= Cardinality(Registered)
    /\ \A v, w \in Registered : registry[v].id = registry[w].id => v = w

WorkerInv ==
    /\ worker.pc # "idle" => worker.version \in Registered
    /\ worker.pc = "loading" =>
          /\ worker.metadata = trained[worker.version]
          /\ worker.metadata.release = release
    /\ worker.pc = "scoring" => worker.status \in Status
    /\ worker.bundle # None => worker.pc = "scoring"

WrittenInv == StoreInv /\ DiskInv /\ TrainerInv /\ RegistryInv /\ WorkerInv
=============================================================================
