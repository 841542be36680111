----------------------------- MODULE ModelRelease -----------------------------
(***************************************************************************)
(* How an anomaly model reaches the backend.  An operator's manifest says  *)
(* which stored rows were normal and which abnormal; a training run fits   *)
(* on the normal ones, marks the artifact validated only if the gate lets  *)
(* it, and saves a pickle and then its metadata, neither of them           *)
(* atomically; a starting backend reads, checks and loads the artifact in  *)
(* several steps and runs it as active, as a shadow, or not at all.        *)
(*                                                                         *)
(* An artifact is named by the number of the run that built it.  What a    *)
(* file holds is that number: the checksum the metadata carries is that of *)
(* the pickle dumped just before it.  One training run writes at a time,   *)
(* and a directory's name is its device: every run uses the default        *)
(* version, so a retraining overwrites the files in place.                 *)
(***************************************************************************)
EXTENDS Preparation

CONSTANTS
    Exports,          \* datasets: sets of rows with a label and a regime
    Manifests,        \* what an operator may have written
    Devices,
    Settings,         \* what a backend may be configured with
    MinApproved, MinTrain, MinCalibration,   \* the gate's minima
    MaxRuns,          \* bound: training runs
    MaxStarts         \* bound: backend starts

\* An interval is half open and carries the label of the rows it covers.
Span == [from : Int, to : Int, label : Int]

\* A directory of artifacts is that of some device, as a row is; a dataset is
\* finite, and the time and the id tell its rows apart, as the id alone does in
\* the table; a manifest lists intervals.
ASSUME ReleaseAssumption ==
    /\ MaxStarts \in Nat
    /\ \A s \in Settings : s.directory \in Devices
    /\ \A rows \in Exports :
          /\ IsFiniteSet(rows)
          /\ \A row \in rows : row.at \in Int /\ row.id \in Int /\ row.device \in Devices
          /\ \A a, b \in rows : a.at = b.at /\ a.id = b.id => a = b
    /\ \A manifest \in Manifests :
          manifest.approved \in Seq(Span) /\ manifest.events \in Seq(Span)

VARIABLES
    built,      \* history: the artifacts, in the order they were trained
    disk,       \* per directory: what metadata.json and model.joblib hold
    trainer,    \* progress of the save, "idle" when none
    backend,    \* progress of the load, "down", "up" when it is decided
    settings,   \* configuration of the backend
    decided,    \* the artifact whose metadata the loader decided by
    engine,     \* the artifact whose metadata the engine holds
    model,      \* the artifact whose pickle the engine holds
    mode,       \* "active", "shadow" or "unavailable"
    raced,      \* history: which reads of this load a save overtook
    starts      \* backend starts so far

load == <<backend, settings, decided, engine, model, mode>>
releaseVars == <<built, disk, trainer, load, raced, starts>>

Absent == 0
Torn == -1

-------------------------------------------------------------------------------
(* The manifest, the gate and the training run *)

\* No manifest was given.
NoManifest ==
    [provenance |-> "unattested", complete |-> FALSE, filled |-> FALSE, device |-> "",
     regime |-> "", boots |-> {}, approved |-> <<>>, events |-> <<>>]

Overlap(a, b) == a.from < b.to /\ b.from < a.to

\* What the parser accepts.  An event may be declared with label 0.
Parses(manifest) ==
    /\ manifest.complete      \* every required field, a known provenance, a stride
    /\ manifest.approved # <<>>
    /\ \A interval \in ToSet(manifest.approved \o manifest.events) :
          interval.from < interval.to /\ interval.label \in {0, 1}
    /\ \A normal \in ToSet(manifest.approved) :
          /\ normal.label = 0
          /\ \A event \in ToSet(manifest.events) : ~Overlap(normal, event)

Covers(interval, row) == interval.from <= row.at /\ row.at < interval.to

Intervals(manifest) == manifest.approved \o manifest.events

Covering(manifest, row) ==
    {i \in DOMAIN Intervals(manifest) : Covers(Intervals(manifest)[i], row)}

\* A row with the label of the first interval that covers it, and the regime.
Stamped(manifest, row) ==
    [id |-> row.id, device |-> row.device, boot |-> row.boot, seq |-> row.seq, at |-> row.at,
     label |-> Intervals(manifest)[Min(Covering(manifest, row))].label,
     regime |-> manifest.regime]

\* Approval is granted, never assumed.
Approved(rows, manifest) ==
    {Stamped(manifest, row) : row \in
        {r \in rows : /\ r.device = manifest.device
                      /\ manifest.boots = {} \/ r.boot \in manifest.boots
                      /\ Covering(manifest, r) # {}}}

Dataset(rows, manifest) == IF manifest = NoManifest THEN rows ELSE Approved(rows, manifest)

Normal(rows) == {row \in rows : row.label # 1}

\* MUTANT: the gate finds nothing to say.
GateOpen(rows, manifest) == manifest # NoManifest

GatePasses(rows, manifest) ==
    LET normal == Normal(rows)
    IN /\ manifest # NoManifest
       /\ manifest.provenance = "hardware" /\ manifest.filled
       /\ \A row \in rows : row.device = manifest.device /\ row.regime = manifest.regime
       /\ manifest.boots # {} /\ \A row \in rows : row.boot \in manifest.boots
       /\ manifest.events # <<>> /\ \E row \in rows : row.label = 1
       /\ Cardinality(normal) >= MinApproved
       /\ ~Refuses(normal)
       /\ Kept(Prepare(normal)) >= MinApproved
       /\ GateWindows(normal).train >= MinTrain
       /\ GateWindows(normal).calibration >= MinCalibration

\* The rows a run fits on: one device's, the one asked for or attested.
Selected(rows, manifest, wanted) ==
    LET device == IF wanted # "" THEN wanted ELSE manifest.device
        normal == Normal(rows)
    IN IF device = "" THEN normal ELSE OfDevice(normal, device)

\* A run that gets as far as an artifact.  Generated rows (synthetic) carry no
\* manifest's approval and are refused promotion outright.
Trained(rows, manifest, wanted, synthetic, promote) ==
    LET data == IF synthetic THEN rows ELSE Dataset(rows, manifest)
        chosen == Selected(data, manifest, wanted)
        usable == RowsOf(Prepare(chosen))
        first == InOrder(usable)[1]
        matrices == TrainingMatrices(chosen)
    IN IF \/ promote /\ (synthetic \/ ~GatePasses(data, manifest))
          \/ Refuses(chosen)
          \/ matrices.train = {} \/ matrices.calibration = {}
         THEN {}
         ELSE {[quality |-> IF promote THEN "validated" ELSE "not established",
                provenance |-> IF synthetic THEN "synthetic" ELSE manifest.provenance,
                device |-> first.device,
                regime |-> first.regime,
                fitted |-> usable,
                by |-> manifest]}

-------------------------------------------------------------------------------
(* The state *)

Artifacts == DOMAIN built

Files == {Torn, Absent} \cup Artifacts

ReleaseTypeOK ==
    /\ \A id \in Artifacts : /\ built[id].quality \in {"validated", "not established"}
                             /\ built[id].device \in Devices
    /\ disk \in [Devices -> [metadata : Files, pickle : Files]]
    /\ trainer \in {"idle", "trained", "dumping", "dumped", "describing"}
    /\ backend \in {"down", "read", "check", "engine read", "engine check", "unpickle", "up"}
    /\ settings \in Settings
    /\ {decided, engine, model} \subseteq {Absent} \cup Artifacts
    /\ mode \in {"active", "shadow", "unavailable"}
    /\ raced \subseteq {"decision", "engine"}
    /\ starts \in 0 .. MaxStarts

ReleaseInit ==
    /\ built = <<>>
    /\ disk = [device \in Devices |-> [metadata |-> Absent, pickle |-> Absent]]
    /\ trainer = "idle"
    /\ backend = "down"
    /\ settings \in Settings
    /\ decided = Absent
    /\ engine = Absent
    /\ model = Absent
    /\ mode = "unavailable"
    /\ raced = {}
    /\ starts = 0

-------------------------------------------------------------------------------
(* A training run *)

Latest == Len(built)
Target == built[Latest].device

Train ==
    /\ trainer = "idle" /\ Latest < MaxRuns
    /\ \E rows \in Exports, manifest \in {m \in Manifests : Parses(m)} \cup {NoManifest},
          wanted \in Devices \cup {""}, synthetic \in BOOLEAN, promote \in BOOLEAN :
          \E artifact \in Trained(rows, manifest, wanted, synthetic, promote) :
             built' = Append(built, artifact)
    /\ trainer' = "trained"
    /\ UNCHANGED <<disk, load, raced, starts>>

\* A file of the target changes; which reads of a running load does it overtake?
Writes(file, content) ==
    /\ disk' = [disk EXCEPT ![Target][file] = content]
    /\ raced' = raced \cup
         (IF settings.directory # Target THEN {}
          ELSE CASE backend \in {"check", "engine read"}     -> {"decision"}
                 [] backend \in {"engine check", "unpickle"} -> {"engine"}
                 [] OTHER                                    -> {})
    /\ UNCHANGED <<built, load, starts>>

OpenPickle == trainer = "trained" /\ trainer' = "dumping" /\ Writes("pickle", Torn)

DumpPickle == trainer = "dumping" /\ trainer' = "dumped" /\ Writes("pickle", Latest)

\* The checksum is taken of the pickle just dumped.
OpenMetadata == trainer = "dumped" /\ trainer' = "describing" /\ Writes("metadata", Torn)

WriteMetadata == trainer = "describing" /\ trainer' = "idle" /\ Writes("metadata", Latest)

TrainerCrash ==
    /\ trainer # "idle"
    /\ trainer' = "idle"
    /\ UNCHANGED <<built, disk, load, raced, starts>>

-------------------------------------------------------------------------------
(* A backend start *)

Directory == disk[settings.directory]

others == <<built, disk, trainer>>

\* The load ends without a model.  Ingestion goes on.
Unavailable == backend' = "up" /\ mode' = "unavailable" /\ model' = Absent

\* A new process knows nothing of what the one before it read.
Start ==
    /\ backend = "down" /\ starts < MaxStarts
    /\ starts' = starts + 1
    /\ IF settings.enabled /\ settings.device # "" /\ settings.regime # ""
         THEN backend' = "read" /\ UNCHANGED <<mode, model>>
         ELSE Unavailable
    /\ UNCHANGED <<others, settings, decided, engine, raced>>

ReadMetadata ==
    /\ backend = "read"
    /\ IF Directory.metadata \in Artifacts
         THEN backend' = "check" /\ decided' = Directory.metadata /\ UNCHANGED <<mode, model>>
         ELSE Unavailable /\ UNCHANGED decided
    /\ UNCHANGED <<others, settings, engine, raced, starts>>

\* MUTANT: the checksum is not compared.
ValidUnhashed(id) ==
    /\ built[id].device = settings.device
    /\ built[id].regime = settings.regime

\* The artifact is the one that was asked for and the pickle is its own.
Valid(id) ==
    /\ built[id].device = settings.device
    /\ built[id].regime = settings.regime
    /\ Directory.pickle = id

Check ==
    /\ backend = "check"
    /\ IF /\ Valid(decided)
          /\ settings.requireValidated => built[decided].quality = "validated"
         THEN backend' = "engine read" /\ UNCHANGED <<mode, model>>
         ELSE Unavailable
    /\ UNCHANGED <<others, settings, decided, engine, raced, starts>>

\* The engine reads and checks the directory once more, for itself.
EngineRead ==
    /\ backend = "engine read"
    /\ IF Directory.metadata \in Artifacts
         THEN backend' = "engine check" /\ engine' = Directory.metadata /\ UNCHANGED <<mode, model>>
         ELSE Unavailable /\ UNCHANGED engine
    /\ UNCHANGED <<others, settings, decided, raced, starts>>

EngineCheck ==
    /\ backend = "engine check"
    /\ IF Valid(engine) THEN backend' = "unpickle" /\ UNCHANGED <<mode, model>> ELSE Unavailable
    /\ UNCHANGED <<others, settings, decided, engine, raced, starts>>

\* MUTANT: what the configuration asks for is what runs.
ModeAsked == settings.mode

ModeOf ==
    IF settings.mode = "active" /\ built[decided].quality = "validated" THEN "active" ELSE "shadow"

Unpickle ==
    /\ backend = "unpickle"
    /\ IF Directory.pickle \in Artifacts
         THEN backend' = "up" /\ model' = Directory.pickle /\ mode' = ModeOf
         ELSE Unavailable
    /\ UNCHANGED <<others, settings, decided, engine, raced, starts>>

Stop ==
    /\ backend # "down"
    /\ backend' = "down" /\ mode' = "unavailable" /\ model' = Absent
    /\ decided' = Absent /\ engine' = Absent /\ raced' = {}
    /\ UNCHANGED <<others, settings, starts>>

ReleaseNext ==
    \/ Train \/ OpenPickle \/ DumpPickle \/ OpenMetadata \/ WriteMetadata \/ TrainerCrash
    \/ Start \/ ReadMetadata \/ Check \/ EngineRead \/ EngineCheck \/ Unpickle \/ Stop

ReleaseSpec == ReleaseInit /\ [][ReleaseNext]_releaseVars

-------------------------------------------------------------------------------
(* Properties *)

Loaded == model # Absent

\* Only validated evidence acts: the model of an active backend passed the gate
\* and was promoted, for this device and this regime, whatever the requirement
\* was relaxed to; and with the requirement in force nothing else is even
\* observed.  The decision is taken from metadata read before the engine reads
\* its own, so it holds of the loaded model only if no save overtook the load.
\* (loader.py:179 "it never lets one act".)
ActiveIsValidated ==
    /\ mode = "active" => built[decided].quality = "validated"
    /\ Loaded /\ raced = {} =>
         /\ built[model].device = settings.device /\ built[model].regime = settings.regime
         /\ mode = "active" \/ settings.requireValidated => built[model].quality = "validated"

\* A crash in the middle of a save, or a retraining in place, never gets a
\* pickle loaded that is torn or that another run's metadata describes, unless
\* a save wrote between the engine's own read and its unpickling.
\* (artifact.py:262 "An invalid artifact raises and is never unpickled".)
TornNeverLoaded ==
    Loaded /\ "engine" \notin raced => model = engine

\* An artifact marked validated rests on an operator's word and on nothing
\* else: a hardware capture with every field filled in, enough rows, each of
\* the attested device and of a witnessed power cycle, and each inside an
\* approved interval and outside every abnormal event.  An event declared with
\* label 0 is the exception: the parser admits it and its rows are fitted on.
\* (review.py:166, train.py:118 "Labelled faults are for evaluation, never for
\* the baseline".)
PromotedIsAttested ==
    \A id \in Artifacts :
        LET by == built[id].by
            declaredNormal(row) ==
                \E event \in ToSet(by.events) : event.label = 0 /\ Covers(event, row)
        IN built[id].quality = "validated" =>
             /\ by.provenance = "hardware" /\ by.filled
             /\ built[id].provenance = "hardware"
             /\ Cardinality(built[id].fitted) >= MinApproved
             /\ \A row \in built[id].fitted :
                   /\ row.device = by.device /\ row.boot \in by.boots
                   /\ \/ declaredNormal(row)
                      \/ /\ \E interval \in ToSet(by.approved) : Covers(interval, row)
                         /\ \A event \in ToSet(by.events) : ~Covers(event, row)
===============================================================================
