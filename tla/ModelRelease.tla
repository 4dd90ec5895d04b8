---------------------------- MODULE ModelRelease ----------------------------
(***************************************************************************)
(* From the training split to a suggestion.  export_baseline_model.py runs *)
(* the pipeline of TrainingSplit as far as the split, fits and writes one  *)
(* file per model name, and may register it in ml.model_version; each      *)
(* server process loads a file once, when it starts, and asks the database *)
(* which model is active for every report it classifies.  Nothing spans    *)
(* the file, the row and the memory of a process.                          *)
(***************************************************************************)
EXTENDS TrainingSplit

CONSTANTS
  Names,          \* baseline names a configuration may give; the version is fixed
  NoName,
  ExportCorpora,  \* the datasets an export loads
  Processes,      \* server processes
  MaxExports      \* bound: exports begun

ASSUME ReleaseAssumptions ==
  /\ NoName \notin Names
  /\ ExportCorpora \subseteq Corpora
  /\ MaxExports \in Nat

VARIABLES
  export,       \* the export that is running, and how many were begun
  file,         \* ml/artifacts/<name>-1.0.0.joblib: the export that wrote it
  registry,     \* ml.model_version, in insertion order
  process,      \* what each process has loaded, and the model of the report it classifies
  suggestions,  \* the model a classification names and the export that made it
  rewritten     \* history: names whose file was written over

release == <<export, file, registry, process, suggestions, rewritten>>
pipeline == <<phase, corpus, deduplicate, threshold, find, todo, left, bucket, fitted>>

Absent == 0
Torn == -1
None == 0

NoExport(n) == [pc |-> "none", name |-> NoName, nth |-> n]
ModelVersion == [name: Names, made: 1 .. MaxExports, active: BOOLEAN]

\* settled is history: nothing was deployed out of order when it took up the report.
Down == [path |-> NoName, bundle |-> None, model |-> None, settled |-> FALSE]

InitRelease ==
  /\ Init
  /\ export = NoExport(0)
  /\ file = [name \in Names |-> Absent]
  /\ registry = <<>>
  /\ process = [p \in Processes |-> Down]
  /\ suggestions = {} /\ rewritten = {}

-----------------------------------------------------------------------------
(* export_baseline_model.py                                                *)

Evaluating == export.pc = "none"
Preparing == export.pc = "preparing"
Moves(pc) == export' = [export EXCEPT !.pc = pc]
Ends == export' = NoExport(export.nth)

\* A new process with nothing loaded, after whatever run of the pipeline came before.
BeginExport(name) ==
  /\ Evaluating /\ export.nth < MaxExports
  /\ phase \in {"start", "refused", "written", "exported"}
  /\ export' = [pc |-> "preparing", name |-> name, nth |-> export.nth + 1]
  /\ phase' = "start" /\ corpus' = <<>> /\ deduplicate' = TRUE /\ threshold' = Default
  /\ find' = [t \in Texts |-> t]
  /\ todo' = {} /\ left' = {} /\ bucket' = <<>> /\ fitted' = {}
  /\ UNCHANGED <<file, registry, process, suggestions, rewritten>>

\* A classifier needs two labels, and predict at least one example to score.
Fittable == Cardinality(LabelsIn("train")) > 1 /\ In("test") # {}

\* Fitted on the training set, scored on the test set: no leakage check stands between.
Fit ==
  /\ Preparing /\ phase = "split" /\ left = {}
  /\ Fittable
  /\ fitted' = TextsIn("train")
  /\ Moves("fitted")
  /\ phase' = "exported"
  /\ UNCHANGED <<corpus, deduplicate, threshold, find, todo, left, bucket>>
  /\ UNCHANGED <<file, registry, process, suggestions, rewritten>>

FitFails ==
  /\ Preparing
  /\ phase = "refused" \/ (phase = "split" /\ left = {} /\ ~Fittable)
  /\ Ends
  /\ phase' = "exported"
  /\ UNCHANGED <<corpus, deduplicate, threshold, find, todo, left, bucket, fitted>>
  /\ UNCHANGED <<file, registry, process, suggestions, rewritten>>

\* The file is opened, and what it held is gone.
BeginWrite ==
  /\ export.pc = "fitted"
  /\ file' = [file EXCEPT ![export.name] = Torn]
  /\ rewritten' = IF file[export.name] \in 1 .. MaxExports THEN rewritten \cup {export.name}
                  ELSE rewritten
  /\ Moves("writing")
  /\ UNCHANGED <<pipeline, registry, process, suggestions>>

save_bundle ==
  /\ export.pc = "writing"
  /\ file' = [file EXCEPT ![export.name] = export.nth]
  /\ Moves("saved")
  /\ UNCHANGED <<pipeline, registry, process, suggestions, rewritten>>

\* No --register, no database, or the script is killed, at any point.
Quit ==
  /\ export.pc # "none"
  /\ Ends
  /\ phase' = "exported"
  /\ UNCHANGED <<corpus, deduplicate, threshold, find, todo, left, bucket, fitted>>
  /\ UNCHANGED <<file, registry, process, suggestions, rewritten>>

Registered == {registry[n].name : n \in DOMAIN registry}
Deactivated == [n \in DOMAIN registry |-> [registry[n] EXCEPT !.active = FALSE]]

\* Mutant: the deactivation is committed by itself.
DeactivatedAlone == Deactivated

\* What a registration that fails leaves of the table.
AfterConflict == registry

\* The UPDATE and the INSERT, in one transaction.
Register ==
  /\ export.pc = "saved"
  /\ export.name \notin Registered
  /\ registry' = Append(Deactivated,
                        [name |-> export.name, made |-> export.nth, active |-> TRUE])
  /\ Ends
  /\ UNCHANGED <<pipeline, file, process, suggestions, rewritten>>

\* uq_model_version_name_version: the file is new, the row is the old one.
RegisterConflicts ==
  /\ export.pc = "saved"
  /\ export.name \in Registered
  /\ registry' = AfterConflict
  /\ Ends
  /\ UNCHANGED <<pipeline, file, process, suggestions, rewritten>>

-----------------------------------------------------------------------------
(* The server                                                              *)

\* A missing or an unreadable file is no model, and no reason not to start.
load_bundle(name) == IF file[name] \in {Absent, Torn} THEN None ELSE file[name]

\* The process starts, or starts again, with MODEL_ARTIFACT_PATH set to the file.
Start(p, name) ==
  /\ process' = [process EXCEPT ![p] = [path |-> name, bundle |-> load_bundle(name),
                                      model |-> None, settled |-> FALSE]]
  /\ UNCHANGED <<pipeline, export, file, registry, suggestions, rewritten>>

Active == {n \in DOMAIN registry : registry[n].active}

\* Mutant: any registered classifier.
any_classifier == DOMAIN registry

active_classifier == Active

Settled(p) ==
  /\ process[p].path \notin rewritten
  /\ \A n \in Active : registry[n].name = process[p].path

BeginTriage(p) ==
  /\ process[p].bundle # None /\ process[p].model = None
  /\ \E n \in active_classifier :
       process' = [process EXCEPT ![p].model = n, ![p].settled = Settled(p)]
  /\ UNCHANGED <<pipeline, export, file, registry, suggestions, rewritten>>

Classify(p) ==
  /\ process[p].model # None
  /\ suggestions' = suggestions \cup {[model |-> process[p].model, made |-> process[p].bundle,
                                       settled |-> process[p].settled]}
  /\ process' = [process EXCEPT ![p].model = None]
  /\ UNCHANGED <<pipeline, export, file, registry, rewritten>>

-----------------------------------------------------------------------------
\* An export hands no threshold on; an evaluation hands on the configured one.
Loads ==
  /\ load_dataset
  /\ Preparing => corpus' \in ExportCorpora /\ threshold' = Default

NextRelease ==
  \/ Loads /\ UNCHANGED release
  \/ RefuseSource /\ UNCHANGED release
  \/ Grouped /\ UNCHANGED release
  \/ \E pair \in todo : Merge(pair) /\ UNCHANGED release
  \/ \E label \in left : Allocate(label) /\ UNCHANGED release
  \/ Evaluating /\ Check /\ UNCHANGED release
  \/ Train /\ UNCHANGED release
  \/ Score /\ UNCHANGED release
  \/ \E name \in Names : BeginExport(name)
  \/ Fit \/ FitFails \/ BeginWrite \/ save_bundle \/ Quit \/ Register \/ RegisterConflicts
  \/ \E p \in Processes :
       \/ \E name \in Names : Start(p, name)
       \/ BeginTriage(p) \/ Classify(p)

SpecRelease == InitRelease /\ [][NextRelease]_<<pipeline, release>>
-----------------------------------------------------------------------------
\* Once a model was registered exactly one is active, for every report that comes in,
\* whatever exports fail, collide on their name or are killed.
OneActive == registry # <<>> => Cardinality(Active) = 1

\* A suggestion names the model that made it as long as the deployment keeps an order
\* nothing enforces: the process was started from the file of the active model, before
\* or after it was registered, and no export has written over that file.
SuggestsAsRegistered ==
  \A s \in suggestions : s.settled => s.made = registry[s.model].made

-----------------------------------------------------------------------------
(* What the code's comments promise                                        *)

\* artifact.py: the row in ml.model_version and the file on disk cannot disagree about
\* which model this is.
RowAndFileAgree ==
  \A n \in DOMAIN registry : file[registry[n].name] = registry[n].made

\* export_baseline_model.py: the numbers in the manifest are from data the model never saw.
ManifestIsOfUnseen == phase = "exported" => Unseen
=============================================================================
