---------------------------- MODULE ModelRegistry ----------------------------
(***************************************************************************)
(* ai/registry.py: the models known in memory, and per model a metadata    *)
(* file and an artifact in the registry's directory.  An operation holds   *)
(* the lock and writes its files one after the other, each change in       *)
(* memory just before its file; a write may fail and the process may die   *)
(* between any two.                                                        *)
(***************************************************************************)
EXTENDS Naturals, Sequences, SequencesExt, FiniteSets, FiniteSetsExt

CONSTANTS
  Keys,        \* model_id:version
  FileOf,      \* _safe_filename: key to file name
  MaxFits, MaxOps   \* bounds of the model: fitted models, operations

Files == {FileOf[k] : k \in Keys}

VARIABLES
  models,      \* _models: key to metadata
  disk,        \* metadata files
  artifacts,   \* .npz files: the fitted model in it, 0 for none or a torn one
  todo,        \* writes of the current operation still to come
  fits, ops,   \* fitted models and operations so far
  failed,      \* history: a write failed, or an unfitted model was registered
  restarted    \* history: the process went on, and died, after that

vars == <<models, disk, artifacts, todo, fits, ops, failed, restarted>>

-----------------------------------------------------------------------------
Statuses == {"CANDIDATE", "CHALLENGER", "CHAMPION", "ARCHIVED"}

\* good: the metrics pass the gates of _validate_champion_candidate.  sha: the
\* model whose checksum is recorded, 0 for none.
Meta == [status : Statuses, good : BOOLEAN, sha : 0..MaxFits]
NoMeta == [status |-> "none", good |-> FALSE, sha |-> 0]
NoFile == [key |-> "none", meta |-> NoMeta]

TypeOK ==
  /\ models \in [Keys -> Meta \cup {NoMeta}]
  /\ disk \in [Files -> {NoFile} \cup [key : Keys, meta : Meta]]
  /\ artifacts \in [Files -> 0..MaxFits]
  /\ fits \in 0..MaxFits /\ ops \in 0..MaxOps /\ {failed, restarted} \subseteq BOOLEAN

Init ==
  /\ models = [k \in Keys |-> NoMeta]
  /\ disk = [f \in Files |-> NoFile]
  /\ artifacts = [f \in Files |-> 0]
  /\ todo = <<>> /\ fits = 0 /\ ops = 0 /\ failed = FALSE /\ restarted = FALSE

\* The writes of an operation.
Artifact(k) == [file |-> "artifact", key |-> k, status |-> "none"]
Metadata(k, status) == [file |-> "metadata", key |-> k, status |-> status]

Begins(writes) ==
  /\ todo = <<>> /\ ops < MaxOps
  /\ ops' = ops + 1 /\ todo' = writes

-----------------------------------------------------------------------------
(* register_model, with or without a fitted model.  The metadata is known at *)
(* once, also when the model turns out unfitted and nothing is written.  The *)
(* status is the one given: the training gives one of two.                  *)
Given == {"CANDIDATE", "CHALLENGER"}

Register(k, status, good, fitted) ==
  /\ fitted => fits < MaxFits
  /\ Begins((IF fitted THEN <<Artifact(k)>> ELSE <<>>) \o <<Metadata(k, status)>>)
  /\ models' = [models EXCEPT ![k] = [status |-> status, good |-> good, sha |-> 0]]
  /\ UNCHANGED <<disk, artifacts, fits, failed, restarted>>

RegisterUnfitted(k, status, good) ==
  /\ Begins(<<>>)
  /\ models' = [models EXCEPT ![k] = [status |-> status, good |-> good, sha |-> 0]]
  /\ failed' = TRUE
  /\ UNCHANGED <<disk, artifacts, fits, restarted>>

Known(k) == models[k] # NoMeta
Champions == {k \in Keys : models[k].status = "CHAMPION"}

\* The recorded checksum is that of the artifact.
Intact(k, meta) == meta.sha # 0 /\ artifacts[FileOf[k]] = meta.sha

\* Mutant of Valid: a model without an artifact passes.
Valid_MetricsOnly(k) == Known(k) /\ models[k].good

\* _validate_champion_candidate
Valid(k) == Known(k) /\ Intact(k, models[k]) /\ models[k].good

\* Every other champion is archived, then the new one is written.
Promotion(k) ==
  [i \in 1..Cardinality(Champions \ {k}) |-> Metadata(SetToSeq(Champions \ {k})[i], "ARCHIVED")]
    \o <<Metadata(k, "CHAMPION")>>

PromoteToChampion(k) ==
  /\ Valid(k)
  /\ Begins(Promotion(k))
  /\ UNCHANGED <<models, disk, artifacts, fits, failed, restarted>>

\* A challenger is not validated; a champion becomes one too.
PromoteToChallenger(k) ==
  /\ Known(k)
  /\ Begins(<<Metadata(k, "CHALLENGER")>>)
  /\ UNCHANGED <<models, disk, artifacts, fits, failed, restarted>>

-----------------------------------------------------------------------------
(* One write. *)

WriteArtifact ==
  /\ todo # <<>> /\ Head(todo).file = "artifact"
  /\ fits' = fits + 1
  /\ artifacts' = [artifacts EXCEPT ![FileOf[Head(todo).key]] = fits']
  /\ models' = [models EXCEPT ![Head(todo).key].sha = fits']
  /\ todo' = Tail(todo)
  /\ UNCHANGED <<disk, ops, failed, restarted>>

SetStatus(w) == models' = [models EXCEPT ![w.key].status = w.status]

WriteMetadata ==
  /\ todo # <<>> /\ Head(todo).file = "metadata"
  /\ SetStatus(Head(todo))
  /\ disk' = [disk EXCEPT ![FileOf[Head(todo).key]] = [key |-> Head(todo).key, meta |-> models'[Head(todo).key]]]
  /\ todo' = Tail(todo)
  /\ UNCHANGED <<artifacts, fits, ops, failed, restarted>>

\* The file cannot be opened, or is left torn; the operation ends there.
WriteFails(torn) ==
  /\ todo # <<>>
  /\ LET w == Head(todo) f == FileOf[w.key]
     IN IF w.file = "artifact"
        THEN artifacts' = [artifacts EXCEPT ![f] = IF torn THEN 0 ELSE @] /\ UNCHANGED <<models, disk>>
        ELSE SetStatus(w) /\ disk' = [disk EXCEPT ![f] = IF torn THEN NoFile ELSE @] /\ UNCHANGED artifacts
  /\ todo' = <<>> /\ failed' = TRUE
  /\ UNCHANGED <<fits, ops, restarted>>

\* The process dies, in the middle of a write too, and _load_from_disk reads what
\* is there; a torn file is skipped.
Loaded(files) ==
  [k \in Keys |-> IF files[FileOf[k]].key = k THEN files[FileOf[k]].meta ELSE NoMeta]

Crash(torn) ==
  /\ torn => todo # <<>>
  /\ disk' = IF torn /\ Head(todo).file = "metadata" THEN [disk EXCEPT ![FileOf[Head(todo).key]] = NoFile] ELSE disk
  /\ artifacts' = IF torn /\ Head(todo).file = "artifact" THEN [artifacts EXCEPT ![FileOf[Head(todo).key]] = 0] ELSE artifacts
  /\ models' = Loaded(disk')
  /\ todo' = <<>> /\ restarted' = (restarted \/ failed)
  /\ UNCHANGED <<fits, ops, failed>>

Next ==
  \/ \E k \in Keys, status \in Given, good, fitted \in BOOLEAN : Register(k, status, good, fitted)
  \/ \E k \in Keys, status \in Given, good \in BOOLEAN : RegisterUnfitted(k, status, good)
  \/ \E k \in Keys : PromoteToChampion(k) \/ PromoteToChallenger(k)
  \/ WriteArtifact \/ WriteMetadata
  \/ \E torn \in BOOLEAN : WriteFails(torn) \/ Crash(torn)

Spec == Init /\ [][Next]_vars

-----------------------------------------------------------------------------
(* Properties *)

Alone(k) == \A j \in Keys \ {k} : FileOf[j] # FileOf[k]

\* "Champion/Challenger governance": memory has at most one champion, also after
\* writes that failed, until the process dies after one; until a write has failed,
\* what the process loads wherever it dies has at most one.
OneChampion ==
  /\ ~restarted => Cardinality(Champions) <= 1
  /\ ~failed => Cardinality({k \in Keys : Loaded(disk)[k].status = "CHAMPION"}) <= 1

\* A promotion that is cut short can be repeated: until the champion is written,
\* the disk holds its metadata, with good metrics and an artifact that loads,
\* unless another model's name maps to the same file.
PromotionRepeatable ==
  ~failed /\ todo # <<>> /\ Last(todo).status = "CHAMPION" /\ Alone(Last(todo).key) =>
    LET k == Last(todo).key meta == Loaded(disk)[k]
    IN meta.good /\ Intact(k, meta)

\* Between operations the directory is the memory.
DiskAgrees ==
  ~failed /\ todo = <<>> => \A k \in Keys : Alone(k) => Loaded(disk)[k] = models[k]

RegistrySound == OneChampion /\ PromotionRepeatable /\ DiskAgrees

=============================================================================
