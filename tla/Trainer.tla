------------------------------- MODULE Trainer -------------------------------
(***************************************************************************)
(* Retraining and promotion of the router model: the trainer worker of     *)
(* src/gateway/trainer_worker.py with the files it writes, the registry    *)
(* rows of src/gateway/memory.py, the model the router serves              *)
(* (src/gateway/router.py), and the two readers of the boot files in       *)
(* src/gateway/app.py: start-up and the configuration poller.              *)
(*                                                                         *)
(* A version is the number of the run that trained it; 0 is the model the  *)
(* gateway was deployed with.  An embedding is 0 (stock) or the number of  *)
(* the run that fine-tuned it.  Single mode.  From the swap on a run never *)
(* awaits: only the loader thread, a curation (a thread) or a crash comes  *)
(* between two of its steps.                                               *)
(***************************************************************************)
EXTENDS Integers, Sequences, FiniteSets

CONSTANTS
  Threshold,    \* trainer.trigger_threshold_new_samples
  FineTunes,    \* the values ?allow_embedding_finetune takes
  NoFile, Torn, \* contents: no such file, a copy cut short
  Boot,         \* the path of the boot files
  MaxRuns,      \* bound: training runs
  MaxCurated,   \* bound: curated samples
  MaxIncidents  \* bound: failed writes and crashes in a run

ASSUME TrainerAssumption ==
  /\ Threshold \in Nat \ {0} /\ MaxRuns \in Nat /\ MaxCurated \in Nat
  /\ MaxIncidents \in Nat /\ FineTunes \subseteq BOOLEAN
  /\ NoFile \notin Nat /\ Torn \notin Nat /\ NoFile # Torn /\ Boot \notin Nat

VARIABLES
  curated,      \* curated samples, numbered 1 .. curated
  disk,         \* the files: see DiskType
  db,           \* registry rows and trainer_state
  router,       \* the model served and where it was loaded from
  worker,       \* _last_curated_id and _pending_curated_max_id
  queue,        \* runs on _lock in order: the first one holds it
  run,          \* locals of the holder, or NoRun
  app,          \* configuration in force, edits pending, loader thread
  incidents

vars == <<curated, disk, db, router, worker, queue, run, app, incidents>>

Versions == 0 .. MaxRuns
Contents == Versions \union {NoFile, Torn}
Models == [onnx : Contents, heads : Contents]
Absent == [onnx |-> NoFile, heads |-> NoFile]
Stub == Absent      \* the router's stub, or a load that was refused

NoRun == [pc |-> "none"]
Phases == {"tune", "train", "evaluate", "swap", "onnx", "heads", "config",
           "register", "promote", "card", "rollback"}
Awaiting == {"none", "tune", "train", "evaluate"}
Loading == {"idle", "verify", "open", "heads", "read"}
Requests == [why : {"threshold", "accuracy", "manual"}, finetune : BOOLEAN]

DiskType ==
  [exported : [Versions -> Nat],      \* largest sample id in a run's export
   files    : [Versions -> Models],   \* CHECKPOINTS_DIR
   trained  : [Versions -> Versions], \* the embedding the heads were trained on
   passed   : SUBSET Versions,        \* went through the evaluation gate
   started  : Versions,               \* runs started so far
   boot     : Models,                 \* boot path: model.onnx and heads.npz
   checksum : Versions]               \* embedding.checksum_sha256

TypeOK ==
  /\ curated \in 0 .. MaxCurated
  /\ disk \in DiskType
  /\ db \in [active : Versions, promoted : SUBSET Versions,
             rolledBack : SUBSET Versions, lastId : Nat, missed : BOOLEAN]
  /\ router \in [model : Models, path : Versions \union {Boot}]
  /\ worker \in [lastId : Nat, pendingId : Nat]
  /\ queue \in Seq(Requests)
  /\ run \in {NoRun} \union
       [pc : Phases, version : Versions, tuned : BOOLEAN, previous : Contents]
  /\ app \in [checksum : Versions, edited : BOOLEAN,
              loader : Loading, loaded : Models]
  /\ incidents \in 0 .. MaxIncidents

Deployed == [onnx |-> 0, heads |-> 0]

Init ==
  /\ curated = 0
  /\ disk = [exported |-> [v \in Versions |-> 0],
             files    |-> [v \in Versions |-> Absent],
             trained  |-> [v \in Versions |-> 0],
             passed   |-> {0}, started |-> 0, boot |-> Deployed, checksum |-> 0]
  /\ db = [active |-> 0, promoted |-> {}, rolledBack |-> {}, lastId |-> 0, missed |-> FALSE]
  /\ router = [model |-> Deployed, path |-> Boot]
  /\ worker = [lastId |-> 0, pendingId |-> 0]
  /\ queue = <<>>
  /\ run = NoRun
  /\ app = [checksum |-> 0, edited |-> FALSE, loader |-> "idle", loaded |-> Absent]
  /\ incidents = 0

\* The event loop is between two handlers.
LoopFree == run.pc \in Awaiting

Incident ==
  /\ incidents < MaxIncidents
  /\ incidents' = incidents + 1

-----------------------------------------------------------------------------
(* Asking for a run *)

\* The review queue curates a sample.
Curate ==
  /\ curated < MaxCurated
  /\ curated' = curated + 1
  /\ UNCHANGED <<disk, db, router, worker, queue, run, app, incidents>>

Waiting == Len(queue) - (IF run = NoRun THEN 0 ELSE 1)

Ask(why, finetune) ==
  /\ LoopFree
  /\ disk.started + Waiting < MaxRuns
  /\ queue' = Append(queue, [why |-> why, finetune |-> finetune])
  /\ UNCHANGED <<curated, disk, db, router, run, app, incidents>>

\* _tick: one at a time, since it awaits the run it starts.  The drift alarm,
\* the cool-down and the accuracy only decide whether this tick starts one.
Tick(why) ==
  /\ \A i \in DOMAIN queue : queue[i].why = "manual"
  /\ why = IF curated - worker.lastId >= Threshold THEN "threshold" ELSE "accuracy"
  /\ worker' = [worker EXCEPT !.pendingId = curated]
  /\ Ask(why, FALSE)

ManualRetrain(finetune) ==
  /\ Ask("manual", finetune)
  /\ UNCHANGED worker

-----------------------------------------------------------------------------
(* A run, up to the swap *)

Goto(phase) == run' = [run EXCEPT !.pc = phase]

Leave == /\ queue' = Tail(queue)
         /\ run' = NoRun

\* The lock is acquired and everything curated is exported.
Start ==
  /\ run = NoRun /\ queue # <<>>
  /\ LET v == disk.started + 1
     IN  /\ disk' = [disk EXCEPT !.started = v, !.exported[v] = curated]
         /\ run' = [pc |-> IF Head(queue).finetune THEN "tune" ELSE "train",
                    version |-> v, tuned |-> FALSE, previous |-> NoFile]
  /\ UNCHANGED <<curated, db, router, worker, queue, app, incidents>>

\* Any failure to fine-tune falls back to heads-only training.
Tune ==
  /\ run.pc = "tune"
  /\ \E ok \in BOOLEAN : run' = [run EXCEPT !.pc = "train", !.tuned = ok]
  /\ UNCHANGED <<curated, disk, db, router, worker, queue, app, incidents>>

Changed == app.edited \/ app.checksum # disk.checksum

\* Timing: the poller looks every five seconds and a load takes seconds, while
\* train.py takes minutes: it ends with the configuration of its start applied.
Train ==
  /\ run.pc = "train" /\ ~Changed /\ app.loader = "idle"
  /\ LET v         == run.version
         embedding == IF run.tuned THEN v ELSE 0
     IN  \/ /\ disk' = [disk EXCEPT !.files[v] = [onnx |-> embedding, heads |-> v],
                                    !.trained[v] = embedding]
            /\ Goto("evaluate")
            /\ UNCHANGED queue
         \/ Leave /\ UNCHANGED disk
  /\ UNCHANGED <<curated, db, router, worker, app, incidents>>

\* Mutant: a branch of the gate that logs and does not return.
FallThrough == Goto("swap") /\ UNCHANGED <<disk, queue>>

Reject == Leave /\ UNCHANGED disk

\* eval.py and the gate: thresholds, regression, policy replay.
Evaluate ==
  /\ run.pc = "evaluate"
  /\ \/ /\ disk' = [disk EXCEPT !.passed = @ \union {run.version}]
        /\ Goto("swap")
        /\ UNCHANGED queue
     \/ Reject
  /\ UNCHANGED <<curated, db, router, worker, app, incidents>>

At(path) == IF path = Boot THEN disk.boot ELSE disk.files[path]

\* Mutant: the version being replaced is taken to have files already.
NoSnapshot(previous) == disk

\* Keep the files of the version being replaced; those it has are not
\* overwritten, whole or not.
Filled(have, from) ==
  [onnx  |-> IF have.onnx  = NoFile THEN from.onnx  ELSE have.onnx,
   heads |-> IF have.heads = NoFile THEN from.heads ELSE have.heads]

Snapshot(previous) ==
  IF previous \in Versions
    THEN [disk EXCEPT !.files[previous] = Filled(@, At(router.path))]
    ELSE disk

\* The files kept when the copies, one after the other, were cut short.
CutShort(file) == IF file = NoFile THEN {NoFile, Torn} ELSE {file}

Interrupted(have, full) ==
  {[have EXCEPT !.onnx = c] : c \in CutShort(have.onnx)}
  \union {[full EXCEPT !.heads = c] : c \in CutShort(have.heads)} \union {full}

SnapshotLeft(previous) ==
  IF previous \in Versions
    THEN LET full == Snapshot(previous).files[previous]
         IN  {[disk EXCEPT !.files[previous] = files] :
                files \in Interrupted(disk.files[previous], full)}
    ELSE {}

\* An embedding fine-tuned in this run is not held against the configured
\* checksum.
Swap ==
  /\ run.pc = "swap"
  /\ LET previous == router.model.heads
         new      == disk.files[run.version]
     IN  \/ /\ disk' = Snapshot(previous)
            /\ IF run.tuned \/ new.onnx = app.checksum
                 THEN /\ router' = [model |-> new, path |-> run.version]
                      /\ run' = [run EXCEPT !.pc = "onnx", !.previous = previous]
                      /\ UNCHANGED queue
                 ELSE Leave /\ UNCHANGED router
            /\ UNCHANGED incidents
         \/ /\ disk' \in SnapshotLeft(previous)
            /\ Incident /\ Leave /\ UNCHANGED router
  /\ UNCHANGED <<curated, db, worker, app>>

-----------------------------------------------------------------------------
(* _persist_as_boot_default: two copies and the checksum.  The first       *)
(* failure ends it and the run goes on.                                    *)

Failed(next) == "register"

Copy(part, next) ==
  /\ run.pc = part
  /\ \/ /\ disk' = [disk EXCEPT !.boot[part] = disk.files[run.version][part]]
        /\ Goto(next)
        /\ UNCHANGED incidents
     \/ /\ Incident
        /\ \E left \in {disk.boot[part], Torn} : disk' = [disk EXCEPT !.boot[part] = left]
        /\ Goto(Failed(next))
  /\ UNCHANGED <<curated, db, router, worker, queue, app>>

WriteChecksum ==
  /\ run.pc = "config"
  /\ \/ /\ disk' = [disk EXCEPT !.checksum = disk.boot.onnx]
        /\ UNCHANGED incidents
     \/ Incident /\ UNCHANGED disk
  /\ Goto("register")
  /\ UNCHANGED <<curated, db, router, worker, queue, app>>

Persist == Copy("onnx", "heads") \/ Copy("heads", "config") \/ WriteChecksum

-----------------------------------------------------------------------------
(* The registry, the model card, and the way back *)

\* A statement or a file write of the run raises.
Raise ==
  /\ run.pc \in {"register", "promote", "card"}
  /\ Incident
  /\ Goto("rollback")
  /\ UNCHANGED <<curated, disk, db, router, worker, queue, app>>

\* register_model_version: a new row, or the old one active again.  missed is
\* history: a version was reverted to and its registration failed since.
Registered(rows, v) == [rows EXCEPT !.active = v, !.missed = FALSE]

Register ==
  /\ run.pc = "register"
  /\ db' = Registered(db, run.version)
  /\ Goto("promote")
  /\ UNCHANGED <<curated, disk, router, worker, queue, app, incidents>>

Promote ==
  /\ run.pc = "promote"
  /\ db' = [db EXCEPT !.promoted = @ \union {run.version}]
  /\ Goto("card")
  /\ UNCHANGED <<curated, disk, router, worker, queue, app, incidents>>

\* Mutant: the count is taken again when the run ends.
CountedLate == curated

Counted == worker.pendingId

\* The card is written and the run returns True: a tick started by the number
\* of samples moves the watermark to the count it was started for, in memory
\* and then in trainer_state, where the write may fail.
Succeed ==
  /\ run.pc = "card"
  /\ Leave
  /\ IF Head(queue).why = "threshold"
       THEN /\ worker' = [worker EXCEPT !.lastId = Counted]
            /\ \/ db' = [db EXCEPT !.lastId = Counted] /\ UNCHANGED incidents
               \/ Incident /\ UNCHANGED db
       ELSE UNCHANGED <<worker, db, incidents>>
  /\ UNCHANGED <<curated, disk, router, app>>

\* revert_to_version finds and can load the checkpoint's files, and the heads
\* have the hash registered for that version.
Revertible(v) == disk.files[v].heads = v /\ disk.files[v].onnx \in Versions

LoadCheckpoint(v) == router' = [model |-> disk.files[v], path |-> v]

\* revert_to_version loads the checkpoint and then registers it; the statement
\* that registers may raise.
Revert(v, rows) ==
  /\ LoadCheckpoint(v)
  /\ \/ db' = rows /\ UNCHANGED incidents
     \/ db' = [db EXCEPT !.missed = TRUE] /\ Incident

\* mark_checkpoint_rolled_back.
Marked(rows) ==
  [rows EXCEPT !.rolledBack = @ \union (rows.promoted \intersect {run.version})]

\* What was replaced is given back and then the checkpoint marked.  Any of the
\* three statements may raise: the look at the registered hash leaves all as
\* it is, the registration a router that the registry does not name, the mark
\* a checkpoint that stays promoted.
Rollback ==
  /\ run.pc = "rollback"
  /\ \/ /\ run.previous \in Versions /\ Revertible(run.previous)
        /\ \/ Revert(run.previous, Marked(Registered(db, run.previous)))
           \/ /\ LoadCheckpoint(run.previous)
              /\ db' = Registered(db, run.previous) /\ Incident
     \/ /\ ~(run.previous \in Versions /\ Revertible(run.previous))
        /\ db' = Marked(db) /\ UNCHANGED <<router, incidents>>
     \/ Incident /\ UNCHANGED <<router, db>>
  /\ Leave
  /\ UNCHANGED <<curated, disk, worker, app>>

\* "A previously promoted model version": the dashboard offers no other.
Offered == db.promoted \ (db.rolledBack \union {db.active})

\* POST /admin/revert/<version>, refused while a run holds the lock.
AdminRevert(v) ==
  /\ queue = <<>> /\ Revertible(v)
  /\ Revert(v, Registered(db, v))
  /\ UNCHANGED <<curated, disk, worker, queue, run, app>>

-----------------------------------------------------------------------------
(* Readers of the boot files *)

\* try_load_real of the boot files under the checksum c, when nothing else runs.
BootModel(boot, c) == IF boot.onnx = c /\ boot.heads # Torn THEN boot ELSE Stub

\* An operator changes the calibration.
EditConfig ==
  /\ ~app.edited
  /\ app' = [app EXCEPT !.edited = TRUE]
  /\ UNCHANGED <<curated, disk, db, router, worker, queue, run, incidents>>

\* _apply_runtime_config: a new signature sends a thread to the boot files.
Poll ==
  /\ LoopFree /\ app.loader = "idle"
  /\ Changed
  /\ app' = [app EXCEPT !.checksum = disk.checksum, !.edited = FALSE, !.loader = "verify"]
  /\ UNCHANGED <<curated, disk, db, router, worker, queue, run, incidents>>

(* try_load_real in the loader's thread reads the boot files three times,  *)
(* and the copies of a run may come before, between and after.             *)

\* A file may be read while it is being copied.
Readable(part) ==
  {disk.boot[part]} \union (IF run.pc = part THEN {Torn} ELSE {})

Refused == [app EXCEPT !.loader = "read", !.loaded = Stub]

\* The checksum is taken of one read of model.onnx,
LoadVerify ==
  /\ app.loader = "verify"
  /\ \E file \in Readable("onnx") :
       app' = IF file = app.checksum THEN [app EXCEPT !.loader = "open"] ELSE Refused
  /\ UNCHANGED <<curated, disk, db, router, worker, queue, run, incidents>>

\* the session is made of another,
LoadOpen ==
  /\ app.loader = "open"
  /\ \E file \in Readable("onnx") :
       app' = IF file = Torn THEN Refused
              ELSE [app EXCEPT !.loader = "heads", !.loaded.onnx = file]
  /\ UNCHANGED <<curated, disk, db, router, worker, queue, run, incidents>>

\* and the heads are read last.
LoadHeads ==
  /\ app.loader = "heads"
  /\ \E file \in Readable("heads") :
       app' = IF file = Torn THEN Refused
              ELSE [app EXCEPT !.loader = "read", !.loaded.heads = file]
  /\ UNCHANGED <<curated, disk, db, router, worker, queue, run, incidents>>

\* Mutant: the signature is taken when the load is over, not before it.
LoadedSigned ==
  [app EXCEPT !.loader = "idle", !.loaded = Absent, !.checksum = disk.checksum]

Loaded == [app EXCEPT !.loader = "idle", !.loaded = Absent]

\* The thread swaps its model in; the loop puts the stub when it has none.
LoadSwap ==
  /\ app.loader = "read"
  /\ IF app.loaded = Stub
       THEN LoopFree /\ router' = [router EXCEPT !.model = Stub]
       ELSE router' = [model |-> app.loaded, path |-> Boot]
  /\ app' = Loaded
  /\ UNCHANGED <<curated, disk, db, worker, queue, run, incidents>>

\* The files after the process stopped, perhaps in the middle of a copy.
DiskLeft ==
  {disk} \union (IF run.pc = "swap" THEN SnapshotLeft(router.model.heads) ELSE {})
  \union {[disk EXCEPT !.boot[part] = Torn] : part \in {"onnx", "heads"} \intersect {run.pc}}

\* The process stops, in a run or between two, and starts again.
Restart ==
  /\ IF run = NoRun THEN UNCHANGED incidents ELSE Incident
  /\ \E left \in DiskLeft :
       LET model == BootModel(left.boot, disk.checksum)
       IN  /\ disk' = left
           /\ router' = [model |-> model, path |-> Boot]
           /\ db' = IF model = Stub THEN db ELSE Registered(db, model.heads)
  /\ worker' = [lastId |-> db.lastId, pendingId |-> db.lastId]
  /\ queue' = <<>>
  /\ run' = NoRun
  /\ app' = [checksum |-> disk.checksum, edited |-> FALSE, loader |-> "idle", loaded |-> Absent]
  /\ UNCHANGED curated

Next ==
  \/ Curate
  \/ \E why \in {"threshold", "accuracy"} : Tick(why)
  \/ \E f \in FineTunes : ManualRetrain(f)
  \/ Start \/ Tune \/ Train \/ Evaluate \/ Swap
  \/ Persist \/ Raise \/ Register \/ Promote \/ Succeed \/ Rollback
  \/ \E v \in Offered : AdminRevert(v)
  \/ EditConfig \/ Poll \/ LoadVerify \/ LoadOpen \/ LoadHeads \/ LoadSwap
  \/ Restart

Spec == Init /\ [][Next]_vars

-----------------------------------------------------------------------------
(* Properties *)

\* No sample is written off untrained: whatever a run waited for on the lock,
\* and whenever the process stopped, the samples up to the watermark, in memory
\* and in trainer_state, were in the export of one promoted run that stands.
WatermarkTrained ==
  \A id \in {worker.lastId, db.lastId} \ {0} :
    \E v \in db.promoted \ db.rolledBack : disk.exported[v] >= id

\* What a restart would serve, and every promoted version (the baseline of the
\* next regression gate), went through the evaluation gate.
BootGated ==
  /\ disk.boot.heads \in disk.passed \union {Torn}
  /\ db.promoted \subseteq disk.passed

\* A fine-tuned embedding has been copied to the boot path and the load that
\* its checksum calls for has not begun.
Outdated ==
  \/ run.pc \in {"heads", "config"} /\ run.tuned
  \/ app.checksum # disk.checksum

\* The router does not go on running heads on an embedding they were not
\* trained on: a reload whose three reads of the boot files fall between the
\* copies of a run may make such a model (AlwaysPaired), but then the run's
\* checksum calls for another load, which puts it right.  This as long as no
\* write has failed and no run was cut short, after which it may (README).
Paired ==
  incidents = 0 /\ router.model.heads \in Versions /\ ~Outdated /\ app.loader = "idle"
    => router.model.onnx = disk.trained[router.model.heads]

\* Between runs, a router that serves a checkpoint serves the version the
\* registry calls active; or one whose run failed before it was registered and
\* could not give back what it replaced, so that it stays.  The registry may
\* miss a revert only by failing to write it.
ServesActive ==
  run = NoRun /\ router.path # Boot /\ router.model # Stub /\ ~db.missed
    => router.model.heads \in {db.active} \union ((1 .. disk.started) \ db.promoted)

\* What runs is what was trained together and what the registry names.
ServedAsTrained == Paired /\ ServesActive

\* A run that fails after the swap gives back the version it replaced, in the
\* router and in the registry, unless a statement of the way back fails too:
\* the checkpoint it needs is there and is the right one, even when that
\* version came from boot files since overwritten.  And however it fails, the
\* registry does not name a version again that the router was not given.
\* Only a copy cut short is lost: the next run takes it for the checkpoint.
Whole(files) == Torn \notin {files.onnx, files.heads}

RollbackRestores ==
  [][Rollback /\ run.previous \in Versions /\ Whole(disk.files[run.previous])
       => /\ incidents' = incidents
               => router'.model.heads = run.previous /\ db'.active = run.previous
          /\ db'.active # db.active => router'.model.heads = db'.active]_vars

\* "The ONNX file is verified before load" (try_load_real): what is verified is
\* what runs with the heads read.  Refuted: the file is read again after it was
\* verified, and a run's copies may come between.
AlwaysPaired ==
  incidents = 0 /\ router.model.heads \in Versions
    => router.model.onnx = disk.trained[router.model.heads]

\* README.md and the worker's docstrings: a promotion that failed is rolled
\* back.  Once that is done the gateway does not serve the version again.
RolledBackNotServed == run = NoRun => router.model.heads \notin db.rolledBack

=============================================================================
