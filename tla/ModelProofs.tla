----------------------------- MODULE ModelProofs -----------------------------
(***************************************************************************)
(* Theorems about models: how the router's is trained and served (Trainer), *)
(* for any number of runs, samples and incidents, and how upstream models  *)
(* answer a request by a swarm or as a stream (Responses), for any requests, *)
(* plans, tiers, prices, events and chunks.                                *)
(*                                                                         *)
(* Trainer: what was exported for a promoted run does not show in the state *)
(* of the run in progress, and a sample may be curated at any time:        *)
(* TrainerInv adds that the holder of the lock exported at least what its  *)
(* tick had counted, and that no promoted run is ever started again.       *)
(*                                                                         *)
(* What is served depends on the files a later run or start-up will read:  *)
(* RouterInv adds whose checkpoints are there, that the boot files are one *)
(* model but for the copies under way, and that a fine-tuned embedding is  *)
(* not the configured one before its checksum is written.                  *)
(*                                                                         *)
(* Responses: the layers still to be run hold every subtask that waits, and *)
(* all that one of them depends on has ended or comes in an earlier layer  *)
(* (OrderOK); what was spent is what was billed and what the layer in      *)
(* progress will be (BillOK); and a usage that arrived whole has been found *)
(* in whichever chunk it was completed (StreamInv).                        *)
(***************************************************************************)
EXTENDS Trainer, Responses, FiniteSetTheorems, WellFoundedInduction, TLAPS

-----------------------------------------------------------------------------
(***************************************************************************)
(* Trainer                                                                 *)
(***************************************************************************)

Running == run # NoRun

\* The phases in which the candidate has been written, and has been accepted.
Written == {"evaluate", "swap", "onnx", "heads", "config", "register", "promote",
            "card", "rollback"}
Accepted == Written \ {"evaluate"}

\* The lock, its holder and the runs left.
LockInv ==
  /\ disk.started + Waiting <= MaxRuns
  /\ Running => queue # <<>> /\ run.version = disk.started /\ disk.started > 0

\* The files of the candidate and the boot files.
FilesInv ==
  /\ run.pc \in Written => /\ disk.files[run.version].heads = run.version
                           /\ disk.files[run.version].onnx \in Versions
  /\ disk.boot.onnx \in Versions \union {Torn}
  /\ disk.boot.heads \in Versions \union {Torn}
  /\ run.pc \in {"heads", "config"} => disk.boot.onnx \in Versions

GateInv ==
  /\ BootGated
  /\ run.pc \in Accepted => run.version \in disk.passed

\* The promoted runs that stand whatever becomes of the run in progress.
Standing ==
  (db.promoted \ db.rolledBack) \ (IF Running THEN {run.version} ELSE {})

WatermarkInv ==
  /\ db.promoted \union db.rolledBack \subseteq 1 .. disk.started
  /\ Running => run.version \notin db.rolledBack
  /\ run.pc = "card" => run.version \in db.promoted
  /\ worker.pendingId <= curated /\ db.lastId <= curated
  /\ Running /\ Head(queue).why # "manual"
       => disk.exported[run.version] >= worker.pendingId
  /\ \A id \in {worker.lastId, db.lastId} \ {0} :
       \E v \in Standing : disk.exported[v] >= id

TrainerInv == TypeOK /\ LockInv /\ FilesInv /\ GateInv /\ WatermarkInv

-----------------------------------------------------------------------------
LEMMA InitInv == Init => TrainerInv
<1> SUFFICES ASSUME Init PROVE TrainerInv
  OBVIOUS
<1>1. 0 \in Versions
  BY TrainerAssumption DEF Versions
<1>2. TypeOK
  BY <1>1, TrainerAssumption
     DEF Init, TypeOK, DiskType, Models, Contents, Absent, Deployed, Loading
<1>3. LockInv /\ FilesInv /\ GateInv
  BY <1>1, TrainerAssumption
     DEF Init, LockInv, Waiting, Running, FilesInv, GateInv, BootGated, Written, Accepted,
         NoRun, Deployed
<1>4. WatermarkInv
  BY DEF Init, WatermarkInv, Running, NoRun
<1> QED
  BY <1>2, <1>3, <1>4 DEF TrainerInv

-----------------------------------------------------------------------------
LEMMA CurateInv == ASSUME TrainerInv, Curate PROVE TrainerInv'
<1> USE DEF TrainerInv, Curate
<1>1. TypeOK'
  BY TrainerAssumption DEF TypeOK
<1>2. LockInv' /\ FilesInv' /\ GateInv'
  BY DEF LockInv, Waiting, Running, FilesInv, GateInv, BootGated
<1>3. WatermarkInv'
  BY DEF WatermarkInv, Standing, Running, TypeOK
<1> QED
  BY <1>1, <1>2, <1>3

LEMMA AskKeeps ==
  ASSUME TrainerInv, NEW why \in {"threshold", "accuracy", "manual"},
         NEW f \in BOOLEAN, Ask(why, f)
  PROVE  /\ queue' \in Seq(Requests) /\ queue' # <<>> /\ Len(queue') = Len(queue) + 1
         /\ queue # <<>> => Head(queue') = Head(queue)
         /\ LockInv' /\ FilesInv' /\ GateInv'
<1>1. queue \in Seq(Requests) /\ [why |-> why, finetune |-> f] \in Requests
  BY DEF TrainerInv, TypeOK, Requests
<1>2. queue' = Append(queue, [why |-> why, finetune |-> f])
  BY DEF Ask
<1>3. /\ queue' \in Seq(Requests) /\ queue' # <<>> /\ Len(queue') = Len(queue) + 1
      /\ queue # <<>> => Head(queue') = Head(queue)
  BY <1>1, <1>2
<1>4. LockInv'
  <2>1. disk.started \in Nat /\ MaxRuns \in Nat /\ Len(queue) \in Nat
    BY <1>1, TrainerAssumption DEF TrainerInv, TypeOK, DiskType, Versions
  <2> QED
    BY <1>3, <2>1 DEF TrainerInv, Ask, LockInv, Waiting, Running
<1>5. FilesInv' /\ GateInv'
  BY DEF TrainerInv, Ask, FilesInv, GateInv, BootGated
<1> QED
  BY <1>3, <1>4, <1>5

LEMMA TickInv ==
  ASSUME TrainerInv, NEW why \in {"threshold", "accuracy"}, Tick(why)
  PROVE  TrainerInv'
<1>1. /\ queue' \in Seq(Requests) /\ queue' # <<>>
      /\ queue # <<>> => Head(queue') = Head(queue)
      /\ LockInv' /\ FilesInv' /\ GateInv'
  BY AskKeeps DEF Tick
<1>2. worker' = [worker EXCEPT !.pendingId = curated] /\ curated \in Nat
  BY DEF Tick, TrainerInv, TypeOK
<1>3. TypeOK'
  BY <1>1, <1>2 DEF Tick, Ask, TrainerInv, TypeOK
<1>4. Running => Head(queue').why = "manual"
  BY <1>1 DEF Tick, TrainerInv, TypeOK, LockInv
<1>5. WatermarkInv'
  BY <1>1, <1>2, <1>4 DEF Tick, Ask, TrainerInv, TypeOK, WatermarkInv, Standing, Running
<1> QED
  BY <1>1, <1>3, <1>5 DEF TrainerInv

LEMMA ManualInv ==
  ASSUME TrainerInv, NEW f \in BOOLEAN, ManualRetrain(f)
  PROVE  TrainerInv'
<1>1. /\ queue' \in Seq(Requests) /\ queue' # <<>>
      /\ queue # <<>> => Head(queue') = Head(queue)
      /\ LockInv' /\ FilesInv' /\ GateInv'
  BY AskKeeps DEF ManualRetrain
<1>2. TypeOK'
  BY <1>1 DEF ManualRetrain, Ask, TrainerInv, TypeOK
<1>3. WatermarkInv'
  BY <1>1 DEF ManualRetrain, Ask, TrainerInv, WatermarkInv, LockInv, Standing, Running
<1> QED
  BY <1>1, <1>2, <1>3 DEF TrainerInv

-----------------------------------------------------------------------------
(* The holder of the lock and its successors *)

Runs == [pc : Phases, version : Versions, tuned : BOOLEAN, previous : Contents]

\* A run in a phase is a whole record, and the lock is held.
LEMMA RunType ==
  ASSUME TypeOK, LockInv, run.pc \in Phases
  PROVE  /\ Running /\ run \in Runs
         /\ queue \in Seq(Requests) /\ queue # <<>> /\ Head(queue) \in Requests
         /\ run.version \in Versions \ {0} /\ run.version = disk.started
<1>1. run \in Runs
  BY DEF TypeOK, Runs, NoRun, Phases
<1>2. Running
  BY DEF Running, NoRun, Phases
<1> QED
  BY <1>1, <1>2 DEF LockInv, TypeOK, Runs, Running

\* Moving to another phase changes nothing else of the run.
LEMMA GotoType ==
  ASSUME run \in Runs, NEW phase \in Phases, Goto(phase)
  PROVE  /\ run' \in Runs /\ Running' /\ run'.pc = phase
         /\ run'.version = run.version /\ run'.tuned = run.tuned
         /\ run'.previous = run.previous
  BY DEF Goto, Runs, Running, NoRun, Phases

\* Giving the lock up leaves as many runs waiting as before.
LEMMA LeaveType ==
  ASSUME TypeOK, LockInv, Running, Leave
  PROVE  /\ queue' \in Seq(Requests) /\ run' = NoRun /\ ~Running'
         /\ run'.pc = "none" /\ Waiting' = Waiting
<1>1. queue \in Seq(Requests) /\ queue # <<>> /\ Len(queue) \in Nat
  BY DEF TypeOK, LockInv
<1>2. queue' = Tail(queue) /\ run' = NoRun
  BY DEF Leave
<1>3. queue' \in Seq(Requests) /\ Len(queue') = Len(queue) - 1
  BY <1>1, <1>2
<1>4. run'.pc = "none"
  BY <1>2 DEF NoRun
<1>5. Waiting' = Waiting
  BY <1>1, <1>2, <1>3 DEF Running, Waiting
<1> QED
  BY <1>2, <1>3, <1>4, <1>5 DEF Running

LEMMA StartInv == ASSUME TrainerInv, Start PROVE TrainerInv'
<1> DEFINE v == disk.started + 1
<1>1. /\ queue \in Seq(Requests) /\ queue # <<>> /\ Len(queue) \in Nat \ {0}
      /\ run = NoRun /\ Waiting = Len(queue)
  BY DEF TrainerInv, TypeOK, Start, Waiting
<1>2. v \in Versions /\ disk.started \in Nat /\ curated \in Nat
  <2>1. disk.started \in 0 .. MaxRuns /\ curated \in Nat /\ MaxRuns \in Nat
    BY TrainerAssumption DEF TrainerInv, TypeOK, DiskType, Versions
  <2>2. disk.started + Len(queue) <= MaxRuns
    BY <1>1 DEF TrainerInv, LockInv
  <2> QED
    BY <1>1, <2>1, <2>2 DEF Versions
<1>3. /\ disk' \in DiskType
      /\ disk'.started = v
      /\ disk'.exported[v] = curated
      /\ \A w \in Versions : w # v => disk'.exported[w] = disk.exported[w]
      /\ disk'.files = disk.files /\ disk'.passed = disk.passed /\ disk'.boot = disk.boot
  BY <1>2 DEF Start, TrainerInv, TypeOK, DiskType
<1>4. /\ run' \in Runs /\ Running' /\ run'.pc \in {"tune", "train"} /\ run'.version = v
  BY <1>2 DEF Start, Runs, Running, NoRun, Phases, Contents
<1>5. TypeOK'
  BY <1>3, <1>4 DEF Start, TrainerInv, TypeOK, Runs
<1>6. LockInv'
  BY <1>1, <1>2, <1>3, <1>4, TrainerAssumption
     DEF Start, TrainerInv, LockInv, Waiting, Running
<1>7. FilesInv' /\ GateInv'
  BY <1>3, <1>4
     DEF Start, TrainerInv, FilesInv, GateInv, BootGated, Written, Accepted
<1>8. WatermarkInv'
  <2>1. v \notin db.promoted \union db.rolledBack
    BY <1>2 DEF TrainerInv, WatermarkInv
  <2>2. db.promoted \union db.rolledBack \subseteq Versions
    BY DEF TrainerInv, TypeOK
  <2>3. Standing' = Standing
    BY <1>1, <1>4, <2>1 DEF Start, Standing, Running
  <2>4. \A w \in Standing : disk'.exported[w] = disk.exported[w]
    BY <1>3, <2>1, <2>2 DEF Standing
  <2>5. \A id \in {worker.lastId, db.lastId} \ {0} :
          \E w \in Standing' : disk'.exported[w] >= id
    BY <2>3, <2>4 DEF TrainerInv, WatermarkInv
  <2>6. disk'.exported[v] >= worker.pendingId
    BY <1>3 DEF TrainerInv, WatermarkInv
  <2>7. db.promoted \union db.rolledBack \subseteq 1 .. v
    BY <1>2 DEF TrainerInv, WatermarkInv
  <2> QED
    BY <1>3, <1>4, <2>1, <2>5, <2>6, <2>7 DEF Start, TrainerInv, WatermarkInv
<1> QED
  BY <1>5, <1>6, <1>7, <1>8 DEF TrainerInv

\* Fine-tuning keeps the run in its place.
LEMMA TuneInv == ASSUME TrainerInv, Tune PROVE TrainerInv'
<1>1. run \in Runs /\ Running /\ run.version \in Versions
  BY RunType DEF Tune, TrainerInv, Phases
<1>2. run' \in Runs /\ Running' /\ run'.pc = "train" /\ run'.version = run.version
  BY <1>1 DEF Tune, Runs, Running, NoRun, Phases
<1>3. TypeOK'
  BY <1>2 DEF Tune, TrainerInv, TypeOK, Runs
<1>4. LockInv' /\ FilesInv' /\ GateInv'
  BY <1>1, <1>2 DEF Tune, TrainerInv, LockInv, Waiting, Running, FilesInv, GateInv,
     BootGated, Written, Accepted
<1>5. WatermarkInv'
  BY <1>1, <1>2 DEF Tune, TrainerInv, WatermarkInv, Standing
<1> QED
  BY <1>3, <1>4, <1>5 DEF TrainerInv

\* A run that leaves without a promotion leaves the invariant.
LEMMA LeaveKeeps ==
  ASSUME TrainerInv, Running, Leave, UNCHANGED <<curated, disk, db, worker>>
  PROVE  LockInv' /\ FilesInv' /\ GateInv' /\ WatermarkInv'
<1>1. /\ queue' \in Seq(Requests) /\ run' = NoRun /\ ~Running'
      /\ run'.pc = "none" /\ Waiting' = Waiting
  BY LeaveType DEF TrainerInv
<1>2. LockInv' /\ FilesInv' /\ GateInv'
  BY <1>1 DEF TrainerInv, LockInv, FilesInv, GateInv, BootGated, Written, Accepted
<1>3. Standing \subseteq Standing'
  BY <1>1 DEF Standing
<1>4. WatermarkInv'
  BY <1>1, <1>3 DEF TrainerInv, WatermarkInv
<1> QED
  BY <1>2, <1>4

LEMMA TrainInv == ASSUME TrainerInv, Train PROVE TrainerInv'
<1>1. run \in Runs /\ Running /\ run.version \in Versions \ {0} /\ run.pc = "train"
  BY RunType DEF Train, TrainerInv, Phases
<1>2. CASE Leave /\ UNCHANGED disk
  <2>1. queue' \in Seq(Requests) /\ run' = NoRun
    BY <1>1, <1>2, LeaveType DEF TrainerInv
  <2>2. TypeOK'
    BY <1>2, <2>1 DEF Train, TrainerInv, TypeOK
  <2> QED
    BY <1>1, <1>2, <2>2, LeaveKeeps DEF Train, TrainerInv
<1>3. CASE Goto("evaluate") /\ UNCHANGED queue
  <2> DEFINE embedding == IF run.tuned THEN run.version ELSE 0
  <2>1. /\ run' \in Runs /\ Running' /\ run'.pc = "evaluate"
        /\ run'.version = run.version
    BY <1>1, <1>3, GotoType DEF Phases
  <2>2. disk' = [disk EXCEPT !.files[run.version] = [onnx |-> embedding, heads |-> run.version],
                             !.trained[run.version] = embedding]
    BY <1>3, <2>1 DEF Train, Leave, Running
  <2>3. embedding \in Versions
    BY <1>1, TrainerAssumption DEF Versions
  <2>4. /\ disk' \in DiskType
        /\ disk'.files[run.version].heads = run.version
        /\ disk'.files[run.version].onnx \in Versions
        /\ disk'.exported = disk.exported /\ disk'.passed = disk.passed
        /\ disk'.boot = disk.boot /\ disk'.started = disk.started
    BY <1>1, <2>2, <2>3 DEF TrainerInv, TypeOK, DiskType, Models, Contents
  <2>5. TypeOK'
    BY <1>3, <2>1, <2>4 DEF Train, TrainerInv, TypeOK, Runs
  <2>6. LockInv' /\ FilesInv' /\ GateInv'
    BY <1>1, <1>3, <2>1, <2>4 DEF Train, TrainerInv, LockInv, Waiting, Running, FilesInv,
       GateInv, BootGated, Written, Accepted
  <2>7. WatermarkInv'
    BY <1>1, <1>3, <2>1, <2>4 DEF Train, TrainerInv, WatermarkInv, Standing
  <2> QED
    BY <2>5, <2>6, <2>7 DEF TrainerInv
<1> QED
  BY <1>2, <1>3 DEF Train

LEMMA EvaluateInv == ASSUME TrainerInv, Evaluate PROVE TrainerInv'
<1>1. run \in Runs /\ Running /\ run.version \in Versions \ {0} /\ run.pc = "evaluate"
  BY RunType DEF Evaluate, TrainerInv, Phases
<1>2. CASE Reject
  <2>1. Leave /\ UNCHANGED disk
    BY <1>2 DEF Reject
  <2>2. queue' \in Seq(Requests) /\ run' = NoRun
    BY <1>1, <2>1, LeaveType DEF TrainerInv
  <2>3. TypeOK'
    BY <2>1, <2>2 DEF Evaluate, TrainerInv, TypeOK
  <2> QED
    BY <1>1, <2>1, <2>3, LeaveKeeps DEF Evaluate, TrainerInv
<1>3. CASE /\ disk' = [disk EXCEPT !.passed = @ \union {run.version}]
           /\ Goto("swap") /\ UNCHANGED queue
  <2>1. /\ run' \in Runs /\ Running' /\ run'.pc = "swap" /\ run'.version = run.version
    BY <1>1, <1>3, GotoType DEF Phases
  <2>2. /\ disk' \in DiskType /\ disk'.passed = disk.passed \union {run.version}
        /\ disk'.files = disk.files /\ disk'.exported = disk.exported
        /\ disk'.boot = disk.boot /\ disk'.started = disk.started
    BY <1>1, <1>3 DEF TrainerInv, TypeOK, DiskType
  <2>3. TypeOK'
    BY <1>3, <2>1, <2>2 DEF Evaluate, TrainerInv, TypeOK, Runs
  <2>4. LockInv' /\ FilesInv' /\ GateInv'
    BY <1>1, <1>3, <2>1, <2>2 DEF Evaluate, TrainerInv, LockInv, Waiting, Running,
       FilesInv, GateInv, BootGated, Written
  <2>5. WatermarkInv'
    BY <1>1, <1>3, <2>1, <2>2 DEF Evaluate, TrainerInv, WatermarkInv, Standing
  <2> QED
    BY <2>3, <2>4, <2>5 DEF TrainerInv
<1> QED
  BY <1>2, <1>3 DEF Evaluate

-----------------------------------------------------------------------------
(* From the swap on *)

\* An accepted run that only moves on.
LEMMA AdvanceKeeps ==
  ASSUME TrainerInv, run.pc \in Accepted, NEW phase \in Accepted \ {"heads", "config", "card"},
         Goto(phase), UNCHANGED <<curated, disk, worker, queue>>,
         db'.promoted = db.promoted, db'.rolledBack = db.rolledBack, db'.lastId = db.lastId
  PROVE  /\ run' \in Runs
         /\ LockInv' /\ FilesInv' /\ GateInv' /\ WatermarkInv'
<1>1. run \in Runs /\ Running /\ run.version \in Versions \ {0}
  BY RunType DEF TrainerInv, Phases, Accepted, Written
<1>2. /\ run' \in Runs /\ Running' /\ run'.pc = phase /\ run'.version = run.version
  BY <1>1, GotoType DEF Phases, Accepted, Written
<1>3. LockInv' /\ FilesInv' /\ GateInv'
  BY <1>1, <1>2 DEF TrainerInv, LockInv, Waiting, Running, FilesInv, GateInv, BootGated,
     Written, Accepted
<1>4. Standing' = Standing
  BY <1>1, <1>2 DEF Standing
<1>5. WatermarkInv'
  BY <1>1, <1>2, <1>4 DEF TrainerInv, WatermarkInv
<1> QED
  BY <1>2, <1>3, <1>5

\* Copies, cut short or not, leave what was there and add what they read.
LEMMA InterruptedFiles ==
  ASSUME NEW have \in Models, NEW from \in Models,
         NEW files \in Interrupted(have, Filled(have, from))
  PROVE  /\ files \in Models
         /\ NoFile \notin {have.onnx, have.heads} => files = have
         /\ files.onnx \in {have.onnx, from.onnx, Torn}
         /\ files.heads \in {have.heads, from.heads, Torn}
<1> DEFINE full == Filled(have, from)
<1>1. /\ full \in Models
      /\ NoFile \notin {have.onnx, have.heads} => full = have
      /\ full.onnx \in {have.onnx, from.onnx} /\ full.heads \in {have.heads, from.heads}
  BY DEF Filled, Models
<1> HIDE DEF full
<1>2. CASE \E c \in CutShort(have.onnx) : files = [have EXCEPT !.onnx = c]
  BY <1>2 DEF CutShort, Models, Contents
<1>3. CASE \E c \in CutShort(have.heads) : files = [full EXCEPT !.heads = c]
  BY <1>1, <1>3 DEF CutShort, Models, Contents
<1>4. CASE files = full
  BY <1>1, <1>4
<1> QED
  BY <1>2, <1>3, <1>4 DEF Interrupted, full

\* What is kept of a version, all of it or what a stop left.
LEMMA SnapshotFiles ==
  ASSUME TypeOK, NEW previous \in Versions,
         NEW new \in {Snapshot(previous)} \union SnapshotLeft(previous)
  PROVE  LET have == disk.files[previous]
             from == At(router.path)
         IN  /\ have \in Models /\ from \in Models
             /\ Snapshot(previous) = [disk EXCEPT !.files[previous] = Filled(have, from)]
             /\ \E files \in Interrupted(have, Filled(have, from)) :
                  new = [disk EXCEPT !.files[previous] = files]
<1> DEFINE from == At(router.path)
           have == disk.files[previous]
           full == Filled(have, from)
<1>1. disk \in DiskType /\ router.path \in Versions \union {Boot}
  BY DEF TypeOK
<1>2. have \in Models /\ from \in Models
  BY <1>1, TrainerAssumption DEF At, DiskType, Versions
<1>3. Snapshot(previous) = [disk EXCEPT !.files[previous] = full]
  BY <1>1 DEF Snapshot, DiskType
<1>4. Snapshot(previous).files[previous] = full
  BY <1>1, <1>3 DEF DiskType
<1>5. full \in Interrupted(have, full)
  BY DEF Interrupted
<1>6. \E files \in Interrupted(have, full) : new = [disk EXCEPT !.files[previous] = files]
  <2>1. CASE new = Snapshot(previous)
    BY <1>3, <1>5, <2>1
  <2>2. CASE new \in SnapshotLeft(previous)
    <3> HIDE DEF have, full
    <3>1. SnapshotLeft(previous) =
            {[disk EXCEPT !.files[previous] = files] : files \in Interrupted(have, full)}
      BY <1>4 DEF SnapshotLeft, have
    <3> QED
      BY <2>2, <3>1
  <2> QED
    BY <2>1, <2>2
<1> QED
  BY <1>2, <1>3, <1>6

\* Keeping files touches nothing but the files kept, nor the candidate's, which
\* are there.
LEMMA SnapshotType ==
  ASSUME TrainerInv, run.pc = "swap",
         NEW new \in {Snapshot(router.model.heads)} \union SnapshotLeft(router.model.heads)
  PROVE  /\ new \in DiskType
         /\ new.files[run.version] = disk.files[run.version]
         /\ new.exported = disk.exported /\ new.passed = disk.passed
         /\ new.boot = disk.boot /\ new.started = disk.started
         /\ new.checksum = disk.checksum /\ new.trained = disk.trained
<1> DEFINE previous == router.model.heads
<1>1. disk \in DiskType /\ NoFile \notin Versions
  BY TrainerAssumption DEF TrainerInv, TypeOK, Versions
<1>2. run.version \in Versions /\ disk.files[run.version].heads = run.version
      /\ disk.files[run.version].onnx \in Versions
  BY RunType DEF TrainerInv, FilesInv, Written, Phases
<1>3. CASE previous \in Versions
  <2>1. PICK files \in Models :
          /\ new = [disk EXCEPT !.files[previous] = files]
          /\ NoFile \notin {disk.files[previous].onnx, disk.files[previous].heads}
               => files = disk.files[previous]
    BY <1>3, SnapshotFiles, InterruptedFiles DEF TrainerInv
  <2>2. previous = run.version => files = disk.files[previous]
    BY <1>1, <1>2, <2>1
  <2> QED
    BY <1>1, <1>2, <1>3, <2>1, <2>2 DEF DiskType
<1>4. CASE previous \notin Versions
  BY <1>1, <1>4 DEF Snapshot, SnapshotLeft
<1> QED
  BY <1>3, <1>4

LEMMA SwapInv == ASSUME TrainerInv, Swap PROVE TrainerInv'
<1>1. run \in Runs /\ Running /\ run.version \in Versions \ {0} /\ run.pc = "swap"
  BY RunType DEF Swap, TrainerInv, Phases
<1>2. /\ disk' \in DiskType
      /\ disk'.files[run.version] = disk.files[run.version]
      /\ disk'.exported = disk.exported /\ disk'.passed = disk.passed
      /\ disk'.boot = disk.boot /\ disk'.started = disk.started
      /\ disk'.checksum = disk.checksum
  BY <1>1, SnapshotType DEF Swap
<1>3. /\ UNCHANGED <<curated, db, worker, app>> /\ incidents' \in 0 .. MaxIncidents
      /\ router \in [model : Models, path : Versions \union {Boot}]
      /\ disk.files[run.version] \in Models
  <2>1. UNCHANGED <<curated, db, worker, app>>
    BY DEF Swap
  <2>2. incidents' = incidents \/ (incidents < MaxIncidents /\ incidents' = incidents + 1)
    BY DEF Swap, Incident
  <2>3. incidents \in 0 .. MaxIncidents /\ MaxIncidents \in Nat
    BY TrainerAssumption DEF TrainerInv, TypeOK
  <2>4. router \in [model : Models, path : Versions \union {Boot}]
    BY DEF TrainerInv, TypeOK
  <2>5. disk.files[run.version] \in Models
    BY <1>1 DEF TrainerInv, TypeOK, DiskType
  <2> QED
    BY <2>1, <2>2, <2>3, <2>4, <2>5
<1>4. CASE Leave /\ UNCHANGED router
  <2>1. /\ queue' \in Seq(Requests) /\ run' = NoRun /\ ~Running'
        /\ run'.pc = "none" /\ Waiting' = Waiting
    BY <1>1, <1>4, LeaveType DEF TrainerInv
  <2>2. TypeOK'
    BY <1>2, <1>3, <1>4, <2>1 DEF TrainerInv, TypeOK
  <2>3. LockInv' /\ FilesInv' /\ GateInv'
    BY <1>2, <1>3, <2>1 DEF TrainerInv, LockInv, FilesInv, GateInv, BootGated, Written, Accepted
  <2>4. Standing \subseteq Standing'
    BY <1>3, <2>1 DEF Standing
  <2>5. WatermarkInv'
    BY <1>2, <1>3, <2>1, <2>4 DEF TrainerInv, WatermarkInv
  <2> QED
    BY <2>2, <2>3, <2>5 DEF TrainerInv
<1>5. CASE /\ router' = [model |-> disk.files[run.version], path |-> run.version]
           /\ run' = [run EXCEPT !.pc = "onnx", !.previous = router.model.heads]
           /\ UNCHANGED queue
  <2>1. /\ run' \in Runs /\ Running' /\ run'.pc = "onnx" /\ run'.version = run.version
    BY <1>1, <1>3, <1>5 DEF Runs, Running, NoRun, Phases, Models
  <2>2. TypeOK'
    BY <1>1, <1>2, <1>3, <1>5, <2>1 DEF TrainerInv, TypeOK, Runs
  <2>3. LockInv' /\ FilesInv' /\ GateInv'
    BY <1>1, <1>2, <1>3, <1>5, <2>1 DEF TrainerInv, LockInv, Waiting, Running, FilesInv,
       GateInv, BootGated, Written, Accepted
  <2>4. Standing' = Standing
    BY <1>1, <1>3, <2>1 DEF Standing
  <2>5. WatermarkInv'
    BY <1>1, <1>2, <1>3, <1>5, <2>1, <2>4 DEF TrainerInv, WatermarkInv
  <2> QED
    BY <2>2, <2>3, <2>5 DEF TrainerInv
<1> QED
  BY <1>4, <1>5 DEF Swap

\* What a run that goes on within its phases keeps when only the boot files
\* and the checksum change on disk.
LEMMA PersistKeeps ==
  ASSUME TrainerInv, run.pc \in Accepted, NEW phase \in Accepted \ {"card"}, Goto(phase),
         UNCHANGED <<curated, db, worker, queue>>,
         disk' \in DiskType, disk'.files = disk.files, disk'.exported = disk.exported,
         disk'.passed = disk.passed, disk'.started = disk.started,
         disk'.boot.onnx \in Versions \union {Torn},
         disk'.boot.heads \in {disk.boot.heads, run.version, Torn},
         phase \in {"heads", "config"} => disk'.boot.onnx \in Versions
  PROVE  run' \in Runs /\ LockInv' /\ FilesInv' /\ GateInv' /\ WatermarkInv'
<1>1. run \in Runs /\ Running /\ run.version \in Versions \ {0}
  BY RunType DEF TrainerInv, Phases, Accepted, Written
<1>2. /\ run' \in Runs /\ Running' /\ run'.pc = phase /\ run'.version = run.version
  BY <1>1, GotoType DEF Phases, Accepted, Written
<1>3. LockInv'
  BY <1>1, <1>2 DEF TrainerInv, LockInv, Waiting, Running
<1>4. FilesInv'
  BY <1>1, <1>2 DEF TrainerInv, FilesInv, Accepted, Written
<1>5. GateInv'
  BY <1>1, <1>2 DEF TrainerInv, GateInv, BootGated, Accepted
<1>6. Standing' = Standing
  BY <1>1, <1>2 DEF Standing
<1>7. WatermarkInv'
  BY <1>1, <1>2, <1>6 DEF TrainerInv, WatermarkInv
<1> QED
  BY <1>2, <1>3, <1>4, <1>5, <1>7

LEMMA PersistInv == ASSUME TrainerInv, Persist PROVE TrainerInv'
<1>1. disk \in DiskType /\ disk.boot \in Models
  BY DEF TrainerInv, TypeOK, DiskType
<1>2. CASE Copy("onnx", "heads")
  <2>1. run \in Runs /\ run.version \in Versions /\ run.pc = "onnx"
    BY <1>2, RunType DEF Copy, TrainerInv, Phases
  <2>2. disk.files[run.version].onnx \in Versions
    BY <2>1 DEF TrainerInv, FilesInv, Written
  <2>3. PICK c \in {disk.files[run.version].onnx, disk.boot.onnx, Torn},
             phase \in {"heads", "register"} :
          /\ disk' = [disk EXCEPT !.boot["onnx"] = c]
          /\ Goto(phase)
          /\ phase = "heads" => c = disk.files[run.version].onnx
    BY <1>2 DEF Copy, Failed
  <2>4. c \in Versions \union {Torn}
    BY <2>2, <2>3 DEF TrainerInv, FilesInv
  <2>5. /\ disk' \in DiskType /\ disk'.files = disk.files
        /\ disk'.exported = disk.exported /\ disk'.passed = disk.passed
        /\ disk'.started = disk.started
        /\ disk'.boot.onnx = c /\ disk'.boot.heads = disk.boot.heads
    BY <1>1, <2>3, <2>4 DEF DiskType, Models, Contents
  <2>6. run' \in Runs /\ LockInv' /\ FilesInv' /\ GateInv' /\ WatermarkInv'
    BY <1>2, <2>1, <2>2, <2>3, <2>4, <2>5, PersistKeeps DEF Copy, Accepted, Written
  <2>7. TypeOK'
    BY <1>2, <2>5, <2>6, TrainerAssumption
       DEF Copy, Incident, TrainerInv, TypeOK, Runs
  <2> QED
    BY <2>6, <2>7 DEF TrainerInv
<1>3. CASE Copy("heads", "config")
  <2>1. run \in Runs /\ run.version \in Versions /\ run.pc = "heads"
    BY <1>3, RunType DEF Copy, TrainerInv, Phases
  <2>2. disk.files[run.version].heads = run.version /\ disk.boot.onnx \in Versions
    BY <2>1 DEF TrainerInv, FilesInv, Written
  <2>3. PICK c \in {run.version, disk.boot.heads, Torn},
             phase \in {"config", "register"} :
          disk' = [disk EXCEPT !.boot["heads"] = c] /\ Goto(phase)
    BY <1>3, <2>2 DEF Copy, Failed
  <2>4. c \in Versions \union {Torn}
    BY <2>1, <2>3 DEF TrainerInv, FilesInv
  <2>5. /\ disk' \in DiskType /\ disk'.files = disk.files
        /\ disk'.exported = disk.exported /\ disk'.passed = disk.passed
        /\ disk'.started = disk.started
        /\ disk'.boot.onnx = disk.boot.onnx /\ disk'.boot.heads = c
    BY <1>1, <2>3, <2>4 DEF DiskType, Models, Contents
  <2>6. run' \in Runs /\ LockInv' /\ FilesInv' /\ GateInv' /\ WatermarkInv'
    BY <1>3, <2>1, <2>2, <2>3, <2>4, <2>5, PersistKeeps DEF Copy, Accepted, Written
  <2>7. TypeOK'
    BY <1>3, <2>5, <2>6, TrainerAssumption
       DEF Copy, Incident, TrainerInv, TypeOK, Runs
  <2> QED
    BY <2>6, <2>7 DEF TrainerInv
<1>4. CASE WriteChecksum
  <2>1. run \in Runs /\ run.version \in Versions /\ run.pc = "config"
    BY <1>4, RunType DEF WriteChecksum, TrainerInv, Phases
  <2>2. disk.boot.onnx \in Versions
    BY <2>1 DEF TrainerInv, FilesInv
  <2>3. /\ disk' \in DiskType /\ disk'.files = disk.files
        /\ disk'.exported = disk.exported /\ disk'.passed = disk.passed
        /\ disk'.started = disk.started /\ disk'.boot = disk.boot
    BY <1>1, <1>4, <2>2 DEF WriteChecksum, DiskType
  <2>4. run' \in Runs /\ LockInv' /\ FilesInv' /\ GateInv' /\ WatermarkInv'
    BY <1>4, <2>1, <2>2, <2>3, PersistKeeps DEF WriteChecksum, Accepted, Written
  <2>5. TypeOK'
    BY <1>4, <2>3, <2>4, TrainerAssumption
       DEF WriteChecksum, Incident, TrainerInv, TypeOK, Runs
  <2> QED
    BY <2>4, <2>5 DEF TrainerInv
<1> QED
  BY <1>2, <1>3, <1>4 DEF Persist

LEMMA RaiseInv == ASSUME TrainerInv, Raise PROVE TrainerInv'
<1>1. run' \in Runs /\ LockInv' /\ FilesInv' /\ GateInv' /\ WatermarkInv'
  BY AdvanceKeeps DEF Raise, Accepted, Written
<1>2. TypeOK'
  BY <1>1, TrainerAssumption DEF Raise, Incident, TrainerInv, TypeOK, Runs
<1> QED
  BY <1>1, <1>2 DEF TrainerInv

\* Registering a version touches nothing but the active one.
LEMMA RegisteredType ==
  ASSUME TypeOK, NEW v \in Versions
  PROVE  /\ Registered(db, v) \in [active : Versions, promoted : SUBSET Versions,
                                   rolledBack : SUBSET Versions, lastId : Nat, missed : BOOLEAN]
         /\ Registered(db, v).promoted = db.promoted
         /\ Registered(db, v).rolledBack = db.rolledBack
         /\ Registered(db, v).lastId = db.lastId
  BY DEF TypeOK, Registered

LEMMA RegisterInv == ASSUME TrainerInv, Register PROVE TrainerInv'
<1>1. run.version \in Versions
  BY RunType DEF Register, TrainerInv, Phases
<1>2. /\ db' \in [active : Versions, promoted : SUBSET Versions,
                  rolledBack : SUBSET Versions, lastId : Nat, missed : BOOLEAN]
      /\ db'.promoted = db.promoted /\ db'.rolledBack = db.rolledBack
      /\ db'.lastId = db.lastId
  BY <1>1, RegisteredType DEF Register, TrainerInv
<1>3. run' \in Runs /\ LockInv' /\ FilesInv' /\ GateInv' /\ WatermarkInv'
  BY <1>2, AdvanceKeeps DEF Register, Accepted, Written
<1>4. TypeOK'
  BY <1>2, <1>3 DEF Register, TrainerInv, TypeOK, Runs
<1> QED
  BY <1>3, <1>4 DEF TrainerInv

LEMMA PromoteInv == ASSUME TrainerInv, Promote PROVE TrainerInv'
<1>1. /\ run \in Runs /\ Running /\ run.version \in Versions \ {0}
      /\ run.version = disk.started /\ run.pc = "promote"
  BY RunType DEF Promote, TrainerInv, Phases
<1>2. /\ run' \in Runs /\ Running' /\ run'.pc = "card" /\ run'.version = run.version
  BY <1>1, GotoType DEF Promote, Phases
<1>3. /\ db' \in [active : Versions, promoted : SUBSET Versions,
                  rolledBack : SUBSET Versions, lastId : Nat, missed : BOOLEAN]
      /\ db'.promoted = db.promoted \union {run.version}
      /\ db'.rolledBack = db.rolledBack /\ db'.lastId = db.lastId
  BY <1>1 DEF Promote, TrainerInv, TypeOK
<1>4. TypeOK'
  BY <1>2, <1>3 DEF Promote, TrainerInv, TypeOK, Runs
<1>5. LockInv' /\ FilesInv' /\ GateInv'
  BY <1>1, <1>2, <1>3 DEF Promote, TrainerInv, LockInv, Waiting, Running, FilesInv, GateInv,
     BootGated, Written, Accepted
<1>6. Standing' = Standing
  BY <1>1, <1>2, <1>3 DEF Standing
<1>7. db'.promoted \union db'.rolledBack \subseteq 1 .. disk.started
  BY <1>1, <1>3 DEF TrainerInv, WatermarkInv, Versions
<1>8. WatermarkInv'
  BY <1>1, <1>2, <1>3, <1>6, <1>7 DEF Promote, TrainerInv, WatermarkInv
<1> QED
  BY <1>4, <1>5, <1>8 DEF TrainerInv

\* The run that succeeds is the witness for the watermark it sets.
LEMMA SucceedInv == ASSUME TrainerInv, Succeed PROVE TrainerInv'
<1>1. /\ run \in Runs /\ Running /\ run.version \in Versions /\ run.pc = "card"
      /\ Head(queue) \in Requests
  BY RunType DEF Succeed, TrainerInv, Phases
<1>2. /\ queue' \in Seq(Requests) /\ run' = NoRun /\ ~Running'
      /\ run'.pc = "none" /\ Waiting' = Waiting
  BY <1>1, LeaveType DEF Succeed, TrainerInv
<1>3. UNCHANGED <<curated, disk, router, app>> /\ incidents' \in 0 .. MaxIncidents
  BY TrainerAssumption DEF Succeed, Incident, TrainerInv, TypeOK
<1>4. /\ worker' \in [lastId : Nat, pendingId : Nat]
      /\ db' \in [active : Versions, promoted : SUBSET Versions,
                  rolledBack : SUBSET Versions, lastId : Nat, missed : BOOLEAN]
      /\ db'.promoted = db.promoted /\ db'.rolledBack = db.rolledBack
      /\ worker'.pendingId = worker.pendingId
      /\ \/ worker'.lastId = worker.lastId /\ db'.lastId = db.lastId
         \/ /\ Head(queue).why = "threshold"
            /\ worker'.lastId = worker.pendingId
            /\ db'.lastId \in {worker.pendingId, db.lastId}
  BY DEF Succeed, Counted, TrainerInv, TypeOK
<1>5. TypeOK'
  BY <1>2, <1>3, <1>4 DEF TrainerInv, TypeOK
<1>6. LockInv' /\ FilesInv' /\ GateInv'
  BY <1>2, <1>3, <1>4 DEF TrainerInv, LockInv, FilesInv, GateInv, BootGated, Written, Accepted
<1>7. Standing \subseteq Standing' /\ run.version \in Standing'
  BY <1>1, <1>2, <1>4 DEF TrainerInv, WatermarkInv, Standing
<1>8. Head(queue).why = "threshold" => disk.exported[run.version] >= worker.pendingId
  BY <1>1 DEF TrainerInv, WatermarkInv
<1>9. \A id \in {worker'.lastId, db'.lastId} \ {0} :
        \E v \in Standing' : disk'.exported[v] >= id
  BY <1>3, <1>4, <1>7, <1>8 DEF TrainerInv, WatermarkInv
<1>10. WatermarkInv'
  BY <1>2, <1>3, <1>4, <1>9 DEF TrainerInv, WatermarkInv
<1> QED
  BY <1>5, <1>6, <1>10 DEF TrainerInv

\* What the registry's statements change of its rows.
Rows == [active : Versions, promoted : SUBSET Versions,
         rolledBack : SUBSET Versions, lastId : Nat, missed : BOOLEAN]

LEMMA RegisteredKeeps ==
  ASSUME NEW rows \in Rows, NEW v \in Versions
  PROVE  /\ Registered(rows, v) \in Rows
         /\ Registered(rows, v).active = v
         /\ Registered(rows, v).promoted = rows.promoted
         /\ Registered(rows, v).rolledBack = rows.rolledBack
         /\ Registered(rows, v).lastId = rows.lastId
  BY DEF Rows, Registered

LEMMA MarkedKeeps ==
  ASSUME NEW rows \in Rows
  PROVE  /\ Marked(rows) \in Rows
         /\ Marked(rows).active = rows.active
         /\ Marked(rows).missed = rows.missed
         /\ Marked(rows).promoted = rows.promoted
         /\ Marked(rows).rolledBack = rows.rolledBack \union (rows.promoted \intersect {run.version})
         /\ Marked(rows).lastId = rows.lastId
  BY DEF Rows, Marked

\* A rollback withdraws no version but that of the run it ends.
LEMMA RollbackInv == ASSUME TrainerInv, Rollback PROVE TrainerInv'
<1>1. /\ run \in Runs /\ Running /\ run.version \in Versions /\ run.pc = "rollback"
  BY RunType DEF Rollback, TrainerInv, Phases
<1>2. /\ queue' \in Seq(Requests) /\ run' = NoRun /\ ~Running'
      /\ run'.pc = "none" /\ Waiting' = Waiting
  BY <1>1, LeaveType DEF Rollback, TrainerInv
<1>3. UNCHANGED <<curated, disk, worker, app>>
  BY DEF Rollback
<1>4. /\ incidents' \in 0 .. MaxIncidents
      /\ \/ db' = Marked(db) \/ db' = db \/ db' = [db EXCEPT !.missed = TRUE]
         \/ /\ run.previous \in Versions
            /\ \/ db' = Marked(Registered(db, run.previous))
               \/ db' = Registered(db, run.previous)
  BY TrainerAssumption DEF Rollback, Revert, Incident, TrainerInv, TypeOK
<1>5. /\ db' \in [active : Versions, promoted : SUBSET Versions,
                  rolledBack : SUBSET Versions, lastId : Nat, missed : BOOLEAN]
      /\ db'.promoted = db.promoted /\ db'.lastId = db.lastId
      /\ db'.rolledBack \in {db.rolledBack, db.rolledBack \union (db.promoted \intersect {run.version})}
  <2>1. db \in Rows
    BY DEF TrainerInv, TypeOK, Rows
  <2>2. CASE db' = db \/ db' = [db EXCEPT !.missed = TRUE]
    BY <2>1, <2>2 DEF Rows
  <2>3. CASE db' = Marked(db)
    BY <2>1, <2>3, MarkedKeeps DEF Rows
  <2>4. CASE /\ run.previous \in Versions
             /\ \/ db' = Marked(Registered(db, run.previous))
                \/ db' = Registered(db, run.previous)
    <3>1. /\ Registered(db, run.previous) \in Rows
          /\ Registered(db, run.previous).promoted = db.promoted
          /\ Registered(db, run.previous).rolledBack = db.rolledBack
          /\ Registered(db, run.previous).lastId = db.lastId
      BY <2>1, <2>4, RegisteredKeeps
    <3> QED
      BY <2>4, <3>1, MarkedKeeps DEF Rows
  <2> QED
    BY <1>4, <2>2, <2>3, <2>4
<1>6. router' \in [model : Models, path : Versions \union {Boot}]
  BY DEF Rollback, Revert, LoadCheckpoint, TrainerInv, TypeOK, DiskType
<1>7. TypeOK'
  BY <1>2, <1>3, <1>4, <1>5, <1>6 DEF TrainerInv, TypeOK
<1>8. LockInv' /\ FilesInv' /\ GateInv'
  BY <1>2, <1>3, <1>5 DEF TrainerInv, LockInv, FilesInv, GateInv, BootGated, Written, Accepted
<1>9. Standing \subseteq Standing'
  BY <1>1, <1>2, <1>5 DEF Standing
<1>10. WatermarkInv'
  BY <1>1, <1>2, <1>3, <1>5, <1>9 DEF TrainerInv, WatermarkInv
<1> QED
  BY <1>7, <1>8, <1>10 DEF TrainerInv

\* A revert is refused while a run holds the lock, so the candidate of no run
\* is taken away from it.
LEMMA AdminRevertInv ==
  ASSUME TrainerInv, NEW v \in Offered, AdminRevert(v)
  PROVE  TrainerInv'
<1>1. v \in Versions
  BY DEF Offered, TrainerInv, TypeOK
<1>2. /\ db' \in [active : Versions, promoted : SUBSET Versions,
                  rolledBack : SUBSET Versions, lastId : Nat, missed : BOOLEAN]
      /\ db'.promoted = db.promoted /\ db'.rolledBack = db.rolledBack
      /\ db'.lastId = db.lastId
  BY <1>1 DEF AdminRevert, Revert, Registered, TrainerInv, TypeOK
<1>3. UNCHANGED <<curated, disk, worker, queue, run, app>>
  BY DEF AdminRevert
<1>4. router' \in [model : Models, path : Versions \union {Boot}]
  BY <1>1 DEF AdminRevert, Revert, LoadCheckpoint, TrainerInv, TypeOK, DiskType
<1>5. incidents' \in 0 .. MaxIncidents
  BY TrainerAssumption DEF AdminRevert, Revert, Incident, TrainerInv, TypeOK
<1>6. TypeOK'
  BY <1>2, <1>3, <1>4, <1>5 DEF TrainerInv, TypeOK
<1>7. LockInv' /\ FilesInv' /\ GateInv'
  BY <1>2, <1>3 DEF TrainerInv, LockInv, Waiting, Running, FilesInv, GateInv, BootGated
<1>8. WatermarkInv'
  BY <1>2, <1>3 DEF TrainerInv, WatermarkInv, Standing, Running
<1> QED
  BY <1>6, <1>7, <1>8 DEF TrainerInv

-----------------------------------------------------------------------------
(* Configuration, loads and restarts *)

\* What only changes the configuration in force or the model served keeps all
\* but its own type.
LEMMA ServingKeeps ==
  ASSUME TrainerInv, UNCHANGED <<curated, disk, db, worker, queue, run, incidents>>
  PROVE  LockInv' /\ FilesInv' /\ GateInv' /\ WatermarkInv'
<1>1. LockInv' /\ FilesInv' /\ GateInv'
  BY DEF TrainerInv, LockInv, Waiting, Running, FilesInv, GateInv, BootGated
<1>2. WatermarkInv'
  BY DEF TrainerInv, WatermarkInv, Standing, Running
<1> QED
  BY <1>1, <1>2

LEMMA EditConfigInv == ASSUME TrainerInv, EditConfig PROVE TrainerInv'
<1>1. TypeOK'
  BY DEF EditConfig, TrainerInv, TypeOK
<1> QED
  BY <1>1, ServingKeeps DEF EditConfig, TrainerInv

LEMMA PollInv == ASSUME TrainerInv, Poll PROVE TrainerInv'
<1>1. TypeOK'
  BY DEF Poll, TrainerInv, TypeOK, DiskType, Loading
<1> QED
  BY <1>1, ServingKeeps DEF Poll, TrainerInv

\* A load of boot files, whole or torn, is a model or the stub.
LEMMA BootModelType ==
  ASSUME NEW boot \in Models, NEW c
  PROVE  BootModel(boot, c) \in Models
  BY DEF BootModel, Stub, Absent, Models, Contents

\* What the loader reads of the boot files is content, whole or cut short.
LEMMA ReadableType ==
  ASSUME TrainerInv, NEW part \in {"onnx", "heads"}, NEW file \in Readable(part)
  PROVE  file \in Contents
  BY DEF Readable, Contents, TrainerInv, TypeOK, DiskType, Models

LEMMA LoadingInv ==
  ASSUME TrainerInv, LoadVerify \/ LoadOpen \/ LoadHeads PROVE TrainerInv'
<1> DEFINE App == [checksum : Versions, edited : BOOLEAN, loader : Loading, loaded : Models]
<1>1. app \in App
  BY DEF TrainerInv, TypeOK
<1>2. Refused \in App
  BY <1>1 DEF Refused, Stub, Absent, Models, Contents, Loading
<1>3. app' \in App
  <2>1. CASE LoadVerify
    BY <1>1, <1>2, <2>1 DEF LoadVerify, Loading
  <2>2. CASE LoadOpen
    <3>1. PICK file \in Readable("onnx") :
            app' = IF file = Torn THEN Refused
                   ELSE [app EXCEPT !.loader = "heads", !.loaded.onnx = file]
      BY <2>2 DEF LoadOpen
    <3>2. file \in Contents
      BY ReadableType
    <3> QED
      BY <1>1, <1>2, <3>1, <3>2 DEF Loading, Models
  <2>3. CASE LoadHeads
    <3>1. PICK file \in Readable("heads") :
            app' = IF file = Torn THEN Refused
                   ELSE [app EXCEPT !.loader = "read", !.loaded.heads = file]
      BY <2>3 DEF LoadHeads
    <3>2. file \in Contents
      BY ReadableType
    <3> QED
      BY <1>1, <1>2, <3>1, <3>2 DEF Loading, Models
  <2> QED
    BY <2>1, <2>2, <2>3
<1>4. TypeOK'
  BY <1>3 DEF LoadVerify, LoadOpen, LoadHeads, TrainerInv, TypeOK
<1> QED
  BY <1>4, ServingKeeps DEF LoadVerify, LoadOpen, LoadHeads, TrainerInv

LEMMA LoadSwapInv == ASSUME TrainerInv, LoadSwap PROVE TrainerInv'
<1>1. Absent \in Models /\ Stub \in Models
  BY DEF Stub, Absent, Models, Contents
<1>2. router' \in [model : Models, path : Versions \union {Boot}]
  BY <1>1 DEF LoadSwap, TrainerInv, TypeOK
<1>3. TypeOK'
  BY <1>1, <1>2 DEF LoadSwap, Loaded, Loading, TrainerInv, TypeOK
<1> QED
  BY <1>3, ServingKeeps DEF LoadSwap, TrainerInv

\* The stop may tear a file being copied, in the place of the boot files or of
\* the checkpoint kept.
LEMMA LeftType ==
  ASSUME TrainerInv, NEW left \in DiskLeft
  PROVE  /\ left \in DiskType
         /\ left.passed = disk.passed /\ left.exported = disk.exported
         /\ left.started = disk.started /\ left.checksum = disk.checksum
         /\ left.trained = disk.trained
         /\ left.boot.onnx \in {disk.boot.onnx, Torn}
         /\ left.boot.heads \in {disk.boot.heads, Torn}
<1>1. disk \in DiskType
  BY DEF TrainerInv, TypeOK
<1>2. CASE left = disk
  BY <1>1, <1>2
<1>3. CASE run.pc = "swap" /\ left \in SnapshotLeft(router.model.heads)
  BY <1>3, SnapshotType
<1>4. CASE \E part \in {"onnx", "heads"} : left = [disk EXCEPT !.boot[part] = Torn]
  <2>1. PICK part \in {"onnx", "heads"} : left = [disk EXCEPT !.boot[part] = Torn]
    BY <1>4
  <2> QED
    BY <1>1, <2>1 DEF DiskType, Models, Contents
<1> QED
  BY <1>2, <1>3, <1>4 DEF DiskLeft

\* The watermark in trainer_state and the promoted rows are the ones the process
\* left.
LEMMA RestartInv == ASSUME TrainerInv, Restart PROVE TrainerInv'
<1>1. PICK left \in DiskLeft :
        /\ disk' = left
        /\ router' = [model |-> BootModel(left.boot, disk.checksum), path |-> Boot]
        /\ db' = IF BootModel(left.boot, disk.checksum) = Stub THEN db
                 ELSE Registered(db, BootModel(left.boot, disk.checksum).heads)
  BY DEF Restart
<1> DEFINE boot == left.boot
<1>2. /\ left \in DiskType /\ left.passed = disk.passed
      /\ left.exported = disk.exported /\ left.started = disk.started
      /\ boot.onnx \in {disk.boot.onnx, Torn} /\ boot.heads \in {disk.boot.heads, Torn}
  BY LeftType
<1>3. /\ worker' = [lastId |-> db.lastId, pendingId |-> db.lastId]
      /\ queue' = <<>> /\ run' = NoRun /\ UNCHANGED curated
      /\ app' = [checksum |-> disk.checksum, edited |-> FALSE, loader |-> "idle",
                 loaded |-> Absent]
  BY DEF Restart
<1>4. /\ disk' \in DiskType /\ disk'.boot = boot /\ disk'.passed = disk.passed
      /\ disk'.exported = disk.exported /\ disk'.started = disk.started
      /\ boot \in Models
  BY <1>1, <1>2 DEF DiskType
<1>5. /\ db' \in [active : Versions, promoted : SUBSET Versions,
                  rolledBack : SUBSET Versions, lastId : Nat, missed : BOOLEAN]
      /\ db'.promoted = db.promoted /\ db'.rolledBack = db.rolledBack
      /\ db'.lastId = db.lastId
  <2>1. CASE BootModel(boot, disk.checksum) = Stub
    BY <1>1, <2>1 DEF TrainerInv, TypeOK
  <2>2. CASE BootModel(boot, disk.checksum) # Stub
    <3>1. BootModel(boot, disk.checksum) = boot /\ boot.heads # Torn
      BY <2>2 DEF BootModel
    <3>2. boot.heads \in Versions
      BY <1>2, <3>1 DEF TrainerInv, FilesInv
    <3> QED
      BY <1>1, <2>2, <3>1, <3>2, RegisteredType DEF TrainerInv
  <2> QED
    BY <2>1, <2>2
<1>6. incidents' \in 0 .. MaxIncidents
  BY TrainerAssumption DEF Restart, Incident, TrainerInv, TypeOK
<1>7. router' \in [model : Models, path : Versions \union {Boot}]
  BY <1>1, <1>4, BootModelType
<1>8. TypeOK'
  <2>1. app' \in [checksum : Versions, edited : BOOLEAN,
                  loader : Loading, loaded : Models]
    BY <1>3 DEF TrainerInv, TypeOK, DiskType, Absent, Models, Contents, Loading
  <2> QED
    BY <1>3, <1>4, <1>5, <1>6, <1>7, <2>1 DEF TrainerInv, TypeOK
<1>9. ~Running' /\ run'.pc = "none" /\ Waiting' = 0
  BY <1>3 DEF Running, NoRun, Waiting
<1>10. LockInv'
  <2>1. disk.started <= MaxRuns
    BY TrainerAssumption DEF TrainerInv, TypeOK, DiskType, Versions
  <2> QED
    BY <1>4, <1>9, <2>1, TrainerAssumption DEF LockInv, TrainerInv, TypeOK, DiskType, Versions
<1>11. FilesInv' /\ GateInv'
  BY <1>2, <1>4, <1>5, <1>9
     DEF TrainerInv, FilesInv, GateInv, BootGated, Written, Accepted
<1>12. Standing \subseteq Standing'
  BY <1>5, <1>9 DEF Standing
<1>13. WatermarkInv'
  BY <1>3, <1>4, <1>5, <1>9, <1>12 DEF TrainerInv, WatermarkInv
<1> QED
  BY <1>8, <1>10, <1>11, <1>13 DEF TrainerInv

-----------------------------------------------------------------------------
LEMMA StutterInv == ASSUME TrainerInv, UNCHANGED vars PROVE TrainerInv'
<1>1. TypeOK'
  BY DEF vars, TrainerInv, TypeOK
<1> QED
  BY <1>1, ServingKeeps DEF vars, TrainerInv

LEMMA StepInv == TrainerInv /\ [Next]_vars => TrainerInv'
<1> SUFFICES ASSUME TrainerInv, [Next]_vars PROVE TrainerInv'
  OBVIOUS
<1>1. CASE Curate
  BY <1>1, CurateInv
<1>2. CASE \E why \in {"threshold", "accuracy"} : Tick(why)
  BY <1>2, TickInv
<1>3. CASE \E f \in FineTunes : ManualRetrain(f)
  BY <1>3, ManualInv, TrainerAssumption
<1>4. CASE Start \/ Tune \/ Train \/ Evaluate \/ Swap
  BY <1>4, StartInv, TuneInv, TrainInv, EvaluateInv, SwapInv
<1>5. CASE Persist \/ Raise \/ Register \/ Promote \/ Succeed \/ Rollback
  BY <1>5, PersistInv, RaiseInv, RegisterInv, PromoteInv, SucceedInv, RollbackInv
<1>6. CASE \E v \in Offered : AdminRevert(v)
  BY <1>6, AdminRevertInv
<1>7. CASE EditConfig \/ Poll \/ LoadVerify \/ LoadOpen \/ LoadHeads \/ LoadSwap
  BY <1>7, EditConfigInv, PollInv, LoadingInv, LoadSwapInv
<1>8. CASE Restart
  BY <1>8, RestartInv
<1>9. CASE UNCHANGED vars
  BY <1>9, StutterInv
<1> QED
  BY <1>1, <1>2, <1>3, <1>4, <1>5, <1>6, <1>7, <1>8, <1>9 DEF Next

\* The strengthened invariant holds in every reachable state.
THEOREM Inductive == Spec => []TrainerInv
<1> QED
  BY InitInv, StepInv, PTL DEF Spec

\* Every variable keeps its type, whatever fails and whenever the process stops.
THEOREM TypeCorrect == Spec => []TypeOK
<1>1. TrainerInv => TypeOK
  BY DEF TrainerInv
<1> QED
  BY <1>1, Inductive, PTL

\* No sample is written off untrained (_train_and_evaluate's success branch and
\* _tick): whatever was curated or stopped meanwhile, the watermark in memory and
\* in trainer_state is covered by the export of one promoted run that stands.
THEOREM WatermarkSafe == Spec => []WatermarkTrained
<1>1. TrainerInv => WatermarkTrained
  BY DEF TrainerInv, WatermarkInv, WatermarkTrained, Standing
<1> QED
  BY <1>1, Inductive, PTL

\* Nothing reaches the boot files or a promoted row without having gone through
\* the evaluation gate, across torn copies, rollbacks, reverts and restarts.
THEOREM GateSafe == Spec => []BootGated
<1>1. TrainerInv => BootGated
  BY DEF TrainerInv, GateInv
<1> QED
  BY <1>1, Inductive, PTL

-----------------------------------------------------------------------------
(* What is served: the router, the boot files and the checkpoints *)

Swapped == {"onnx", "heads", "config", "register", "promote", "card", "rollback"}

\* A checkpoint has the heads of its own run, and a run that has not trained
\* has none.
OwnFiles ==
  /\ \A v \in Versions \ {0} :
       \/ disk.files[v] = Absent
       \/ disk.files[v].heads = v /\ disk.files[v].onnx \in Versions
  /\ {disk.files[0].onnx, disk.files[0].heads} \subseteq {0, NoFile, Torn}
  /\ \A v \in Versions : v > disk.started => disk.files[v] = Absent
  /\ run.pc \in {"tune", "train"} => disk.files[run.version] = Absent

\* No file, or not both.
Missing(v) == NoFile \in {disk.files[v].onnx, disk.files[v].heads}

\* Until the first swap keeps its files, the deployed model is all there is.
Untrained ==
  /\ router = [model |-> Deployed, path |-> Boot]
  /\ disk.boot = Deployed /\ disk.checksum = 0 /\ app.checksum = 0
  /\ app.loader \in {"heads", "read"} => app.loaded.onnx = 0
  /\ app.loader = "read" => app.loaded = Deployed
  /\ run.pc \notin Swapped /\ db.promoted = {}

\* Every trained version that is served, or may be by a load, has its checkpoint,
\* and so does the one that a run replaced.
Checkpointed ==
  /\ Missing(0) => Untrained
  /\ \A m \in {router.model, disk.boot, app.loaded} :
       m.heads \in Versions \ {0} => disk.files[m.heads].heads = m.heads
  /\ run.pc \in Swapped /\ run.previous \in Versions \ {0}
       => disk.files[run.previous].heads = run.previous

\* A router that serves a checkpoint serves the version of its path, which is
\* the registry's unless its run has not been registered or the registry has
\* missed a revert.
ActiveInv ==
  /\ run.pc \in Swapped => router.path \in {Boot, run.version}
  /\ run.pc \in {"promote", "card"} => db.active = run.version
  /\ run.pc \notin {"none", "card", "rollback"} => run.version \notin db.promoted
  /\ router.path # Boot /\ router.model # Stub =>
       /\ router.model.heads = router.path
       /\ \/ db.missed
          \/ router.path \in {db.active} \union ((1 .. disk.started) \ db.promoted)

ServedInv == OwnFiles /\ Checkpointed /\ ActiveInv

Together(m) == m.heads \in Versions => m.onnx = disk.trained[m.heads]

\* An embedding fine-tuned by the run in progress is not the configured one
\* before its checksum is written.
NewEmbedding ==
  /\ disk.checksum <= disk.started /\ app.checksum <= disk.started
  /\ disk.boot.onnx \in Versions => disk.boot.onnx <= disk.started
  /\ \A v \in Versions : disk.files[v].onnx \in Versions => disk.files[v].onnx <= disk.started
  /\ run.pc \in {"tune", "train", "evaluate", "swap", "onnx"}
       => run.version \notin {disk.checksum, app.checksum, disk.boot.onnx}
  /\ run.pc \in {"heads", "config"} => run.version \notin {disk.checksum, app.checksum}

\* Nothing failed so far: the boot files are one model and its checksum, but for
\* the copies of the run in progress.
BootTogether ==
  /\ run.pc \notin {"heads", "config"} => Together(disk.boot) /\ disk.checksum = disk.boot.onnx
  /\ run.pc \in {"heads", "config"} => disk.boot.onnx = disk.files[run.version].onnx
  /\ run.pc = "config" => disk.boot.heads = run.version
  /\ run.pc \in {"evaluate", "swap", "onnx", "heads", "config"} =>
       /\ app.checksum = disk.checksum
       /\ disk.files[run.version].onnx = IF run.tuned THEN run.version ELSE 0
       /\ disk.trained[run.version] = disk.files[run.version].onnx
  /\ run.pc \in {"onnx", "heads", "config"} /\ ~run.tuned
       => disk.checksum = 0 /\ disk.boot.onnx = 0 /\ Together(disk.boot)

\* A loader that has opened the embedding finds its heads, unless a fine-tuned
\* embedding is on its way, and what it serves then is loaded anew.
Opened ==
  /\ app.loader = "idle" => app.loaded = Absent
  /\ app.loader = "heads" => app.loaded.onnx = disk.boot.onnx \/ Outdated
  /\ app.loader = "read" => Together(app.loaded) \/ Outdated

PairInv ==
  incidents = 0 =>
    /\ BootTogether /\ disk.files[0] \in {Absent, Deployed}
    /\ Opened
    /\ Together(router.model) \/ Outdated \/ app.loader # "idle"
    /\ \A v \in Versions : Together(disk.files[v])

RouterInv == ServedInv /\ NewEmbedding /\ PairInv

-----------------------------------------------------------------------------
LEMMA InitRouter == Init => RouterInv
<1> SUFFICES ASSUME Init PROVE RouterInv
  OBVIOUS
<1>1. /\ 0 \in Versions /\ NoFile \notin Versions /\ Boot \notin Versions
      /\ \A v \in Versions : v \in Nat
  BY TrainerAssumption DEF Versions
<1>2. OwnFiles /\ NewEmbedding
  BY <1>1 DEF Init, OwnFiles, NewEmbedding, NoRun, Absent, Deployed
<1>3. Checkpointed
  BY <1>1 DEF Init, Checkpointed, Missing, Untrained, NoRun, Absent, Deployed, Swapped
<1>4. ActiveInv
  BY <1>1 DEF Init, ActiveInv, NoRun, Absent, Deployed, Swapped
<1>5. PairInv
  BY <1>1 DEF Init, PairInv, BootTogether, Opened, Outdated, Together, NoRun, Absent, Deployed
<1> QED
  BY <1>2, <1>3, <1>4, <1>5 DEF RouterInv, ServedInv

-----------------------------------------------------------------------------
\* Steps that leave the run, the files and what is served alone.
LEMMA AsideServed ==
  ASSUME RouterInv, UNCHANGED <<disk, db, router, run, incidents>>,
         app'.checksum = app.checksum, app'.loader = app.loader, app'.loaded = app.loaded
  PROVE  RouterInv'
<1>1. OwnFiles' /\ NewEmbedding'
  BY DEF RouterInv, ServedInv, OwnFiles, NewEmbedding
<1>2. Checkpointed'
  BY DEF RouterInv, ServedInv, Checkpointed, Missing, Untrained
<1>3. ActiveInv'
  BY DEF RouterInv, ServedInv, ActiveInv
<1>4. PairInv'
  BY DEF RouterInv, PairInv, BootTogether, Opened, Outdated, Together
<1> QED
  BY <1>1, <1>2, <1>3, <1>4 DEF RouterInv, ServedInv

\* A run that ends without touching files or router.
LEMMA LeaveServed ==
  ASSUME RouterInv, run.pc \notin {"heads", "config"}, run' = NoRun,
         UNCHANGED <<router, app>>,
         disk'.files = disk.files, disk'.trained = disk.trained,
         disk'.started = disk.started, disk'.boot = disk.boot,
         disk'.checksum = disk.checksum,
         db'.active = db.active, db'.promoted = db.promoted, db'.missed = db.missed,
         incidents' = 0 => incidents = 0
  PROVE  RouterInv'
<1>1. run'.pc = "none"
  BY DEF NoRun
<1>2. OwnFiles' /\ NewEmbedding'
  BY <1>1 DEF RouterInv, ServedInv, OwnFiles, NewEmbedding
<1>3. Checkpointed'
  BY <1>1 DEF RouterInv, ServedInv, Checkpointed, Missing, Untrained, Swapped
<1>4. ActiveInv'
  BY <1>1 DEF RouterInv, ServedInv, ActiveInv, Swapped
<1>5. PairInv'
  BY <1>1 DEF RouterInv, PairInv, BootTogether, Opened, Outdated, Together
<1> QED
  BY <1>2, <1>3, <1>4, <1>5 DEF RouterInv, ServedInv

LEMMA StartServed == ASSUME TrainerInv, RouterInv, Start PROVE RouterInv'
<1> DEFINE v == disk.started + 1
<1>1. v \in Versions /\ disk.started \in Nat
  <2>1. disk.started + Len(queue) <= MaxRuns /\ Len(queue) \in Nat \ {0}
    BY DEF TrainerInv, TypeOK, Start, Waiting, LockInv
  <2>2. disk.started \in 0 .. MaxRuns /\ MaxRuns \in Nat
    BY TrainerAssumption DEF TrainerInv, TypeOK, DiskType, Versions
  <2> QED
    BY <2>1, <2>2 DEF Versions
<1>2. /\ disk'.started = v /\ disk'.files = disk.files /\ disk'.trained = disk.trained
      /\ disk'.boot = disk.boot /\ disk'.checksum = disk.checksum
  BY DEF Start, TrainerInv, TypeOK, DiskType
<1>3. /\ run'.pc \in {"tune", "train"} /\ run'.version = v
      /\ run.pc = "none" /\ UNCHANGED <<db, router, app, incidents>>
  BY DEF Start, NoRun
<1>4. /\ disk.checksum \in Nat /\ app.checksum \in Nat
      /\ \A w \in Versions : w \in Nat
  BY TrainerAssumption DEF TrainerInv, TypeOK, DiskType, Versions
<1>5. OwnFiles'
  <2>1. \A w \in Versions : w > v => w > disk.started
    BY <1>1, <1>4
  <2>2. v > disk.started
    BY <1>1
  <2> QED
    BY <1>1, <1>2, <1>3, <2>1, <2>2 DEF RouterInv, ServedInv, OwnFiles
<1>6. NewEmbedding'
  <2>1. \A w \in Versions : w <= disk.started => w <= v /\ w # v
    BY <1>1, <1>4
  <2>2. disk.checksum \in Versions /\ app.checksum \in Versions
    BY DEF TrainerInv, TypeOK, DiskType
  <2>3. disk.boot.onnx # v
    BY <1>1, <1>4, <2>1 DEF RouterInv, NewEmbedding
  <2> HIDE DEF v
  <2> QED
    BY <1>2, <1>3, <2>1, <2>2, <2>3 DEF RouterInv, NewEmbedding
<1>7. Checkpointed'
  BY <1>2, <1>3 DEF RouterInv, ServedInv, Checkpointed, Missing, Untrained, Swapped
<1>8. ActiveInv'
  <2>1. db.promoted \subseteq 1 .. disk.started
    BY DEF TrainerInv, WatermarkInv
  <2>2. v \notin db.promoted /\ 1 .. disk.started \subseteq 1 .. v
    BY <1>1, <2>1
  <2> HIDE DEF v
  <2> QED
    BY <1>2, <1>3, <2>2 DEF RouterInv, ServedInv, ActiveInv, Swapped
<1>9. PairInv'
  BY <1>2, <1>3 DEF RouterInv, PairInv, BootTogether, Opened, Outdated, Together
<1> QED
  BY <1>5, <1>6, <1>7, <1>8, <1>9 DEF RouterInv, ServedInv

\* A run that moves on between two phases before its swap, or after its copies.
LEMMA MoveServed ==
  ASSUME TrainerInv, RouterInv, run.pc \in Phases,
         UNCHANGED <<db, router, app>>,
         run'.version = run.version, run'.previous = run.previous,
         disk'.files = disk.files, disk'.trained = disk.trained,
         disk'.started = disk.started, disk'.boot = disk.boot,
         disk'.checksum = disk.checksum,
         \/ run.pc = "tune" /\ run'.pc = "train" /\ incidents' = incidents
         \/ /\ run.pc = "evaluate" /\ run'.pc = "swap" /\ incidents' = incidents
            /\ run'.tuned = run.tuned
         \/ /\ run.pc \in {"register", "promote", "card"} /\ run'.pc = "rollback"
            /\ incidents' # 0
  PROVE  RouterInv'
<1>1. OwnFiles' /\ NewEmbedding'
  BY DEF RouterInv, ServedInv, OwnFiles, NewEmbedding
<1>2. Checkpointed'
  BY DEF RouterInv, ServedInv, Checkpointed, Missing, Untrained, Swapped
<1>3. ActiveInv'
  BY DEF RouterInv, ServedInv, ActiveInv, Swapped
<1>4. PairInv'
  BY DEF RouterInv, PairInv, BootTogether, Opened, Outdated, Together
<1> QED
  BY <1>1, <1>2, <1>3, <1>4 DEF RouterInv, ServedInv

LEMMA TuneServed == ASSUME TrainerInv, RouterInv, Tune PROVE RouterInv'
<1>1. run \in Runs /\ run.pc = "tune"
  BY RunType DEF Tune, TrainerInv, Phases
<1>2. /\ run'.pc = "train" /\ run'.version = run.version /\ run'.previous = run.previous
  BY <1>1 DEF Tune, Runs
<1> QED
  BY <1>1, <1>2, MoveServed DEF Tune, Phases

LEMMA EvaluateServed == ASSUME TrainerInv, RouterInv, Evaluate PROVE RouterInv'
<1>1. run \in Runs /\ Running /\ run.pc = "evaluate" /\ run.pc \in Phases
  BY RunType DEF Evaluate, TrainerInv, Phases
<1>2. CASE Reject
  BY <1>1, <1>2, LeaveServed DEF Evaluate, Reject, Leave
<1>3. CASE disk' = [disk EXCEPT !.passed = @ \union {run.version}] /\ Goto("swap")
  <2>1. /\ run'.pc = "swap" /\ run'.version = run.version
        /\ run'.previous = run.previous /\ run'.tuned = run.tuned
    BY <1>1, <1>3, GotoType DEF Phases
  <2>2. /\ disk'.files = disk.files /\ disk'.trained = disk.trained
        /\ disk'.started = disk.started /\ disk'.boot = disk.boot
        /\ disk'.checksum = disk.checksum
    BY <1>3 DEF TrainerInv, TypeOK, DiskType
  <2> QED
    BY <1>1, <2>1, <2>2, MoveServed DEF Evaluate
<1> QED
  BY <1>2, <1>3 DEF Evaluate

LEMMA RaiseServed == ASSUME TrainerInv, RouterInv, Raise PROVE RouterInv'
<1>1. run \in Runs /\ run.pc \in Phases
  BY RunType DEF Raise, TrainerInv, Phases
<1>2. /\ run'.pc = "rollback" /\ run'.version = run.version
      /\ run'.previous = run.previous
  BY <1>1, GotoType DEF Raise, Phases
<1>3. incidents' # 0
  BY DEF Raise, Incident, TrainerInv, TypeOK
<1> QED
  BY <1>1, <1>2, <1>3, MoveServed DEF Raise

LEMMA SucceedServed == ASSUME TrainerInv, RouterInv, Succeed PROVE RouterInv'
<1>1. incidents' = 0 => incidents = 0
  BY DEF Succeed, Incident, TrainerInv, TypeOK
<1>2. db'.active = db.active /\ db'.promoted = db.promoted /\ db'.missed = db.missed
  BY DEF Succeed, TrainerInv, TypeOK
<1> QED
  BY <1>1, <1>2, LeaveServed DEF Succeed, Leave

-----------------------------------------------------------------------------
\* Training writes files where there were none: nobody serves the version yet.
LEMMA TrainServed == ASSUME TrainerInv, RouterInv, Train PROVE RouterInv'
<1>1. run \in Runs /\ Running /\ run.pc = "train" /\ run.version \in Versions \ {0}
      /\ run.version = disk.started /\ run.pc \in Phases
  BY RunType DEF Train, TrainerInv, Phases
<1>2. CASE Leave /\ UNCHANGED disk
  BY <1>1, <1>2, LeaveServed DEF Train, Leave
<1>3. CASE Goto("evaluate") /\ UNCHANGED queue
  <2> DEFINE v == run.version
             embedding == IF run.tuned THEN v ELSE 0
  <2>1. /\ run'.pc = "evaluate" /\ run'.version = v
        /\ run'.previous = run.previous /\ run'.tuned = run.tuned
    BY <1>1, <1>3, GotoType DEF Phases
  <2>2. disk' = [disk EXCEPT !.files[v] = [onnx |-> embedding, heads |-> v],
                             !.trained[v] = embedding]
    BY <1>1, <1>3, <2>1 DEF Train, Leave, NoRun
  <2>3. v \in Versions \ {0} /\ v = disk.started /\ embedding \in {0, v}
    BY <1>1
  <2>4. /\ disk'.files[v] = [onnx |-> embedding, heads |-> v]
        /\ disk'.trained[v] = embedding
        /\ \A w \in Versions : w # v => /\ disk'.files[w] = disk.files[w]
                                        /\ disk'.trained[w] = disk.trained[w]
        /\ disk'.started = disk.started /\ disk'.boot = disk.boot
        /\ disk'.checksum = disk.checksum
    BY <2>2, <2>3 DEF TrainerInv, TypeOK, DiskType
  <2>5. /\ UNCHANGED <<db, router, app, incidents>>
        /\ app.checksum = disk.checksum
        /\ disk.files[v] = Absent
    BY <1>1 DEF Train, Changed, TrainerInv, TypeOK, RouterInv, ServedInv, OwnFiles
  <2>6. 0 \in Versions /\ NoFile \notin Versions /\ \A w \in Versions : w \in Nat
    BY TrainerAssumption DEF Versions
  <2>7. run.tuned \in BOOLEAN
    BY <1>1 DEF Runs
  <2>8. embedding = IF run.tuned THEN v ELSE 0
    OBVIOUS
  <2> HIDE DEF v, embedding
  <2>9. OwnFiles'
    BY <2>1, <2>3, <2>4, <2>6 DEF RouterInv, ServedInv, OwnFiles, v
  <2>10. \A m \in {router.model, disk.boot, app.loaded} : m.heads # v
    BY <2>3, <2>5, <2>6 DEF RouterInv, ServedInv, Checkpointed, Absent
  <2>11. Checkpointed'
    BY <1>1, <2>1, <2>3, <2>4, <2>5, <2>6
       DEF RouterInv, ServedInv, Checkpointed, Missing, Untrained, Swapped
  <2>12. ActiveInv'
    BY <1>1, <2>1, <2>4, <2>5 DEF RouterInv, ServedInv, ActiveInv, Swapped, v
  <2>13. NewEmbedding'
    BY <1>1, <2>1, <2>3, <2>4, <2>5, <2>6 DEF RouterInv, NewEmbedding, v
  <2>14. ASSUME incidents = 0 PROVE BootTogether'
    BY <1>1, <2>1, <2>3, <2>4, <2>5, <2>7, <2>8, <2>10, <2>14
       DEF RouterInv, PairInv, BootTogether, Opened, Outdated, Together, v
  <2>15. ASSUME incidents = 0, NEW w \in Versions PROVE Together(disk.files[w])'
    <3>1. CASE w = v
      BY <2>4, <3>1 DEF Together
    <3>2. CASE w # v
      <4>1. disk'.files[w] = disk.files[w] /\ disk'.trained[w] = disk.trained[w]
        BY <2>4, <3>2
      <4>2. disk.files[w].heads \in Versions => disk.files[w].heads = w
        BY <2>6, TrainerAssumption DEF RouterInv, ServedInv, OwnFiles, Absent, Versions
      <4> QED
        BY <2>15, <4>1, <4>2 DEF RouterInv, PairInv, Together
    <3> QED
      BY <3>1, <3>2
  <2>16. ASSUME incidents = 0 PROVE Together(router.model)' /\ Opened'
    <3>1. app.loader = "idle" /\ UNCHANGED <<router, app>>
      BY DEF Train
    <3>2. Together(router.model) /\ app.loaded = Absent
      BY <1>1, <2>5, <2>16, <3>1 DEF RouterInv, PairInv, Opened, Outdated
    <3>3. Together(router.model)'
      BY <2>4, <2>10, <3>1, <3>2 DEF Together
    <3> QED
      BY <3>1, <3>2, <3>3 DEF Opened
  <2>17. disk'.files[0] = disk.files[0]
    BY <2>3, <2>4, <2>6
  <2>18. PairInv'
    BY <2>5, <2>14, <2>15, <2>16, <2>17 DEF RouterInv, PairInv
  <2> QED
    BY <2>9, <2>11, <2>12, <2>13, <2>18 DEF RouterInv, ServedInv
<1> QED
  BY <1>2, <1>3 DEF Train

\* Keeping files changes those of the deployed model only, before the first
\* swap; when it is done the deployed model is there.
LEMMA SnapshotKeeps ==
  ASSUME TrainerInv, RouterInv, run.pc = "swap",
         NEW new \in {Snapshot(router.model.heads)} \union SnapshotLeft(router.model.heads)
  PROVE  /\ \A v \in Versions :
              \/ new.files[v] = disk.files[v]
              \/ v = 0 /\ Untrained
         /\ {new.files[0].onnx, new.files[0].heads} \subseteq {0, NoFile, Torn}
         /\ new = Snapshot(router.model.heads) =>
              /\ NoFile \notin {new.files[0].onnx, new.files[0].heads}
              /\ incidents = 0 => new.files[0] \in {Absent, Deployed}
<1> DEFINE previous == router.model.heads
           have == disk.files[previous]
           from == At(router.path)
<1>1. disk \in DiskType /\ 0 \in Versions /\ NoFile \notin Versions /\ Boot \notin Versions
  BY TrainerAssumption DEF TrainerInv, TypeOK, Versions
<1>2. {disk.files[0].onnx, disk.files[0].heads} \subseteq {0, NoFile, Torn}
  BY DEF RouterInv, ServedInv, OwnFiles
<1>3. CASE previous = 0
  <2>1. have \in Models /\ Snapshot(0) = [disk EXCEPT !.files[0] = Filled(have, from)]
    BY <1>1, <1>3, SnapshotFiles DEF TrainerInv
  <2>2. PICK files \in Models :
          /\ files \in Interrupted(have, Filled(have, from))
          /\ new = [disk EXCEPT !.files[0] = files]
          /\ NoFile \notin {have.onnx, have.heads} => files = have
          /\ files.onnx \in {have.onnx, from.onnx, Torn}
          /\ files.heads \in {have.heads, from.heads, Torn}
    BY <1>1, <1>3, SnapshotFiles, InterruptedFiles DEF TrainerInv
  <2>3. /\ new.files[0] = files
        /\ \A v \in Versions \ {0} : new.files[v] = disk.files[v]
    BY <1>1, <2>2 DEF DiskType
  <2>4. CASE Missing(0)
    <3>1. Untrained
      BY <2>4 DEF RouterInv, ServedInv, Checkpointed
    <3>2. from = Deployed
      BY <3>1 DEF Untrained, At
    <3>3. {files.onnx, files.heads} \subseteq {0, NoFile, Torn}
      BY <1>2, <1>3, <2>2, <3>2 DEF Deployed
    <3>4. ASSUME new = Snapshot(previous)
          PROVE  /\ NoFile \notin {new.files[0].onnx, new.files[0].heads}
                 /\ incidents = 0 => new.files[0] = Deployed
      <4>1. new.files[0] = Filled(have, Deployed)
        BY <1>1, <1>3, <2>1, <3>2, <3>4 DEF DiskType
      <4>2. NoFile # 0
        BY TrainerAssumption
      <4>3. incidents = 0 => have \in {Absent, Deployed}
        BY <1>3 DEF RouterInv, PairInv
      <4> QED
        BY <4>1, <4>2, <4>3 DEF Filled, Deployed, Absent
    <3> QED
      BY <2>3, <3>1, <3>3, <3>4
  <2>5. CASE ~Missing(0)
    <3>1. new.files[0] = disk.files[0]
      BY <1>3, <2>2, <2>3, <2>5 DEF Missing
    <3> QED
      BY <1>2, <2>3, <2>5, <3>1 DEF Missing, RouterInv, PairInv
  <2> QED
    BY <2>4, <2>5
<1>4. CASE previous # 0
  <2>1. ~Missing(0)
    BY <1>4 DEF RouterInv, ServedInv, Checkpointed, Untrained, Deployed
  <2>2. \A v \in Versions : new.files[v] = disk.files[v]
    <3>1. CASE previous \in Versions
      <4>1. disk.files[previous].heads = previous
        BY <1>4, <3>1 DEF RouterInv, ServedInv, Checkpointed
      <4>2. have # Absent
        BY <1>1, <3>1, <4>1 DEF Absent
      <4>3. NoFile \notin {have.onnx, have.heads}
        BY <1>1, <1>4, <3>1, <4>1, <4>2 DEF RouterInv, ServedInv, OwnFiles
      <4>4. new = [disk EXCEPT !.files[previous] = have]
        BY <3>1, <4>3, SnapshotFiles, InterruptedFiles DEF TrainerInv
      <4> QED
        BY <1>1, <4>4 DEF DiskType
    <3>2. CASE previous \notin Versions
      BY <3>2 DEF Snapshot, SnapshotLeft
    <3> QED
      BY <3>1, <3>2
  <2> QED
    BY <1>1, <1>2, <2>1, <2>2 DEF Missing, RouterInv, PairInv
<1> QED
  BY <1>3, <1>4

\* A run that stops at the swap, kept files and all: nothing else has changed.
LEMMA SwapStopped ==
  ASSUME TrainerInv, RouterInv, run.pc = "swap", run' = NoRun,
         disk' \in {Snapshot(router.model.heads)} \union SnapshotLeft(router.model.heads),
         UNCHANGED <<router, db, app>>,
         \/ incidents' # 0
         \/ disk' = Snapshot(router.model.heads) /\ incidents' = incidents
  PROVE  RouterInv'
<1>1. /\ disk'.trained = disk.trained /\ disk'.boot = disk.boot
      /\ disk'.started = disk.started /\ disk'.checksum = disk.checksum
  BY SnapshotType
<1>2. /\ \A v \in Versions : disk'.files[v] = disk.files[v] \/ (v = 0 /\ Untrained)
      /\ {disk'.files[0].onnx, disk'.files[0].heads} \subseteq {0, NoFile, Torn}
      /\ incidents' = 0 => disk'.files[0] \in {Absent, Deployed}
  BY SnapshotKeeps
<1>3. /\ 0 \in Versions /\ NoFile \notin Versions /\ Torn \notin Versions
      /\ \A v \in Versions : v \in Nat
      /\ run'.pc = "none" /\ disk.started \in Versions \ {0}
  BY RunType, TrainerAssumption DEF TrainerInv, Versions, NoRun, Phases
<1>4. OwnFiles'
  BY <1>1, <1>2, <1>3 DEF RouterInv, ServedInv, OwnFiles
<1>5. Checkpointed'
  BY <1>1, <1>2, <1>3
     DEF RouterInv, ServedInv, Checkpointed, Missing, Untrained, Swapped
<1>6. ActiveInv'
  BY <1>1, <1>3 DEF RouterInv, ServedInv, ActiveInv, Swapped
<1>7. NewEmbedding'
  <2>1. disk'.files[0].onnx \in Versions => disk'.files[0].onnx <= disk.started
    BY <1>2, <1>3
  <2> QED
    BY <1>1, <1>2, <1>3, <2>1 DEF RouterInv, NewEmbedding
<1>8. PairInv'
  <2> SUFFICES ASSUME incidents' = 0 PROVE PairInv'
    BY DEF PairInv
  <2>1. incidents = 0 /\ disk'.files[0] \in {Absent, Deployed}
    BY <1>2
  <2>2. Untrained => disk.trained[0] = 0
    BY <1>3, <2>1 DEF RouterInv, PairInv, BootTogether, Together, Untrained, Deployed
  <2>3. \A v \in Versions : Together(disk.files[v])'
    BY <1>1, <1>2, <1>3, <2>1, <2>2 DEF RouterInv, PairInv, Together, Deployed, Absent
  <2> QED
    BY <1>1, <1>3, <2>1, <2>3 DEF RouterInv, PairInv, BootTogether, Opened, Outdated, Together
<1> QED
  BY <1>4, <1>5, <1>6, <1>7, <1>8 DEF RouterInv, ServedInv

LEMMA SwapServed == ASSUME TrainerInv, RouterInv, Swap PROVE RouterInv'
<1>1. /\ run \in Runs /\ Running /\ run.version \in Versions \ {0} /\ run.pc = "swap"
      /\ run.version = disk.started
  BY RunType DEF Swap, TrainerInv, Phases
<1>2. UNCHANGED <<db, app>>
  BY DEF Swap
<1>3. CASE /\ disk' \in SnapshotLeft(router.model.heads)
           /\ Incident /\ Leave /\ UNCHANGED router
  <2>1. incidents' # 0 /\ run' = NoRun
    BY <1>3 DEF Incident, Leave, TrainerInv, TypeOK
  <2> QED
    BY <1>1, <1>2, <1>3, <2>1, SwapStopped
<1>4. CASE /\ disk' = Snapshot(router.model.heads)
           /\ Leave /\ UNCHANGED <<router, incidents>>
  BY <1>1, <1>2, <1>4, SwapStopped DEF Leave
<1>5. CASE /\ disk' = Snapshot(router.model.heads) /\ UNCHANGED incidents
           /\ run.tuned \/ disk.files[run.version].onnx = app.checksum
           /\ router' = [model |-> disk.files[run.version], path |-> run.version]
           /\ run' = [run EXCEPT !.pc = "onnx", !.previous = router.model.heads]
  <2>1. /\ disk'.files[run.version] = disk.files[run.version]
        /\ disk'.trained = disk.trained /\ disk'.boot = disk.boot
        /\ disk'.started = disk.started /\ disk'.checksum = disk.checksum
    BY <1>1, <1>5, SnapshotType
  <2>2. /\ \A v \in Versions : disk'.files[v] = disk.files[v] \/ (v = 0 /\ Untrained)
        /\ {disk'.files[0].onnx, disk'.files[0].heads} \subseteq {0, NoFile, Torn}
        /\ NoFile \notin {disk'.files[0].onnx, disk'.files[0].heads}
        /\ incidents = 0 => disk'.files[0] \in {Absent, Deployed}
    BY <1>1, <1>5, SnapshotKeeps
  <2>3. /\ disk.files[run.version].heads = run.version
        /\ run.version \notin db.promoted
        /\ run.version \in 1 .. disk.started
    <3>1. run.version \in 1 .. disk.started
      BY <1>1, TrainerAssumption DEF Versions
    <3> QED
      BY <1>1, <3>1 DEF TrainerInv, FilesInv, Written, RouterInv, ServedInv, ActiveInv
  <2>4. /\ 0 \in Versions /\ NoFile \notin Versions /\ Torn \notin Versions
        /\ Boot \notin Versions /\ \A v \in Versions : v \in Nat
    BY TrainerAssumption DEF Versions
  <2>5. /\ run'.pc = "onnx" /\ run'.version = run.version
        /\ run'.previous = router.model.heads /\ run'.tuned = run.tuned
    BY <1>1, <1>5 DEF Runs
  <2>6. OwnFiles'
    BY <1>1, <2>1, <2>2, <2>4, <2>5 DEF RouterInv, ServedInv, OwnFiles
  <2>7. Checkpointed'
    <3>1. ~Missing(0)'
      BY <2>2 DEF Missing
    <3>2. \A m \in {router.model, disk.boot, app.loaded, disk.files[run.version]} :
            m.heads \in Versions \ {0} => disk'.files[m.heads].heads = m.heads
      BY <2>2, <2>3 DEF RouterInv, ServedInv, Checkpointed
    <3> QED
      BY <1>2, <1>5, <2>1, <2>5, <3>1, <3>2 DEF Checkpointed
  <2>8. ActiveInv'
    BY <1>1, <1>2, <1>5, <2>1, <2>3, <2>5 DEF RouterInv, ServedInv, ActiveInv, Swapped
  <2>9. NewEmbedding'
    <3>1. disk'.files[0].onnx \in Versions => disk'.files[0].onnx <= disk.started
      BY <1>1, <2>2, <2>4
    <3> QED
      BY <1>1, <1>2, <2>1, <2>2, <2>4, <2>5, <3>1 DEF RouterInv, NewEmbedding
  <2>10. ASSUME incidents = 0 PROVE PairInv'
    <3>1. \A v \in Versions : Together(disk.files[v])
      BY <2>10 DEF RouterInv, PairInv
    <3>2. Untrained => disk.trained[0] = 0
      BY <1>1, <2>4, <2>10 DEF RouterInv, PairInv, BootTogether, Together, Untrained, Deployed
    <3>3. \A v \in Versions : Together(disk.files[v])'
      BY <2>1, <2>2, <2>4, <2>10, <3>1, <3>2 DEF Together, Deployed, Absent
    <3>4. Together(router.model)'
      BY <1>1, <1>5, <2>1, <3>1 DEF Together
    <3>5. Opened'
      <4>1. Opened
        BY <2>10 DEF RouterInv, PairInv
      <4> QED
        BY <1>1, <1>2, <2>1, <2>5, <4>1 DEF Opened, Outdated, Together
    <3>6. BootTogether'
      <4>1. BootTogether
        BY <2>10 DEF RouterInv, PairInv
      <4> QED
        BY <1>1, <1>2, <1>5, <2>1, <2>5, <4>1 DEF BootTogether, Together
    <3> QED
      BY <2>2, <2>10, <3>3, <3>4, <3>5, <3>6 DEF PairInv
  <2>11. incidents # 0 => PairInv'
    BY <1>5 DEF PairInv
  <2> QED
    BY <2>6, <2>7, <2>8, <2>9, <2>10, <2>11 DEF RouterInv, ServedInv
<1> QED
  BY <1>3, <1>4, <1>5 DEF Swap

-----------------------------------------------------------------------------
(* The boot files *)

\* While a run persists, only the boot files and the checksum change, and a
\* failure is an incident.
LEMMA PersistServed ==
  ASSUME TrainerInv, RouterInv, run.pc \in {"onnx", "heads", "config"}, run \in Runs,
         run' \in Runs, run'.version = run.version, run'.previous = run.previous,
         run'.tuned = run.tuned, run'.pc \in {"heads", "config", "register"},
         UNCHANGED <<db, router, app>>,
         disk'.files = disk.files, disk'.trained = disk.trained,
         disk'.started = disk.started,
         disk'.boot.heads \in {disk.boot.heads, disk.files[run.version].heads, Torn},
         disk'.boot.onnx \in {disk.boot.onnx, disk.files[run.version].onnx, Torn},
         disk'.checksum \in {disk.checksum, disk.boot.onnx} \intersect Versions,
         run'.pc \in {"heads", "config"} => disk'.checksum = disk.checksum,
         incidents' = incidents /\ BootTogether
           => BootTogether' /\ (Outdated \/ disk'.boot.onnx # disk.boot.onnx => Outdated'),
         incidents' # incidents => incidents' # 0
  PROVE  RouterInv'
<1>1. /\ run.version \in Versions \ {0} /\ disk.files[run.version].heads = run.version
      /\ run.version = disk.started
  BY RunType DEF TrainerInv, FilesInv, Written, Phases
<1>2. Torn \notin Versions /\ disk.boot.onnx \in Versions \union {Torn}
  BY TrainerAssumption DEF TrainerInv, FilesInv, Versions
<1>3. OwnFiles'
  BY DEF RouterInv, ServedInv, OwnFiles
<1>4. Checkpointed'
  BY <1>1, <1>2 DEF RouterInv, ServedInv, Checkpointed, Missing, Untrained, Swapped
<1>5. ActiveInv'
  BY DEF RouterInv, ServedInv, ActiveInv, Swapped
<1>6. NewEmbedding'
  BY <1>1, <1>2 DEF RouterInv, NewEmbedding
<1>7. ASSUME incidents' = 0 PROVE PairInv'
  <2>1. /\ BootTogether /\ Opened /\ incidents' = incidents
        /\ Together(router.model) \/ Outdated \/ app.loader # "idle"
    BY <1>7 DEF RouterInv, PairInv
  <2>2. BootTogether' /\ (Outdated \/ disk'.boot.onnx # disk.boot.onnx => Outdated')
    BY <2>1
  <2>3. Opened'
    BY <2>1, <2>2 DEF Opened, Together
  <2>4. (Together(router.model) \/ Outdated \/ app.loader # "idle")'
    BY <2>1, <2>2 DEF Together
  <2>5. \A v \in Versions : Together(disk.files[v])'
    BY <1>7, <2>1 DEF RouterInv, PairInv, Together
  <2> QED
    BY <1>7, <2>1, <2>2, <2>3, <2>4, <2>5 DEF RouterInv, PairInv
<1>8. PairInv'
  BY <1>7 DEF PairInv
<1> QED
  BY <1>3, <1>4, <1>5, <1>6, <1>8 DEF RouterInv, ServedInv

LEMMA CopyOnnxServed ==
  ASSUME TrainerInv, RouterInv, Copy("onnx", "heads")
  PROVE  RouterInv'
<1>1. /\ run \in Runs /\ run.version \in Versions /\ run.pc = "onnx"
      /\ disk.files[run.version].onnx \in Versions
  BY RunType DEF Copy, TrainerInv, FilesInv, Written, Phases
<1>2. PICK c \in {disk.files[run.version].onnx, disk.boot.onnx, Torn},
           phase \in {"heads", "register"} :
        /\ disk' = [disk EXCEPT !.boot["onnx"] = c]
        /\ Goto(phase)
        /\ \/ phase = "heads" /\ c = disk.files[run.version].onnx /\ incidents' = incidents
           \/ phase = "register" /\ incidents' = incidents + 1
  BY DEF Copy, Failed, Incident
<1>3. /\ run' \in Runs /\ run'.pc = phase /\ run'.version = run.version
      /\ run'.previous = run.previous /\ run'.tuned = run.tuned
  BY <1>1, <1>2, GotoType DEF Phases
<1>4. /\ disk'.files = disk.files /\ disk'.trained = disk.trained
      /\ disk'.started = disk.started /\ disk'.checksum = disk.checksum
      /\ disk'.boot.onnx = c /\ disk'.boot.heads = disk.boot.heads
      /\ disk.checksum \in Versions
  BY <1>2 DEF TrainerInv, TypeOK, DiskType, Models
<1>5. UNCHANGED <<db, router, app>> /\ incidents \in Nat
  BY DEF Copy, TrainerInv, TypeOK
<1>6. ASSUME incidents' = incidents, BootTogether
      PROVE  BootTogether' /\ (Outdated \/ disk'.boot.onnx # disk.boot.onnx => Outdated')
  <2>1. phase = "heads" /\ c = disk.files[run.version].onnx
    BY <1>2, <1>5, <1>6
  <2>2. BootTogether'
    BY <1>1, <1>3, <1>4, <1>5, <1>6, <2>1 DEF BootTogether, Together
  <2>3. Outdated \/ disk'.boot.onnx # disk.boot.onnx => Outdated'
    BY <1>1, <1>3, <1>4, <1>5, <1>6, <2>1 DEF BootTogether, Outdated
  <2> QED
    BY <2>2, <2>3
<1> QED
  BY <1>1, <1>2, <1>3, <1>4, <1>5, <1>6, PersistServed

LEMMA CopyHeadsServed ==
  ASSUME TrainerInv, RouterInv, Copy("heads", "config")
  PROVE  RouterInv'
<1>1. /\ run \in Runs /\ run.version \in Versions /\ run.pc = "heads"
      /\ disk.files[run.version].heads = run.version
  BY RunType DEF Copy, TrainerInv, FilesInv, Written, Phases
<1>2. PICK c \in {run.version, disk.boot.heads, Torn}, phase \in {"config", "register"} :
        /\ disk' = [disk EXCEPT !.boot["heads"] = c]
        /\ Goto(phase)
        /\ \/ phase = "config" /\ c = run.version /\ incidents' = incidents
           \/ phase = "register" /\ incidents' = incidents + 1
  BY <1>1 DEF Copy, Failed, Incident
<1>3. /\ run' \in Runs /\ run'.pc = phase /\ run'.version = run.version
      /\ run'.previous = run.previous /\ run'.tuned = run.tuned
  BY <1>1, <1>2, GotoType DEF Phases
<1>4. /\ disk'.files = disk.files /\ disk'.trained = disk.trained
      /\ disk'.started = disk.started /\ disk'.checksum = disk.checksum
      /\ disk'.boot.onnx = disk.boot.onnx /\ disk'.boot.heads = c
      /\ disk.checksum \in Versions
  BY <1>2 DEF TrainerInv, TypeOK, DiskType, Models
<1>5. UNCHANGED <<db, router, app>> /\ incidents \in Nat
  BY DEF Copy, TrainerInv, TypeOK
<1>6. ASSUME incidents' = incidents, BootTogether
      PROVE  BootTogether' /\ (Outdated \/ disk'.boot.onnx # disk.boot.onnx => Outdated')
  <2>1. phase = "config" /\ c = run.version
    BY <1>2, <1>5, <1>6
  <2>2. BootTogether'
    BY <1>1, <1>3, <1>4, <1>5, <1>6, <2>1 DEF BootTogether, Together
  <2>3. Outdated \/ disk'.boot.onnx # disk.boot.onnx => Outdated'
    BY <1>1, <1>3, <1>4, <1>5, <1>6, <2>1 DEF BootTogether, Outdated
  <2> QED
    BY <2>2, <2>3
<1> QED
  BY <1>1, <1>2, <1>3, <1>4, <1>5, <1>6, PersistServed

LEMMA WriteChecksumServed ==
  ASSUME TrainerInv, RouterInv, WriteChecksum
  PROVE  RouterInv'
<1>1. /\ run \in Runs /\ run.version \in Versions /\ run.pc = "config"
      /\ disk.boot.onnx \in Versions /\ disk.files[run.version].heads = run.version
  BY RunType DEF WriteChecksum, TrainerInv, FilesInv, Written, Phases
<1>2. /\ run' \in Runs /\ run'.pc = "register" /\ run'.version = run.version
      /\ run'.previous = run.previous /\ run'.tuned = run.tuned
  BY <1>1, GotoType DEF WriteChecksum, Phases
<1>3. /\ disk'.files = disk.files /\ disk'.trained = disk.trained
      /\ disk'.started = disk.started /\ disk'.boot = disk.boot
      /\ \/ disk'.checksum = disk.boot.onnx /\ incidents' = incidents
         \/ disk'.checksum = disk.checksum /\ incidents' = incidents + 1
      /\ disk.checksum \in Versions
  BY DEF WriteChecksum, Incident, TrainerInv, TypeOK, DiskType
<1>4. UNCHANGED <<db, router, app>> /\ incidents \in Nat
  BY DEF WriteChecksum, TrainerInv, TypeOK
<1>5. ASSUME incidents' = incidents, BootTogether
      PROVE  BootTogether' /\ (Outdated \/ disk'.boot.onnx # disk.boot.onnx => Outdated')
  <2>1. disk'.checksum = disk.boot.onnx
    BY <1>3, <1>4, <1>5
  <2>2. BootTogether'
    BY <1>1, <1>2, <1>3, <1>4, <1>5, <2>1 DEF BootTogether, Together
  <2>3. Outdated => Outdated'
    BY <1>1, <1>2, <1>3, <1>4, <1>5, <2>1 DEF BootTogether, Outdated, RouterInv, NewEmbedding
  <2> QED
    BY <1>3, <2>2, <2>3
<1> QED
  BY <1>1, <1>2, <1>3, <1>4, <1>5, PersistServed

-----------------------------------------------------------------------------
(* The registry and the way back *)

LEMMA RegisterServed == ASSUME TrainerInv, RouterInv, Register PROVE RouterInv'
<1>1. run \in Runs /\ run.version \in Versions /\ run.pc = "register"
  BY RunType DEF Register, TrainerInv, Phases
<1>2. /\ run'.pc = "promote" /\ run'.version = run.version
      /\ run'.previous = run.previous /\ run'.tuned = run.tuned
  BY <1>1, GotoType DEF Register, Phases
<1>3. /\ db'.active = run.version /\ db'.promoted = db.promoted
      /\ UNCHANGED <<disk, router, app, incidents>>
  BY DEF Register, Registered, TrainerInv, TypeOK
<1>4. OwnFiles' /\ NewEmbedding'
  BY <1>1, <1>2, <1>3 DEF RouterInv, ServedInv, OwnFiles, NewEmbedding
<1>5. Checkpointed'
  BY <1>1, <1>2, <1>3 DEF RouterInv, ServedInv, Checkpointed, Missing, Untrained, Swapped
<1>6. ActiveInv'
  BY <1>1, <1>2, <1>3 DEF RouterInv, ServedInv, ActiveInv, Swapped
<1>7. PairInv'
  BY <1>1, <1>2, <1>3 DEF RouterInv, PairInv, BootTogether, Opened, Outdated, Together
<1> QED
  BY <1>4, <1>5, <1>6, <1>7 DEF RouterInv, ServedInv

LEMMA PromoteServed == ASSUME TrainerInv, RouterInv, Promote PROVE RouterInv'
<1>1. run \in Runs /\ run.version \in Versions /\ run.pc = "promote"
  BY RunType DEF Promote, TrainerInv, Phases
<1>2. /\ run'.pc = "card" /\ run'.version = run.version
      /\ run'.previous = run.previous /\ run'.tuned = run.tuned
  BY <1>1, GotoType DEF Promote, Phases
<1>3. /\ db'.active = db.active /\ db'.promoted = db.promoted \union {run.version}
      /\ UNCHANGED <<disk, router, app, incidents>>
  BY DEF Promote, TrainerInv, TypeOK
<1>4. OwnFiles' /\ NewEmbedding'
  BY <1>1, <1>2, <1>3 DEF RouterInv, ServedInv, OwnFiles, NewEmbedding
<1>5. Checkpointed'
  BY <1>1, <1>2, <1>3 DEF RouterInv, ServedInv, Checkpointed, Missing, Untrained, Swapped
<1>6. ActiveInv'
  BY <1>1, <1>2, <1>3 DEF RouterInv, ServedInv, ActiveInv, Swapped
<1>7. PairInv'
  BY <1>1, <1>2, <1>3 DEF RouterInv, PairInv, BootTogether, Opened, Outdated, Together
<1> QED
  BY <1>4, <1>5, <1>6, <1>7 DEF RouterInv, ServedInv

\* A checkpoint loaded in the place of what was served, between two runs.
LEMMA LoadedServed ==
  ASSUME TrainerInv, RouterInv, NEW v \in Versions, Revertible(v), LoadCheckpoint(v),
         ~Missing(0), run.pc \notin {"heads", "config"}, run'.pc = "none",
         UNCHANGED <<disk, app>>, incidents' = 0 => incidents = 0,
         db'.active = v \/ db'.missed = TRUE, db'.promoted = db.promoted
  PROVE  RouterInv'
<1>1. router' = [model |-> disk.files[v], path |-> v] /\ disk.files[v].heads = v
  BY DEF Revertible, LoadCheckpoint
<1>2. OwnFiles' /\ NewEmbedding'
  BY DEF RouterInv, ServedInv, OwnFiles, NewEmbedding
<1>3. Checkpointed'
  BY <1>1 DEF RouterInv, ServedInv, Checkpointed, Missing, Swapped
<1>4. ActiveInv'
  BY <1>1 DEF RouterInv, ServedInv, ActiveInv, Swapped
<1>5. PairInv'
  BY <1>1 DEF RouterInv, PairInv, BootTogether, Opened, Outdated, Together
<1> QED
  BY <1>2, <1>3, <1>4, <1>5 DEF RouterInv, ServedInv

\* The version a run replaced can be given back, unless a copy was cut short.
LEMMA PreviousThere ==
  ASSUME TrainerInv, RouterInv, run.pc = "rollback", run.previous \in Versions,
         Whole(disk.files[run.previous])
  PROVE  Revertible(run.previous)
<1>1. 0 \in Versions /\ NoFile \notin Versions
  BY TrainerAssumption DEF Versions
<1>2. CASE run.previous = 0
  BY <1>1, <1>2 DEF RouterInv, ServedInv, OwnFiles, Checkpointed, Missing, Untrained,
     Swapped, Whole, Revertible
<1>3. CASE run.previous # 0
  BY <1>1, <1>3 DEF RouterInv, ServedInv, OwnFiles, Checkpointed, Swapped, Absent, Revertible
<1> QED
  BY <1>2, <1>3

LEMMA RollbackServed == ASSUME TrainerInv, RouterInv, Rollback PROVE RouterInv'
<1>1. /\ run.pc = "rollback" /\ run'.pc = "none" /\ run' = NoRun
      /\ UNCHANGED <<disk, app>> /\ (incidents' = 0 => incidents = 0)
  BY DEF Rollback, Revert, Incident, Leave, NoRun, TrainerInv, TypeOK
<1>2. CASE /\ run.previous \in Versions /\ Revertible(run.previous)
           /\ LoadCheckpoint(run.previous)
           /\ db' \in {Marked(Registered(db, run.previous)), Registered(db, run.previous),
                      [db EXCEPT !.missed = TRUE]}
  <2>1. ~Missing(0)
    BY <1>1 DEF RouterInv, ServedInv, Checkpointed, Untrained, Swapped
  <2>2. db'.active = run.previous \/ db'.missed = TRUE
    BY <1>2 DEF Marked, Registered, TrainerInv, TypeOK
  <2>3. db'.promoted = db.promoted
    BY <1>2 DEF Marked, Registered, TrainerInv, TypeOK
  <2> QED
    BY <1>1, <1>2, <2>1, <2>2, <2>3, LoadedServed
<1>3. CASE db' \in {db, Marked(db)} /\ UNCHANGED router
  <2>1. /\ db'.active = db.active /\ db'.promoted = db.promoted
        /\ db'.missed = db.missed
    BY <1>3 DEF Marked, TrainerInv, TypeOK
  <2> QED
    BY <1>1, <1>3, <2>1, LeaveServed
<1> QED
  BY <1>2, <1>3 DEF Rollback, Revert

LEMMA AdminRevertServed ==
  ASSUME TrainerInv, RouterInv, NEW v \in Offered, AdminRevert(v)
  PROVE  RouterInv'
<1>1. v \in db.promoted /\ v \in Versions
  BY DEF Offered, TrainerInv, TypeOK
<1>2. ~Missing(0)
  BY <1>1 DEF RouterInv, ServedInv, Checkpointed, Missing, Untrained
<1>3. run = NoRun /\ run.pc = "none" /\ UNCHANGED <<disk, app, run>>
  BY DEF AdminRevert, TrainerInv, LockInv, Running, NoRun
<1>4. /\ db'.active = v \/ db'.missed = TRUE
      /\ db'.promoted = db.promoted
      /\ incidents' = 0 => incidents = 0
  <2>1. db \in Rows
    BY DEF TrainerInv, TypeOK, Rows
  <2>2. CASE db' = Registered(db, v) /\ UNCHANGED incidents
    BY <1>1, <2>1, <2>2, RegisteredKeeps
  <2>3. CASE db' = [db EXCEPT !.missed = TRUE] /\ Incident
    BY <2>1, <2>3 DEF Rows, Incident, TrainerInv, TypeOK
  <2> QED
    BY <2>2, <2>3 DEF AdminRevert, Revert
<1> QED
  BY <1>1, <1>2, <1>3, <1>4, LoadedServed DEF AdminRevert, Revert

-----------------------------------------------------------------------------
(* Configuration, loads and restarts *)

LEMMA PollServed == ASSUME TrainerInv, RouterInv, Poll PROVE RouterInv'
<1>1. /\ app'.checksum = disk.checksum /\ app'.loader = "verify"
      /\ app'.loaded = app.loaded
  BY DEF Poll, TrainerInv, TypeOK
<1>2. UNCHANGED <<disk, db, router, run, incidents>> /\ run.pc \in Awaiting
  BY DEF Poll, LoopFree
<1>3. OwnFiles' /\ NewEmbedding'
  BY <1>1, <1>2 DEF RouterInv, ServedInv, OwnFiles, NewEmbedding, Awaiting
<1>4. Checkpointed'
  BY <1>1, <1>2 DEF RouterInv, ServedInv, Checkpointed, Missing, Untrained
<1>5. ActiveInv'
  BY <1>2 DEF RouterInv, ServedInv, ActiveInv
<1>6. PairInv'
  BY <1>1, <1>2 DEF RouterInv, PairInv, BootTogether, Opened, Outdated, Together, Awaiting
<1> QED
  BY <1>3, <1>4, <1>5, <1>6 DEF RouterInv, ServedInv

\* A step of a load reads the boot files and changes nothing but the loader.
LEMMA LoadServed ==
  ASSUME TrainerInv, RouterInv, UNCHANGED <<disk, db, router, run, incidents>>,
         app'.checksum = app.checksum, app.loader # "idle", app'.loader # "idle",
         app'.loaded.heads \in {app.loaded.heads, disk.boot.heads, NoFile, Torn},
         Untrained => Untrained', incidents = 0 => Opened'
  PROVE  RouterInv'
<1>1. NoFile \notin Versions /\ Torn \notin Versions
  BY TrainerAssumption DEF Versions
<1>2. OwnFiles' /\ NewEmbedding'
  BY DEF RouterInv, ServedInv, OwnFiles, NewEmbedding
<1>3. Checkpointed'
  BY <1>1 DEF RouterInv, ServedInv, Checkpointed, Missing
<1>4. ActiveInv'
  BY DEF RouterInv, ServedInv, ActiveInv
<1>5. PairInv'
  BY DEF RouterInv, PairInv, BootTogether, Together
<1> QED
  BY <1>2, <1>3, <1>4, <1>5 DEF RouterInv, ServedInv

LEMMA LoadVerifyServed == ASSUME TrainerInv, RouterInv, LoadVerify PROVE RouterInv'
<1>1. /\ app'.checksum = app.checksum /\ app.loader = "verify"
      /\ UNCHANGED <<disk, db, router, run, incidents>>
      /\ \/ app'.loader = "open" /\ app'.loaded = app.loaded
         \/ app'.loader = "read" /\ app'.loaded = Absent
  BY DEF LoadVerify, Refused, Stub, TrainerInv, TypeOK
<1>2. Untrained => Untrained'
  <2>1. Untrained => Readable("onnx") = {app.checksum}
    BY DEF Untrained, Readable, Swapped, Deployed
  <2>2. Untrained => app'.loader = "open"
    BY <2>1 DEF LoadVerify, TrainerInv, TypeOK
  <2> QED
    BY <1>1, <2>2 DEF Untrained
<1>3. Opened'
  BY <1>1, TrainerAssumption DEF Opened, Together, Absent, Versions
<1>4. app'.loaded.heads \in {app.loaded.heads, NoFile}
  BY <1>1 DEF Absent
<1> QED
  BY <1>1, <1>2, <1>3, <1>4, LoadServed

\* The embedding opened is the one of the boot path, unless it is being copied
\* over.
LEMMA LoadOpenServed == ASSUME TrainerInv, RouterInv, LoadOpen PROVE RouterInv'
<1>1. PICK file \in Readable("onnx") :
        app' = IF file = Torn THEN Refused
               ELSE [app EXCEPT !.loader = "heads", !.loaded.onnx = file]
  BY DEF LoadOpen
<1>2. /\ app'.checksum = app.checksum /\ app.loader = "open"
      /\ UNCHANGED <<disk, db, router, run, incidents>>
      /\ \/ /\ app'.loader = "heads" /\ app'.loaded.heads = app.loaded.heads
            /\ app'.loaded.onnx = file /\ file = disk.boot.onnx
         \/ app'.loader = "read" /\ app'.loaded = Absent /\ file = Torn
  BY <1>1 DEF LoadOpen, Readable, Refused, Stub, TrainerInv, TypeOK, Models
<1>3. Untrained => Untrained'
  <2>1. Untrained => file = 0
    BY <1>1 DEF Untrained, Readable, Swapped, Deployed
  <2>2. Torn # 0
    BY TrainerAssumption
  <2> QED
    BY <1>2, <2>1, <2>2 DEF Untrained
<1>4. Opened'
  BY <1>2, TrainerAssumption DEF Opened, Together, Absent, Versions
<1>5. app'.loaded.heads \in {app.loaded.heads, NoFile}
  BY <1>2 DEF Absent
<1> QED
  BY <1>2, <1>3, <1>4, <1>5, LoadServed

\* The heads read last belong to the embedding opened before, unless a
\* fine-tuned one came between.
LEMMA LoadHeadsServed == ASSUME TrainerInv, RouterInv, LoadHeads PROVE RouterInv'
<1>1. PICK file \in Readable("heads") :
        app' = IF file = Torn THEN Refused
               ELSE [app EXCEPT !.loader = "read", !.loaded.heads = file]
  BY DEF LoadHeads
<1>2. /\ app'.checksum = app.checksum /\ app.loader = "heads" /\ app'.loader = "read"
      /\ UNCHANGED <<disk, db, router, run, incidents>> /\ app'.loaded \in Models
      /\ \/ /\ app'.loaded.onnx = app.loaded.onnx
            /\ app'.loaded.heads = file /\ file = disk.boot.heads
         \/ app'.loaded = Absent /\ file = Torn
  BY <1>1, ReadableType
     DEF LoadHeads, Readable, Refused, Stub, Absent, TrainerInv, TypeOK, Models, Contents
<1>3. Untrained => Untrained'
  <2>1. Untrained => file = 0 /\ app.loaded.onnx = 0
    BY <1>1, <1>2 DEF Untrained, Readable, Swapped, Deployed
  <2>2. Torn # 0
    BY TrainerAssumption
  <2>3. Untrained => app'.loaded = Deployed
    BY <1>2, <2>1, <2>2 DEF Models, Deployed
  <2> QED
    BY <1>2, <2>3 DEF Untrained, Deployed
<1>4. ASSUME incidents = 0 PROVE Opened'
  <2>1. CASE app'.loaded = Absent
    BY <1>2, <2>1, TrainerAssumption DEF Opened, Together, Absent, Versions
  <2>2. CASE Outdated
    BY <1>2, <2>2 DEF Opened, Outdated
  <2>3. CASE /\ app'.loaded.onnx = app.loaded.onnx
             /\ app'.loaded.heads = disk.boot.heads /\ ~Outdated
    <3>1. BootTogether /\ app.loaded.onnx = disk.boot.onnx
      BY <1>2, <1>4, <2>3 DEF RouterInv, PairInv, Opened
    <3>2. run.pc \in {"heads", "config"} => ~run.tuned
      BY <2>3 DEF Outdated
    <3>3. Together(disk.boot)
      BY <3>1, <3>2 DEF BootTogether
    <3> QED
      BY <1>2, <2>3, <3>1, <3>3 DEF Opened, Together
  <2> QED
    BY <1>2, <2>1, <2>2, <2>3
<1>5. app'.loaded.heads \in {disk.boot.heads, NoFile}
  BY <1>2 DEF Absent
<1> QED
  BY <1>2, <1>3, <1>4, <1>5, LoadServed

LEMMA LoadSwapServed == ASSUME TrainerInv, RouterInv, LoadSwap PROVE RouterInv'
<1>1. /\ app'.checksum = app.checksum /\ app'.loader = "idle" /\ app'.loaded = Absent
      /\ UNCHANGED <<disk, db, run, incidents>> /\ app.loader = "read"
  BY DEF LoadSwap, Loaded, TrainerInv, TypeOK
<1>2. \/ app.loaded = Absent /\ router'.model = Absent /\ router'.path = router.path
      \/ router' = [model |-> app.loaded, path |-> Boot]
  BY DEF LoadSwap, Stub, TrainerInv, TypeOK
<1>3. Absent.heads \notin Versions /\ Absent # Deployed /\ Boot \notin Versions
  BY TrainerAssumption DEF Absent, Deployed, Versions
<1>4. OwnFiles' /\ NewEmbedding'
  BY <1>1 DEF RouterInv, ServedInv, OwnFiles, NewEmbedding
<1>5. Checkpointed'
  BY <1>1, <1>2, <1>3 DEF RouterInv, ServedInv, Checkpointed, Missing, Untrained, LoadSwap
<1>6. ActiveInv'
  BY <1>1, <1>2 DEF RouterInv, ServedInv, ActiveInv, Stub
<1>7. PairInv'
  BY <1>1, <1>2, <1>3 DEF RouterInv, PairInv, BootTogether, Opened, Outdated, Together
<1> QED
  BY <1>4, <1>5, <1>6, <1>7 DEF RouterInv, ServedInv

\* Before the first failure the process only stops between two runs, with the
\* files of one model.
LEMMA RestartServed == ASSUME TrainerInv, RouterInv, Restart PROVE RouterInv'
<1>1. PICK left \in DiskLeft :
        /\ disk' = left
        /\ router' = [model |-> BootModel(left.boot, disk.checksum), path |-> Boot]
        /\ db' = IF BootModel(left.boot, disk.checksum) = Stub THEN db
                 ELSE Registered(db, BootModel(left.boot, disk.checksum).heads)
  BY DEF Restart
<1> DEFINE boot == left.boot
           model == BootModel(boot, disk.checksum)
<1>2. /\ disk'.boot = boot /\ disk'.trained = disk.trained
      /\ disk'.started = disk.started /\ disk'.checksum = disk.checksum
      /\ boot.onnx \in {disk.boot.onnx, Torn} /\ boot.heads \in {disk.boot.heads, Torn}
      /\ boot = disk.boot \/ run.pc \in {"onnx", "heads"}
  <2>1. run.pc = "swap" => \A d \in SnapshotLeft(router.model.heads) : d.boot = disk.boot
    BY SnapshotType
  <2> QED
    BY <1>1, <2>1, LeftType DEF DiskLeft
<1>3. /\ \A v \in Versions : disk'.files[v] = disk.files[v] \/ (v = 0 /\ Untrained)
      /\ {disk'.files[0].onnx, disk'.files[0].heads} \subseteq {0, NoFile, Torn}
  <2>1. CASE disk'.files = disk.files
    BY <2>1 DEF RouterInv, ServedInv, OwnFiles
  <2>2. CASE run.pc = "swap" /\ left \in SnapshotLeft(router.model.heads)
    BY <1>1, <2>2, SnapshotKeeps
  <2>3. disk \in DiskType
    BY DEF TrainerInv, TypeOK
  <2> QED
    BY <1>1, <2>1, <2>2, <2>3 DEF DiskLeft, DiskType
<1>4. /\ run' = NoRun /\ NoRun.pc = "none"
      /\ app'.checksum = disk.checksum /\ app'.loader = "idle" /\ app'.loaded = Absent
      /\ incidents' = 0 => incidents = 0 /\ run = NoRun
      /\ db'.promoted = db.promoted
  BY <1>1 DEF Restart, Incident, NoRun, TrainerInv, TypeOK, Registered
<1>5. model = Absent \/ model = boot
  BY DEF BootModel, Stub
<1>6. /\ Absent.heads \notin Versions /\ NoFile \notin Versions /\ Torn \notin Versions
      /\ Boot \notin Versions /\ router'.path = Boot /\ router'.model = model
      /\ 0 \in Versions /\ \A v \in Versions : v \in Nat
      /\ disk.started \in Versions
  <2>1. disk.started \in Versions
    BY DEF TrainerInv, TypeOK, DiskType
  <2> QED
    BY <1>1, <2>1, TrainerAssumption DEF Absent, Versions
<1>7. Untrained => boot = Deployed /\ router' = [model |-> Deployed, path |-> Boot]
  BY <1>1, <1>2, TrainerAssumption DEF Untrained, Swapped, BootModel, Deployed
<1>8. incidents' = 0 => disk' = disk
  <2>1. incidents' = 0 => run.pc = "none"
    BY <1>4
  <2> QED
    BY <1>1, <2>1 DEF DiskLeft
<1> HIDE DEF model
<1>9. OwnFiles'
  BY <1>2, <1>3, <1>4, <1>6
     DEF RouterInv, ServedInv, OwnFiles
<1>10. NewEmbedding'
  <2>1. disk'.files[0].onnx \in Versions => disk'.files[0].onnx <= disk.started
    BY <1>3, <1>6
  <2> QED
    BY <1>2, <1>3, <1>4, <1>6, <2>1 DEF RouterInv, NewEmbedding
<1>11. Checkpointed'
  <2>1. boot.heads \in Versions \ {0} => disk.files[boot.heads].heads = boot.heads
    BY <1>2, <1>6 DEF RouterInv, ServedInv, Checkpointed
  <2>2. \A m \in {router'.model, disk'.boot, app'.loaded} :
          m.heads \in Versions \ {0} => disk'.files[m.heads].heads = m.heads
    BY <1>2, <1>3, <1>4, <1>5, <1>6, <2>1
  <2>3. Missing(0)' => Untrained'
    <3>1. Missing(0)' => Untrained
      BY <1>3, <1>6 DEF Missing, RouterInv, ServedInv, Checkpointed
    <3>2. Untrained => Untrained'
      BY <1>2, <1>4, <1>7 DEF Untrained, Swapped
    <3> QED
      BY <3>1, <3>2
  <2> QED
    BY <1>4, <2>2, <2>3 DEF Checkpointed, Swapped
<1>12. ActiveInv'
  BY <1>4, <1>6 DEF ActiveInv, Swapped
<1>13. PairInv'
  BY <1>2, <1>4, <1>5, <1>6, <1>8 DEF RouterInv, PairInv, BootTogether, Opened, Outdated, Together
<1> QED
  BY <1>9, <1>10, <1>11, <1>12, <1>13 DEF RouterInv, ServedInv

-----------------------------------------------------------------------------
LEMMA StepServed == TrainerInv /\ RouterInv /\ [Next]_vars => RouterInv'
<1> SUFFICES ASSUME TrainerInv, RouterInv, [Next]_vars PROVE RouterInv'
  OBVIOUS
<1>1. CASE Curate
  BY <1>1, AsideServed DEF Curate
<1>2. CASE \E why \in {"threshold", "accuracy"} : Tick(why)
  BY <1>2, AsideServed DEF Tick, Ask
<1>3. CASE \E f \in FineTunes : ManualRetrain(f)
  BY <1>3, AsideServed DEF ManualRetrain, Ask
<1>4. CASE Start \/ Tune \/ Train \/ Evaluate \/ Swap
  BY <1>4, StartServed, TuneServed, TrainServed, EvaluateServed, SwapServed
<1>5. CASE Persist
  BY <1>5, CopyOnnxServed, CopyHeadsServed, WriteChecksumServed DEF Persist
<1>6. CASE Raise \/ Register \/ Promote \/ Succeed \/ Rollback
  BY <1>6, RaiseServed, RegisterServed, PromoteServed, SucceedServed, RollbackServed
<1>7. CASE \E v \in Offered : AdminRevert(v)
  BY <1>7, AdminRevertServed
<1>8. CASE EditConfig
  <2>1. /\ app'.checksum = app.checksum /\ app'.loader = app.loader
        /\ app'.loaded = app.loaded
    BY <1>8 DEF EditConfig, TrainerInv, TypeOK
  <2> QED
    BY <1>8, <2>1, AsideServed DEF EditConfig
<1>9. CASE Poll \/ LoadVerify \/ LoadOpen \/ LoadHeads \/ LoadSwap \/ Restart
  BY <1>9, PollServed, LoadVerifyServed, LoadOpenServed, LoadHeadsServed, LoadSwapServed,
     RestartServed
<1>10. CASE UNCHANGED vars
  BY <1>10, AsideServed DEF vars
<1> QED
  BY <1>1, <1>2, <1>3, <1>4, <1>5, <1>6, <1>7, <1>8, <1>9, <1>10 DEF Next

\* What is served, the boot files and the checkpoints, in every reachable state.
THEOREM RouterInvariant == Spec => [](TrainerInv /\ RouterInv)
<1>1. Init => TrainerInv /\ RouterInv
  BY InitInv, InitRouter
<1>2. TrainerInv /\ RouterInv /\ [Next]_vars => (TrainerInv /\ RouterInv)'
  BY StepInv, StepServed
<1> QED
  BY <1>1, <1>2, PTL DEF Spec

\* While no write has failed, the router does not go on running heads on an
\* embedding they were not trained on: a reload (the poller, try_load_real) that
\* reads the boot files between their copies may serve such a pair, but then it is
\* under way still or another one is due.  Between runs the checkpoint served is the
\* registry's active version, or one whose run failed with nothing to give back
\* (_run_training_run), unless the registry failed to write a revert.
THEOREM ServedTogether == Spec => []ServedAsTrained
<1>1. RouterInv => ServedAsTrained
  <2> SUFFICES ASSUME RouterInv PROVE ServedAsTrained
    OBVIOUS
  <2>1. Paired
    BY DEF RouterInv, PairInv, Together, Paired
  <2>2. ServesActive
    BY DEF RouterInv, ServedInv, ActiveInv, ServesActive
  <2> QED
    BY <2>1, <2>2 DEF ServedAsTrained
<1> QED
  BY <1>1, RouterInvariant, PTL

\* A rollback gives back the version its run replaced, in the router and in the
\* registry: step 6 of _run_training_run kept its files, and nothing between the
\* swap and the failure takes them away; only a copy cut short is lost.  When a
\* statement of the way back raises (revert_to_version, mark_checkpoint_rolled_back),
\* the registry does not name another version than the router was given.
THEOREM RollbackGivesBack == Spec => RollbackRestores
<1> DEFINE GivesBack ==
      Rollback /\ run.previous \in Versions /\ Whole(disk.files[run.previous])
        => /\ incidents' = incidents
                => router'.model.heads = run.previous /\ db'.active = run.previous
           /\ db'.active # db.active => router'.model.heads = db'.active
<1>1. TrainerInv /\ RouterInv /\ [Next]_vars => [GivesBack]_vars
  <2> SUFFICES ASSUME TrainerInv, RouterInv, Rollback, run.previous \in Versions,
                      Whole(disk.files[run.previous])
               PROVE  /\ incidents' = incidents
                           => router'.model.heads = run.previous /\ db'.active = run.previous
                      /\ db'.active # db.active => router'.model.heads = db'.active
    OBVIOUS
  <2>1. Revertible(run.previous)
    BY PreviousThere DEF Rollback
  <2>2. \/ /\ LoadCheckpoint(run.previous)
           /\ db' \in {Marked(Registered(db, run.previous)), Registered(db, run.previous)}
        \/ /\ incidents' = incidents + 1
           /\ db' \in {db, [db EXCEPT !.missed = TRUE]}
    BY <2>1 DEF Rollback, Revert, Incident
  <2>3. incidents \in Nat
    BY DEF TrainerInv, TypeOK
  <2>4. CASE /\ LoadCheckpoint(run.previous)
             /\ db' \in {Marked(Registered(db, run.previous)), Registered(db, run.previous)}
    <3>1. db'.active = run.previous
      BY <2>4 DEF Marked, Registered, TrainerInv, TypeOK
    <3>2. router'.model.heads = run.previous
      BY <2>1, <2>4 DEF Revertible, LoadCheckpoint
    <3> QED
      BY <3>1, <3>2
  <2>5. CASE incidents' = incidents + 1 /\ db' \in {db, [db EXCEPT !.missed = TRUE]}
    <3>1. db'.active = db.active /\ incidents' # incidents
      BY <2>3, <2>5 DEF TrainerInv, TypeOK
    <3> QED
      BY <3>1
  <2> QED
    BY <2>2, <2>4, <2>5
<1>2. RollbackRestores <=> [][GivesBack]_vars
  BY DEF RollbackRestores
<1> QED
  BY <1>1, <1>2, RouterInvariant, PTL DEF Spec

-----------------------------------------------------------------------------
(***************************************************************************)
(* Responses                                                               *)
(***************************************************************************)

-----------------------------------------------------------------------------
(* Least and greatest. *)

LEMMA BelowNat == \A m, n \in Nat : <<m, n>> \in OpToRel(<, Nat) <=> m < n
BY DEF OpToRel

LEMMA LeastOf ==
  ASSUME NEW S, S \subseteq Nat, S # {}
  PROVE  \E m \in S : \A x \in S : m <= x
<1>1. PICK m \in S : \A x \in S : ~(<<x, m>> \in OpToRel(<, Nat))
  BY NatLessThanWellFounded, WFMin
<1>2. ASSUME NEW x \in S PROVE ~(x < m)
  BY <1>1, BelowNat, Zenon
<1>3. m \in Nat /\ \A x \in S : x \in Nat
  OBVIOUS
<1>4. \A x \in S : m <= x
  BY <1>2, <1>3
<1>5. QED
  BY <1>4

LEMMA GreatestOf ==
  ASSUME NEW n \in Nat, NEW S, S \subseteq 0 .. n, S # {}
  PROVE  Max(S) \in S /\ \A x \in S : Max(S) >= x
<1> DEFINE T == {n - x : x \in S}
<1>1. T \subseteq Nat /\ T # {}
  <2>1. \A x \in S : n - x \in Nat
    OBVIOUS
  <2>2. QED
    BY <2>1
<1>2. PICK k \in T : \A y \in T : k <= y
  BY <1>1, LeastOf
<1>3. PICK m \in S : k = n - m
  OBVIOUS
<1>4. \A x \in S : m >= x
  BY <1>2, <1>3
<1>5. QED
  BY <1>4 DEF Max

-----------------------------------------------------------------------------
(* Swarm: layers. *)

\* A layering of the part T of a graph.
LayeredOn(graph, T, at) ==
  /\ at \in [T -> 1 .. Cardinality(T)]
  /\ \A x \in T : /\ graph[x].deps \intersect DOMAIN graph \subseteq T
                  /\ InLayer(graph, x, at)

LEMMA LayerMore ==
  ASSUME NEW graph, IsFiniteSet(DOMAIN graph),
         NEW T \in SUBSET DOMAIN graph, NEW at, LayeredOn(graph, T, at),
         NEW x \in (DOMAIN graph) \ T, graph[x].deps \intersect DOMAIN graph \subseteq T
  PROVE  \E a : LayeredOn(graph, T \union {x}, a)
<1> DEFINE n == Cardinality(T)
           before == {at[d] : d \in graph[x].deps \intersect DOMAIN graph}
           U == T \union {x}
<1>1. n \in Nat /\ Cardinality(U) = n + 1
  BY FS_Subset, FS_CardinalityType, FS_AddElement
<1>2. at \in [T -> 1 .. n]
  BY DEF LayeredOn
<1>3. before \subseteq 1 .. n
  BY <1>2
<1>4. PICK k \in 1 .. n + 1 : (\A m \in before : m < k) /\ (k = 1 \/ k - 1 \in before)
  <2> HIDE DEF before
  <2>1. CASE before = {}
    BY <1>1, <2>1
  <2>2. CASE before # {}
    <3>1. before \subseteq 0 .. n
      BY <1>1, <1>3
    <3>2. Max(before) \in before /\ \A m \in before : Max(before) >= m
      BY <1>1, <2>2, <3>1, GreatestOf
    <3>3. Max(before) \in 1 .. n
      BY <1>3, <3>2
    <3> DEFINE b == Max(before)
    <3> HIDE DEF b
    <3>4. b \in before /\ b \in 1 .. n /\ \A m \in before : m <= b
      BY <1>3, <3>2, <3>3 DEF b
    <3>5. (\A m \in before : m < b + 1) /\ (b + 1) - 1 \in before /\ b + 1 \in 1 .. n + 1
      BY <1>1, <1>3, <3>4
    <3>6. QED
      BY <3>5
  <2>3. QED
    BY <2>1, <2>2
<1> DEFINE a == [y \in U |-> IF y = x THEN k ELSE at[y]]
<1>5. a \in [U -> 1 .. n + 1]
  BY <1>1, <1>2, <1>4
<1>6. \A y \in T : a[y] = at[y]
  OBVIOUS
<1>7. a[x] = k
  OBVIOUS
<1> HIDE DEF a
<1>8. ASSUME NEW y \in U
      PROVE  graph[y].deps \intersect DOMAIN graph \subseteq U /\ InLayer(graph, y, a)
  <2> DEFINE D == graph[y].deps \intersect DOMAIN graph
  <2>1. D \subseteq T
    BY DEF LayeredOn
  <2>2. {a[d] : d \in D} = {at[d] : d \in D}
    BY <1>6, <2>1
  <2>3. CASE y = x
    BY <1>4, <1>7, <2>1, <2>2, <2>3 DEF InLayer
  <2>4. CASE y \in T
    <3>1. InLayer(graph, y, at)
      BY <2>4 DEF LayeredOn
    <3>2. a[y] = at[y]
      BY <1>6, <2>4
    <3>3. QED
      BY <2>1, <2>2, <3>1, <3>2 DEF InLayer
  <2>5. QED
    BY <2>3, <2>4
<1>9. QED
  BY <1>1, <1>5, <1>8 DEF LayeredOn

LEMMA LayeringExists ==
  ASSUME NEW graph, IsFiniteSet(DOMAIN graph), ~HasCycle(graph)
  PROVE  \E at : LayeredOn(graph, DOMAIN graph, at)
<1> DEFINE ids == DOMAIN graph
           N == Cardinality(ids)
           sizes == {n \in 0 .. N : \E T \in SUBSET ids : Cardinality(T) = n /\ \E at : LayeredOn(graph, T, at)}
<1>1. N \in Nat
  BY FS_CardinalityType
<1>2. 0 \in sizes
  <2>1. Cardinality({}) = 0
    BY FS_EmptySet
  <2>2. LayeredOn(graph, {}, [x \in {} |-> 1])
    BY DEF LayeredOn
  <2>3. QED
    BY <1>1, <2>1, <2>2
<1>3. Max(sizes) \in sizes /\ \A x \in sizes : Max(sizes) >= x
  BY <1>1, <1>2, GreatestOf
<1>4. PICK T \in SUBSET ids : Cardinality(T) = Max(sizes) /\ \E at : LayeredOn(graph, T, at)
  BY <1>3
<1>5. CASE T = ids
  BY <1>4, <1>5
<1>6. CASE T # ids
  <2>1. PICK x \in ids \ T : graph[x].deps \intersect (ids \ T) = {}
    BY <1>6 DEF HasCycle
  <2>2. \E a : LayeredOn(graph, T \union {x}, a)
    BY <1>4, <2>1, LayerMore
  <2>3. Cardinality(T) \in Nat /\ Cardinality(T \union {x}) = Cardinality(T) + 1
    BY <2>1, FS_Subset, FS_CardinalityType, FS_AddElement
  <2>4. T \union {x} \in SUBSET ids
    BY <2>1
  <2>5. Cardinality(T \union {x}) \in 0 .. N
    <3>1. Cardinality(T \union {x}) <= N
      BY <2>4, FS_Subset
    <3>2. QED
      BY <1>1, <2>3, <3>1
  <2>6. Cardinality(T) + 1 \in sizes
    BY <2>2, <2>3, <2>4, <2>5
  <2>7. Cardinality(T) >= Cardinality(T) + 1
    BY <1>3, <1>4, <2>6
  <2>8. QED
    BY <2>3, <2>7
<1>7. QED
  BY <1>5, <1>6

\* Layers in which everything is once, after all that it depends on.
Ordered(graph, ls) ==
  /\ ls \in Seq(SUBSET DOMAIN graph)
  /\ \A x \in DOMAIN graph : \E i \in DOMAIN ls : x \in ls[i]
  /\ \A i, j \in DOMAIN ls : \A x \in ls[i] \intersect ls[j] : i = j
  /\ \A i, j \in DOMAIN ls : \A x \in ls[i] : \A d \in graph[x].deps \intersect ls[j] : j < i

LEMMA LayersOrdered ==
  ASSUME NEW graph, IsFiniteSet(DOMAIN graph), ~HasCycle(graph)
  PROVE  Ordered(graph, Layers(graph))
<1> DEFINE ids == DOMAIN graph
           N == Cardinality(ids)
           Layerings == {at \in [ids -> 1 .. N] : \A x \in ids : InLayer(graph, x, at)}
           at == CHOOSE a \in Layerings : TRUE
           top == Max({0} \union Range(at))
<1>1. N \in Nat
  BY FS_CardinalityType
<1>2. Layerings # {}
  BY LayeringExists DEF LayeredOn
<1>3. at \in Layerings
  BY <1>2
<1>4. Layers(graph) = [n \in 1 .. top |-> {x \in ids : at[x] = n}]
  BY <1>2 DEF Layers
<1> HIDE DEF at
<1>5. at \in [ids -> 1 .. N] /\ \A x \in ids : InLayer(graph, x, at)
  BY <1>3
<1>6. top \in Nat /\ \A x \in ids : at[x] \in 1 .. top
  <2>1. {0} \union Range(at) \subseteq 0 .. N /\ \A x \in ids : at[x] \in Range(at)
    BY <1>1, <1>5 DEF Range
  <2>2. top \in {0} \union Range(at) /\ \A k \in {0} \union Range(at) : top >= k
    BY <1>1, <2>1, GreatestOf
  <2> HIDE DEF top
  <2>3. top \in Nat
    BY <1>1, <2>1, <2>2
  <2>4. QED
    BY <1>1, <1>5, <2>1, <2>2, <2>3
<1> HIDE DEF top
<1> DEFINE ls == [n \in 1 .. top |-> {x \in ids : at[x] = n}]
<1>7. ls \in Seq(SUBSET ids) /\ DOMAIN ls = 1 .. top /\ \A i \in 1 .. top : ls[i] = {x \in ids : at[x] = i}
  BY <1>6
<1> HIDE DEF ls
<1>8. \A x \in ids : \E i \in DOMAIN ls : x \in ls[i]
  BY <1>6, <1>7
<1>9. \A i, j \in DOMAIN ls : \A x \in ls[i] \intersect ls[j] : i = j
  BY <1>7
<1>10. ASSUME NEW i \in DOMAIN ls, NEW j \in DOMAIN ls, NEW x \in ls[i], NEW d \in graph[x].deps \intersect ls[j]
       PROVE  j < i
  <2>1. at[x] = i /\ at[d] = j /\ x \in ids /\ d \in ids
    BY <1>7
  <2>2. QED
    BY <1>5, <2>1 DEF InLayer
<1>11. QED
  BY <1>4, <1>7, <1>8, <1>9, <1>10 DEF Ordered, ls

-----------------------------------------------------------------------------
(* Swarm: what a request is cut into. *)

\* A graph that can be put into layers.
Sound(graph) ==
  /\ IsFiniteSet(DOMAIN graph) /\ ~HasCycle(graph)
  /\ \A x \in DOMAIN graph : graph[x].deps \subseteq DOMAIN graph

Bounded(s) == \E n \in Nat : DOMAIN s \subseteq 1 .. n

\* Every id of the graph is the id of a subtask, whose dependencies it has.
Indexed(s) ==
  /\ DOMAIN ById(s) = {s[i].id : i \in DOMAIN s} /\ IsFiniteSet(DOMAIN ById(s))
  /\ \A x \in DOMAIN ById(s) : \E i \in DOMAIN s : s[i].id = x /\ ById(s)[x].deps = s[i].deps

LEMMA ByIdParts ==
  ASSUME NEW s, Bounded(s)
  PROVE  Indexed(s)
<1> PICK n \in Nat : DOMAIN s \subseteq 1 .. n
  BY DEF Bounded
<1> DEFINE ids == {s[i].id : i \in DOMAIN s}
           f == [i \in DOMAIN s |-> s[i].id]
<1>1. DOMAIN ById(s) = ids
  BY DEF ById
<1>2. IsFiniteSet(DOMAIN s)
  <2>1. IsFiniteSet(1 .. n)
    BY FS_Interval
  <2>2. QED
    BY <2>1, FS_Subset
<1>3. IsFiniteSet(ids)
  <2>1. f \in Surjection(DOMAIN s, ids)
    BY DEF Surjection
  <2>2. QED
    BY <1>2, <2>1, FS_Surjection
<1>4. ASSUME NEW x \in ids
      PROVE  \E i \in DOMAIN s : s[i].id = x /\ ById(s)[x].deps = s[i].deps
  <2> DEFINE those == {i \in DOMAIN s : s[i].id = x}
             last == Max(those)
  <2>1. those # {} /\ those \subseteq 0 .. n
    OBVIOUS
  <2>2. last \in those
    BY <2>1, GreatestOf
  <2>3. ById(s)[x] = [tier |-> s[last].tier, deps |-> s[last].deps]
    BY DEF ById
  <2> HIDE DEF last
  <2>4. QED
    BY <2>2, <2>3
<1>5. QED
  BY <1>1, <1>3, <1>4 DEF Indexed

LEMMA PlannedSound ==
  ASSUME NEW plan \in Plans, Planned(plan) # None
  PROVE  Sound(ById(Planned(plan)))
<1> DEFINE ids == Ids(plan)
           TierOf(i) == IF plan[i].tier \in Range(SwarmPolicy.pyramid) THEN plan[i].tier
                        ELSE SwarmPolicy.pyramid[Min({i, Len(SwarmPolicy.pyramid)})]
           s == [i \in DOMAIN plan |->
                   [id |-> ids[i], tier |-> TierOf(i),
                    deps |-> (plan[i].deps \intersect {ids[j] : j \in DOMAIN plan}) \ {ids[i]}]]
<1> HIDE DEF ids, TierOf
<1>1. Planned(plan) = s /\ ~HasCycle(ById(s))
  BY DEF Planned, ids, TierOf
<1>2. DOMAIN plan = 1 .. Len(plan) /\ Len(plan) \in Nat
  BY SwarmAssumption
<1>3. DOMAIN s = DOMAIN plan
  OBVIOUS
<1>4. \A i \in DOMAIN s : s[i].deps \subseteq {s[j].id : j \in DOMAIN s}
  OBVIOUS
<1> HIDE DEF s
<1>5. Bounded(s)
  BY <1>2, <1>3 DEF Bounded
<1>6. \A x \in DOMAIN ById(s) : ById(s)[x].deps \subseteq DOMAIN ById(s)
  <2>1. Indexed(s)
    BY <1>5, ByIdParts
  <2>2. QED
    BY <1>4, <2>1 DEF Indexed
<1>7. IsFiniteSet(DOMAIN ById(s))
  BY <1>5, ByIdParts DEF Indexed
<1>8. QED
  BY <1>1, <1>6, <1>7 DEF Sound

LEMMA ChunkedSound ==
  ASSUME NEW text \in Seq(Nat)
  PROVE  Sound(ById(Chunked(text)))
<1> DEFINE s == Chunked(text)
<1>1. DOMAIN s \subseteq 1 .. Len(text) /\ Len(text) \in Nat
  BY DEF Chunked
<1>2. \A i \in DOMAIN s : s[i].deps = {}
  BY DEF Chunked
<1> HIDE DEF s
<1>3. Bounded(s)
  BY <1>1 DEF Bounded
<1>4. IsFiniteSet(DOMAIN ById(s)) /\ \A x \in DOMAIN ById(s) : ById(s)[x].deps = {}
  <2>1. Indexed(s)
    BY <1>3, ByIdParts
  <2>2. QED
    BY <1>2, <2>1 DEF Indexed
<1>5. ~HasCycle(ById(s))
  BY <1>4 DEF HasCycle
<1>6. QED
  BY <1>4, <1>5 DEF Sound, s

-----------------------------------------------------------------------------
(* Swarm: the order of the subtasks. *)

Done == {"ok", "empty", "failed"}

Left == {x \in DOMAIN tasks : \E i \in DOMAIN layers : x \in layers[i]}

\* A subtask is in one of the layers that are left or has ended; it comes
\* after what it depends on, and waits unless its layer is the first.
OrderOK ==
  /\ IsFiniteSet(DOMAIN tasks) /\ layers \in Seq(SUBSET DOMAIN tasks)
  /\ result \in [DOMAIN tasks -> {"waiting", "running"} \union Done] /\ DOMAIN saw = DOMAIN tasks
  /\ \A x \in DOMAIN tasks : tasks[x].deps \subseteq DOMAIN tasks
  /\ \A i, j \in DOMAIN layers : \A x \in layers[i] \intersect layers[j] : i = j
  /\ \A i, j \in DOMAIN layers : \A x \in layers[i] : \A d \in tasks[x].deps \intersect layers[j] : j < i
  /\ \A i \in DOMAIN layers : i # 1 => \A x \in layers[i] : result[x] = "waiting"
  /\ \A x \in (DOMAIN tasks) \ Left : result[x] \in Done
  /\ outputs = {x \in (DOMAIN tasks) \ Left : result[x] = "ok"}
  /\ \A x \in DOMAIN tasks : result[x] # "waiting" =>
       \A d \in tasks[x].deps : d \notin Left /\ (result[d] = "ok" => d \in saw[x])

Unstarted ==
  /\ tasks = <<>> /\ layers = <<>> /\ result = <<>> /\ outputs = {} /\ saw = <<>>
  /\ cost = 0 /\ spent = 0

\* Where the request is, and what that means for the swarm.
SwarmStage ==
  /\ req \in Inputs
  /\ stage = "idle" => path = "none"
  /\ stage = "synthesis" => path = "swarm"
  /\ path # "swarm" \/ stage \in {"idle", "reserving", "planning"} => Unstarted
  /\ path = "swarm" => stage \in {"reserving", "planning", "running", "synthesis", "settling", "ended"}
  /\ stage = "synthesis" \/ (stage \in {"settling", "ended"} /\ outcome \in {"ok", "aborted"}) =>
       layers = <<>>

LEMMA UnstartedOrder == Unstarted => OrderOK
<1> SUFFICES ASSUME Unstarted PROVE OrderOK
  OBVIOUS
<1>1. DOMAIN tasks = {} /\ DOMAIN layers = {} /\ Left = {} /\ IsFiniteSet({})
  BY FS_EmptySet DEF Unstarted, Left
<1>2. layers \in Seq(SUBSET DOMAIN tasks)
  BY DEF Unstarted
<1>3. result \in [{} -> {"waiting", "running"} \union Done] /\ DOMAIN saw = {}
  BY DEF Unstarted
<1>4. QED
  BY <1>1, <1>2, <1>3 DEF OrderOK, Unstarted

LEMMA SameOrder == OrderOK /\ UNCHANGED <<tasks, layers, result, outputs, saw>> => OrderOK'
BY DEF OrderOK, Left

LEMMA DecomposeOrder ==
  ASSUME SwarmStage, Decompose
  PROVE  OrderOK'
<1>1. req.text \in Seq(Nat)
  BY InputsAssumption DEF SwarmStage
<1>2. Sound(tasks') /\ layers' = Layers(tasks')
  BY <1>1, PlannedSound, ChunkedSound DEF Decompose
<1>3. Ordered(tasks', layers')
  BY <1>2, LayersOrdered DEF Sound
<1>4. outputs' = {} /\ result' = [x \in DOMAIN tasks' |-> "waiting"] /\ DOMAIN saw' = DOMAIN tasks'
  BY DEF Decompose, SwarmStage, Unstarted
<1>5. Left' = DOMAIN tasks'
  BY <1>3 DEF Left, Ordered
<1>6. QED
  BY <1>2, <1>3, <1>4, <1>5 DEF OrderOK, Ordered, Sound

LEMMA BeginOrder ==
  ASSUME OrderOK, BeginLayer
  PROVE  OrderOK'
<1> DEFINE first == layers[1]
<1>1. 1 \in DOMAIN layers /\ Head(layers) = first /\ first \subseteq DOMAIN tasks
  BY DEF OrderOK, BeginLayer
<1>2. \A x \in first : result[x] = "waiting"
  BY <1>1 DEF BeginLayer
<1>3. /\ \A x \in DOMAIN tasks : result'[x] = IF x \in first THEN Started(x) ELSE result[x]
      /\ \A x \in DOMAIN tasks : saw'[x] = IF x \in first THEN tasks[x].deps \intersect outputs ELSE saw[x]
      /\ DOMAIN result' = DOMAIN tasks /\ DOMAIN saw' = DOMAIN tasks
      /\ result' = [x \in DOMAIN tasks |-> result'[x]]
      /\ UNCHANGED <<tasks, layers, outputs>>
  BY <1>1 DEF BeginLayer
<1>4. \A x : Started(x) \in {"running", "failed"}
  BY DEF Started
<1>5. Left' = Left /\ first \subseteq Left
  BY <1>1, <1>3 DEF Left
<1>6. result' \in [DOMAIN tasks -> {"waiting", "running"} \union Done]
  <2>1. \A x \in DOMAIN tasks : result'[x] \in {"waiting", "running"} \union Done
    BY <1>3, <1>4 DEF OrderOK, Done
  <2>2. QED
    BY <1>3, <2>1
<1>7. \A x \in (DOMAIN tasks) \ Left : result'[x] = result[x]
  BY <1>3, <1>5
<1>8. \A i \in DOMAIN layers : i # 1 => \A x \in layers[i] : result'[x] = "waiting"
  <2> SUFFICES ASSUME NEW i \in DOMAIN layers, i # 1, NEW x \in layers[i]
               PROVE  result'[x] = "waiting"
    OBVIOUS
  <2>1. x \in DOMAIN tasks /\ x \notin first /\ result[x] = "waiting"
    BY <1>1 DEF OrderOK
  <2>2. QED
    BY <1>3, <2>1
<1>9. ASSUME NEW x \in DOMAIN tasks, result'[x] # "waiting", NEW d \in tasks[x].deps
      PROVE  d \notin Left /\ (result'[d] = "ok" => d \in saw'[x])
  <2>1. CASE x \in first
    <3>1. d \notin Left
      <4>1. \A j \in DOMAIN layers : d \in layers[j] => j < 1
        BY <1>1, <2>1 DEF OrderOK
      <4>2. \A j \in DOMAIN layers : ~(j < 1)
        BY DEF OrderOK
      <4>3. QED
        BY <4>1, <4>2 DEF Left
    <3>2. d \in DOMAIN tasks
      BY DEF OrderOK
    <3>3. result'[d] = "ok" => d \in outputs
      BY <1>7, <3>1, <3>2 DEF OrderOK
    <3>4. QED
      BY <1>3, <2>1, <3>1, <3>3
  <2>2. CASE x \notin first
    <3>1. result[x] # "waiting" /\ saw'[x] = saw[x]
      BY <1>3, <1>9, <2>2
    <3>2. d \notin Left /\ (result[d] = "ok" => d \in saw[x]) /\ d \in DOMAIN tasks
      BY <3>1 DEF OrderOK
    <3>3. QED
      BY <1>7, <3>1, <3>2
  <2>3. QED
    BY <2>1, <2>2
<1>10. outputs = {x \in (DOMAIN tasks) \ Left : result'[x] = "ok"}
  BY <1>7 DEF OrderOK
<1>11. \A x \in (DOMAIN tasks) \ Left : result'[x] \in Done
  BY <1>7 DEF OrderOK
<1>12. QED
  BY <1>3, <1>5, <1>6, <1>8, <1>9, <1>10, <1>11 DEF OrderOK

LEMMA FinishOrder ==
  ASSUME OrderOK, NEW x, Finish(x)
  PROVE  OrderOK' /\ x \in Left
<1>1. PICK end \in Done : result' = [result EXCEPT ![x] = end]
  BY DEF Finish, Done
<1>2. x \in DOMAIN tasks /\ result[x] = "running"
  BY DEF Finish, OrderOK
<1>3. UNCHANGED <<tasks, layers, outputs, saw>>
  BY DEF Finish
<1>4. x \in Left
  BY <1>2 DEF OrderOK, Done
<1>5. Left' = Left
  BY <1>3 DEF Left
<1>6. \A y \in DOMAIN tasks : result'[y] = IF y = x THEN end ELSE result[y]
  BY <1>1 DEF OrderOK
<1>7. result' \in [DOMAIN tasks -> {"waiting", "running"} \union Done]
  BY <1>1 DEF OrderOK
<1>8. \A y \in (DOMAIN tasks) \ Left : result'[y] = result[y]
  BY <1>4, <1>6
<1>9. \A i \in DOMAIN layers : i # 1 => \A y \in layers[i] : result'[y] = "waiting"
  <2> SUFFICES ASSUME NEW i \in DOMAIN layers, i # 1, NEW y \in layers[i]
               PROVE  result'[y] = "waiting"
    OBVIOUS
  <2>1. y \in DOMAIN tasks /\ result[y] = "waiting"
    BY DEF OrderOK
  <2>2. QED
    BY <1>2, <1>6, <2>1
<1>10. ASSUME NEW y \in DOMAIN tasks, result'[y] # "waiting", NEW d \in tasks[y].deps
       PROVE  d \notin Left /\ (result'[d] = "ok" => d \in saw[y])
  <2>1. result[y] # "waiting"
    BY <1>2, <1>6, <1>10
  <2>2. d \notin Left /\ (result[d] = "ok" => d \in saw[y]) /\ d \in DOMAIN tasks
    BY <2>1 DEF OrderOK
  <2>3. QED
    BY <1>8, <2>2
<1>11. outputs = {y \in (DOMAIN tasks) \ Left : result'[y] = "ok"}
  BY <1>8 DEF OrderOK
<1>12. \A y \in (DOMAIN tasks) \ Left : result'[y] \in Done
  BY <1>8 DEF OrderOK
<1>13. OrderOK'
  BY <1>3, <1>5, <1>7, <1>9, <1>10, <1>11, <1>12 DEF OrderOK
<1>14. QED
  BY <1>4, <1>13

LEMMA EndOrder ==
  ASSUME OrderOK, EndLayer
  PROVE  OrderOK' /\ Left' = Left \ Head(layers)
<1> DEFINE first == layers[1]
<1>1. 1 \in DOMAIN layers /\ Head(layers) = first /\ first \subseteq DOMAIN tasks
      /\ layers \in Seq(SUBSET DOMAIN tasks) /\ layers # <<>>
  BY DEF OrderOK, EndLayer
<1>2. /\ layers' \in Seq(SUBSET DOMAIN tasks)
      /\ \A i \in DOMAIN layers' : i + 1 \in DOMAIN layers /\ layers'[i] = layers[i + 1] /\ i + 1 # 1
      /\ \A i \in DOMAIN layers : i # 1 => i - 1 \in DOMAIN layers' /\ layers'[i - 1] = layers[i]
  <2>1. layers' = Tail(layers)
    BY DEF EndLayer
  <2>2. QED
    BY <1>1, <2>1
<1>3. UNCHANGED <<tasks, result, saw>> /\ \A x \in first : result[x] \in Done
  BY <1>1 DEF EndLayer, Done
<1>4. \A i \in DOMAIN layers : \A x \in layers[i] \intersect first : i = 1
  BY <1>1 DEF OrderOK
<1>5. Left' = Left \ first
  <2>1. ASSUME NEW x \in Left' PROVE x \in Left \ first
    BY <1>2, <1>3, <1>4 DEF Left
  <2>2. ASSUME NEW x \in Left \ first PROVE x \in Left'
    <3>1. PICK i \in DOMAIN layers : x \in layers[i] /\ x \in DOMAIN tasks
      BY DEF Left
    <3>2. i # 1
      BY <3>1
    <3>3. i - 1 \in DOMAIN layers' /\ x \in layers'[i - 1]
      BY <1>2, <3>1, <3>2
    <3>4. QED
      BY <1>3, <3>1, <3>3 DEF Left
  <2>3. QED
    BY <2>1, <2>2
<1>6. outputs' = {x \in (DOMAIN tasks) \ Left' : result[x] = "ok"}
  <2>1. outputs' = outputs \union {x \in first : result[x] = "ok"}
    BY <1>1 DEF EndLayer
  <2>2. QED
    BY <1>1, <1>5, <2>1 DEF OrderOK
<1>7. \A x \in (DOMAIN tasks) \ Left' : result[x] \in Done
  BY <1>3, <1>5 DEF OrderOK
<1>8. \A i, j \in DOMAIN layers' : \A x \in layers'[i] \intersect layers'[j] : i = j
  <2> SUFFICES ASSUME NEW i \in DOMAIN layers', NEW j \in DOMAIN layers', NEW x \in layers'[i] \intersect layers'[j]
               PROVE  i = j
    OBVIOUS
  <2>1. i + 1 = j + 1
    BY <1>2 DEF OrderOK
  <2>2. i \in Int /\ j \in Int
    BY <1>2
  <2>3. QED
    BY <2>1, <2>2
<1>9. \A i, j \in DOMAIN layers' : \A x \in layers'[i] : \A d \in tasks[x].deps \intersect layers'[j] : j < i
  <2> SUFFICES ASSUME NEW i \in DOMAIN layers', NEW j \in DOMAIN layers', NEW x \in layers'[i],
                      NEW d \in tasks[x].deps \intersect layers'[j]
               PROVE  j < i
    OBVIOUS
  <2>1. j + 1 < i + 1
    BY <1>2 DEF OrderOK
  <2>2. i \in Int /\ j \in Int
    BY <1>2
  <2>3. QED
    BY <2>1, <2>2
<1>10. \A i \in DOMAIN layers' : \A x \in layers'[i] : result[x] = "waiting"
  BY <1>2 DEF OrderOK
<1>11. \A x \in DOMAIN tasks : result[x] # "waiting" =>
         \A d \in tasks[x].deps : d \notin Left' /\ (result[d] = "ok" => d \in saw[x])
  BY <1>5 DEF OrderOK
<1>12. OrderOK'
  BY <1>2, <1>3, <1>6, <1>7, <1>8, <1>9, <1>10, <1>11 DEF OrderOK
<1>13. QED
  BY <1>1, <1>5, <1>12

-----------------------------------------------------------------------------
(* Swarm: the bill. *)

\* Answered, and not added to the cost yet.
Unbilled == {x \in Left : result[x] \in {"ok", "empty"}}

BillOK ==
  /\ cost \in Nat /\ spent \in Nat
  /\ IsFiniteSet(Units(Unbilled)) /\ spent = cost + Cardinality(Units(Unbilled))
  /\ \A x \in DOMAIN tasks : result[x] \in {"running", "ok", "empty"} =>
       EndpointIn(tasks[x].tier) \in Endpoints

LEMMA NoUnits == Units({}) = {}
BY DEF Units

LEMMA UnitsMember ==
  ASSUME NEW S, NEW u
  PROVE  u \in Units(S) <=> \E x \in S : u \in {x} \X (1 .. CostOf(x))
BY DEF Units

LEMMA EndpointKnown ==
  ASSUME NEW tier
  PROVE  EndpointIn(tier) \in Endpoints \union {None}
BY SwarmAssumption DEF EndpointIn, Range

LEMMA DecomposeBill ==
  ASSUME SwarmStage, Decompose
  PROVE  BillOK'
<1>1. cost' = 0 /\ spent' = 0 /\ \A x \in DOMAIN tasks' : result'[x] = "waiting"
  BY DEF Decompose, SwarmStage, Unstarted
<1>2. Unbilled' = {}
  BY <1>1 DEF Unbilled, Left
<1>3. Units(Unbilled)' = {}
  BY <1>2 DEF Units
<1>4. QED
  BY <1>1, <1>3, FS_EmptySet DEF BillOK

LEMMA BeginBill ==
  ASSUME OrderOK, BillOK, pool \subseteq Endpoints, BeginLayer
  PROVE  BillOK'
<1> DEFINE first == Head(layers)
<1>1. \A x \in DOMAIN tasks : result'[x] = IF x \in first THEN Started(x) ELSE result[x]
  BY DEF BeginLayer
<1>2. UNCHANGED <<tasks, layers, cost, spent>> /\ \A x \in first : result[x] = "waiting"
  BY DEF BeginLayer
<1>3. Left' = Left
  BY <1>2 DEF Left
<1>4. \A x : Started(x) \in {"running", "failed"}
  BY DEF Started
<1>5. Unbilled' = Unbilled /\ \A x \in Unbilled : result'[x] = result[x]
  BY <1>1, <1>2, <1>3, <1>4 DEF Unbilled, Left
<1>6. Units(Unbilled)' = Units(Unbilled)
  <2>1. \A x \in Unbilled : CostOf(x)' = CostOf(x)
    BY <1>2, <1>5 DEF CostOf, EndpointIn
  <2>2. QED
    BY <1>5, <2>1 DEF Units
<1>7. ASSUME NEW x \in DOMAIN tasks, result'[x] \in {"running", "ok", "empty"}
      PROVE  EndpointIn(tasks[x].tier) \in Endpoints
  <2>1. CASE x \in first
    <3>1. EndpointIn(tasks[x].tier) # None
      BY <1>1, <1>7, <2>1 DEF Started
    <3>2. QED
      BY <3>1, EndpointKnown
  <2>2. CASE x \notin first
    BY <1>1, <1>7, <2>2 DEF BillOK
  <2>3. QED
    BY <2>1, <2>2
<1>8. QED
  BY <1>2, <1>6, <1>7 DEF BillOK

LEMMA FinishBill ==
  ASSUME OrderOK, BillOK, NEW x, Finish(x)
  PROVE  BillOK'
<1> DEFINE p == Price[EndpointIn(tasks[x].tier)]
           more == {x} \X (1 .. p)
<1>1. PICK end \in {"ok", "empty", "failed"} :
        /\ result' = [result EXCEPT ![x] = end]
        /\ spent' = IF end = "failed" THEN spent ELSE spent + p
  BY DEF Finish
<1>2. x \in DOMAIN tasks /\ result[x] = "running" /\ x \in Left
  BY FinishOrder DEF Finish, OrderOK
<1>3. UNCHANGED <<tasks, layers, cost>> /\ Left' = Left
  BY DEF Finish, Left
<1>4. \A y \in DOMAIN tasks : result'[y] = IF y = x THEN end ELSE result[y]
  BY <1>1 DEF OrderOK
<1>5. Left \subseteq DOMAIN tasks /\ x \notin Unbilled
  BY <1>2 DEF Left, Unbilled
<1>6. \A y \in Unbilled : y # x /\ CostOf(y)' = CostOf(y)
  BY <1>3, <1>4, <1>5 DEF CostOf, EndpointIn, Unbilled
<1>7. \A y \in DOMAIN tasks : result'[y] \in {"running", "ok", "empty"} =>
        EndpointIn(tasks[y].tier) \in Endpoints
  BY <1>2, <1>4 DEF BillOK
<1>8. p \in Nat
  BY <1>2, SwarmAssumption DEF BillOK
<1>9. CASE end = "failed"
  <2>1. Unbilled' = Unbilled
    BY <1>2, <1>3, <1>4, <1>5, <1>9 DEF Unbilled
  <2>2. Units(Unbilled)' = Units(Unbilled)
    BY <1>6, <2>1 DEF Units
  <2>3. QED
    BY <1>1, <1>3, <1>7, <1>9, <2>2 DEF BillOK
<1>10. CASE end # "failed"
  <2>1. Unbilled' = Unbilled \union {x}
    BY <1>2, <1>3, <1>4, <1>5, <1>10 DEF Unbilled
  <2>2. CostOf(x)' = p
    BY <1>2, <1>3, <1>4, <1>10 DEF CostOf, EndpointIn
  <2>3. Units(Unbilled)' = Units(Unbilled) \union more
    BY <1>6, <2>1, <2>2 DEF Units
  <2>4. Units(Unbilled) \intersect more = {}
    BY <1>6, UnitsMember
  <2>5. IsFiniteSet(more) /\ Cardinality(more) = p
    <3>1. IsFiniteSet({x}) /\ Cardinality({x}) = 1
      BY FS_Singleton
    <3>2. IsFiniteSet(1 .. p) /\ Cardinality(1 .. p) = p
      <4>1. 1 \in Int /\ p \in Int
        BY <1>8
      <4> HIDE DEF p
      <4>2. IsFiniteSet(1 .. p) /\ Cardinality(1 .. p) = IF 1 > p THEN 0 ELSE p - 1 + 1
        BY <4>1, FS_Interval
      <4>3. p \in Nat
        BY <1>8 DEF p
      <4>4. QED
        BY <4>2, <4>3
    <3>3. IsFiniteSet(more) /\ Cardinality(more) = Cardinality({x}) * Cardinality(1 .. p)
      BY <3>1, <3>2, FS_Product
    <3> HIDE DEF p, more
    <3>4. p \in Nat
      BY <1>8 DEF p
    <3>5. QED
      BY <3>1, <3>2, <3>3, <3>4
  <2> DEFINE bill == Units(Unbilled)
             bill2 == bill \union more
  <2>6. IsFiniteSet(bill) /\ Cardinality(bill) \in Nat
    BY FS_CardinalityType DEF BillOK
  <2> HIDE DEF more, p
  <2>7. IsFiniteSet(bill2) /\ Cardinality(bill2) = Cardinality(bill) + Cardinality(more) - Cardinality(bill \intersect more)
    BY <2>5, <2>6, FS_Union
  <2>8. Cardinality(bill \intersect more) = 0
    BY <2>4, FS_EmptySet
  <2> HIDE DEF bill, bill2
  <2>9. p \in Nat
    BY <1>8 DEF p
  <2>10. Cardinality(bill2) = Cardinality(bill) + p
    BY <2>5, <2>6, <2>7, <2>8, <2>9
  <2>11. spent' = spent + p
    BY <1>1, <1>10 DEF p
  <2>12. spent = cost + Cardinality(bill) /\ cost \in Nat
    BY DEF BillOK, bill
  <2>13. spent' \in Nat /\ spent' = cost' + Cardinality(bill2)
    BY <1>3, <2>6, <2>9, <2>10, <2>11, <2>12
  <2>14. Units(Unbilled)' = bill2
    BY <2>3 DEF bill, bill2
  <2>15. cost' \in Nat
    BY <1>3, <2>12
  <2>16. QED
    BY <1>3, <1>7, <2>7, <2>13, <2>14, <2>15 DEF BillOK
<1>11. QED
  BY <1>9, <1>10

LEMMA EndBill ==
  ASSUME OrderOK, BillOK, EndLayer
  PROVE  BillOK'
<1> DEFINE first == Head(layers)
<1>1. first = layers[1] /\ 1 \in DOMAIN layers /\ first \subseteq Left
  BY DEF OrderOK, EndLayer, Left
<1>2. UNCHANGED <<tasks, result, spent>> /\ cost' = cost + Cardinality(Units(first))
      /\ \A x \in first : result[x] \in Done
  BY DEF EndLayer, Done
<1>3. \A x \in Left \ first : result[x] = "waiting"
  BY <1>1 DEF OrderOK, Left
<1>4. Unbilled = {x \in first : result[x] # "failed"}
  BY <1>1, <1>2, <1>3 DEF Unbilled, Done
<1>5. \A x \in first : result[x] = "failed" => 1 .. CostOf(x) = {}
  BY DEF CostOf
<1>6. Units(first) = Units(Unbilled)
  <2>1. ASSUME NEW u PROVE u \in Units(first) <=> u \in Units(Unbilled)
    BY <1>4, <1>5, UnitsMember
  <2>2. QED
    BY <2>1
<1>7. Unbilled' = {}
  <2>1. Left' = Left \ first
    BY EndOrder
  <2>2. QED
    BY <1>2, <1>3, <2>1 DEF Unbilled
<1>8. Units(Unbilled)' = {}
  BY <1>7 DEF Units
<1>9. cost' = spent
  BY <1>2, <1>6 DEF BillOK
<1>10. cost' \in Nat /\ spent' \in Nat /\ spent' = cost' + 0
  BY <1>2, <1>9 DEF BillOK
<1>11. QED
  BY <1>2, <1>8, <1>10, FS_EmptySet DEF BillOK

LEMMA SynthesizeBill ==
  ASSUME SwarmStage, BillOK, pool \subseteq Endpoints, Synthesize
  PROVE  BillOK'
<1>1. PICK paid \in Nat : cost' = cost + paid /\ spent' = spent + paid
  BY SwarmAssumption DEF Synthesize
<1>2. UNCHANGED <<tasks, layers, result>>
  BY DEF Synthesize
<1>3. Units(Unbilled)' = Units(Unbilled)
  BY <1>2 DEF Units, Unbilled, Left, CostOf, EndpointIn
<1> DEFINE n == Cardinality(Units(Unbilled))
<1>4. n \in Nat /\ cost \in Nat /\ spent \in Nat /\ spent = cost + n
  BY FS_CardinalityType DEF BillOK
<1>5. Cardinality(Units(Unbilled)') = n
  BY <1>3
<1> HIDE DEF n
<1>6. cost' \in Nat /\ spent' \in Nat /\ spent' = cost' + n
  BY <1>1, <1>4
<1>7. QED
  BY <1>2, <1>3, <1>5, <1>6 DEF BillOK, EndpointIn

LEMMA SameBill == BillOK /\ UNCHANGED <<tasks, layers, result, cost, spent>> => BillOK'
<1> SUFFICES ASSUME BillOK, UNCHANGED <<tasks, layers, result, cost, spent>> PROVE BillOK'
  OBVIOUS
<1>1. Units(Unbilled)' = Units(Unbilled)
  BY DEF Units, Unbilled, Left, CostOf, EndpointIn
<1>2. QED
  BY <1>1 DEF BillOK, EndpointIn

-----------------------------------------------------------------------------
(* Swarm: all of it. *)

SwarmBooked ==
  path = "swarm" /\ stage = "ended" /\ outcome \in {"ok", "aborted"} => charged = cost

SwarmInv == SwarmStage /\ OrderOK /\ BillOK /\ SwarmBooked /\ pool \subseteq Endpoints

\* The steps of the others, and of the handler.
LEMMA HandlerSwarm ==
  ASSUME SwarmInv, UNCHANGED swarmVars, SwarmStage', SwarmBooked'
  PROVE  SwarmInv'
<1>1. OrderOK'
  BY SameOrder DEF swarmVars, SwarmInv
<1>2. BillOK'
  BY SameBill DEF swarmVars, SwarmInv
<1>3. QED
  BY <1>1, <1>2 DEF SwarmInv, swarmVars

LEMMA HandlerStage ==
  ASSUME SwarmInv, Rejected \/ Choose \/ Reserve \/ Refuse \/ Settle
  PROVE  SwarmInv'
<1>1. UNCHANGED swarmVars
  BY DEF Rejected, Choose, Reserve, Refuse, Settle
<1>2. UNCHANGED layers /\ (Unstarted => Unstarted')
  BY <1>1 DEF swarmVars, Unstarted
<1>3. SwarmStage' /\ SwarmBooked'
  <2>1. CASE Rejected
    BY <1>2, <2>1 DEF Rejected, SwarmInv, SwarmStage, SwarmBooked
  <2>2. CASE Choose
    BY <1>2, <2>2 DEF Choose, SwarmInv, SwarmStage, SwarmBooked
  <2>3. CASE Reserve
    BY <1>2, <2>3 DEF Reserve, Go, SwarmInv, SwarmStage, SwarmBooked
  <2>4. CASE Refuse
    BY <1>2, <2>4 DEF Refuse, SwarmInv, SwarmStage, SwarmBooked
  <2>5. CASE Settle
    <3>1. SwarmStage'
      BY <1>2, <2>5 DEF Settle, SwarmInv, SwarmStage
    <3>2. path = "swarm" => charged' = SwarmCharge
      BY <2>5 DEF Settle
    <3>3. SwarmBooked'
      BY <1>1, <2>5, <3>2 DEF Settle, SwarmCharge, SwarmBooked, swarmVars
    <3>4. QED
      BY <3>1, <3>3
  <2>6. QED
    BY <2>1, <2>2, <2>3, <2>4, <2>5
<1>4. QED
  BY <1>1, <1>3, HandlerSwarm

LEMMA OthersSwarm ==
  ASSUME SwarmInv, UNCHANGED swarmVars,
         \/ Answer \/ Close \/ Break \/ Unprepared \/ \E n \in 1 .. MaxChunk : Receive(n)
  PROVE  SwarmInv'
<1>1. UNCHANGED layers /\ (Unstarted => Unstarted')
  BY DEF swarmVars, Unstarted
<1>2. /\ path \in {"whole", "stream"} /\ UNCHANGED <<req, path>>
      /\ stage' \in {"settling", "streaming", "opening", "ended"}
      /\ stage \in {"opening", "streaming"}
  <2>1. CASE Answer
    BY <2>1 DEF Answer, End
  <2>2. CASE Close
    BY <2>2 DEF Close, End, Fails
  <2>3. CASE Break
    BY <2>3 DEF Break, End, Fails
  <2>4. CASE \E n \in 1 .. MaxChunk : Receive(n)
    BY <2>4 DEF Receive, End, Go, reply
  <2>5. CASE Unprepared
    BY <2>5 DEF Unprepared
  <2>6. QED
    BY <2>1, <2>2, <2>3, <2>4, <2>5
<1>3. layers = <<>>
  BY <1>2 DEF SwarmInv, SwarmStage, Unstarted
<1>4. SwarmStage' /\ SwarmBooked'
  BY <1>1, <1>2, <1>3 DEF SwarmInv, SwarmStage, SwarmBooked
<1>5. QED
  BY <1>4, HandlerSwarm

LEMMA RunSwarm ==
  ASSUME SwarmInv, Decompose \/ BeginLayer \/ EndLayer \/ Synthesize
                   \/ (\E x \in DOMAIN tasks : Finish(x))
  PROVE  SwarmInv'
<1>1. CASE Decompose
  <2>1. SwarmStage' /\ SwarmBooked' /\ UNCHANGED pool
    BY <1>1 DEF Decompose, Go, SwarmInv, SwarmStage, SwarmBooked
  <2>2. QED
    BY <1>1, <2>1, DecomposeOrder, DecomposeBill DEF SwarmInv
<1>2. CASE BeginLayer
  <2>1. SwarmStage' /\ SwarmBooked' /\ UNCHANGED pool
    BY <1>2 DEF BeginLayer, End, reply, SwarmInv, SwarmStage, SwarmBooked
  <2>2. QED
    BY <1>2, <2>1, BeginOrder, BeginBill DEF SwarmInv
<1>3. CASE EndLayer
  <2>1. SwarmStage' /\ SwarmBooked' /\ UNCHANGED pool
    BY <1>3 DEF EndLayer, End, Go, reply, SwarmInv, SwarmStage, SwarmBooked
  <2>2. QED
    BY <1>3, <2>1, EndOrder, EndBill DEF SwarmInv
<1>4. CASE Synthesize
  <2>1. SwarmStage' /\ SwarmBooked' /\ UNCHANGED <<tasks, layers, result, outputs, saw, pool>>
    BY <1>4 DEF Synthesize, End, SwarmInv, SwarmStage, SwarmBooked
  <2>2. OrderOK'
    BY <2>1, SameOrder DEF SwarmInv
  <2>3. BillOK'
    BY <1>4, SynthesizeBill DEF SwarmInv
  <2>4. QED
    BY <2>1, <2>2, <2>3 DEF SwarmInv
<1>5. ASSUME NEW x \in DOMAIN tasks, Finish(x) PROVE SwarmInv'
  <2>1. UNCHANGED <<reply, layers, cost, pool>> /\ x \in DOMAIN result
    BY <1>5 DEF Finish
  <2>2. ~Unstarted
    BY <2>1 DEF Unstarted
  <2>3. SwarmStage' /\ SwarmBooked'
    BY <2>1, <2>2 DEF reply, SwarmInv, SwarmStage, SwarmBooked
  <2>4. OrderOK' /\ BillOK'
    BY <1>5, FinishOrder, FinishBill DEF SwarmInv
  <2>5. QED
    BY <2>1, <2>3, <2>4 DEF SwarmInv
<1>6. QED
  BY <1>1, <1>2, <1>3, <1>4, <1>5

LEMMA RebuildSwarm ==
  ASSUME SwarmInv, Rebuild
  PROVE  SwarmInv'
<1>1. UNCHANGED <<reply, tasks, layers, result, outputs, saw, cost, spent>> /\ pool' \subseteq Endpoints
  BY DEF Rebuild
<1>2. SwarmStage' /\ SwarmBooked'
  BY <1>1 DEF reply, SwarmInv, SwarmStage, SwarmBooked, Unstarted
<1>3. OrderOK' /\ BillOK'
  BY <1>1, SameOrder, SameBill DEF SwarmInv
<1>4. QED
  BY <1>1, <1>2, <1>3 DEF SwarmInv

LEMMA SwarmNext == SwarmInv /\ [ResponsesNext]_responses => SwarmInv'
<1> SUFFICES ASSUME SwarmInv, [ResponsesNext]_responses PROVE SwarmInv'
  OBVIOUS
<1>1. CASE UNCHANGED responses
  <2>1. UNCHANGED reply /\ UNCHANGED swarmVars
    BY <1>1 DEF responses
  <2>2. SwarmStage' /\ SwarmBooked'
    BY <2>1 DEF reply, swarmVars, SwarmInv, SwarmStage, SwarmBooked, Unstarted
  <2>3. QED
    BY <2>1, <2>2, HandlerSwarm
<1>2. CASE Work
  BY <1>2, RunSwarm, OthersSwarm DEF Work
<1>3. QED
  BY <1>1, <1>2, HandlerStage, RebuildSwarm DEF ResponsesNext

LEMMA SwarmBegins == ResponsesInit => SwarmInv
<1> SUFFICES ASSUME ResponsesInit PROVE SwarmInv
  OBVIOUS
<1>1. Unstarted /\ pool = Endpoints
  BY DEF ResponsesInit, SwarmInit, Unstarted
<1>2. OrderOK
  BY <1>1, UnstartedOrder
<1>3. SwarmStage /\ SwarmBooked
  BY <1>1 DEF ResponsesInit, SwarmStage, SwarmBooked
<1>4. Units(Unbilled) = {}
  BY <1>1 DEF Unbilled, Left, Unstarted, Units
<1>5. BillOK
  BY <1>1, <1>4, FS_EmptySet DEF BillOK, Unstarted
<1>6. QED
  BY <1>1, <1>2, <1>3, <1>5 DEF SwarmInv

LEMMA SwarmOrder == SwarmInv => InDependencyOrder
<1> SUFFICES ASSUME SwarmInv PROVE InDependencyOrder
  OBVIOUS
<1>1. SwarmTypeOK
  BY DEF SwarmInv, OrderOK, BillOK, SwarmTypeOK
<1>2. ASSUME NEW x \in DOMAIN tasks, result[x] # "waiting", NEW d \in tasks[x].deps
      PROVE  result[d] \in Done /\ (result[d] = "ok" => d \in saw[x])
  BY <1>2 DEF SwarmInv, OrderOK
<1>3. stage = "synthesis" => outputs = {x \in DOMAIN tasks : result[x] = "ok"}
  BY DEF SwarmInv, SwarmStage, OrderOK, Left
<1>4. QED
  BY <1>1, <1>2, <1>3 DEF InDependencyOrder, Done

LEMMA SwarmBill == SwarmInv => SwarmCharged
<1> SUFFICES ASSUME SwarmInv, path = "swarm", stage = "ended", outcome \in {"ok", "aborted"}
             PROVE  charged = spent
  BY DEF SwarmCharged
<1>1. layers = <<>> /\ charged = cost
  BY DEF SwarmInv, SwarmStage, SwarmBooked
<1>2. Units(Unbilled) = {}
  BY <1>1 DEF Unbilled, Left, Units
<1>3. QED
  BY <1>1, <1>2, FS_EmptySet DEF SwarmInv, BillOK

-----------------------------------------------------------------------------
(* Stream: the usage. *)

\* Usages that have begun to arrive.
Usages == {i \in 1 .. (pos + 1) \div 2 : Events[i].type = "usage"}

UsageOK ==
  /\ usage = None \/ Usages # {}
  /\ \A i \in Usages \ cuts : Usages = {i} => usage = Events[i].tokens

StreamInv ==
  /\ req \in Inputs /\ pos \in Nat
  /\ stage = "idle" => path = "none"
  /\ path = "none" => pos = 0 /\ usage = None
  /\ path = "stream" =>
       /\ pos <= 2 * Len(Events)
       /\ pos % 2 = 1 => (pos + 1) \div 2 \in cuts
       /\ Raw => UsageOK
       /\ stage = "settling" => outcome # "lost" /\ (outcome # "ok" \/ Raw \/ usage = Told)
       /\ stage = "ended" =>
            /\ outcome # "ok" \/ Raw \/ usage = Told
            /\ charged = IF outcome = "lost" THEN EstimatedCharge ELSE StreamCharge

LEMMA EventsKnown ==
  ASSUME req \in Inputs
  PROVE  /\ Len(Events) \in Nat /\ DOMAIN Events = 1 .. Len(Events)
         /\ \A i \in DOMAIN Events : Events[i].tokens # None
<1> DEFINE Event == [type : EventTypes, reason : STRING \union {None}, tokens : Nat \ {None}]
<1>1. Events \in Seq(Event)
  BY InputsAssumption DEF Events
<1>2. \A e \in Event : e.tokens # None
  OBVIOUS
<1> HIDE DEF Event
<1>3. Len(Events) \in Nat /\ DOMAIN Events = 1 .. Len(Events)
  BY <1>1
<1>4. \A i \in 1 .. Len(Events) : Events[i] \in Event
  BY <1>1
<1>5. QED
  BY <1>2, <1>3, <1>4

LEMMA MatchesNone ==
  ASSUME NEW from \in Nat, NEW to \in Nat,
         \A i \in DOMAIN Events : ~(Events[i].type = "usage" /\ from < 2 * i /\ 2 * i - 2 < to)
  PROVE  Extracted(from, to) = {usage}
<1>1. Matches("usage", from, to) = {0}
  BY DEF Matches
<1>2. QED
  BY <1>1 DEF Extracted

LEMMA MatchesOne ==
  ASSUME NEW from \in Nat, NEW to \in Nat, NEW i \in DOMAIN Events, i \in Nat \ {0},
         from <= 2 * i - 2, 2 * i <= to, Events[i].type = "usage",
         \A j \in DOMAIN Events :
           Events[j].type = "usage" /\ from < 2 * j /\ 2 * j - 2 < to => j = i
  PROVE  Extracted(from, to) = {Events[i].tokens}
<1> DEFINE here == {j \in DOMAIN Events : Events[j].type = "usage" /\ from < 2 * j /\ 2 * j - 2 < to}
           whole == {j \in here : from <= 2 * j - 2 /\ 2 * j <= to}
<1>1. here = {i} /\ whole = {i}
  <2>1. from < 2 * i /\ 2 * i - 2 < to
    OBVIOUS
  <2>2. QED
    BY <2>1
<1>2. Min({i}) = i
  BY DEF Min
<1>3. Matches("usage", from, to) = {IF S = {} THEN 0 ELSE Min(S) : S \in {whole \union more : more \in SUBSET (here \ whole)}}
  BY DEF Matches
<1> HIDE DEF here, whole
<1>4. {whole \union more : more \in SUBSET (here \ whole)} = {{i}}
  <2>1. here \ whole = {} /\ SUBSET {} = {{}}
    BY <1>1
  <2>2. {whole \union more : more \in SUBSET (here \ whole)} = {whole \union {}}
    BY <2>1
  <2>3. whole \union {} = {i}
    BY <1>1
  <2>4. QED
    BY <2>2, <2>3
<1>5. Matches("usage", from, to) = {i}
  BY <1>2, <1>3, <1>4
<1>6. i # 0 /\ ~(to = 2 * i - 1)
  OBVIOUS
<1>7. QED
  BY <1>5, <1>6 DEF Extracted

LEMMA ReceiveUsage ==
  ASSUME StreamInv, NEW n \in 1 .. MaxChunk, Receive(n)
  PROVE  StreamInv'
<1> DEFINE to == pos + n
<1>1. n \in Nat /\ n > 0
  BY StreamAssumption
<1>2. /\ path = "stream" /\ to <= 2 * Len(Events) /\ pos' = to /\ stage \in {"opening", "streaming"}
      /\ cuts' = IF to % 2 = 1 THEN cuts \union {(to + 1) \div 2} ELSE cuts
      /\ Raw => usage' \in Extracted(pos, to)
  BY DEF Receive
<1>3. UNCHANGED <<req, path>> /\ (stage' = "settling" => outcome' \notin {"ok", "lost"})
      /\ stage' \in {"settling", "streaming", "opening"}
  BY <1>2 DEF Receive, End, Go, reply
<1>4. pos \in Nat /\ to \in Nat
  BY <1>1 DEF StreamInv
<1>5. pos' % 2 = 1 => (pos' + 1) \div 2 \in cuts'
  BY <1>2
<1>6. ASSUME Raw PROVE UsageOK'
  <2> DEFINE old == Usages
             new == {i \in 1 .. (to + 1) \div 2 : Events[i].type = "usage"}
  <2>1. Usages' = new /\ UNCHANGED Events
    BY <1>2, <1>3 DEF Usages, Events
  <2>2. DOMAIN Events = 1 .. Len(Events) /\ Len(Events) \in Nat
    BY EventsKnown DEF StreamInv
  <2>3. \A i \in DOMAIN Events : 2 * i - 2 < to <=> i \in 1 .. (to + 1) \div 2
    BY <1>4, <2>2
  <2>4. \A i \in DOMAIN Events : 2 * i - 2 < pos <=> i \in 1 .. (pos + 1) \div 2
    BY <1>4, <2>2
  <2>5. 1 .. (to + 1) \div 2 \subseteq DOMAIN Events
    BY <1>2, <1>4, <2>2
  <2>6. old \subseteq new
    <3>1. (pos + 1) \div 2 <= (to + 1) \div 2
      BY <1>1, <1>4
    <3>2. QED
      BY <1>1, <1>4, <3>1 DEF Usages
  <2>7. UsageOK /\ cuts \subseteq cuts'
    BY <1>2, <1>6 DEF StreamInv
  <2> HIDE DEF new
  <2>8. CASE new = {}
    <3>1. \A i \in DOMAIN Events : ~(Events[i].type = "usage" /\ pos < 2 * i /\ 2 * i - 2 < to)
      BY <2>3, <2>8 DEF new
    <3>2. usage' = usage
      BY <1>2, <1>4, <1>6, <3>1, MatchesNone
    <3>3. QED
      BY <2>1, <2>6, <2>7, <2>8, <3>2 DEF UsageOK
  <2>9. ASSUME NEW i \in new \ cuts', new = {i} PROVE usage' = Events[i].tokens
    <3>1. i \in DOMAIN Events /\ i \in 1 .. (to + 1) \div 2 /\ i \in Nat \ {0} /\ Events[i].type = "usage"
      BY <2>2, <2>5 DEF new
    <3>2. \A j \in DOMAIN Events : Events[j].type = "usage" /\ 2 * j - 2 < to => j = i
      BY <2>3, <2>9 DEF new
    <3>3. CASE i \in old
      <4>1. usage = Events[i].tokens
        BY <2>6, <2>7, <2>9, <3>3 DEF UsageOK
      <4>2. i \in 1 .. (pos + 1) \div 2 /\ i \notin cuts
        BY <2>7, <2>9, <3>3 DEF Usages
      <4>3. ~(pos < 2 * i)
        <5>1. SUFFICES ASSUME pos < 2 * i PROVE FALSE
          OBVIOUS
        <5>2. pos % 2 = 1 /\ (pos + 1) \div 2 = i
          BY <1>4, <3>1, <4>2, <5>1
        <5>3. QED
          BY <1>2, <4>2, <5>2 DEF StreamInv
      <4>4. Extracted(pos, to) = {usage}
        BY <1>4, <3>2, <4>3, MatchesNone
      <4>5. QED
        BY <1>2, <1>6, <4>1, <4>4
    <3>4. CASE i \notin old
      <4>1. pos <= 2 * i - 2
        BY <1>4, <2>4, <3>1, <3>4 DEF Usages
      <4>2. 2 * i <= to
        <5>1. SUFFICES ASSUME to < 2 * i PROVE FALSE
          BY <1>4, <3>1
        <5>2. to % 2 = 1 /\ (to + 1) \div 2 = i
          BY <1>4, <3>1, <5>1
        <5>3. QED
          BY <1>2, <2>9, <5>2
      <4>3. Extracted(pos, to) = {Events[i].tokens}
        BY <1>4, <3>1, <3>2, <4>1, <4>2, MatchesOne
      <4>4. QED
        BY <1>2, <1>6, <4>3
    <3>5. QED
      BY <3>3, <3>4
  <2>10. QED
    BY <2>1, <2>8, <2>9 DEF UsageOK
<1>7. Raw' = Raw /\ Len(Events)' = Len(Events)
  BY <1>3 DEF Raw, Events
<1>8. QED
  BY <1>2, <1>3, <1>4, <1>5, <1>6, <1>7 DEF StreamInv

LEMMA CloseUsage ==
  ASSUME StreamInv, Close
  PROVE  StreamInv'
<1>1. /\ UNCHANGED <<req, path, pos, cuts>> /\ path = "stream" /\ stage' = "settling"
      /\ outcome' # "lost" /\ (outcome' # "ok" \/ Raw \/ usage' = Told)
      /\ Raw => usage' = usage
  BY DEF Close, Fails, End
<1>2. UNCHANGED <<Events, Raw, Told>>
  BY <1>1 DEF Events, Raw, Told, Sent
<1>3. Raw /\ UsageOK => UsageOK'
  BY <1>1, <1>2 DEF UsageOK, Usages
<1>4. QED
  BY <1>1, <1>2, <1>3 DEF StreamInv

LEMMA SettleUsage ==
  ASSUME StreamInv, Settle
  PROVE  StreamInv'
<1>1. /\ UNCHANGED <<req, path, outcome, streamVars>> /\ stage = "settling" /\ stage' = "ended"
      /\ path = "stream" => charged' = StreamCharge
  BY DEF Settle
<1>2. UNCHANGED <<Events, Raw, Told, StreamCharge>>
  BY <1>1 DEF Events, Raw, Told, Sent, StreamCharge, streamVars
<1>3. UsageOK => UsageOK'
  BY <1>1, <1>2 DEF UsageOK, Usages, streamVars
<1>4. QED
  BY <1>1, <1>2, <1>3 DEF StreamInv, streamVars

\* What becomes of the request before its stream begins, and when it breaks.
LEMMA HandlerUsage ==
  ASSUME StreamInv, Rejected \/ Choose \/ Reserve \/ Refuse \/ Break \/ Unprepared
  PROVE  StreamInv'
<1>1. UNCHANGED <<req, streamVars>> /\ stage' # "idle"
  BY DEF Rejected, Choose, Reserve, Refuse, Break, Unprepared, Fails, End, Go
<1>2. UNCHANGED <<Events, Raw, Told>>
  BY <1>1 DEF Events, Raw, Told, Sent, streamVars
<1>3. UsageOK => UsageOK'
  BY <1>1, <1>2 DEF UsageOK, Usages, streamVars
<1>4. CASE Choose
  <2>1. pos = 0 /\ usage = None /\ stage' = "reserving" /\ path' # "none"
    BY <1>4 DEF Choose, StreamInv
  <2>2. UsageOK'
    BY <1>1, <2>1 DEF UsageOK, Usages, streamVars
  <2>3. pos <= 2 * Len(Events) /\ pos % 2 = 0
    BY <2>1, EventsKnown DEF StreamInv
  <2>4. QED
    BY <1>1, <1>2, <2>1, <2>2, <2>3 DEF StreamInv, streamVars
<1>5. CASE Refuse \/ Rejected
  <2>1. UNCHANGED path /\ stage' = "ended" /\ outcome' = "refused" /\ charged' = 0
    BY <1>5 DEF Refuse, Rejected
  <2>2. StreamCharge' = 0
    BY <2>1 DEF StreamCharge
  <2>3. QED
    BY <1>1, <1>2, <1>3, <2>1, <2>2 DEF StreamInv, streamVars
<1>6. CASE Reserve \/ Break
  <2>1. UNCHANGED path /\ stage' # "ended" /\ (stage' = "settling" => outcome' \notin {"ok", "lost"})
    BY <1>6 DEF Reserve, Break, Fails, End, Go
  <2>2. QED
    BY <1>1, <1>2, <1>3, <2>1 DEF StreamInv, streamVars
<1>7. CASE Unprepared
  <2>1. UNCHANGED path /\ stage' = "ended" /\ outcome' = "lost" /\ charged' = EstimatedCharge
    BY <1>7 DEF Unprepared
  <2>2. QED
    BY <1>1, <1>2, <1>3, <2>1 DEF StreamInv, streamVars
<1>8. QED
  BY <1>4, <1>5, <1>6, <1>7

\* The swarm, an answer in one piece and a step of nothing.
LEMMA OtherUsage ==
  ASSUME StreamInv, UNCHANGED <<req, path, streamVars>>,
         UNCHANGED reply \/ (path # "stream" /\ stage' # "idle")
  PROVE  StreamInv'
<1>1. UNCHANGED <<Events, Raw, Told>>
  BY DEF Events, Raw, Told, Sent, streamVars
<1>2. UsageOK => UsageOK'
  BY <1>1 DEF UsageOK, Usages, streamVars
<1>3. CASE UNCHANGED reply
  <2>1. UNCHANGED StreamCharge
    BY <1>3 DEF StreamCharge, reply, streamVars
  <2>2. QED
    BY <1>1, <1>2, <1>3, <2>1 DEF StreamInv, reply, streamVars
<1>4. CASE path # "stream" /\ stage' # "idle"
  BY <1>4 DEF StreamInv, streamVars
<1>5. QED
  BY <1>3, <1>4

LEMMA StreamNext == StreamInv /\ [ResponsesNext]_responses => StreamInv'
<1> SUFFICES ASSUME StreamInv, [ResponsesNext]_responses PROVE StreamInv'
  OBVIOUS
<1>1. CASE UNCHANGED responses
  BY <1>1, OtherUsage DEF responses, reply
<1>2. CASE Work
  <2>1. CASE Decompose \/ BeginLayer \/ EndLayer \/ Synthesize \/ \E x \in DOMAIN tasks : Finish(x)
    <3>1. UNCHANGED streamVars
      BY <1>2, <2>1 DEF Work, Close, Break, Unprepared, Receive, Answer, Decompose, BeginLayer, EndLayer, Synthesize, Finish
    <3>2. path = "swarm" /\ UNCHANGED <<req, path>> /\ (stage' # "idle" \/ UNCHANGED reply)
      BY <2>1 DEF Decompose, BeginLayer, EndLayer, Synthesize, Finish, End, Go, reply
    <3>3. QED
      BY <3>1, <3>2, OtherUsage
  <2>2. CASE Answer /\ UNCHANGED streamVars
    <3>1. path = "whole" /\ UNCHANGED <<req, path>> /\ stage' = "settling"
      BY <2>2 DEF Answer, End
    <3>2. QED
      BY <2>2, <3>1, OtherUsage
  <2>3. CASE Close \/ Break \/ Unprepared \/ \E n \in 1 .. MaxChunk : Receive(n)
    BY <2>3, CloseUsage, HandlerUsage, ReceiveUsage
  <2>4. QED
    BY <1>2, <2>1, <2>2, <2>3 DEF Work
<1>3. CASE Rebuild /\ UNCHANGED streamVars
  BY <1>3, OtherUsage DEF Rebuild, reply
<1>4. QED
  BY <1>1, <1>2, <1>3, HandlerUsage, SettleUsage DEF ResponsesNext

LEMMA StreamBegins == ResponsesInit => StreamInv
BY DEF ResponsesInit, StreamInit, StreamInv

LEMMA StreamBill == StreamInv => StreamCharged
<1> SUFFICES ASSUME StreamInv, path = "stream", stage = "ended" PROVE StreamCharged
  BY DEF StreamCharged
<1>1. /\ charged = IF outcome = "lost" THEN EstimatedCharge ELSE StreamCharge
      /\ outcome # "ok" \/ Raw \/ usage = Told
      /\ Raw => UsageOK
      /\ pos \in Nat /\ pos <= 2 * Len(Events)
  BY DEF StreamInv
<1>2. Usages = {i \in 1 .. (pos + 1) \div 2 : req.events[i].type = "usage"}
  BY DEF Usages, Events
<1>3. \A i \in Usages : Events[i].tokens # None
  <2>1. 1 .. (pos + 1) \div 2 \subseteq DOMAIN Events
    BY <1>1, EventsKnown DEF StreamInv
  <2>2. QED
    BY <2>1, EventsKnown DEF StreamInv, Usages
<1>4. /\ outcome \notin {"ok", "lost"} => charged = 0
      /\ outcome = "lost" => charged = EstimatedCharge
  BY <1>1 DEF StreamCharge
<1>5. outcome = "ok" /\ ~Raw => charged = IF Told = None THEN EstimatedCharge ELSE Told
  BY <1>1 DEF StreamCharge
<1>6. outcome = "ok" /\ Raw /\ Usages = {} => charged = EstimatedCharge
  BY <1>1 DEF StreamCharge, UsageOK
<1>7. ASSUME NEW i \in Usages \ cuts, outcome = "ok", Raw, Usages = {i}
      PROVE  charged = req.events[i].tokens
  <2>1. usage = Events[i].tokens
    BY <1>1, <1>7 DEF UsageOK
  <2>2. QED
    BY <1>1, <1>3, <1>7, <2>1 DEF StreamCharge, Events
<1>8. /\ outcome = "ok" /\ req.kind = "anthropic" =>
           charged = IF Sent \in {0, None} THEN EstimatedCharge ELSE Sent
      /\ outcome = "ok" /\ req.kind \in {"ollama", "gemini"} => charged = EstimatedCharge
  <2>1. ASSUME req.kind \in {"anthropic", "ollama", "gemini"} PROVE ~Raw
    BY <2>1 DEF Raw
  <2>2. QED
    BY <1>5, <2>1 DEF Told
<1>9. QED
  BY <1>2, <1>4, <1>6, <1>7, <1>8 DEF StreamCharged

-----------------------------------------------------------------------------
(* Theorems. *)

\* Whatever the planner makes up and whatever the upstream sends in whatever
\* chunks: the swarm's layers follow its dependencies, its bill and the
\* usage found in a stream are those of what was received.
THEOREM ResponsesInvariant == ResponsesSpec => [](SwarmInv /\ StreamInv)
<1>1. ResponsesInit => SwarmInv /\ StreamInv
  BY SwarmBegins, StreamBegins
<1>2. SwarmInv /\ StreamInv /\ [ResponsesNext]_responses => (SwarmInv /\ StreamInv)'
  BY SwarmNext, StreamNext
<1>3. QED
  BY <1>1, <1>2, PTL DEF ResponsesSpec

\* No subtask of a swarm is sent before all it depends on has ended, and none
\* without the outputs of what it depends on (execute_swarm, swarm.py).
THEOREM SubtasksInOrder == ResponsesSpec => []InDependencyOrder
BY ResponsesInvariant, SwarmOrder, PTL

\* A swarm that answers is settled at the price of every call that was
\* answered, and a stream of Anthropic's at the usage its upstream sent (app.py),
\* as is a stream passed on if no chunk cuts it; Ollama's and Gemini's, whose usage
\* the decoders drop, at the estimate, and so one that nobody settles.
THEOREM ChargedAsUsed == ResponsesSpec => []Charged
<1>1. SwarmInv /\ StreamInv => Charged
  BY SwarmBill, StreamBill DEF Charged
<1>2. QED
  BY <1>1, ResponsesInvariant, PTL
=============================================================================
