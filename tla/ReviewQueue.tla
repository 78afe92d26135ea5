---------------------------- MODULE ReviewQueue -----------------------------
(***************************************************************************)
(* The review pipeline that feeds the training pool: the review_queue,     *)
(* review_results, feedback and curated_samples tables of                  *)
(* src/gateway/memory.py, the reviewer worker of src/gateway/reviewer.py   *)
(* and the feedback handler of src/gateway/app.py, in one or more gateway  *)
(* processes on one database, each of which may die between two            *)
(* transactions.                                                           *)
(*                                                                         *)
(* Inside a process the worker and the handler run on one event loop and   *)
(* call the database synchronously: nothing of the process runs between    *)
(* the reviewer's answer and the end of the batch, nor inside a feedback   *)
(* request.  Two processes interleave at every read and commit.            *)
(***************************************************************************)
EXTENDS Naturals, FiniteSetsExt

CONSTANTS
  Processes,      \* gateway processes, each with its reviewer worker
  N,              \* decisions 1 .. N, queued in this order
  BatchSize,      \* reviewer.batch_size
  Truncated,      \* decisions whose prompt does not fit max_prompt_tokens
  Fenced,         \* the reviewer may answer with a JSON array in a code fence
  MaxComplaints,  \* bound: negative feedbacks of a decision
  MaxCrashes      \* bound: crashes

Decisions == 1 .. N

ASSUME ReviewAssumption ==
  /\ N \in Nat \ {0} /\ BatchSize \in Nat \ {0}
  /\ Truncated \subseteq Decisions /\ Fenced \in BOOLEAN
  /\ MaxComplaints \in Nat /\ MaxCrashes \in Nat

VARIABLES
  status,       \* decision -> status of its review_queue row
  stale,        \* decisions in progress for more than 300 seconds
  result,       \* decision -> its review_results row: "none", "stored", "curated"
  samples,      \* decision -> rows of curated_samples
  complaints,   \* decision -> negative rows of feedback
  phase,        \* process -> what its worker does
  batch,        \* process -> decisions its worker still has to settle
  human,        \* process -> store_review_result saw a negative feedback
  handler,      \* process -> where its feedback handler is, and for which decision
  crashes,
  orphaned,     \* history: in progress in a process that died
  interrupted   \* history: complaints whose handler died half-way

queue == <<status, stale>>
worker == <<phase, batch, human>>
history == <<crashes, orphaned, interrupted>>
vars == <<queue, result, samples, complaints, worker, handler, history>>

Statuses == {"none", "pending", "in_progress", "done", "failed", "dropped"}
Phases == {"idle", "asking", "failing", "storing", "committing", "stored", "rejected"}

NoFeedback == <<"idle", 0>>

Init ==
  /\ status = [i \in Decisions |-> "none"] /\ stale = {}
  /\ result = [i \in Decisions |-> "none"]
  /\ samples = [i \in Decisions |-> 0] /\ complaints = [i \in Decisions |-> 0]
  /\ phase = [p \in Processes |-> "idle"] /\ batch = [p \in Processes |-> {}]
  /\ human = [p \in Processes |-> FALSE]
  /\ handler = [p \in Processes |-> NoFeedback]
  /\ crashes = 0 /\ orphaned = {} /\ interrupted = {}

-----------------------------------------------------------------------------
\* enqueue_for_review, after the response: queued, or dropped when the pending
\* count (cached for 10 seconds) has reached max_queue_depth.
Enqueue(i) ==
  /\ status[i] = "none" /\ \A j \in 1 .. i - 1 : status[j] # "none"
  /\ \E s \in {"pending", "dropped"} : status' = [status EXCEPT ![i] = s]
  /\ UNCHANGED <<stale, result, samples, complaints, worker, handler, history>>

\* Mutant: nothing is ever stale enough.
NeverOverdue(due) == {}

\* requeue_stale_reviews, which a tick calls once a minute.
Overdue(due) == IF due THEN {i \in stale : status[i] = "in_progress"} ELSE {}

\* The first n decisions of S, in the order they were queued.
Oldest(S, n) == {i \in S : Cardinality({j \in S : j <= i}) <= n}

\* One tick up to the request to the reviewer: stale items go back to the
\* queue, and unless a spend cap is exhausted the oldest pending ones are
\* taken, one transaction each.
Tick(p, due, capped) ==
  LET requeued == [i \in Decisions |-> IF i \in Overdue(due) THEN "pending" ELSE status[i]]
      pending  == {i \in Decisions : requeued[i] = "pending"}
      taken    == IF capped THEN {} ELSE Oldest(pending, BatchSize)
  IN
  /\ phase[p] = "idle" /\ handler[p] = NoFeedback
  /\ status' = [i \in Decisions |->
                  IF i \in taken THEN "in_progress" ELSE requeued[i]]
  /\ stale' = stale \ Overdue(due)
  /\ batch' = [batch EXCEPT ![p] = taken]
  /\ phase' = [phase EXCEPT ![p] = IF taken = {} THEN "idle" ELSE "asking"]
  /\ orphaned' = orphaned \ (Overdue(due) \union taken)
  /\ UNCHANGED <<result, samples, complaints, human, handler, crashes, interrupted>>

\* The reviewer answers, or does not: an HTTP error, a timeout, a blocked URL,
\* the per-request cap or an answer that is no JSON fail the whole batch.  An
\* answer that parses is padded to the batch, one in a code fence is not.
Answer(p) ==
  /\ phase[p] = "asking" /\ handler[p] = NoFeedback
  /\ \/ phase' = [phase EXCEPT ![p] = "failing"] /\ UNCHANGED batch
     \/ \E kept \in {Oldest(batch[p], n) : n \in 0 .. Cardinality(batch[p])} :
          /\ Fenced \/ kept = batch[p]
          /\ batch' = [batch EXCEPT ![p] = kept]
          /\ phase' = [phase EXCEPT ![p] = IF kept = {} THEN "idle" ELSE "storing"]
  /\ UNCHANGED <<queue, result, samples, complaints, human, handler, history>>

-----------------------------------------------------------------------------
(* Settling the batch, one decision after the other *)

\* The decision the worker settles next.
Current(p) == Min(batch[p])

StartedAtCleared(i) == stale \ {i}

\* complete_review for the first decision of the batch.
Complete(p, s) ==
  LET i == Current(p)
  IN
  /\ status' = [status EXCEPT ![i] = s]
  /\ stale' = StartedAtCleared(i)
  /\ batch' = [batch EXCEPT ![p] = @ \ {i}]
  /\ orphaned' = orphaned \ {i}

FailNext(p) ==
  /\ phase[p] = "failing"
  /\ Complete(p, "failed")
  /\ phase' = [phase EXCEPT ![p] = IF batch[p] = {Current(p)} THEN "idle" ELSE "failing"]
  /\ UNCHANGED <<result, samples, complaints, human, handler, crashes, interrupted>>

\* Labels that _valid_labels refuses, the padding of a short answer among them.
Invalid(p) ==
  /\ phase[p] = "storing"
  /\ Complete(p, "failed")
  /\ phase' = [phase EXCEPT ![p] = IF batch[p] = {Current(p)} THEN "idle" ELSE "storing"]
  /\ UNCHANGED <<result, samples, complaints, human, handler, crashes, interrupted>>

\* store_review_result looks for negative feedback inside its transaction...
Store(p) ==
  /\ phase[p] = "storing"
  /\ human' = [human EXCEPT ![p] = complaints[Current(p)] > 0]
  /\ phase' = [phase EXCEPT ![p] = "committing"]
  /\ UNCHANGED <<queue, result, samples, complaints, batch, handler, history>>

\* Mutant: a human correction counts only when the reviewer agrees.
CuratesAgreement(i, agree, corrected) == agree /\ i \notin Truncated

Curates(i, agree, corrected) == (agree \/ corrected) /\ i \notin Truncated

\* ... and commits the result together with the sample, unless the decision
\* already has a result (decision_id is unique) or the database fails.
Commit(p) ==
  LET i == Current(p)
  IN
  /\ phase[p] = "committing"
  /\ \/ /\ result[i] = "none"
        /\ \E agree \in BOOLEAN :
             IF Curates(i, agree, human[p])
               THEN /\ result' = [result EXCEPT ![i] = "curated"]
                    /\ samples' = [samples EXCEPT ![i] = @ + 1]
               ELSE result' = [result EXCEPT ![i] = "stored"] /\ UNCHANGED samples
        /\ phase' = [phase EXCEPT ![p] = "stored"]
     \/ /\ phase' = [phase EXCEPT ![p] = "rejected"]
        /\ UNCHANGED <<result, samples>>
  /\ human' = [human EXCEPT ![p] = FALSE]
  /\ UNCHANGED <<queue, complaints, batch, handler, history>>

\* Mutant: a result that could not be stored leaves the item as it is.
OutcomeOfSuccessOnly(ph) == IF ph = "stored" THEN "done" ELSE "in_progress"

OutcomeOf(ph) == IF ph = "stored" THEN "done" ELSE "failed"

Finish(p) ==
  /\ phase[p] \in {"stored", "rejected"}
  /\ Complete(p, OutcomeOf(phase[p]))
  /\ phase' = [phase EXCEPT ![p] = IF batch[p] = {Current(p)} THEN "idle" ELSE "storing"]
  /\ UNCHANGED <<result, samples, complaints, human, handler, crashes, interrupted>>

-----------------------------------------------------------------------------
(* post_feedback with correct = false: record_feedback in one transaction, *)
(* curate_reviewed_correction in another.                                  *)

Complain(p, i) ==
  /\ handler[p] = NoFeedback /\ phase[p] \in {"idle", "asking"}
  /\ status[i] # "none" /\ complaints[i] < MaxComplaints
  /\ complaints' = [complaints EXCEPT ![i] = @ + 1]
  /\ handler' = [handler EXCEPT ![p] = <<"recorded", i>>]
  /\ UNCHANGED <<queue, result, samples, worker, history>>

\* Mutant: the curated flag of the result is not looked at.
CorrectableAgain(i) == result[i] # "none" /\ i \notin Truncated

Correctable(i) == result[i] = "stored" /\ i \notin Truncated

Look(p) ==
  LET i == handler[p][2]
  IN
  /\ handler[p][1] = "recorded"
  /\ handler' = [handler EXCEPT ![p] =
                   IF Correctable(i) THEN <<"correcting", i>> ELSE NoFeedback]
  /\ UNCHANGED <<queue, result, samples, complaints, worker, history>>

Correct(p) ==
  LET i == handler[p][2]
  IN
  /\ handler[p][1] = "correcting"
  /\ result' = [result EXCEPT ![i] = "curated"]
  /\ samples' = [samples EXCEPT ![i] = @ + 1]
  /\ handler' = [handler EXCEPT ![p] = NoFeedback]
  /\ UNCHANGED <<queue, complaints, worker, history>>

-----------------------------------------------------------------------------
\* 300 seconds have passed since i was taken.
Age(i) ==
  /\ status[i] = "in_progress" /\ i \notin stale
  /\ stale' = stale \union {i}
  /\ UNCHANGED <<status, result, samples, complaints, worker, handler, history>>

\* The process dies, or an exception ends the tick: open transactions are
\* rolled back, the items of the batch stay in progress.
Crash(p) ==
  /\ crashes < MaxCrashes
  /\ phase[p] # "idle" \/ handler[p] # NoFeedback
  /\ crashes' = crashes + 1
  /\ orphaned' = orphaned \union {i \in batch[p] : status[i] = "in_progress"}
  /\ interrupted' = interrupted \union ({handler[p][2]} \ {0})
  /\ phase' = [phase EXCEPT ![p] = "idle"] /\ batch' = [batch EXCEPT ![p] = {}]
  /\ human' = [human EXCEPT ![p] = FALSE]
  /\ handler' = [handler EXCEPT ![p] = NoFeedback]
  /\ UNCHANGED <<queue, result, samples, complaints>>

Next ==
  \/ \E i \in Decisions : Enqueue(i)
  \/ \E p \in Processes, due, capped \in BOOLEAN : Tick(p, due, capped)
  \/ \E p \in Processes : Answer(p)
  \/ \E p \in Processes : FailNext(p)
  \/ \E p \in Processes : Invalid(p)
  \/ \E p \in Processes : Store(p)
  \/ \E p \in Processes : Commit(p)
  \/ \E p \in Processes : Finish(p)
  \/ \E p \in Processes, i \in Decisions : Complain(p, i)
  \/ \E p \in Processes : Look(p)
  \/ \E p \in Processes : Correct(p)
  \/ \E i \in Decisions : Age(i)
  \/ \E p \in Processes : Crash(p)

Spec == Init /\ [][Next]_vars

(***************************************************************************)
(* The worker's loop ticks for ever; it looks for stale items once a       *)
(* minute, and a spend cap is not exhausted for ever: its hour, day or     *)
(* month ends.  Requests to the reviewer time out, handlers run on, and    *)
(* time passes.  No decision has to be made or complained about.           *)
(***************************************************************************)
Fairness ==
  /\ \A p \in Processes :
       /\ WF_vars(Tick(p, TRUE, FALSE))
       /\ WF_vars(Answer(p))
       /\ WF_vars(FailNext(p) \/ Invalid(p) \/ Store(p) \/ Commit(p) \/ Finish(p))
       /\ WF_vars(Look(p) \/ Correct(p))
  /\ \A i \in Decisions : WF_vars(Age(i))

FairSpec == Spec /\ Fairness

-----------------------------------------------------------------------------
TypeOK ==
  /\ status \in [Decisions -> Statuses]
  /\ stale \subseteq {i \in Decisions : status[i] = "in_progress"}
  /\ result \in [Decisions -> {"none", "stored", "curated"}]
  /\ samples \in [Decisions -> Nat] /\ complaints \in [Decisions -> 0 .. MaxComplaints]
  /\ phase \in [Processes -> Phases]
  /\ batch \in [Processes -> SUBSET Decisions]
  /\ \A p \in Processes : phase[p] = "idle" <=> batch[p] = {}
  /\ human \in [Processes -> BOOLEAN]
  /\ handler \in [Processes -> {"idle", "recorded", "correcting"} \X (0 .. N)]
  /\ crashes \in 0 .. MaxCrashes
  /\ orphaned \subseteq Decisions /\ interrupted \subseteq Decisions

\* The training pool holds a decision at most once, and exactly those whose
\* result is marked curated, however reviews, corrections, retries after a
\* crash and repeated feedback follow each other.
CuratedOnce ==
  /\ TypeOK
  /\ \A i \in Decisions : samples[i] = IF result[i] = "curated" THEN 1 ELSE 0

\* "Curate a reviewer's correction after negative human feedback"
\* (memory.py:1174): once a decision has been complained about and reviewed,
\* whichever came first, it is in the pool, unless its prompt was truncated or
\* the process died between the two transactions of record_feedback.
CorrectionsLearned ==
  \A i \in Decisions \ (Truncated \union interrupted) :
    (/\ complaints[i] > 0 /\ result[i] # "none"
     /\ \A p \in Processes : handler[p][2] # i)
      => result[i] = "curated"

\* "It must instead be marked failed [...] so it fails cleanly once and never
\* returns to the queue" (test_integration.py:607): an item is in progress
\* only while a worker holds it or after the process that held it has died.
NoneAbandoned ==
  \A i \in Decisions :
    status[i] = "in_progress" =>
      i \in orphaned \/ \E p \in Processes : i \in batch[p]

\* Every queued decision is settled in the end, across crashes and stale items.
Settled ==
  \A i \in Decisions : status[i] = "pending" ~> status[i] \in {"done", "failed"}
=============================================================================
