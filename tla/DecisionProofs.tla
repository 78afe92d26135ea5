---------------------------- MODULE DecisionProofs ----------------------------
(***************************************************************************)
(* Theorems about the decisions of the router: how they are reviewed       *)
(* (ReviewQueue), for any number of decisions, complaints and crashes and  *)
(* any batch size, and how they are made (Routing), for any tiers,         *)
(* endpoints, prices, windows, policies, plans and requests.               *)
(*                                                                         *)
(* ReviewQueue: what holds for any number of gateway processes comes first *)
(* (QueueInv).  That the pool holds a decision once, and learns every      *)
(* correction, is true of one process only (two may correct the same       *)
(* decision, or look for feedback and store a result in turn), and rests on *)
(* the exclusion of worker and handler inside it (SingleInv).              *)
(*                                                                         *)
(* Routing: a call that is sent is within what the tenant had because what *)
(* was had is counted from the arrival on (RightsCounted) and every redirect *)
(* keeps the decision inside it (DecisionHad).                             *)
(***************************************************************************)
EXTENDS ReviewQueue, Routing, WellFoundedInduction, TLAPS

-----------------------------------------------------------------------------
(***************************************************************************)
(* ReviewQueue                                                             *)
(***************************************************************************)

\* A handler is idle, or busy with a decision that was made.
HandlersBusy ==
  \A p \in Processes : handler[p] = NoFeedback
                       \/ (handler[p][1] # "idle" /\ handler[p][2] \in Decisions)

\* What is in the pool is marked, and what is marked is in the pool.
PoolMarked == \A i \in Decisions : samples[i] > 0 <=> result[i] = "curated"

QueueInv == TypeOK /\ HandlersBusy /\ PoolMarked

-----------------------------------------------------------------------------
(* What the helpers return *)

\* The order of the numbers as a relation.
LEMMA BelowRelates ==
  ASSUME NEW x \in Nat, NEW m \in Nat, x < m
  PROVE  <<x, m>> \in OpToRel(<, Nat)
<1>1. <<x, m>> \in Nat \X Nat /\ <<x, m>>[1] < <<x, m>>[2]
  OBVIOUS
<1> QED
  BY <1>1, Zenon DEF OpToRel

\* A set of numbers that is not empty has a least element.
LEMMA LeastElement ==
  ASSUME NEW S, S \subseteq Nat, S # {}
  PROVE  Min(S) \in S /\ \A x \in S : Min(S) <= x
<1>1. PICK m \in S : \A x \in S : ~(<<x, m>> \in OpToRel(<, Nat))
  BY NatLessThanWellFounded, WFMin
<1>2. ASSUME NEW x \in S PROVE ~(x < m)
  BY <1>1, BelowRelates, Zenon
<1>3. m \in Nat /\ \A x \in S : x \in Nat
  OBVIOUS
<1>4. \A x \in S : m <= x
  BY <1>2, <1>3
<1> QED
  BY <1>4 DEF Min

\* The decision a worker settles next is one of its batch.
LEMMA CurrentHeld ==
  ASSUME TypeOK, NEW p \in Processes, batch[p] # {}
  PROVE  Current(p) \in batch[p] /\ Current(p) \in Decisions
<1>1. batch[p] \subseteq Decisions /\ Decisions \subseteq Nat
  BY ReviewAssumption DEF TypeOK, Decisions
<1> QED
  BY <1>1, LeastElement DEF Current

\* What the queue and the workers are after a decision was settled.
Completed ==
  /\ status' \in [Decisions -> Statuses]
  /\ stale' \subseteq {i \in Decisions : status'[i] = "in_progress"}
  /\ phase' \in [Processes -> Phases]
  /\ batch' \in [Processes -> SUBSET Decisions]
  /\ \A q \in Processes : phase'[q] = "idle" <=> batch'[q] = {}
  /\ orphaned' \subseteq Decisions

\* Settling a decision keeps the queue's types, and the worker is idle exactly
\* when that was the last of its batch.
LEMMA CompleteKeeps ==
  ASSUME TypeOK, NEW p \in Processes, NEW s \in {"done", "failed"},
         NEW busy \in Phases \ {"idle"}, batch[p] # {}, Complete(p, s),
         phase' = [phase EXCEPT ![p] = IF batch[p] = {Current(p)} THEN "idle" ELSE busy]
  PROVE  Completed
<1>1. Current(p) \in batch[p] /\ Current(p) \in Decisions
  BY CurrentHeld
<1>2. status' = [status EXCEPT ![Current(p)] = s] /\ stale' = stale \ {Current(p)}
      /\ batch' = [batch EXCEPT ![p] = @ \ {Current(p)}]
      /\ orphaned' = orphaned \ {Current(p)}
  BY DEF Complete, StartedAtCleared
<1>3. s \in Statuses /\ "idle" \in Phases
  BY DEF Statuses, Phases
<1>4. status' \in [Decisions -> Statuses] /\ orphaned' \subseteq Decisions
  BY <1>2, <1>3 DEF TypeOK
<1>5. stale' \subseteq {i \in Decisions : status'[i] = "in_progress"}
  BY <1>2 DEF TypeOK
<1>6. phase' \in [Processes -> Phases] /\ batch' \in [Processes -> SUBSET Decisions]
  BY <1>2, <1>3 DEF TypeOK
<1>7. \A q \in Processes : phase'[q] = "idle" <=> batch'[q] = {}
  BY <1>1, <1>2 DEF TypeOK
<1> QED
  BY <1>4, <1>5, <1>6, <1>7 DEF Completed

-----------------------------------------------------------------------------
(* The steps keep QueueInv, in any number of processes *)

LEMMA InitQueue == Init => QueueInv
<1> USE ReviewAssumption
<1> SUFFICES ASSUME Init PROVE QueueInv
  OBVIOUS
<1>1. TypeOK
  BY DEF Init, TypeOK, Statuses, Phases, NoFeedback
<1>2. HandlersBusy /\ PoolMarked
  BY DEF Init, HandlersBusy, PoolMarked
<1> QED
  BY <1>1, <1>2 DEF QueueInv

LEMMA EnqueueQueue ==
  ASSUME QueueInv, NEW i \in Decisions, Enqueue(i)
  PROVE  QueueInv'
BY DEF QueueInv, Enqueue, TypeOK, HandlersBusy, PoolMarked, Statuses, worker, history

LEMMA TickQueue ==
  ASSUME QueueInv, NEW p \in Processes, NEW due \in BOOLEAN, NEW capped \in BOOLEAN,
         Tick(p, due, capped)
  PROVE  QueueInv'
<1> DEFINE requeued == [i \in Decisions |-> IF i \in Overdue(due) THEN "pending" ELSE status[i]]
           pending == {i \in Decisions : requeued[i] = "pending"}
           taken == IF capped THEN {} ELSE Oldest(pending, BatchSize)
<1>1. /\ phase[p] = "idle"
      /\ status' = [i \in Decisions |-> IF i \in taken THEN "in_progress" ELSE requeued[i]]
      /\ stale' = stale \ Overdue(due)
      /\ batch' = [batch EXCEPT ![p] = taken]
      /\ phase' = [phase EXCEPT ![p] = IF taken = {} THEN "idle" ELSE "asking"]
      /\ orphaned' = orphaned \ (Overdue(due) \union taken)
      /\ UNCHANGED <<result, samples, complaints, human, handler, crashes, interrupted>>
  BY DEF Tick
<1>2. taken \subseteq pending
  BY DEF Oldest
<1>3. requeued \in [Decisions -> Statuses]
  BY DEF QueueInv, TypeOK, Statuses
<1> HIDE DEF taken
<1>4. status' \in [Decisions -> Statuses]
  BY <1>1, <1>3 DEF Statuses
<1>5. stale' \subseteq {i \in Decisions : status'[i] = "in_progress"}
  BY <1>1 DEF QueueInv, TypeOK, Overdue
<1>6. phase' \in [Processes -> Phases] /\ batch' \in [Processes -> SUBSET Decisions]
  BY <1>1, <1>2 DEF QueueInv, TypeOK, Phases
<1>7. \A q \in Processes : phase'[q] = "idle" <=> batch'[q] = {}
  BY <1>1 DEF QueueInv, TypeOK
<1>8. TypeOK'
  BY <1>1, <1>4, <1>5, <1>6, <1>7 DEF QueueInv, TypeOK
<1> QED
  BY <1>1, <1>8 DEF QueueInv, HandlersBusy, PoolMarked

LEMMA AnswerQueue ==
  ASSUME QueueInv, NEW p \in Processes, Answer(p)
  PROVE  QueueInv'
<1>1. /\ phase[p] = "asking"
      /\ UNCHANGED <<queue, result, samples, complaints, human, handler, history>>
  BY DEF Answer
<1>2. /\ phase' \in [Processes -> Phases] /\ batch' \in [Processes -> SUBSET Decisions]
      /\ \A q \in Processes : phase'[q] = "idle" <=> batch'[q] = {}
  <2>1. CASE phase' = [phase EXCEPT ![p] = "failing"] /\ UNCHANGED batch
    BY <1>1, <2>1 DEF QueueInv, TypeOK, Phases
  <2>2. CASE \E kept \in {Oldest(batch[p], n) : n \in 0 .. Cardinality(batch[p])} :
               /\ batch' = [batch EXCEPT ![p] = kept]
               /\ phase' = [phase EXCEPT ![p] = IF kept = {} THEN "idle" ELSE "storing"]
    <3>1. PICK kept \in SUBSET batch[p] :
                 /\ batch' = [batch EXCEPT ![p] = kept]
                 /\ phase' = [phase EXCEPT ![p] = IF kept = {} THEN "idle" ELSE "storing"]
      BY <2>2 DEF Oldest
    <3>2. kept \subseteq Decisions
      BY DEF QueueInv, TypeOK
    <3> QED
      BY <3>1, <3>2 DEF QueueInv, TypeOK, Phases
  <2> QED
    BY <2>1, <2>2 DEF Answer
<1>3. TypeOK'
  BY <1>1, <1>2 DEF QueueInv, TypeOK, queue, history
<1> QED
  BY <1>1, <1>3 DEF QueueInv, HandlersBusy, PoolMarked

LEMMA FailNextQueue ==
  ASSUME QueueInv, NEW p \in Processes, FailNext(p)
  PROVE  QueueInv'
<1>1. batch[p] # {} /\ Complete(p, "failed") /\ "failing" \in Phases \ {"idle"}
      /\ phase' = [phase EXCEPT ![p] = IF batch[p] = {Current(p)} THEN "idle" ELSE "failing"]
      /\ UNCHANGED <<result, samples, complaints, human, handler, crashes, interrupted>>
  BY DEF FailNext, QueueInv, TypeOK, Phases
<1>2. Completed
  BY <1>1, CompleteKeeps DEF QueueInv, Completed
<1>3. TypeOK'
  BY <1>1, <1>2 DEF QueueInv, TypeOK, Completed
<1> QED
  BY <1>1, <1>3 DEF QueueInv, HandlersBusy, PoolMarked

LEMMA InvalidQueue ==
  ASSUME QueueInv, NEW p \in Processes, Invalid(p)
  PROVE  QueueInv'
<1>1. batch[p] # {} /\ Complete(p, "failed") /\ "storing" \in Phases \ {"idle"}
      /\ phase' = [phase EXCEPT ![p] = IF batch[p] = {Current(p)} THEN "idle" ELSE "storing"]
      /\ UNCHANGED <<result, samples, complaints, human, handler, crashes, interrupted>>
  BY DEF Invalid, QueueInv, TypeOK, Phases
<1>2. Completed
  BY <1>1, CompleteKeeps DEF QueueInv, Completed
<1>3. TypeOK'
  BY <1>1, <1>2 DEF QueueInv, TypeOK, Completed
<1> QED
  BY <1>1, <1>3 DEF QueueInv, HandlersBusy, PoolMarked

LEMMA StoreQueue ==
  ASSUME QueueInv, NEW p \in Processes, Store(p)
  PROVE  QueueInv'
<1>1. TypeOK'
  BY DEF QueueInv, Store, TypeOK, Phases, queue, history
<1> QED
  BY <1>1 DEF QueueInv, Store, HandlersBusy, PoolMarked

LEMMA CommitQueue ==
  ASSUME QueueInv, NEW p \in Processes, Commit(p)
  PROVE  QueueInv'
<1> DEFINE i == Current(p)
<1>1. i \in Decisions
  BY CurrentHeld DEF QueueInv, TypeOK, Commit
<1> HIDE DEF i
<1>2. /\ phase[p] = "committing" /\ human' = [human EXCEPT ![p] = FALSE]
      /\ \/ phase' = [phase EXCEPT ![p] = "stored"]
         \/ phase' = [phase EXCEPT ![p] = "rejected"]
      /\ UNCHANGED <<queue, complaints, batch, handler, history>>
  BY DEF Commit
<1>3. \/ /\ result' = [result EXCEPT ![i] = "curated"]
         /\ samples' = [samples EXCEPT ![i] = @ + 1]
      \/ /\ result[i] = "none"
         /\ result' = [result EXCEPT ![i] = "stored"] /\ UNCHANGED samples
      \/ UNCHANGED <<result, samples>>
  BY DEF Commit, i
<1>4. result' \in [Decisions -> {"none", "stored", "curated"}] /\ samples' \in [Decisions -> Nat]
  <2>1. result \in [Decisions -> {"none", "stored", "curated"}] /\ samples \in [Decisions -> Nat]
    BY DEF QueueInv, TypeOK
  <2>2. samples[i] + 1 \in Nat
    BY <1>1, <2>1
  <2> QED
    BY <1>3, <2>1, <2>2
<1>5. PoolMarked'
  BY <1>1, <1>3 DEF QueueInv, TypeOK, PoolMarked
<1>6. /\ phase' \in [Processes -> Phases] /\ human' \in [Processes -> BOOLEAN]
      /\ \A q \in Processes : phase'[q] = "idle" <=> batch'[q] = {}
  <2>1. "stored" \in Phases \ {"idle"} /\ "rejected" \in Phases \ {"idle"}
        /\ phase[p] # "idle"
    BY <1>2 DEF Phases
  <2>2. /\ phase \in [Processes -> Phases] /\ human \in [Processes -> BOOLEAN]
        /\ \A q \in Processes : phase[q] = "idle" <=> batch[q] = {}
    BY DEF QueueInv, TypeOK
  <2> QED
    BY <1>2, <2>1, <2>2
<1>7. TypeOK'
  BY <1>2, <1>4, <1>6 DEF QueueInv, TypeOK, queue, history
<1> QED
  BY <1>2, <1>5, <1>7 DEF QueueInv, HandlersBusy

LEMMA FinishQueue ==
  ASSUME QueueInv, NEW p \in Processes, Finish(p)
  PROVE  QueueInv'
<1>1. batch[p] # {} /\ Complete(p, OutcomeOf(phase[p])) /\ "storing" \in Phases \ {"idle"}
      /\ phase' = [phase EXCEPT ![p] = IF batch[p] = {Current(p)} THEN "idle" ELSE "storing"]
      /\ UNCHANGED <<result, samples, complaints, human, handler, crashes, interrupted>>
  BY DEF Finish, QueueInv, TypeOK, Phases
<1>2. OutcomeOf(phase[p]) \in {"done", "failed"}
  BY DEF OutcomeOf
<1>3. Completed
  BY <1>1, <1>2, CompleteKeeps DEF QueueInv, Completed
<1>4. TypeOK'
  BY <1>1, <1>3 DEF QueueInv, TypeOK, Completed
<1> QED
  BY <1>1, <1>4 DEF QueueInv, HandlersBusy, PoolMarked

LEMMA ComplainQueue ==
  ASSUME QueueInv, NEW p \in Processes, NEW i \in Decisions, Complain(p, i)
  PROVE  QueueInv'
<1> USE ReviewAssumption DEF QueueInv, Complain
<1>1. i \in 0 .. N
  BY DEF Decisions
<1>2. complaints' \in [Decisions -> 0 .. MaxComplaints]
  BY DEF TypeOK
<1>3. TypeOK'
  BY <1>1, <1>2 DEF TypeOK, queue, worker, history
<1> QED
  BY <1>3 DEF TypeOK, HandlersBusy, PoolMarked

LEMMA LookQueue ==
  ASSUME QueueInv, NEW p \in Processes, Look(p)
  PROVE  QueueInv'
<1> USE ReviewAssumption DEF QueueInv, Look
<1>1. handler[p][2] \in 0 .. N /\ handler[p][2] \in Decisions
  BY DEF TypeOK, HandlersBusy, NoFeedback
<1>2. TypeOK'
  BY <1>1 DEF TypeOK, queue, worker, history, NoFeedback
<1> QED
  BY <1>1, <1>2 DEF TypeOK, HandlersBusy, PoolMarked

LEMMA CorrectQueue ==
  ASSUME QueueInv, NEW p \in Processes, Correct(p)
  PROVE  QueueInv'
<1> USE ReviewAssumption DEF QueueInv, Correct
<1>1. handler[p][2] \in Decisions
  BY DEF HandlersBusy, NoFeedback
<1>2. TypeOK'
  BY <1>1 DEF TypeOK, queue, worker, history, NoFeedback
<1> QED
  BY <1>1, <1>2 DEF TypeOK, HandlersBusy, PoolMarked

LEMMA AgeQueue ==
  ASSUME QueueInv, NEW i \in Decisions, Age(i)
  PROVE  QueueInv'
BY DEF QueueInv, Age, TypeOK, HandlersBusy, PoolMarked, worker, history

LEMMA CrashQueue ==
  ASSUME QueueInv, NEW p \in Processes, Crash(p)
  PROVE  QueueInv'
<1> USE ReviewAssumption DEF QueueInv, Crash
<1>1. handler[p][2] = 0 \/ handler[p][2] \in Decisions
  BY DEF HandlersBusy, NoFeedback
<1>2. TypeOK'
  BY <1>1 DEF TypeOK, queue, NoFeedback, Phases
<1> QED
  BY <1>2 DEF TypeOK, HandlersBusy, PoolMarked

\* Every step keeps QueueInv.
LEMMA NextQueue ==
  ASSUME QueueInv, [Next]_vars
  PROVE  QueueInv'
<1>1. ASSUME NEW i \in Decisions, Enqueue(i) PROVE QueueInv'
  BY <1>1, EnqueueQueue
<1>2. ASSUME NEW p \in Processes, NEW due \in BOOLEAN, NEW capped \in BOOLEAN,
             Tick(p, due, capped)
      PROVE  QueueInv'
  BY <1>2, TickQueue
<1>3. ASSUME NEW p \in Processes, Answer(p) PROVE QueueInv'
  BY <1>3, AnswerQueue
<1>4. ASSUME NEW p \in Processes, FailNext(p) PROVE QueueInv'
  BY <1>4, FailNextQueue
<1>5. ASSUME NEW p \in Processes, Invalid(p) PROVE QueueInv'
  BY <1>5, InvalidQueue
<1>6. ASSUME NEW p \in Processes, Store(p) PROVE QueueInv'
  BY <1>6, StoreQueue
<1>7. ASSUME NEW p \in Processes, Commit(p) PROVE QueueInv'
  BY <1>7, CommitQueue
<1>8. ASSUME NEW p \in Processes, Finish(p) PROVE QueueInv'
  BY <1>8, FinishQueue
<1>9. ASSUME NEW p \in Processes, NEW i \in Decisions, Complain(p, i) PROVE QueueInv'
  BY <1>9, ComplainQueue
<1>10. ASSUME NEW p \in Processes, Look(p) PROVE QueueInv'
  BY <1>10, LookQueue
<1>11. ASSUME NEW p \in Processes, Correct(p) PROVE QueueInv'
  BY <1>11, CorrectQueue
<1>12. ASSUME NEW i \in Decisions, Age(i) PROVE QueueInv'
  BY <1>12, AgeQueue
<1>13. ASSUME NEW p \in Processes, Crash(p) PROVE QueueInv'
  BY <1>13, CrashQueue
<1>14. CASE UNCHANGED vars
  BY <1>14 DEF vars, queue, worker, history, QueueInv, TypeOK, HandlersBusy, PoolMarked
<1> QED
  BY <1>1, <1>2, <1>3, <1>4, <1>5, <1>6, <1>7, <1>8, <1>9, <1>10, <1>11, <1>12,
     <1>13, <1>14 DEF Next

\* QueueInv holds in every reachable state, however many processes there are.
THEOREM QueueInvariant == Spec => []QueueInv
<1>1. QueueInv /\ [Next]_vars => QueueInv'
  BY NextQueue
<1> QED
  BY InitQueue, <1>1, PTL DEF Spec

\* The review tables, the workers and the handlers keep their types: no row of
\* review_queue is stale unless it is in progress, and a worker is idle exactly
\* when it holds nothing.
THEOREM TypeCorrect == Spec => []TypeOK
<1>1. QueueInv => TypeOK
  BY DEF QueueInv
<1> QED
  BY QueueInvariant, <1>1, PTL

\* With any number of processes: a decision is in the training pool exactly
\* when its result is marked curated, though the sample and the mark are
\* written by the worker of one process or the feedback handler of another.
THEOREM PoolIsMarked == Spec => []PoolMarked
<1>1. QueueInv => PoolMarked
  BY DEF QueueInv
<1> QED
  BY QueueInvariant, <1>1, PTL

-----------------------------------------------------------------------------
(* No item is left in progress *)

\* A worker that settles a decision leaves no other without a holder.
LEMMA CompleteAbandonsNone ==
  ASSUME TypeOK, NoneAbandoned, NEW p \in Processes, NEW s \in {"done", "failed"},
         batch[p] # {}, Complete(p, s)
  PROVE  NoneAbandoned'
<1>1. Current(p) \in Decisions
  BY CurrentHeld
<1>2. status' = [status EXCEPT ![Current(p)] = s]
      /\ batch' = [batch EXCEPT ![p] = @ \ {Current(p)}]
      /\ orphaned' = orphaned \ {Current(p)}
  BY DEF Complete
<1>3. SUFFICES ASSUME NEW i \in Decisions, status'[i] = "in_progress"
               PROVE  i \in orphaned' \/ \E q \in Processes : i \in batch'[q]
  BY DEF NoneAbandoned
<1>4. i # Current(p) /\ status[i] = "in_progress"
  BY <1>1, <1>2, <1>3 DEF TypeOK
<1>5. i \in orphaned \/ \E q \in Processes : i \in batch[q]
  BY <1>4 DEF NoneAbandoned
<1> QED
  BY <1>2, <1>4, <1>5 DEF TypeOK

\* A tick gives a holder to all it takes, and what it finds stale goes back.
LEMMA TickAbandonsNone ==
  ASSUME TypeOK, NoneAbandoned,
         NEW p \in Processes, NEW due \in BOOLEAN, NEW capped \in BOOLEAN,
         Tick(p, due, capped)
  PROVE  NoneAbandoned'
<1>1. PICK taken \in SUBSET Decisions :
        /\ status' = [i \in Decisions |->
                        IF i \in taken THEN "in_progress"
                        ELSE IF i \in Overdue(due) THEN "pending" ELSE status[i]]
        /\ batch' = [batch EXCEPT ![p] = taken]
        /\ orphaned' = orphaned \ (Overdue(due) \union taken)
  BY DEF Tick, Oldest
<1>2. batch[p] = {}
  BY DEF Tick, TypeOK
<1>3. SUFFICES ASSUME NEW i \in Decisions, status'[i] = "in_progress"
               PROVE  i \in orphaned' \/ \E q \in Processes : i \in batch'[q]
  BY DEF NoneAbandoned
<1>4. CASE i \in taken
  BY <1>1, <1>4 DEF TypeOK
<1>5. CASE i \notin taken
  <2>1. status[i] = "in_progress" /\ i \notin Overdue(due)
    BY <1>1, <1>3, <1>5
  <2>2. i \in orphaned \/ \E q \in Processes : i \in batch[q]
    BY <2>1 DEF NoneAbandoned
  <2> QED
    BY <1>1, <1>2, <1>5, <2>1, <2>2 DEF TypeOK
<1> QED
  BY <1>4, <1>5

\* The batch of a process that dies is remembered as orphaned.
LEMMA CrashAbandonsNone ==
  ASSUME TypeOK, NoneAbandoned, NEW p \in Processes, Crash(p)
  PROVE  NoneAbandoned'
<1>1. /\ orphaned' = orphaned \union {i \in batch[p] : status[i] = "in_progress"}
      /\ batch' = [batch EXCEPT ![p] = {}] /\ status' = status
  BY DEF Crash, queue
<1> QED
  BY <1>1 DEF NoneAbandoned, TypeOK

\* Without code fences an answer is padded to the batch, so that no item of it
\* is forgotten: with any number of processes, an item is in progress only
\* while a worker holds it or after the process that held it has died.
THEOREM Unabandoned == Fenced = FALSE => (Spec => []NoneAbandoned)
<1> SUFFICES ASSUME Fenced = FALSE PROVE Spec => []NoneAbandoned
  OBVIOUS
<1>1. Init => NoneAbandoned
  BY DEF Init, NoneAbandoned
<1>2. TypeOK /\ NoneAbandoned /\ [Next]_vars => NoneAbandoned'
  <2> SUFFICES ASSUME TypeOK, NoneAbandoned, [Next]_vars PROVE NoneAbandoned'
    OBVIOUS
  <2>1. ASSUME NEW i \in Decisions, Enqueue(i) PROVE NoneAbandoned'
    BY <2>1 DEF Enqueue, NoneAbandoned, TypeOK, worker, history
  <2>2. ASSUME NEW p \in Processes, NEW due \in BOOLEAN, NEW capped \in BOOLEAN,
               Tick(p, due, capped)
        PROVE  NoneAbandoned'
    BY <2>2, TickAbandonsNone
  <2>3. ASSUME NEW p \in Processes, Answer(p) PROVE NoneAbandoned'
    <3>1. batch' = batch
      BY <2>3 DEF Answer, TypeOK
    <3> QED
      BY <2>3, <3>1 DEF Answer, NoneAbandoned, queue, history
  <2>4. ASSUME NEW p \in Processes, FailNext(p) PROVE NoneAbandoned'
    BY <2>4, CompleteAbandonsNone DEF FailNext, TypeOK
  <2>5. ASSUME NEW p \in Processes, Invalid(p) PROVE NoneAbandoned'
    BY <2>5, CompleteAbandonsNone DEF Invalid, TypeOK
  <2>6. ASSUME NEW p \in Processes, Store(p) PROVE NoneAbandoned'
    BY <2>6 DEF Store, NoneAbandoned, queue, history
  <2>7. ASSUME NEW p \in Processes, Commit(p) PROVE NoneAbandoned'
    BY <2>7 DEF Commit, NoneAbandoned, queue, history
  <2>8. ASSUME NEW p \in Processes, Finish(p) PROVE NoneAbandoned'
    BY <2>8, CompleteAbandonsNone DEF Finish, OutcomeOf, TypeOK
  <2>9. ASSUME NEW p \in Processes, NEW i \in Decisions, Complain(p, i)
        PROVE  NoneAbandoned'
    BY <2>9 DEF Complain, NoneAbandoned, queue, worker, history
  <2>10. ASSUME NEW p \in Processes, Look(p) PROVE NoneAbandoned'
    BY <2>10 DEF Look, NoneAbandoned, queue, worker, history
  <2>11. ASSUME NEW p \in Processes, Correct(p) PROVE NoneAbandoned'
    BY <2>11 DEF Correct, NoneAbandoned, queue, worker, history
  <2>12. ASSUME NEW i \in Decisions, Age(i) PROVE NoneAbandoned'
    BY <2>12 DEF Age, NoneAbandoned, worker, history
  <2>13. ASSUME NEW p \in Processes, Crash(p) PROVE NoneAbandoned'
    BY <2>13, CrashAbandonsNone
  <2>14. CASE UNCHANGED vars
    BY <2>14 DEF vars, queue, worker, history, NoneAbandoned
  <2> QED
    BY <2>1, <2>2, <2>3, <2>4, <2>5, <2>6, <2>7, <2>8, <2>9, <2>10, <2>11, <2>12,
       <2>13, <2>14 DEF Next
<1> QED
  BY TypeCorrect, <1>1, <1>2, PTL DEF Spec

-----------------------------------------------------------------------------
(* One process: worker and handler exclude each other *)

Alone == \A p, q \in Processes : p = q

\* A feedback request runs only while the worker waits.
HandlerExcludes ==
  \A p \in Processes : handler[p] # NoFeedback => phase[p] \in {"idle", "asking"}

\* What store_review_result saw is still so when it commits.
FeedbackSeen ==
  \A p \in Processes :
    phase[p] = "committing" => human[p] = (complaints[Current(p)] > 0)

\* A correction is still to be made when the handler makes it.
CorrectionDue ==
  \A p \in Processes :
    handler[p][1] = "correcting" => Correctable(handler[p][2])

SingleInv ==
  QueueInv /\ HandlerExcludes /\ FeedbackSeen /\ CorrectionDue
    /\ CuratedOnce /\ CorrectionsLearned

LEMMA InitSingle == Init => SingleInv
<1> SUFFICES ASSUME Init PROVE SingleInv
  OBVIOUS
<1>1. QueueInv
  BY InitQueue
<1>2. HandlerExcludes /\ FeedbackSeen /\ CorrectionDue
  BY DEF Init, HandlerExcludes, FeedbackSeen, CorrectionDue, NoFeedback
<1>3. CuratedOnce /\ CorrectionsLearned
  BY <1>1 DEF Init, CuratedOnce, CorrectionsLearned, QueueInv
<1> QED
  BY <1>1, <1>2, <1>3 DEF SingleInv

\* What the steps that touch neither the pool nor the feedback have in common.
LEMMA PoolUntouched ==
  ASSUME SingleInv, QueueInv', HandlerExcludes', FeedbackSeen',
         UNCHANGED <<result, samples, complaints, handler, interrupted>>
  PROVE  SingleInv'
<1>1. CorrectionDue'
  BY DEF SingleInv, CorrectionDue, Correctable
<1>2. CuratedOnce'
  BY DEF SingleInv, QueueInv, CuratedOnce
<1>3. CorrectionsLearned'
  BY DEF SingleInv, CorrectionsLearned
<1> QED
  BY <1>1, <1>2, <1>3 DEF SingleInv

\* The commit of a result: with feedback the sample goes into the pool.
LEMMA CommitSingle ==
  ASSUME SingleInv, Alone, NEW p \in Processes, Commit(p)
  PROVE  SingleInv'
<1> DEFINE i == Current(p)
<1>1. i \in Decisions
  BY CurrentHeld DEF SingleInv, QueueInv, TypeOK, Commit
<1>2. human[p] = (complaints[i] > 0)
  BY DEF SingleInv, FeedbackSeen, Commit
<1>3. handler[p] = NoFeedback
  BY DEF SingleInv, HandlerExcludes, Commit
<1> HIDE DEF i
<1>4. /\ \/ phase' = [phase EXCEPT ![p] = "stored"]
         \/ phase' = [phase EXCEPT ![p] = "rejected"]
      /\ UNCHANGED <<queue, complaints, batch, handler, history>>
  BY DEF Commit
<1>5. \/ /\ result[i] = "none"
         /\ result' = [result EXCEPT ![i] = "curated"]
         /\ samples' = [samples EXCEPT ![i] = @ + 1]
      \/ /\ result[i] = "none" /\ ~(complaints[i] > 0 /\ i \notin Truncated)
         /\ result' = [result EXCEPT ![i] = "stored"] /\ UNCHANGED samples
      \/ UNCHANGED <<result, samples>>
  <2>1. CASE UNCHANGED <<result, samples>>
    BY <2>1
  <2>2. CASE /\ result[i] = "none"
             /\ \E agree \in BOOLEAN :
                  IF Curates(i, agree, human[p])
                    THEN /\ result' = [result EXCEPT ![i] = "curated"]
                         /\ samples' = [samples EXCEPT ![i] = @ + 1]
                    ELSE result' = [result EXCEPT ![i] = "stored"] /\ UNCHANGED samples
    BY <1>2, <2>2, Zenon DEF Curates
  <2> QED
    BY <2>1, <2>2 DEF Commit, i
<1>6. QueueInv'
  BY CommitQueue DEF SingleInv
<1>7. HandlerExcludes'
  BY <1>3, <1>4 DEF SingleInv, QueueInv, TypeOK, HandlerExcludes, Alone
<1>8. FeedbackSeen'
  BY <1>4 DEF SingleInv, QueueInv, TypeOK, FeedbackSeen, Alone
<1>9. CorrectionDue'
  BY <1>3, <1>4 DEF SingleInv, CorrectionDue, Alone, NoFeedback
<1>10. CuratedOnce'
  <2>1. samples \in [Decisions -> Nat] /\ result \in [Decisions -> {"none", "stored", "curated"}]
    BY DEF SingleInv, QueueInv, TypeOK
  <2>2. \A j \in Decisions : samples[j] = IF result[j] = "curated" THEN 1 ELSE 0
    BY DEF SingleInv, CuratedOnce
  <2>3. \A j \in Decisions : samples'[j] = IF result'[j] = "curated" THEN 1 ELSE 0
    BY <1>1, <1>5, <2>1, <2>2
  <2> QED
    BY <1>6, <2>3 DEF QueueInv, CuratedOnce
<1>11. CorrectionsLearned'
  <2>1. result \in [Decisions -> {"none", "stored", "curated"}]
    BY DEF SingleInv, QueueInv, TypeOK
  <2>2. SUFFICES ASSUME NEW j \in Decisions, j \notin Truncated \union interrupted,
                        complaints[j] > 0, result'[j] # "none",
                        \A q \in Processes : handler[q][2] # j
                 PROVE  result'[j] = "curated"
    BY <1>4 DEF CorrectionsLearned, history
  <2>3. (complaints[j] > 0 /\ result[j] # "none") => result[j] = "curated"
    BY <2>2 DEF SingleInv, CorrectionsLearned
  <2> QED
    BY <1>1, <1>5, <2>1, <2>2, <2>3
<1> QED
  BY <1>6, <1>7, <1>8, <1>9, <1>10, <1>11 DEF SingleInv

\* A complaint counts as learned only when its handler is done with it.
LEMMA ComplainSingle ==
  ASSUME SingleInv, Alone, NEW p \in Processes, NEW i \in Decisions, Complain(p, i)
  PROVE  SingleInv'
<1>1. /\ phase[p] \in {"idle", "asking"} /\ handler[p] = NoFeedback
      /\ complaints' = [complaints EXCEPT ![i] = @ + 1]
      /\ handler' = [handler EXCEPT ![p] = <<"recorded", i>>]
      /\ UNCHANGED <<queue, result, samples, worker, history>>
  BY DEF Complain
<1>2. QueueInv'
  BY ComplainQueue DEF SingleInv
<1>3. HandlerExcludes'
  BY <1>1 DEF SingleInv, HandlerExcludes, QueueInv, TypeOK, worker
<1>4. FeedbackSeen'
  BY <1>1 DEF FeedbackSeen, Alone, worker
<1>5. CorrectionDue'
  BY <1>1 DEF CorrectionDue, Alone, SingleInv, QueueInv, TypeOK
<1>6. CuratedOnce'
  BY <1>1, <1>2 DEF SingleInv, QueueInv, CuratedOnce
<1>7. CorrectionsLearned'
  <2>1. SUFFICES ASSUME NEW j \in Decisions, j \notin Truncated \union interrupted,
                        complaints'[j] > 0, result[j] # "none",
                        \A q \in Processes : handler'[q][2] # j
                 PROVE  result[j] = "curated"
    BY <1>1 DEF CorrectionsLearned, history
  <2>2. j # i
    BY <1>1, <2>1 DEF SingleInv, QueueInv, TypeOK
  <2>3. complaints[j] > 0
    BY <1>1, <2>1, <2>2 DEF SingleInv, QueueInv, TypeOK
  <2>4. \A q \in Processes : handler[q][2] # j
    BY <1>1, ReviewAssumption DEF Alone, NoFeedback, Decisions
  <2> QED
    BY <2>1, <2>3, <2>4 DEF SingleInv, CorrectionsLearned
<1> QED
  BY <1>2, <1>3, <1>4, <1>5, <1>6, <1>7 DEF SingleInv

\* The handler looks: what is not to be corrected now is not reviewed, is in
\* the pool, or was truncated.
LEMMA LookSingle ==
  ASSUME SingleInv, Alone, NEW p \in Processes, Look(p)
  PROVE  SingleInv'
<1> DEFINE i == handler[p][2]
<1>1. /\ handler[p][1] = "recorded"
      /\ handler' = [handler EXCEPT ![p] = IF Correctable(i) THEN <<"correcting", i>> ELSE NoFeedback]
      /\ UNCHANGED <<queue, result, samples, complaints, worker, history>>
  BY DEF Look
<1>2. QueueInv'
  BY LookQueue DEF SingleInv
<1>3. phase[p] \in {"idle", "asking"} /\ i \in Decisions
  BY <1>1 DEF SingleInv, HandlerExcludes, QueueInv, HandlersBusy, NoFeedback
<1> HIDE DEF i
<1>4. HandlerExcludes'
  BY <1>1, <1>3 DEF HandlerExcludes, Alone, worker
<1>5. FeedbackSeen'
  BY <1>1, <1>3 DEF FeedbackSeen, Alone, worker
<1>6. CorrectionDue'
  BY <1>1 DEF CorrectionDue, Correctable, Alone, SingleInv, QueueInv, TypeOK, NoFeedback
<1>7. CuratedOnce'
  BY <1>1, <1>2 DEF SingleInv, QueueInv, CuratedOnce
<1>8. CorrectionsLearned'
  <2>1. SUFFICES ASSUME NEW j \in Decisions, j \notin Truncated \union interrupted,
                        complaints[j] > 0, result[j] # "none",
                        \A q \in Processes : handler'[q][2] # j
                 PROVE  result[j] = "curated"
    BY <1>1 DEF CorrectionsLearned, history
  <2>2. CASE j = i
    <3>1. ~Correctable(i)
      BY <1>1, <2>1, <2>2 DEF SingleInv, QueueInv, TypeOK
    <3> QED
      BY <1>3, <2>1, <2>2, <3>1 DEF Correctable, SingleInv, QueueInv, TypeOK
  <2>3. CASE j # i
    BY <2>1, <2>3 DEF SingleInv, CorrectionsLearned, Alone, i
  <2> QED
    BY <2>2, <2>3
<1> QED
  BY <1>2, <1>4, <1>5, <1>6, <1>7, <1>8 DEF SingleInv

\* The correction: the result was stored and not yet curated.
LEMMA CorrectSingle ==
  ASSUME SingleInv, Alone, NEW p \in Processes, Correct(p)
  PROVE  SingleInv'
<1> DEFINE i == handler[p][2]
<1>1. /\ handler[p][1] = "correcting"
      /\ result' = [result EXCEPT ![i] = "curated"]
      /\ samples' = [samples EXCEPT ![i] = @ + 1]
      /\ handler' = [handler EXCEPT ![p] = NoFeedback]
      /\ UNCHANGED <<queue, complaints, worker, history>>
  BY DEF Correct
<1>2. QueueInv'
  BY CorrectQueue DEF SingleInv
<1>3. phase[p] \in {"idle", "asking"} /\ i \in Decisions
  BY <1>1 DEF SingleInv, HandlerExcludes, QueueInv, HandlersBusy, NoFeedback
<1>4. result[i] = "stored"
  BY <1>1 DEF SingleInv, CorrectionDue, Correctable
<1>5. \A q \in Processes : handler[q][2] = i
  BY DEF Alone
<1> HIDE DEF i
<1>6. HandlerExcludes'
  BY <1>1, <1>3 DEF HandlerExcludes, Alone, worker
<1>7. FeedbackSeen'
  BY <1>1, <1>3 DEF FeedbackSeen, Alone, worker
<1>8. CorrectionDue'
  BY <1>1 DEF CorrectionDue, Alone, SingleInv, QueueInv, TypeOK, NoFeedback
<1>9. \A j \in Decisions : samples'[j] = IF result'[j] = "curated" THEN 1 ELSE 0
  <2>1. \A j \in Decisions : samples[j] = IF result[j] = "curated" THEN 1 ELSE 0
    BY DEF SingleInv, CuratedOnce
  <2>2. samples \in [Decisions -> Nat] /\ result \in [Decisions -> {"none", "stored", "curated"}]
    BY DEF SingleInv, QueueInv, TypeOK
  <2> QED
    BY <1>1, <1>3, <1>4, <2>1, <2>2
<1>10. CuratedOnce'
  BY <1>2, <1>9 DEF QueueInv, CuratedOnce
<1>11. CorrectionsLearned'
  <2>1. SUFFICES ASSUME NEW j \in Decisions, j \notin Truncated \union interrupted,
                        complaints[j] > 0, result'[j] # "none"
                 PROVE  result'[j] = "curated"
    BY <1>1 DEF CorrectionsLearned, history
  <2>2. CASE j = i
    BY <1>1, <1>3, <2>2 DEF SingleInv, QueueInv, TypeOK
  <2>3. CASE j # i
    BY <1>1, <1>5, <2>1, <2>3 DEF SingleInv, CorrectionsLearned, QueueInv, TypeOK
  <2> QED
    BY <2>2, <2>3
<1> QED
  BY <1>2, <1>6, <1>7, <1>8, <1>10, <1>11 DEF SingleInv

\* A crash forgets the handler, whose decision counts as interrupted.
LEMMA CrashSingle ==
  ASSUME SingleInv, Alone, NEW p \in Processes, Crash(p)
  PROVE  SingleInv'
<1>1. /\ interrupted' = interrupted \union ({handler[p][2]} \ {0})
      /\ phase' = [phase EXCEPT ![p] = "idle"]
      /\ handler' = [handler EXCEPT ![p] = NoFeedback]
      /\ UNCHANGED <<queue, result, samples, complaints>>
  BY DEF Crash
<1>2. QueueInv'
  BY CrashQueue DEF SingleInv
<1>3. HandlerExcludes' /\ FeedbackSeen' /\ CorrectionDue'
  BY <1>1 DEF HandlerExcludes, FeedbackSeen, CorrectionDue, Alone, NoFeedback,
              SingleInv, QueueInv, TypeOK
<1>4. CuratedOnce'
  BY <1>1, <1>2 DEF SingleInv, QueueInv, CuratedOnce
<1>5. CorrectionsLearned'
  <2>1. SUFFICES ASSUME NEW j \in Decisions, j \notin Truncated \union interrupted',
                        complaints[j] > 0, result[j] # "none"
                 PROVE  result[j] = "curated"
    BY <1>1 DEF CorrectionsLearned
  <2>2. j # 0
    BY DEF Decisions
  <2>3. j \notin interrupted /\ \A q \in Processes : handler[q][2] # j
    BY <1>1, <2>1, <2>2 DEF Alone
  <2> QED
    BY <2>1, <2>3 DEF SingleInv, CorrectionsLearned
<1> QED
  BY <1>2, <1>3, <1>4, <1>5 DEF SingleInv

\* The worker's steps that settle a decision or take a batch.
LEMMA WorkerSingle ==
  ASSUME SingleInv, Alone, QueueInv',
         NEW p \in Processes, handler[p] = NoFeedback,
         NEW q \in Phases \ {"committing"}, phase' = [phase EXCEPT ![p] = q],
         UNCHANGED <<result, samples, complaints, human, handler, interrupted>>
  PROVE  SingleInv'
<1>1. HandlerExcludes'
  BY DEF HandlerExcludes, Alone
<1>2. FeedbackSeen'
  BY DEF FeedbackSeen, Alone, SingleInv, QueueInv, TypeOK
<1> QED
  BY <1>1, <1>2, PoolUntouched

LEMMA NextSingle ==
  ASSUME SingleInv, Alone, [Next]_vars
  PROVE  SingleInv'
<1> USE DEF SingleInv
<1>0. QueueInv'
  BY NextQueue
<1>1. ASSUME NEW i \in Decisions, Enqueue(i) PROVE SingleInv'
  BY <1>0, <1>1, PoolUntouched
     DEF Enqueue, worker, history, HandlerExcludes, FeedbackSeen, Current
<1>2. ASSUME NEW p \in Processes, NEW due \in BOOLEAN, NEW capped \in BOOLEAN,
             Tick(p, due, capped)
      PROVE  SingleInv'
  BY <1>0, <1>2, WorkerSingle DEF Tick, Phases
<1>3. ASSUME NEW p \in Processes, Answer(p) PROVE SingleInv'
  <2>1. \E q \in Phases \ {"committing"} : phase' = [phase EXCEPT ![p] = q]
    BY <1>3 DEF Answer, Phases
  <2> QED
    BY <1>0, <1>3, <2>1, WorkerSingle DEF Answer, history
<1>4. ASSUME NEW p \in Processes, FailNext(p) \/ Invalid(p) \/ Finish(p) PROVE SingleInv'
  <2>1. phase[p] \notin {"idle", "asking"}
    BY <1>4 DEF FailNext, Invalid, Finish
  <2>2. handler[p] = NoFeedback
    BY <2>1 DEF HandlerExcludes
  <2>3. \E q \in Phases \ {"committing"} : phase' = [phase EXCEPT ![p] = q]
    BY <1>4 DEF FailNext, Invalid, Finish, Phases
  <2> QED
    BY <1>0, <1>4, <2>2, <2>3, WorkerSingle DEF FailNext, Invalid, Finish
<1>5. ASSUME NEW p \in Processes, Store(p) PROVE SingleInv'
  <2>1. handler[p] = NoFeedback
    BY <1>5 DEF Store, HandlerExcludes
  <2>2. HandlerExcludes'
    BY <1>5, <2>1 DEF Store, HandlerExcludes, Alone
  <2>3. FeedbackSeen'
    BY <1>5 DEF Store, FeedbackSeen, Alone, QueueInv, TypeOK, Current
  <2> QED
    BY <1>0, <1>5, <2>2, <2>3, PoolUntouched DEF Store, history
<1>6. ASSUME NEW p \in Processes, Commit(p) PROVE SingleInv'
  BY <1>6, CommitSingle
<1>7. ASSUME NEW p \in Processes, NEW i \in Decisions, Complain(p, i) PROVE SingleInv'
  BY <1>7, ComplainSingle
<1>8. ASSUME NEW p \in Processes, Look(p) PROVE SingleInv'
  BY <1>8, LookSingle
<1>9. ASSUME NEW p \in Processes, Correct(p) PROVE SingleInv'
  BY <1>9, CorrectSingle
<1>10. ASSUME NEW i \in Decisions, Age(i) PROVE SingleInv'
  BY <1>0, <1>10, PoolUntouched
     DEF Age, worker, history, HandlerExcludes, FeedbackSeen, Current
<1>11. ASSUME NEW p \in Processes, Crash(p) PROVE SingleInv'
  BY <1>11, CrashSingle
<1>12. CASE UNCHANGED vars
  BY <1>0, <1>12, PoolUntouched
     DEF vars, queue, worker, history, HandlerExcludes, FeedbackSeen, Current
<1> QED
  BY <1>1, <1>2, <1>3, <1>4, <1>5, <1>6, <1>7, <1>8, <1>9, <1>10, <1>11, <1>12 DEF Next

\* SingleInv holds in every reachable state of a single process.
THEOREM SingleInvariant == Alone => (Spec => []SingleInv)
<1> SUFFICES ASSUME Alone PROVE Spec => []SingleInv
  OBVIOUS
<1>1. SingleInv /\ [Next]_vars => SingleInv'
  BY NextSingle
<1> QED
  BY InitSingle, <1>1, PTL DEF Spec

\* In a single process the training pool holds a decision at most once, however
\* reviews, corrections, crashes and repeated feedback follow each other.
THEOREM SampledOnce == Alone => (Spec => []CuratedOnce)
<1> SUFFICES ASSUME Alone PROVE Spec => []CuratedOnce
  OBVIOUS
<1>1. SingleInv => CuratedOnce
  BY DEF SingleInv
<1> QED
  BY SingleInvariant, <1>1, PTL

\* In a single process a decision that was complained about and reviewed, in
\* whichever order, is in the training pool, unless it was truncated or the
\* process died inside the feedback handler.
THEOREM FeedbackLearned == Alone => (Spec => []CorrectionsLearned)
<1> SUFFICES ASSUME Alone PROVE Spec => []CorrectionsLearned
  OBVIOUS
<1>1. SingleInv => CorrectionsLearned
  BY DEF SingleInv
<1> QED
  BY SingleInvariant, <1>1, PTL

-----------------------------------------------------------------------------
(***************************************************************************)
(* Routing                                                                 *)
(***************************************************************************)

-----------------------------------------------------------------------------
(* Routing: what the choices return. *)

\* The configuration as the choices use it.
LEMMA Configured ==
  /\ None \notin Tiers /\ None \notin Endpoints
  /\ DOMAIN TierOrder \subseteq Nat
  /\ \A t \in Tiers : /\ Tier[t].context \in Nat /\ Tier[t].bump \in Nat
                      /\ Tier[t].endpoints \in Seq(Endpoints)
                      /\ Tier[t].vision \in BOOLEAN /\ Tier[t].override \in BOOLEAN
  /\ \A e \in Endpoints : Endpoint[e].context \in Nat
  /\ \A t \in Tiers, e \in Endpoints : ExpectedCost[t][e] \in Nat
  /\ ReservePct \in Nat
<1>1. DOMAIN TierOrder \subseteq Nat
  BY PolicyAssumption
<1> QED
  BY <1>1, PolicyAssumption

LEMMA ListsOf ==
  ASSUME NEW t
  PROVE  /\ EndpointsOf(t) \in Seq(Endpoints)
         /\ DOMAIN EndpointsOf(t) \subseteq Nat \ {0}
         /\ \A i \in DOMAIN EndpointsOf(t) : EndpointsOf(t)[i] \in Endpoints
<1>1. EndpointsOf(t) \in Seq(Endpoints)
  BY Configured DEF EndpointsOf
<1> QED
  BY <1>1

\* What the search finds is in the set, at a position from the one asked for.
LEMMA FirstFound ==
  ASSUME NEW s, NEW n, NEW S, DOMAIN s \subseteq Nat, FirstFrom(s, n, S) # None
  PROVE  FirstFrom(s, n, S) \in S
<1> DEFINE at == {i \in DOMAIN s : n <= i /\ s[i] \in S}
<1>1. at # {} /\ FirstFrom(s, n, S) = s[Min(at)]
  BY Zenon DEF FirstFrom
<1>2. at \subseteq Nat
  OBVIOUS
<1>3. Min(at) \in at
  BY <1>1, <1>2, LeastElement
<1> QED
  BY <1>1, <1>3

LEMMA FirstOfTyped ==
  ASSUME NEW t, NEW o
  PROVE  FirstOf(t, o) \in Endpoints \union {None}
<1>1. DOMAIN EndpointsOf(t) \subseteq Nat
  BY ListsOf
<1>2. \A S : FirstIn(EndpointsOf(t), S) # None => FirstIn(EndpointsOf(t), S) \in S
  BY <1>1, FirstFound DEF FirstIn
<1> QED
  BY <1>2 DEF FirstOf

\* A tier the tenant has, or no route.
LEMMA DowngradedHad ==
  ASSUME NEW d, NEW mine, NEW o, mine \subseteq Tiers \union {OverflowTier},
         Downgraded(d, mine, o) # NoRoute
  PROVE  /\ Downgraded(d, mine, o).tier \in mine
         /\ Downgraded(d, mine, o) = d \/ "access" \in Downgraded(d, mine, o).by
<1>1. FirstIn(TierOrder, mine) # None => FirstIn(TierOrder, mine) \in mine
  BY Configured, FirstFound DEF FirstIn
<1>2. CASE d.tier \in mine
  BY <1>2 DEF Downgraded
<1>3. CASE d.tier \notin mine
  <2>1. FirstIn(TierOrder, mine) # None
    BY <1>3 DEF Downgraded
  <2>2. Downgraded(d, mine, o)
        = Decision(FirstIn(TierOrder, mine), FirstOf(FirstIn(TierOrder, mine), o), d.by \union {"access"})
    BY <1>3, <2>1 DEF Downgraded
  <2> QED
    BY <1>1, <2>1, <2>2 DEF Decision
<1> QED
  BY <1>2, <1>3

LEMMA InheritedHad ==
  ASSUME NEW d, NEW t, NEW mine, NEW o, d.tier \in mine
  PROVE  /\ Inherited(d, t, mine, o).tier \in mine
         /\ Inherited(d, t, mine, o) = d \/ "inherited" \in Inherited(d, t, mine, o).by
BY DEF Inherited, Decision

\* A room fits and lies in a tier the tenant has.
LEMMA RoomyFits ==
  ASSUME NEW d, NEW q, NEW mine, NEW o, d.tier \in mine,
         NEW room \in Roomy(d, q, mine, o)
  PROVE  /\ room.tier \in mine /\ Fits(room, q)
         /\ room = d \/ "context" \in room.by
<1>1. CASE Fits(d, q)
  BY <1>1 DEF Roomy
<1>2. CASE ~Fits(d, q)
  <2>1. /\ room \in {Decision(t, e, d.by \union {"context"}) : t \in Tiers, e \in Endpoints}
        /\ room.tier \in mine /\ Fits(room, q)
    BY <1>2 DEF Roomy
  <2> QED
    BY <2>1 DEF Decision
<1> QED
  BY <1>1, <1>2

\* Redirect refuses the request, or decides on a route that the tenant's tiers
\* allow and that fits, or on a translation's.  A decision by price alone is
\* the one it was given.
Routed(q, d) ==
  \/ stage' = "answered" /\ decision' = NoRoute
  \/ /\ stage' = "decided"
     /\ decision'.tier \in Tiers /\ decision'.endpoint \in Endpoints \union {None}
     /\ decision'.tier = q.dedicated \/ (decision'.tier \in access /\ Fits(decision', q))
     /\ decision'.by = {"arith"} => decision' = d

LEMMA RedirectRoutes ==
  ASSUME NEW q, NEW d, NEW t, NEW o, RoutingTypeOK, Redirect(q, d, t, o)
  PROVE  Routed(q, d)
<1> DEFINE mine == Downgraded(d, access, o)
           tier == IF PreRoute(q) = None THEN Inherited(mine, t, access, o) ELSE mine
           rooms == IF mine = NoRoute THEN {} ELSE Roomy(tier, q, access, o)
<1>1. \/ stage' = "answered" /\ decision' = NoRoute
      \/ \E room \in rooms :
           /\ stage' = "decided"
           /\ decision' = IF q.dedicated \in Tiers
                          THEN Decision(q.dedicated, FirstOf(q.dedicated, o),
                                        room.by \union {"translation"})
                          ELSE room
  BY Zenon DEF Redirect
<1> SUFFICES ASSUME NEW room \in rooms, stage' = "decided",
                    decision' = IF q.dedicated \in Tiers
                                THEN Decision(q.dedicated, FirstOf(q.dedicated, o),
                                              room.by \union {"translation"})
                                ELSE room
             PROVE  Routed(q, d)
  BY <1>1, Zenon DEF Routed
<1>2. access \subseteq Tiers \union {OverflowTier}
  BY RoutingAssumption DEF RoutingTypeOK
<1>3. mine # NoRoute /\ room \in Roomy(tier, q, access, o)
  OBVIOUS
<1>4. mine.tier \in access /\ (mine = d \/ "access" \in mine.by)
  BY <1>2, <1>3, DowngradedHad
<1>5. tier.tier \in access /\ (tier = mine \/ "inherited" \in tier.by)
  <2>1. CASE PreRoute(q) = None
    BY <1>4, <2>1, InheritedHad
  <2>2. CASE PreRoute(q) # None
    BY <1>4, <2>2
  <2> QED
    BY <2>1, <2>2
<1>6. room.tier \in access /\ Fits(room, q) /\ (room = tier \/ "context" \in room.by)
  <2> HIDE DEF tier
  <2> QED
    BY <1>3, <1>5, RoomyFits
<1>7. room.by = {"arith"} => room = d
  <2> HIDE DEF tier, mine
  <2>1. room.by = {"arith"} => room = tier
    BY <1>6
  <2>2. room.by = {"arith"} => tier = mine
    BY <2>1, <1>5
  <2>3. room.by = {"arith"} => mine = d
    BY <2>1, <2>2, <1>4
  <2> QED
    BY <2>1, <2>2, <2>3
<1> HIDE DEF tier, mine, rooms
<1>8. CASE q.dedicated \in Tiers
  <2>1. decision' = Decision(q.dedicated, FirstOf(q.dedicated, o), room.by \union {"translation"})
    BY <1>8
  <2>2. /\ decision'.tier = q.dedicated /\ decision'.endpoint = FirstOf(q.dedicated, o)
        /\ decision'.by = room.by \union {"translation"}
    BY <2>1 DEF Decision
  <2> QED
    BY <1>8, <2>2, FirstOfTyped DEF Routed
<1>9. CASE q.dedicated \notin Tiers
  BY <1>6, <1>7, <1>9 DEF Routed, Fits
<1> QED
  BY <1>8, <1>9

-----------------------------------------------------------------------------
(* Routing: the choice by price. *)

\* What a candidate is for its tier.
StandsFor(d, q, t, o) ==
  /\ d.tier = t /\ d.endpoint \in Endpoints /\ d.by = {"arith"}
  /\ d = Decision(d.tier, d.endpoint, d.by)
  /\ \A i \in Offered(q, t, o) : CostOf(d) <= PriceAt(t, i)

\* The cheapest endpoint of a tier is one it offers, at the least price.
LEMMA CheapestLeast ==
  ASSUME NEW q, NEW t \in Tiers, NEW o, Offered(q, t, o) # {}
  PROVE  StandsFor(Cheapest(q, t, o), q, t, o)
<1> DEFINE offered == Offered(q, t, o)
           prices == {PriceAt(t, i) : i \in offered}
           cheap == {i \in offered : PriceAt(t, i) = Min(prices)}
<1>1. /\ offered \subseteq Nat
      /\ \A i \in offered : EndpointsOf(t)[i] \in Endpoints
  BY ListsOf DEF Offered
<1>2. prices \subseteq Nat /\ prices # {}
  BY <1>1, Configured DEF PriceAt
<1>3. Min(prices) \in prices /\ \A x \in prices : Min(prices) <= x
  <2> HIDE DEF prices
  <2> QED
    BY <1>2, LeastElement
<1>4. cheap # {} /\ cheap \subseteq Nat
  BY <1>1, <1>3
<1>5. Min(cheap) \in cheap
  <2> HIDE DEF cheap
  <2> QED
    BY <1>4, LeastElement
<1>6. Cheapest(q, t, o) = Decision(t, EndpointsOf(t)[Min(cheap)], {"arith"})
  BY Zenon DEF Cheapest
<1>7. CostOf(Cheapest(q, t, o)) = Min(prices)
  BY <1>5, <1>6 DEF CostOf, PriceAt, Decision
<1> QED
  BY <1>1, <1>3, <1>5, <1>6, <1>7 DEF Decision, StandsFor

\* What a set of candidates has to be for the order to be one.
Priced(c) == \A d \in c : d.tier \in Tiers /\ d.endpoint \in Endpoints

LEMMA PlaceIsNumber ==
  ASSUME NEW t \in Tiers
  PROVE  Place(t) \in Nat
<1>1. \E i \in DOMAIN TierOrder : TierOrder[i] = t
  BY DEF Tiers, Range
<1> QED
  BY <1>1, Configured DEF Place

LEMMA ForemostLeast ==
  ASSUME NEW c, c # {}, Priced(c)
  PROVE  Foremost(c) \in c /\ \A d \in c : CostOf(Foremost(c)) <= CostOf(d)
<1> DEFINE costs == {CostOf(d) : d \in c}
           equals == {x \in c : CostOf(x) = Min(costs)}
           places == {Place(d.tier) : d \in equals}
<1>1. costs \subseteq Nat /\ costs # {}
  BY Configured DEF Priced, CostOf
<1>2. Min(costs) \in costs /\ \A x \in costs : Min(costs) <= x
  <2> HIDE DEF costs
  <2> QED
    BY <1>1, LeastElement
<1>3. places \subseteq Nat /\ places # {}
  <2>1. \A d \in equals : Place(d.tier) \in Nat
    BY PlaceIsNumber DEF Priced
  <2> QED
    BY <1>2, <2>1
<1>4. Min(places) \in places
  <2> HIDE DEF places
  <2> QED
    BY <1>3, LeastElement
<1>5. \E d \in c : CostOf(d) = Min(costs) /\ Place(d.tier) = Min(places)
  <2> HIDE DEF costs
  <2> QED
    BY <1>4
<1>6. Foremost(c) = CHOOSE d \in c : CostOf(d) = Min(costs) /\ Place(d.tier) = Min(places)
  BY Zenon DEF Foremost
<1>7. Foremost(c) \in c /\ CostOf(Foremost(c)) = Min(costs)
  <2> HIDE DEF costs, places
  <2> QED
    BY <1>5, <1>6
<1> QED
  BY <1>2, <1>7

\* The candidates stand for every endpoint that is offered.
LEMMA CandidatesStand ==
  ASSUME NEW q, NEW o
  PROVE  /\ Priced(Candidates(q, o))
         /\ \A d \in Candidates(q, o) :
              d.by = {"arith"} /\ d = Decision(d.tier, d.endpoint, d.by)
         /\ \A t \in Tiers : Considered(q, t) => \A i \in Offered(q, t, o) :
              \E d \in Candidates(q, o) : CostOf(d) <= PriceAt(t, i)
<1> DEFINE asked == {u \in Tiers : Considered(q, u) /\ Offered(q, u, o) # {}}
<1>1. Candidates(q, o) = {Cheapest(q, t, o) : t \in asked}
  BY DEF Candidates
<1>2. \A t \in asked : StandsFor(Cheapest(q, t, o), q, t, o)
  BY CheapestLeast
<1>3. asked \subseteq Tiers
  OBVIOUS
<1>4. \A t \in Tiers : Considered(q, t) => \A i \in Offered(q, t, o) : t \in asked
  OBVIOUS
<1> HIDE DEF asked
<1>5. Priced(Candidates(q, o))
  BY <1>1, <1>2, <1>3 DEF Priced, StandsFor
<1>6. \A t \in Tiers : Considered(q, t) => \A i \in Offered(q, t, o) :
        \E d \in Candidates(q, o) : CostOf(d) <= PriceAt(t, i)
  BY <1>1, <1>2, <1>4 DEF StandsFor
<1> QED
  BY <1>1, <1>2, <1>5, <1>6 DEF StandsFor

\* Where the choice by price ends: at the fallback for want of candidates, or
\* within five percent of the cheapest of them.
NearLeast(q, o, d) ==
  \A t \in Tiers : Considered(q, t) => \A i \in Offered(q, t, o) :
    CostOf(d) * 100 <= PriceAt(t, i) * 105

LEMMA EscalatedTyped ==
  ASSUME NEW o
  PROVE  /\ Escalated(o).tier \in Tiers \union {None}
         /\ Escalated(o).endpoint \in Endpoints \union {None}
         /\ Escalated(o).by # {"arith"}
<1>1. /\ \A S : FirstIn(TierOrder, S) # None => FirstIn(TierOrder, S) \in S
      /\ \A t, S : FirstIn(EndpointsOf(t), S) # None => FirstIn(EndpointsOf(t), S) \in S
  BY Configured, ListsOf, FirstFound DEF FirstIn
<1> DEFINE safe == IF SafeTier \in Tiers THEN SafeTier
                   ELSE FirstIn(TierOrder, {t \in Tiers : Ordinary(t)})
           closed == FirstIn(EndpointsOf(safe), Endpoints \ o)
<1>2. safe \in Tiers \union {None} /\ closed \in Endpoints \union {None}
  BY <1>1
<1>3. Escalated(o) = IF safe = None THEN NoRoute
                     ELSE IF closed # None THEN Decision(safe, closed, {"escalation"})
                     ELSE IF Fallback \in Endpoints THEN Decision(safe, Fallback, {"fallback"})
                     ELSE NoRoute
  BY Zenon DEF Escalated
<1> HIDE DEF safe, closed
<1> QED
  BY <1>2, <1>3 DEF NoRoute, Decision

TypedDecision(d) == d.tier \in Tiers \union {None} /\ d.endpoint \in Endpoints \union {None}

\* The choice by price, its tie-breaks included.
LEMMA CostFirstNear ==
  ASSUME NEW q, NEW o, NEW load
  PROVE  LET d == CostFirst(q, o, load) IN
         TypedDecision(d) /\ (d.by = {"arith"} => NearLeast(q, o, d))
<1> DEFINE c == Candidates(q, o)
           first == Foremost(c)
           second == Foremost(Others(c))
           rivals == {d \in Others(c) : /\ CostOf(d) * 100 <= CostOf(first) * 105
                                        /\ load[d.endpoint] < load[first.endpoint]}
           chosen == CostFirst(q, o, load)
<1>1. Priced(c) /\ \A d \in c : CostOf(d) \in Nat
  BY CandidatesStand, Configured DEF Priced, CostOf
<1>2. CASE c = {} \/ q.doubt
  <2>1. chosen = Escalated(o)
    BY <1>2 DEF CostFirst
  <2> QED
    BY <2>1, EscalatedTyped DEF TypedDecision
<1>3. CASE c # {} /\ ~q.doubt
  <2>1. first \in c /\ \A d \in c : CostOf(first) <= CostOf(d)
    BY <1>1, <1>3, ForemostLeast
  <2>2. Others(c) \subseteq c /\ Priced(Others(c))
    BY <1>1 DEF Others, Priced
  <2>3. Others(c) # {} => second \in c
    BY <2>2, ForemostLeast
  <2>4. rivals # {} => Foremost(rivals) \in rivals
    <3>1. Priced(rivals)
      BY <2>2 DEF Priced
    <3> HIDE DEF rivals
    <3> QED
      BY <3>1, ForemostLeast
  <2>5. chosen \in c /\ CostOf(chosen) * 100 <= CostOf(first) * 105
    <3>1. CASE Others(c) # {} /\ CostOf(first) < CostOf(second) /\ Near(first, second)
      <4>1. chosen = second
        BY <1>3, <3>1 DEF CostFirst
      <4>2. second \in c
        BY <2>3, <3>1
      <4>3. CostOf(first) \in Nat /\ CostOf(second) \in Nat
        BY <1>1, <2>1, <4>2
      <4>4. (CostOf(second) - CostOf(first)) * 100 < 5 * CostOf(first)
        BY <3>1, <4>3 DEF Near
      <4> HIDE DEF first, second, c, chosen
      <4> QED
        BY <4>1, <4>2, <4>3, <4>4
    <3>2. CASE ~(Others(c) # {} /\ CostOf(first) < CostOf(second) /\ Near(first, second))
      <4>1. chosen = LessLoaded(c, load)
        BY <1>3, <3>2 DEF CostFirst
      <4>2. chosen = first \/ (rivals # {} /\ chosen = Foremost(rivals))
        BY <4>1 DEF LessLoaded
      <4>3. CostOf(first) \in Nat
        BY <1>1, <2>1
      <4>4. CostOf(first) * 100 <= CostOf(first) * 105
        <5> HIDE DEF first
        <5> QED
          BY <4>3
      <4>5. rivals # {} => Foremost(rivals) \in c /\ CostOf(Foremost(rivals)) * 100 <= CostOf(first) * 105
        BY <2>2, <2>4
      <4> HIDE DEF first, second, c, chosen, rivals
      <4> QED
        BY <2>1, <4>2, <4>4, <4>5
    <3> QED
      BY <3>1, <3>2
  <2>6. NearLeast(q, o, chosen)
    <3> SUFFICES ASSUME NEW t \in Tiers, Considered(q, t), NEW i \in Offered(q, t, o)
                 PROVE  CostOf(chosen) * 100 <= PriceAt(t, i) * 105
      BY DEF NearLeast
    <3>1. PICK d \in c : CostOf(d) <= PriceAt(t, i)
      BY CandidatesStand
    <3>2. CostOf(first) <= CostOf(d)
      BY <2>1
    <3>3. CostOf(first) \in Nat /\ CostOf(d) \in Nat /\ CostOf(chosen) \in Nat
      BY <1>1, <2>1, <2>5
    <3>4. PriceAt(t, i) \in Nat
      BY ListsOf, Configured DEF PriceAt, Offered
    <3> HIDE DEF first, c, chosen
    <3> QED
      BY <2>5, <3>1, <3>2, <3>3, <3>4
  <2>7. chosen.tier \in Tiers /\ chosen.endpoint \in Endpoints
    <3> HIDE DEF c, chosen, first
    <3> QED
      BY <1>1, <2>5 DEF Priced
  <2> QED
    BY <2>6, <2>7 DEF TypedDecision
<1> QED
  BY <1>2, <1>3

\* The choice by budget is not one by price alone.
LEMMA BudgetTyped ==
  ASSUME NEW q, NEW o, NEW models, NEW left, NEW target
  PROVE  LET d == BudgetAware(q, o, models, left, target) IN
         TypedDecision(d) /\ d.by # {"arith"}
<1> DEFINE c == Candidates(q, o)
           eligible == {d \in c : /\ Allowed(models, d.endpoint)
                                  /\ \/ left[d.endpoint] = None
                                     \/ q.in + q.out <= left[d.endpoint]}
           chosen == BudgetAware(q, o, models, left, target)
<1>1. \/ chosen = Escalated(o)
      \/ eligible # {} /\ chosen = [Foremost(eligible) EXCEPT !.by = {"budget"}]
      \/ chosen = Decision(None, None, {"quality_target_unmet"})
  BY DEF BudgetAware
<1>2. eligible # {} => /\ Foremost(eligible).tier \in Tiers
                       /\ Foremost(eligible).endpoint \in Endpoints
                       /\ \E t, e, by : Foremost(eligible) = Decision(t, e, by)
  <2>1. Priced(eligible) /\ \A d \in eligible : d = Decision(d.tier, d.endpoint, d.by)
    BY CandidatesStand DEF Priced
  <2> HIDE DEF eligible
  <2>2. eligible # {} => Foremost(eligible) \in eligible
    BY <2>1, ForemostLeast
  <2> QED
    BY <2>1, <2>2 DEF Priced
<1> HIDE DEF eligible, chosen
<1>3. CASE chosen = Escalated(o)
  BY <1>3, EscalatedTyped DEF TypedDecision, chosen
<1>4. CASE eligible # {} /\ chosen = [Foremost(eligible) EXCEPT !.by = {"budget"}]
  <2>1. /\ chosen.tier \in Tiers /\ chosen.endpoint \in Endpoints
        /\ chosen.by = {"budget"}
    BY <1>2, <1>4 DEF Decision
  <2> QED
    BY <2>1 DEF TypedDecision, chosen
<1>5. CASE chosen = Decision(None, None, {"quality_target_unmet"})
  BY <1>5 DEF TypedDecision, Decision, chosen
<1> QED
  BY <1>1, <1>3, <1>4, <1>5

\* A redirect for memory is marked.
LEMMA CompactedMarked ==
  ASSUME NEW d, NEW q, NEW o
  PROVE  Compacted(d, q, o) = d \/ Compacted(d, q, o).by = {"compaction"}
<1> DEFINE holding == {t \in Tiers : Tier[t].context >= (q.memory * 4) \div 3}
           higher == FirstFrom(TierOrder, Place(d.tier) + 1, holding)
           target == IF higher # None THEN higher
                     ELSE IF OverflowTier \in Tiers THEN OverflowTier ELSE None
<1>1. Compacted(d, q, o) = d
      \/ Compacted(d, q, o) = Decision(target, FirstOf(target, o), {"compaction"})
  BY DEF Compacted
<1> QED
  BY <1>1 DEF Decision

-----------------------------------------------------------------------------
(* Routing: the invariant. *)

\* What the tenant has now, and the plan that was read, count as had.
RightsCounted ==
  /\ access \subseteq granted /\ EntitledBy(plan) \subseteq entitled
  /\ quota # None => EntitledBy(quota) \subseteq entitled
  /\ stage \in {"idle", "asking"} => quota = None

\* A decision lies in a tier the tenant had, and holds the request; once it is
\* checked its endpoint is one the plan allowed.
DecisionHad ==
  /\ stage \in {"idle", "asking"} => decision = NoRoute
  /\ stage \in {"decided", "checked", "sending"} =>
       /\ decision.tier \in Tiers
       /\ decision.tier = req.dedicated \/ (decision.tier \in granted /\ Fits(decision, req))
  /\ stage \in {"checked", "sending"} => decision.endpoint \in entitled

\* A rung of the ladder is the endpoint decided on, another of its tier that
\* was not OPEN, or the fallback in its home.
Stands(n) ==
  \/ n = 0
  \/ /\ n \in DOMAIN EndpointsOf(decision.tier)
     /\ EndpointsOf(decision.tier)[n] \notin open
  \/ n = FallbackRung(decision)

\* There is a ladder while a request is being sent, and none before that.
LadderLeft ==
  /\ \A n \in todo : Stands(n)
  /\ todo \subseteq Nat /\ (todo = {} <=> stage # "sending")
  /\ stage \notin {"sending", "answered"} => sent = {}

\* Inductive: what the decision was made from is kept until its last call.
RoutingInv ==
  RoutingTypeOK /\ RightsCounted /\ DecisionHad /\ LadderLeft /\ SentWithinRights /\ NearCheapest

LEMMA RoutingInitInv == RoutingInit => RoutingInv
<1> SUFFICES ASSUME RoutingInit PROVE RoutingInv
  OBVIOUS
<1>1. RoutingTypeOK
  BY RoutingAssumption DEF RoutingInit, RoutingTypeOK, NoRoute, Decision, EntitledBy
<1>2. RightsCounted /\ LadderLeft /\ SentWithinRights
  BY DEF RoutingInit, RightsCounted, LadderLeft, SentWithinRights, Stands
<1>3. DecisionHad /\ NearCheapest
  BY DEF RoutingInit, DecisionHad, NearCheapest, NoRoute, Decision
<1> QED
  BY <1>1, <1>2, <1>3 DEF RoutingInv

\* What Arrive and Price have in common: a request without a ladder is
\* refused, goes on asking, or is routed.
LEMMA RoutedKeeps ==
  ASSUME RoutingInv, NEW q \in Inputs, NEW d,
         stage \in {"idle", "asking"}, req' = q, open' \subseteq Endpoints,
         last' \in Tiers \union {None}, Routed(q, d),
         UNCHANGED <<todo, sent, access, plan>>,
         access' \subseteq granted', granted' \subseteq Tiers \union {OverflowTier},
         EntitledBy(plan') \subseteq entitled', entitled' \subseteq Endpoints,
         quota' \in (SUBSET Endpoints) \union {None},
         quota' # None => EntitledBy(quota') \subseteq entitled',
         d.by = {"arith"} => NearLeast(q, open', d)
  PROVE  RoutingInv'
<1>1. todo' = {} /\ sent' = {}
  BY DEF RoutingInv, LadderLeft
<1>2. (stage' = "answered" /\ decision' = NoRoute) \/ stage' = "decided"
  BY DEF Routed
<1>3. decision'.tier \in Tiers \union {None} /\ decision'.endpoint \in Endpoints \union {None}
  BY DEF Routed, NoRoute, Decision
<1>4. RoutingTypeOK'
  BY <1>1, <1>2, <1>3 DEF RoutingInv, RoutingTypeOK
<1>5. RightsCounted' /\ LadderLeft' /\ SentWithinRights'
  BY <1>1, <1>2 DEF RightsCounted, LadderLeft, SentWithinRights, EntitledBy
<1>6. DecisionHad'
  BY <1>2 DEF Routed, DecisionHad
<1>7. NearCheapest'
  <2>1. CASE decision' = NoRoute
    BY <2>1 DEF NearCheapest, NoRoute, Decision
  <2>2. CASE decision' # NoRoute /\ decision'.by = {"arith"}
    <3>1. decision' = d
      BY <2>2 DEF Routed
    <3>2. NearLeast(q, open', d)
      BY <2>2, <3>1
    <3> QED
      BY <3>1, <3>2 DEF NearCheapest, NearLeast
  <2>3. CASE decision'.by # {"arith"}
    BY <2>3 DEF NearCheapest
  <2> QED
    BY <2>1, <2>2, <2>3
<1> QED
  BY <1>4, <1>5, <1>6, <1>7 DEF RoutingInv

LEMMA ArriveKeeps ==
  ASSUME RoutingInv, NEW q \in Inputs, Arrive(q)
  PROVE  RoutingInv'
<1>1. stage = "idle" /\ req' = q /\ granted' = access /\ entitled' = EntitledBy(plan)
      /\ UNCHANGED <<quota, todo, sent, access, plan, edits>>
  BY DEF Arrive
<1>2. PICK o \in Outages, t \in Lasts :
        /\ open' = o /\ last' = t
        /\ \/ stage' = "answered" /\ decision' = NoRoute
           \/ Direct(q, o, access) # NoRoute /\ Redirect(q, Direct(q, o, access), t, o)
           \/ Redirect(q, Decision(PreRoute(q), FirstOf(PreRoute(q), o), {"pre"}), t, o)
           \/ stage' = "asking" /\ UNCHANGED decision
  BY DEF Arrive
<1>3. open' \subseteq Endpoints /\ last' \in Tiers \union {None}
  BY <1>2, RoutingAssumption
<1>4. /\ access' \subseteq granted' /\ granted' \subseteq Tiers \union {OverflowTier}
      /\ EntitledBy(plan') \subseteq entitled' /\ entitled' \subseteq Endpoints
  BY <1>1, RoutingAssumption DEF RoutingInv, RoutingTypeOK, EntitledBy
<1>5. quota' = None
  BY <1>1 DEF RoutingInv, RightsCounted
<1>6. ASSUME NEW d, Routed(q, d), d.by # {"arith"}
      PROVE  RoutingInv'
  BY <1>1, <1>2, <1>3, <1>4, <1>5, <1>6, RoutedKeeps
<1>7. CASE stage' = "answered" /\ decision' = NoRoute
  <2>1. Routed(q, NoRoute) /\ NoRoute.by # {"arith"}
    BY <1>7 DEF Routed, NoRoute, Decision
  <2> QED
    BY <1>6, <2>1
<1>8. CASE Direct(q, o, access) # NoRoute /\ Redirect(q, Direct(q, o, access), t, o)
  <2>1. Direct(q, o, access).by = {"direct"}
    BY <1>8 DEF Direct, Decision
  <2>2. Routed(q, Direct(q, o, access))
    BY <1>8, RedirectRoutes DEF RoutingInv
  <2> QED
    BY <1>6, <2>1, <2>2
<1>9. CASE Redirect(q, Decision(PreRoute(q), FirstOf(PreRoute(q), o), {"pre"}), t, o)
  <2> DEFINE d == Decision(PreRoute(q), FirstOf(PreRoute(q), o), {"pre"})
  <2>1. d.by = {"pre"}
    BY DEF Decision
  <2>2. Routed(q, d)
    BY <1>9, RedirectRoutes DEF RoutingInv
  <2> HIDE DEF d
  <2> QED
    BY <1>6, <2>1, <2>2
<1>10. CASE stage' = "asking" /\ UNCHANGED decision
  <2>1. decision' = NoRoute /\ todo' = {} /\ sent' = {}
    BY <1>1, <1>10 DEF RoutingInv, DecisionHad, LadderLeft
  <2>2. RoutingTypeOK'
    BY <1>1, <1>3, <1>4, <1>10, <2>1 DEF RoutingInv, RoutingTypeOK, NoRoute, Decision
  <2>3. RightsCounted' /\ LadderLeft' /\ SentWithinRights'
    BY <1>4, <1>5, <1>10, <2>1 DEF RightsCounted, LadderLeft, SentWithinRights
  <2>4. DecisionHad' /\ NearCheapest'
    BY <1>10, <2>1 DEF DecisionHad, NearCheapest, NoRoute, Decision
  <2> QED
    BY <2>2, <2>3, <2>4 DEF RoutingInv
<1> QED
  BY <1>2, <1>7, <1>8, <1>9, <1>10

LEMMA PriceKeeps ==
  ASSUME RoutingInv, Price
  PROVE  RoutingInv'
<1>1. /\ stage = "asking" /\ quota' = IF BudgetAwareOn THEN plan ELSE None
      /\ UNCHANGED <<req, open, last, todo, sent, access, plan, granted, entitled, edits>>
  BY DEF Price
<1>2. PICK d : /\ TypedDecision(d) /\ (d.by = {"arith"} => NearLeast(req, open, d))
               /\ \/ d.tier = None /\ stage' = "answered" /\ decision' = d
                  \/ Redirect(req, Compacted(d, req, open), last, open)
  <2>1. PICK left \in Budgets, load \in Loads :
          LET limited == plan # None \/ \E e \in Endpoints : left[e] # None
              models  == IF plan = None THEN {} ELSE plan
          IN  \E d \in {IF BudgetAwareOn /\ limited
                       THEN BudgetAware(req, open, models, left, Target)
                       ELSE CostFirst(req, open, load)} :
              \/ d.tier = None /\ stage' = "answered" /\ decision' = d
              \/ Redirect(req, Compacted(d, req, open), last, open)
    BY Zenon DEF Price
  <2> DEFINE models == IF plan = None THEN {} ELSE plan
  <2>2. PICK d \in {BudgetAware(req, open, models, left, Target), CostFirst(req, open, load)} :
              \/ d.tier = None /\ stage' = "answered" /\ decision' = d
              \/ Redirect(req, Compacted(d, req, open), last, open)
    BY <2>1
  <2> HIDE DEF models
  <2>3. TypedDecision(d) /\ (d.by = {"arith"} => NearLeast(req, open, d))
    BY <2>2, CostFirstNear, BudgetTyped
  <2> QED
    BY <2>2, <2>3
<1>3. req \in Inputs /\ open \subseteq Endpoints /\ last \in Tiers \union {None}
  BY <1>1 DEF RoutingInv, RoutingTypeOK
<1>4. /\ access \subseteq granted /\ granted \subseteq Tiers \union {OverflowTier}
      /\ EntitledBy(plan) \subseteq entitled /\ entitled \subseteq Endpoints
      /\ plan \in (SUBSET Endpoints) \union {None}
  BY RoutingAssumption DEF RoutingInv, RoutingTypeOK, RightsCounted
<1>5. /\ quota' \in (SUBSET Endpoints) \union {None}
      /\ quota' # None => EntitledBy(quota') \subseteq entitled'
  BY <1>1, <1>4 DEF EntitledBy
<1>6. CASE Redirect(req, Compacted(d, req, open), last, open)
  <2> DEFINE e == Compacted(d, req, open)
  <2>1. Routed(req, e)
    BY <1>6, RedirectRoutes DEF RoutingInv
  <2>2. e.by = {"arith"} => NearLeast(req, open, e)
    <3>1. e = d \/ e.by = {"compaction"}
      BY CompactedMarked
    <3> HIDE DEF e
    <3> QED
      BY <1>2, <3>1
  <2> HIDE DEF e
  <2>3. /\ req' = req /\ open' = open /\ last' = last /\ access' = access /\ granted' = granted
        /\ plan' = plan /\ entitled' = entitled /\ UNCHANGED <<todo, sent, access, plan>>
    BY <1>1
  <2>4. EntitledBy(plan') \subseteq entitled'
    BY <1>4, <2>3
  <2> QED
    BY <1>1, <1>3, <1>4, <1>5, <2>1, <2>2, <2>3, <2>4, RoutedKeeps
<1>7. CASE d.tier = None /\ stage' = "answered" /\ decision' = d
  <2>1. todo' = {} /\ sent' = {}
    BY <1>1 DEF RoutingInv, LadderLeft
  <2>2. RoutingTypeOK'
    BY <1>1, <1>2, <1>3, <1>4, <1>5, <1>7, <2>1 DEF RoutingInv, RoutingTypeOK, TypedDecision
  <2>3. RightsCounted' /\ LadderLeft' /\ SentWithinRights'
    BY <1>1, <1>4, <1>5, <1>7, <2>1 DEF RightsCounted, LadderLeft, SentWithinRights, EntitledBy
  <2>4. DecisionHad'
    BY <1>7 DEF DecisionHad
  <2>5. NearCheapest'
    BY <1>1, <1>2, <1>7 DEF NearCheapest, NearLeast
  <2> QED
    BY <2>2, <2>3, <2>4, <2>5 DEF RoutingInv
<1> QED
  BY <1>2, <1>6, <1>7

LEMMA CheckKeeps ==
  ASSUME RoutingInv, Check
  PROVE  RoutingInv'
<1>1. /\ stage = "decided" /\ stage' \in {"checked", "answered"}
      /\ UNCHANGED <<req, open, last, decision, todo, sent, access, plan, granted, entitled, edits>>
      /\ quota' = IF quota = None THEN plan ELSE quota
  BY DEF Check
<1>2. stage' = "checked" => /\ Valid(decision)
                            /\ quota' = None \/ Allowed(quota', decision.endpoint)
  BY DEF Check
<1>3. /\ quota' \in (SUBSET Endpoints) \union {None}
      /\ EntitledBy(quota') \subseteq entitled
  BY <1>1, RoutingAssumption DEF RoutingInv, RoutingTypeOK, RightsCounted
<1>4. stage' = "checked" => decision.endpoint \in entitled
  BY <1>2, <1>3 DEF EntitledBy, Valid
<1>5. RoutingTypeOK'
  BY <1>1, <1>2, <1>3 DEF RoutingInv, RoutingTypeOK, Valid, Rung, Home, FallbackRung, EndpointsOf
<1>6. RightsCounted' /\ LadderLeft' /\ SentWithinRights'
  BY <1>1, <1>3 DEF RoutingInv, RightsCounted, LadderLeft, SentWithinRights, EntitledBy
<1>7. DecisionHad' /\ NearCheapest'
  BY <1>1, <1>4 DEF RoutingInv, DecisionHad, NearCheapest
<1> QED
  BY <1>5, <1>6, <1>7 DEF RoutingInv

\* Every rung is an endpoint of a configured tier.
LEMMA RungsTyped ==
  ASSUME NEW d, d.tier \in Tiers, d.endpoint \in Endpoints,
         NEW n \in {0} \union DOMAIN EndpointsOf(d.tier) \union {FallbackRung(d)},
         n = FallbackRung(d) => Home # None
  PROVE  Rung(d, n).tier \in Tiers /\ Rung(d, n).endpoint \in Endpoints
<1>1. /\ DOMAIN EndpointsOf(d.tier) \subseteq Nat \ {0}
      /\ \A i \in DOMAIN EndpointsOf(d.tier) : EndpointsOf(d.tier)[i] \in Endpoints
      /\ EndpointsOf(d.tier) \in Seq(Endpoints)
  BY ListsOf
<1>2. FallbackRung(d) \in Nat \ {0} /\ FallbackRung(d) \notin DOMAIN EndpointsOf(d.tier)
  BY <1>1 DEF FallbackRung
<1>3. Home # None => Home \in Tiers /\ Fallback \in Endpoints
  <2>1. Home # None => Home \in {t \in Tiers : Fallback \in Range(EndpointsOf(t))}
    BY Configured, FirstFound DEF Home, FirstIn
  <2> QED
    BY <2>1, ListsOf DEF Range
<1>4. CASE n = 0
  BY <1>2, <1>4 DEF Rung
<1>5. CASE n = FallbackRung(d)
  BY <1>2, <1>3, <1>5 DEF Rung
<1>6. CASE n \in DOMAIN EndpointsOf(d.tier)
  BY <1>1, <1>2, <1>6 DEF Rung
<1> QED
  BY <1>4, <1>5, <1>6

LEMMA ReserveKeeps ==
  ASSUME RoutingInv, Reserve
  PROVE  RoutingInv'
<1> DEFINE tier == {0} \union {n \in DOMAIN EndpointsOf(decision.tier) :
                      EndpointsOf(decision.tier)[n] \notin open \union {decision.endpoint}}
           ladder == tier \union
             (IF Home = None \/ \E n \in tier : Rung(decision, n).endpoint = Fallback
              THEN {} ELSE {FallbackRung(decision)})
<1>1. /\ stage = "checked"
      /\ UNCHANGED <<req, open, last, quota, decision, sent, access, plan, granted, entitled, edits>>
      /\ \/ stage' = "answered" /\ todo' = todo
         \/ stage' = "sending" /\ todo' = ladder
  BY DEF Reserve
<1>2. decision.tier \in Tiers /\ decision.endpoint \in Endpoints /\ todo = {} /\ sent = {}
  BY <1>1 DEF RoutingInv, RoutingTypeOK, Valid, LadderLeft
<1>3. /\ DOMAIN EndpointsOf(decision.tier) \subseteq Nat
      /\ FallbackRung(decision) \in Nat
  BY ListsOf DEF FallbackRung
<1>4. /\ ladder \subseteq Nat /\ ladder # {}
      /\ \A n \in ladder : Stands(n)
  BY <1>3 DEF Stands
<1>5. \A n \in ladder : Rung(decision, n).tier \in Tiers /\ Rung(decision, n).endpoint \in Endpoints
  <2>1. \A n \in ladder : /\ n \in {0} \union DOMAIN EndpointsOf(decision.tier) \union {FallbackRung(decision)}
                          /\ n = FallbackRung(decision) => Home # None
    <3>1. FallbackRung(decision) \notin tier
      BY ListsOf DEF FallbackRung
    <3> QED
      BY <3>1
  <2> HIDE DEF ladder
  <2> QED
    BY <1>2, <2>1, RungsTyped
<1> HIDE DEF ladder
<1>6. RoutingTypeOK'
  <2>1. \A n : Rung(decision, n)' = Rung(decision, n)
    BY <1>1 DEF Rung, Home, FallbackRung, EndpointsOf
  <2>2. \A c \in sent' \union {Rung(decision, n)' : n \in todo'} : c.tier \in Tiers /\ c.endpoint \in Endpoints
    BY <1>1, <1>2, <1>5, <2>1
  <2> QED
    BY <1>1, <1>2, <2>2 DEF RoutingInv, RoutingTypeOK, Valid
<1>7. RightsCounted' /\ LadderLeft' /\ SentWithinRights'
  <2>1. \A n : Stands(n) <=> Stands(n)'
    BY <1>1 DEF Stands, FallbackRung, EndpointsOf
  <2>2. LadderLeft'
    BY <1>1, <1>2, <1>4, <2>1 DEF LadderLeft
  <2> QED
    BY <1>1, <1>2, <2>2 DEF RoutingInv, RightsCounted, SentWithinRights, EntitledBy
<1>8. DecisionHad' /\ NearCheapest'
  BY <1>1 DEF RoutingInv, DecisionHad, NearCheapest
<1> QED
  BY <1>6, <1>7, <1>8 DEF RoutingInv

LEMMA TryKeeps ==
  ASSUME RoutingInv, Try
  PROVE  RoutingInv'
<1> DEFINE c == Rung(decision, Min(todo))
<1>1. /\ stage = "sending" /\ sent' \in {sent, sent \union {c}} /\ todo' \subseteq todo
      /\ stage' \in {"sending", "answered"} /\ (todo' = {} <=> stage' # "sending")
      /\ UNCHANGED <<req, open, last, quota, decision, access, plan, granted, entitled, edits>>
  BY DEF Try
<1>2. Min(todo) \in todo /\ todo \subseteq Nat
  BY <1>1, LeastElement DEF RoutingInv, LadderLeft
<1>3. \/ c = [tier |-> Home, endpoint |-> Fallback]
      \/ /\ c.tier = decision.tier
         /\ c.endpoint # decision.endpoint => c.endpoint \in Range(EndpointsOf(c.tier)) \ open
  <2>1. Stands(Min(todo))
    BY <1>2 DEF RoutingInv, LadderLeft
  <2>2. CASE Min(todo) = FallbackRung(decision) /\ Min(todo) # 0
    BY <2>2 DEF Rung
  <2>3. CASE Min(todo) = 0
    BY <2>3 DEF Rung
  <2>4. CASE Min(todo) # 0 /\ Min(todo) # FallbackRung(decision)
    <3>1. c = [tier |-> decision.tier, endpoint |-> EndpointsOf(decision.tier)[Min(todo)]]
      BY <2>4 DEF Rung
    <3> QED
      BY <2>1, <2>4, <3>1 DEF Stands, Range
  <2> QED
    BY <2>2, <2>3, <2>4
<1>4. \/ c = [tier |-> Home, endpoint |-> Fallback]
      \/ /\ c.tier = decision.tier /\ c.tier \in granted \union {req.dedicated}
         /\ IF c.endpoint = decision.endpoint THEN c.endpoint \in entitled
            ELSE c.endpoint \in Range(EndpointsOf(c.tier)) \ open
  BY <1>1, <1>3 DEF RoutingInv, DecisionHad
<1>5. RoutingTypeOK'
  <2>1. \A n : Rung(decision, n)' = Rung(decision, n)
    BY <1>1 DEF Rung, Home, FallbackRung, EndpointsOf
  <2>2. \A x \in sent' \union {Rung(decision, n)' : n \in todo'} : x.tier \in Tiers /\ x.endpoint \in Endpoints
    <3>1. \A x \in sent \union {Rung(decision, n) : n \in todo} : x.tier \in Tiers /\ x.endpoint \in Endpoints
      BY DEF RoutingInv, RoutingTypeOK
    <3> QED
      BY <1>1, <1>2, <2>1, <3>1
  <2> QED
    BY <1>1, <2>2 DEF RoutingInv, RoutingTypeOK, Valid
<1> HIDE DEF c
<1>6. RightsCounted' /\ LadderLeft' /\ SentWithinRights'
  <2>1. \A n : Stands(n) <=> Stands(n)'
    BY <1>1 DEF Stands, FallbackRung, EndpointsOf
  <2>2. LadderLeft'
    BY <1>1, <2>1 DEF RoutingInv, LadderLeft
  <2>3. SentWithinRights'
    BY <1>1, <1>4 DEF RoutingInv, SentWithinRights, Home, EndpointsOf
  <2> QED
    BY <1>1, <2>2, <2>3 DEF RoutingInv, RightsCounted, EntitledBy
<1>7. DecisionHad' /\ NearCheapest'
  BY <1>1 DEF RoutingInv, DecisionHad, NearCheapest
<1> QED
  BY <1>5, <1>6, <1>7 DEF RoutingInv

LEMMA EditKeeps ==
  ASSUME RoutingInv, Edit
  PROVE  RoutingInv'
<1>1. /\ stage \notin {"idle", "answered"} /\ access' \in Accesses /\ plan' \in Plans
      /\ granted' = granted \union access' /\ entitled' = entitled \union EntitledBy(plan')
      /\ UNCHANGED <<stage, req, open, last, quota, decision, todo, sent>>
  BY DEF Edit
<1>2. granted' \subseteq Tiers \union {OverflowTier} /\ entitled' \subseteq Endpoints
  BY <1>1, RoutingAssumption DEF RoutingInv, RoutingTypeOK, EntitledBy
<1>3. RoutingTypeOK'
  <2>1. \A n : Rung(decision, n)' = Rung(decision, n)
    BY <1>1 DEF Rung, Home, FallbackRung, EndpointsOf
  <2>2. \A x \in sent' \union {Rung(decision, n)' : n \in todo'} : x.tier \in Tiers /\ x.endpoint \in Endpoints
    BY <1>1, <2>1 DEF RoutingInv, RoutingTypeOK
  <2> QED
    BY <1>1, <1>2, <2>2 DEF RoutingInv, RoutingTypeOK, Valid
<1>4. RightsCounted' /\ LadderLeft' /\ SentWithinRights'
  <2>1. \A n : Stands(n) <=> Stands(n)'
    BY <1>1 DEF Stands, FallbackRung, EndpointsOf
  <2>2. LadderLeft'
    BY <1>1, <2>1 DEF RoutingInv, LadderLeft
  <2>3. SentWithinRights'
    BY <1>1 DEF RoutingInv, SentWithinRights, Home, EndpointsOf
  <2> QED
    BY <1>1, <2>2, <2>3 DEF RoutingInv, RightsCounted, EntitledBy
<1>5. DecisionHad' /\ NearCheapest'
  BY <1>1 DEF RoutingInv, DecisionHad, NearCheapest
<1> QED
  BY <1>3, <1>4, <1>5 DEF RoutingInv

\* What the decision of a request rests on holds in every state: the rights
\* and the plan counted as had, the ladder, and the redirects that named it.
THEOREM RoutingInvariant == RoutingSpec => []RoutingInv
<1>1. ASSUME RoutingInv, [RoutingNext]_routing
      PROVE  RoutingInv'
  <2>1. ASSUME NEW q \in Inputs, Arrive(q) PROVE RoutingInv'
    BY <1>1, <2>1, ArriveKeeps
  <2>2. CASE Price
    BY <1>1, <2>2, PriceKeeps
  <2>3. CASE Check
    BY <1>1, <2>3, CheckKeeps
  <2>4. CASE Reserve
    BY <1>1, <2>4, ReserveKeeps
  <2>5. CASE Try
    BY <1>1, <2>5, TryKeeps
  <2>6. CASE Edit
    BY <1>1, <2>6, EditKeeps
  <2>7. CASE UNCHANGED routing
    <3>1. RoutingTypeOK' /\ RightsCounted'
      BY <1>1, <2>7 DEF routing, RoutingInv, RoutingTypeOK, RightsCounted,
                        EntitledBy, Valid, Rung, Home, FallbackRung, EndpointsOf
    <3>2. LadderLeft'
      <4>1. \A n : Stands(n) <=> Stands(n)'
        BY <2>7 DEF routing, Stands, FallbackRung, EndpointsOf
      <4> QED
        BY <1>1, <2>7, <4>1 DEF routing, RoutingInv, LadderLeft
    <3>3. SentWithinRights'
      BY <1>1, <2>7 DEF routing, RoutingInv, SentWithinRights, Home, EndpointsOf
    <3>4. DecisionHad' /\ NearCheapest'
      BY <1>1, <2>7 DEF routing, RoutingInv, DecisionHad, NearCheapest
    <3> QED
      BY <3>1, <3>2, <3>3, <3>4 DEF RoutingInv
  <2> QED
    BY <1>1, <2>1, <2>2, <2>3, <2>4, <2>5, <2>6, <2>7 DEF RoutingNext
<1> QED
  BY <1>1, RoutingInitInv, PTL DEF RoutingSpec

\* The window, less the reserve, in whole tokens.
LEMMA UsableBounds ==
  ASSUME NEW n \in Nat, NEW m \in Nat, n <= m
  PROVE  Usable(n) \in Int /\ Usable(n) * 100 <= m * Most(0, 100 - ReservePct)
<1>1. ReservePct \in Nat
  BY Configured
<1>2. CASE ReservePct > 100
  BY <1>1, <1>2 DEF Usable, Most
<1>3. CASE ReservePct <= 100
  <2> DEFINE k == 100 - ReservePct
  <2>1. k \in Nat /\ Most(0, 100 - ReservePct) = k
    BY <1>1, <1>3 DEF Most
  <2>2. Usable(n) = (n * k) \div 100
    BY <1>1, <1>3 DEF Usable
  <2> HIDE DEF k
  <2>3. n * k \in Nat /\ m * k \in Nat
    BY <2>1
  <2>4. n * k <= m * k
    BY <2>1
  <2> DEFINE x == n * k
             y == m * k
  <2>5. (x \div 100) \in Int /\ (x \div 100) * 100 <= y
    <3>1. x \in Nat /\ y \in Nat /\ x <= y
      BY <2>3, <2>4
    <3> HIDE DEF x, y
    <3> QED
      BY <3>1
  <2> QED
    BY <2>1, <2>2, <2>5
<1> QED
  BY <1>1, <1>2, <1>3

\* A route that fits holds the request in the window of model and of tier.
LEMMA FitsWithin ==
  ASSUME NEW d, NEW q \in Requests, Fits(d, q)
  PROVE  \A n \in {Tier[d.tier].context, Endpoint[d.endpoint].context} :
           (q.in + q.out) * 100 <= n * Most(0, 100 - ReservePct)
<1> DEFINE own == Tier[d.tier].context
           its == Endpoint[d.endpoint].context
           k == Most(0, 100 - ReservePct)
           usable == Usable(Least(own, its))
<1>1. /\ own \in Nat /\ its \in Nat /\ Tier[d.tier].bump \in Nat
      /\ Needed(q, d.tier) <= usable
  BY Configured DEF Fits, Window
<1>2. q.in \in Nat /\ q.out \in Nat
  BY DEF Requests
<1>3. /\ Needed(q, d.tier) \in Nat
      /\ q.in + q.out <= Needed(q, d.tier)
  BY <1>1, <1>2 DEF Needed, Most
<1>4. /\ Least(own, its) \in Nat /\ Least(own, its) <= own /\ Least(own, its) <= its
  BY <1>1 DEF Least
<1>5. usable \in Int /\ usable * 100 <= own * k /\ usable * 100 <= its * k
  BY <1>1, <1>4, UsableBounds
<1>6. own * k \in Int /\ its * k \in Int
  BY <1>1, Configured DEF Most
<1>7. (q.in + q.out) * 100 <= usable * 100
  <2> HIDE DEF usable
  <2> QED
    BY <1>1, <1>2, <1>3, <1>5
<1> DEFINE sum == (q.in + q.out) * 100
           most == usable * 100
           a == own * k
           b == its * k
<1>8. sum <= a /\ sum <= b
  <2>1. sum \in Int /\ most \in Int /\ a \in Int /\ b \in Int
    BY <1>2, <1>5, <1>6
  <2>2. sum <= most /\ most <= a /\ most <= b
    BY <1>5, <1>7
  <2> HIDE DEF sum, most, a, b
  <2> QED
    BY <2>1, <2>2
<1> QED
  BY <1>8

\* The types of one routed request hold in every state.
THEOREM RoutingTypes == RoutingSpec => []RoutingTypeOK
<1>1. RoutingInv => RoutingTypeOK
  BY DEF RoutingInv
<1> QED
  BY <1>1, RoutingInvariant, PTL

\* A call goes to the endpoint decided on, which the plan allowed since the
\* request arrived, to another of its tier that was not OPEN, or to the
\* fallback; and the tier decided on is the dedicated one, or one the tenant
\* had since then.
THEOREM CallsAreWithinRights == RoutingSpec => []SentWithinRights
<1>1. RoutingInv => SentWithinRights
  BY DEF RoutingInv
<1> QED
  BY <1>1, RoutingInvariant, PTL

\* The route decided on holds the request, unless it is in the dedicated tier
\* of a translation: every other redirect comes before the measuring.
THEOREM RoutesHoldRequests == RoutingSpec => []WithinWindow
<1>1. RoutingInv => WithinWindow
  <2> SUFFICES ASSUME RoutingInv, stage \in {"decided", "checked", "sending"},
                      decision.tier # req.dedicated
               PROVE  \A n \in {Tier[decision.tier].context, Endpoint[decision.endpoint].context} :
                        (req.in + req.out) * 100 <= n * Most(0, 100 - ReservePct)
    BY DEF RoutingInv, WithinWindow
  <2>1. Fits(decision, req)
    BY DEF RoutingInv, DecisionHad
  <2>2. req \in Requests
    BY RoutingAssumption DEF RoutingInv, RoutingTypeOK
  <2> QED
    BY <2>1, <2>2, FitsWithin
<1> QED
  BY <1>1, RoutingInvariant, PTL

\* A decision by price alone is within five percent of every endpoint that
\* would do.
THEOREM PricesAreNear == RoutingSpec => []NearCheapest
<1>1. RoutingInv => NearCheapest
  BY DEF RoutingInv
<1> QED
  BY <1>1, RoutingInvariant, PTL
=============================================================================
