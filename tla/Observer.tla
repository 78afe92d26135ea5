------------------------------ MODULE Observer ------------------------------
(***************************************************************************)
(* Observational memory: the messages of the chat handler's threads        *)
(* (src/gateway/memory_observational.py) and the worker that compresses    *)
(* them into observations, and observations into reflections               *)
(* (src/gateway/observer_worker.py).                                       *)
(*                                                                         *)
(* A thread is a pair of tenant and session.  Every message and every      *)
(* observation counts for one unit of its threshold; what the models write *)
(* is left out.  Jobs queue for the worker's lock, and between the read of *)
(* a job and its write the model is asked.  The loop's reflections are     *)
(* made without the lock when no thread has enough messages.               *)
(***************************************************************************)
EXTENDS Integers, Sequences, FiniteSets

CONSTANTS
  Threads,
  MessageThreshold,      \* message_tokens
  ObservationThreshold,  \* observation_tokens
  BatchLimit,            \* messages an observation compresses at most
  ReflectLimit,          \* observations a reflection consolidates at most
  ScanLimit,             \* threads one scan reflects at most
  None,
  MaxMessages,           \* bound: messages of a thread
  MaxAsked,              \* bound: jobs besides the loop's
  MaxRestarts            \* bound: restarts of the process

ASSUME ObserverAssumption ==
  /\ {MessageThreshold, ObservationThreshold, BatchLimit, ReflectLimit, ScanLimit} \subseteq Nat \ {0}
  /\ {MaxMessages, MaxAsked, MaxRestarts} \subseteq Nat

VARIABLES
  recorded,      \* thread -> messages in message_history
  observed,      \* thread -> those with observed_at
  observations,  \* thread -> rows, each the messages it compresses
  reflected,     \* thread -> observation -> reflections that name it, 2 for more
  queue,         \* jobs that wait for the worker's lock
  holder,        \* the job that has it, or None
  roaming,       \* the loop's reflection without it, or None
  asked, restarts

vars == <<recorded, observed, observations, reflected, queue, holder, roaming, asked, restarts>>
rows == <<recorded, observed, observations, reflected>>

Messages == 1 .. MaxMessages
Jobs == [kind : {"observe", "reflect"}, thread : Threads, batch : SUBSET Messages,
         todo : SUBSET Threads, loop : BOOLEAN]
Waiting == [kind : {"observe", "reflect"}, thread : Threads, loop : BOOLEAN]

Unobserved(t) == (1 .. recorded[t]) \ observed[t]

\* The oldest unobserved messages.
Batch(t) ==
  {m \in Unobserved(t) : Cardinality({n \in Unobserved(t) : n <= m}) <= BatchLimit}

\* The oldest observations, whether or not a reflection has consolidated them.
Gathered(obs, t) == {o \in DOMAIN obs[t] : o <= ReflectLimit}

Above == {t \in Threads : Cardinality(Unobserved(t)) >= MessageThreshold}

\* The threads with the most observations that cross the threshold.
Overgrown(obs) ==
  LET over == {t \in Threads : Len(obs[t]) >= ObservationThreshold} IN
  {s \in SUBSET over :
     /\ Cardinality(s) = IF Cardinality(over) < ScanLimit THEN Cardinality(over) ELSE ScanLimit
     /\ \A t \in s, u \in over \ s : Len(obs[t]) >= Len(obs[u])}

Reflecting(obs, t, todo, loop) ==
  [kind |-> "reflect", thread |-> t, batch |-> Gathered(obs, t), todo |-> todo, loop |-> loop]

\* What a job does next: it reflects one of the threads that are left, or ends.
After(obs, todo, loop) ==
  IF todo = {} THEN {None} ELSE {Reflecting(obs, t, todo \ {t}, loop) : t \in todo}

LoopIdle ==
  /\ roaming = None /\ (holder # None => ~holder.loop)
  /\ \A i \in DOMAIN queue : ~queue[i].loop

Init ==
  /\ recorded = [t \in Threads |-> 0] /\ observed = [t \in Threads |-> {}]
  /\ observations = [t \in Threads |-> <<>>]
  /\ reflected = [t \in Threads |-> [o \in Messages |-> 0]]
  /\ queue = <<>> /\ holder = None /\ roaming = None
  /\ asked = 0 /\ restarts = 0

-----------------------------------------------------------------------------
(* The chat handler and the administrators. *)

\* record_message
Record(t) ==
  /\ recorded[t] < MaxMessages
  /\ recorded' = [recorded EXCEPT ![t] = @ + 1]
  /\ UNCHANGED <<observed, observations, reflected, queue, holder, roaming, asked, restarts>>

Queue(kind, t, loop) ==
  queue' = Append(queue, [kind |-> kind, thread |-> t, loop |-> loop])

\* _maybe_force_observe after a response, and the administrators' requests.
Ask(kind, t) ==
  /\ asked < MaxAsked /\ asked' = asked + 1
  /\ Queue(kind, t, FALSE)
  /\ UNCHANGED <<rows, holder, roaming, restarts>>

-----------------------------------------------------------------------------
(* The worker. *)

\* The lock goes to the first that waits, which reads its rows; without any it
\* is done.
Acquire ==
  LET job == Head(queue)
      batch == IF job.kind = "observe" THEN Batch(job.thread)
               ELSE Gathered(observations, job.thread)
      start == [kind |-> job.kind, thread |-> job.thread, batch |-> batch,
                todo |-> {}, loop |-> job.loop]
  IN
  /\ holder = None /\ queue # <<>>
  /\ queue' = Tail(queue)
  /\ IF batch # {} THEN holder' = start
     ELSE IF job.loop THEN \E s \in Overgrown(observations) : holder' \in After(observations, s, TRUE)
     ELSE holder' = None
  /\ UNCHANGED <<rows, roaming, asked, restarts>>

\* Mutant: the loop observes only while no thread has much to reflect.
TickSettled ==
  /\ LoopIdle /\ holder = None /\ Overgrown(observations) = {{}}
  /\ \E t \in Above :
       /\ \A u \in Above : Cardinality(Unobserved(t)) >= Cardinality(Unobserved(u))
       /\ Queue("observe", t, TRUE)
  /\ UNCHANGED <<rows, holder, roaming, asked, restarts>>

\* _tick: the thread with the most unobserved messages.  A job that was woken
\* and has not taken the lock yet goes first.
TickObserve ==
  /\ LoopIdle /\ holder = None
  /\ \E t \in Above :
       /\ \A u \in Above : Cardinality(Unobserved(t)) >= Cardinality(Unobserved(u))
       /\ Queue("observe", t, TRUE)
  /\ UNCHANGED <<rows, holder, roaming, asked, restarts>>

\* _tick when no thread has enough messages: the scan of the observations.
TickReflect ==
  /\ LoopIdle /\ holder = None /\ Above = {}
  /\ \E s \in Overgrown(observations) :
       s # {} /\ roaming' \in After(observations, s, TRUE)
  /\ UNCHANGED <<rows, queue, holder, asked, restarts>>

\* The loop reflects after it has observed; another job releases the lock.
Proceed(obs) ==
  IF holder.loop THEN \E s \in Overgrown(obs) : holder' \in After(obs, s, TRUE)
  ELSE holder' = None

\* Mutant: all that is unobserved now is marked, not what was read.
ObserveThread ==
  /\ holder # None /\ holder.kind = "observe"
  /\ observations' = [observations EXCEPT ![holder.thread] = Append(@, holder.batch)]
  /\ observed' = [observed EXCEPT ![holder.thread] = 1 .. recorded[holder.thread]]
  /\ Proceed(observations')
  /\ UNCHANGED <<recorded, reflected, queue, roaming, asked, restarts>>

\* The observer has answered: the observation and the marks in one transaction.
Observe ==
  /\ holder # None /\ holder.kind = "observe"
  /\ observations' = [observations EXCEPT ![holder.thread] = Append(@, holder.batch)]
  /\ observed' = [observed EXCEPT ![holder.thread] = @ \union holder.batch]
  /\ Proceed(observations')
  /\ UNCHANGED <<recorded, reflected, queue, roaming, asked, restarts>>

\* It failed, wrote nothing, or its answer could not be stored.
NotObserved ==
  /\ holder # None /\ holder.kind = "observe"
  /\ Proceed(observations)
  /\ UNCHANGED <<rows, queue, roaming, asked, restarts>>

\* The reflector has answered or failed.  The observations it has consolidated
\* stay as they are.
Reflected(job) ==
  \/ reflected' = [reflected EXCEPT ![job.thread] =
                     [o \in Messages |-> IF o \in job.batch /\ @[o] < 2 THEN @[o] + 1 ELSE @[o]]]
  \/ UNCHANGED reflected

Reflect ==
  /\ UNCHANGED <<recorded, observed, observations, queue, asked, restarts>>
  /\ \/ /\ holder # None /\ holder.kind = "reflect"
        /\ Reflected(holder)
        /\ holder' \in After(observations, holder.todo, holder.loop) /\ UNCHANGED roaming
     \/ /\ roaming # None
        /\ Reflected(roaming)
        /\ roaming' \in After(observations, roaming.todo, TRUE) /\ UNCHANGED holder

\* The process restarts: the jobs are lost.
Restart ==
  /\ restarts < MaxRestarts /\ restarts' = restarts + 1
  /\ queue' = <<>> /\ holder' = None /\ roaming' = None
  /\ UNCHANGED <<rows, asked>>

Next ==
  \/ \E t \in Threads : Record(t) \/ Ask("observe", t) \/ Ask("reflect", t)
  \/ TickObserve \/ TickReflect \/ Acquire
  \/ Observe \/ NotObserved \/ Reflect \/ Restart

\* The loop ticks, calls of the models end, and an observer that is asked
\* again and again answers at last.
Fairness ==
  /\ WF_vars(TickObserve) /\ WF_vars(Acquire) /\ WF_vars(Reflect)
  /\ WF_vars(Observe \/ NotObserved) /\ SF_vars(Observe)

Spec == Init /\ [][Next]_vars /\ Fairness

-----------------------------------------------------------------------------
TypeOK ==
  /\ recorded \in [Threads -> 0 .. MaxMessages]
  /\ observed \in [Threads -> SUBSET Messages]
  /\ \A t \in Threads : observations[t] \in Seq({b \in SUBSET Messages : Cardinality(b) <= BatchLimit})
  /\ reflected \in [Threads -> [Messages -> 0 .. 2]]
  /\ queue \in Seq(Waiting)
  /\ holder \in Jobs \union {None} /\ roaming \in Jobs \union {None}
  /\ asked \in 0 .. MaxAsked /\ restarts \in 0 .. MaxRestarts

\* A thread's observations tell its messages once each and in order, and no
\* message is marked without one: though messages arrive while the observer
\* is asked, jobs for one thread queue up, calls fail and the process
\* restarts between a read and its write.
InOrder ==
  /\ TypeOK
  /\ \A t \in Threads :
       LET obs == observations[t] IN
       /\ observed[t] = UNION {obs[i] : i \in DOMAIN obs}
       /\ \A i \in DOMAIN obs : obs[i] # {}
       /\ \A i, j \in DOMAIN obs : i < j => \A m \in obs[i], n \in obs[j] : m < n

\* A thread that has crossed the threshold is compressed below it at last,
\* whatever fails and whichever other threads and jobs come first.
Compressed ==
  \A t \in Threads : t \in Above ~> t \notin Above

\* "Mark old observations as superseded by the reflection"
\* (observer_worker.py): a reflection consolidates no observation that an
\* earlier one has.
ReflectedOnce ==
  \A t \in Threads : \A o \in Messages : reflected[t][o] <= 1
=============================================================================
