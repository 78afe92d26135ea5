--------------------------- MODULE ObserverProofs ----------------------------
(***************************************************************************)
(* Theorems of Observer, for any number of threads, messages, jobs and     *)
(* restarts and any thresholds.                                            *)
(*                                                                         *)
(* InOrder is about rows that are written.  What makes it inductive is     *)
(* about the batch that is not written yet (BatchCurrent): the job that    *)
(* has the lock read the oldest unobserved messages, and no step between   *)
(* that read and its write observes one of them or lets an older one in.   *)
(***************************************************************************)
EXTENDS Observer, FiniteSetTheorems, WellFoundedInduction, TLAPS

\* The rows of every thread: enough for Append to keep them rows.
RowsOK == observations \in [Threads -> Seq(SUBSET Messages)]

\* Only recorded messages are observed, the older before the newer.
OldestObserved ==
  \A t \in Threads :
    /\ observed[t] \subseteq 1 .. recorded[t]
    /\ \A m \in observed[t], n \in Unobserved(t) : m < n

\* No thread has more observations than observed messages.
Compressing == \A t \in Threads : Len(observations[t]) <= Cardinality(observed[t])

\* The batch of the job that observes is still what it would read now, but for
\* the messages that have arrived since.
Heads(b, t) ==
  /\ b # {} /\ b \subseteq Unobserved(t) /\ Cardinality(b) <= BatchLimit
  /\ \A m \in b, n \in Unobserved(t) \ b : m < n

BatchCurrent ==
  (holder # None /\ holder.kind = "observe") => Heads(holder.batch, holder.thread)

ObserverInv == TypeOK /\ RowsOK /\ OldestObserved /\ Compressing /\ BatchCurrent /\ InOrder

-----------------------------------------------------------------------------
(* Sets of messages *)

\* The order of the numbers as a relation.
LEMMA BelowRelates ==
  ASSUME NEW x \in Nat, NEW m \in Nat, x < m
  PROVE  <<x, m>> \in OpToRel(<, Nat)
<1>1. <<x, m>> \in Nat \X Nat /\ <<x, m>>[1] < <<x, m>>[2]
  OBVIOUS
<1> QED
  BY <1>1, Zenon DEF OpToRel

\* A bounded set of numbers that is not empty has a greatest element: the one
\* that is the least distance below the bound.
LEMMA GreatestElement ==
  ASSUME NEW max \in Nat, NEW S, S \subseteq 1 .. max, S # {}
  PROVE  \E m \in S : \A x \in S : x <= m
<1> DEFINE D == {max - x : x \in S}
<1>1. D \subseteq Nat /\ D # {}
  <2>1. \A x \in S : max - x \in Nat
    OBVIOUS
  <2> QED
    BY <2>1
<1> HIDE DEF D
<1>2. PICK d \in D : \A y \in D : ~(<<y, d>> \in OpToRel(<, Nat))
  BY <1>1, NatLessThanWellFounded, WFMin
<1>3. ASSUME NEW y \in D PROVE ~(y < d)
  BY <1>1, <1>2, BelowRelates, Zenon
<1>4. PICK m \in S : d = max - m
  BY DEF D
<1>5. ASSUME NEW x \in S PROVE x <= m
  <2>1. max - x \in D
    BY DEF D
  <2>2. ~(max - x < max - m)
    BY <1>3, <1>4, <2>1
  <2> QED
    BY <2>2
<1> QED
  BY <1>5

\* Sets of messages are finite, and have as many elements as there are messages
\* at most.
LEMMA MessagesFinite ==
  ASSUME NEW S \in SUBSET Messages
  PROVE  IsFiniteSet(S) /\ Cardinality(S) \in Nat /\ Cardinality(S) <= MaxMessages
<1>1. MaxMessages \in Nat
  BY ObserverAssumption
<1>2. IsFiniteSet(1 .. MaxMessages)
      /\ Cardinality(1 .. MaxMessages) = IF 1 > MaxMessages THEN 0 ELSE MaxMessages - 1 + 1
  BY <1>1, FS_Interval
<1>3. IsFiniteSet(Messages) /\ Cardinality(Messages) = MaxMessages
  BY <1>1, <1>2 DEF Messages
<1> QED
  BY <1>3, FS_Subset, FS_CardinalityType

\* A batch that is read holds the oldest unobserved messages, BatchLimit at most.
LEMMA BatchHeads ==
  ASSUME ObserverInv, NEW t \in Threads, Batch(t) # {}
  PROVE  Heads(Batch(t), t) /\ Batch(t) \subseteq Messages
<1>1. recorded[t] \in 0 .. MaxMessages /\ MaxMessages \in Nat
  BY ObserverAssumption DEF ObserverInv, TypeOK
<1>2. Unobserved(t) \subseteq Messages /\ Batch(t) \subseteq Unobserved(t)
  BY <1>1 DEF Unobserved, Messages, Batch
<1>3. Cardinality(Batch(t)) <= BatchLimit
  <2>1. PICK m \in Batch(t) : \A x \in Batch(t) : x <= m
    BY <1>1, <1>2, GreatestElement DEF Messages
  <2>2. Batch(t) \subseteq {n \in Unobserved(t) : n <= m}
    BY <1>2, <2>1
  <2>3. Cardinality({n \in Unobserved(t) : n <= m}) <= BatchLimit
    BY <2>1 DEF Batch
  <2>4. {n \in Unobserved(t) : n <= m} \subseteq Messages
    BY <1>2
  <2> DEFINE A == {n \in Unobserved(t) : n <= m}
  <2>5. /\ IsFiniteSet(A) /\ Cardinality(A) \in Nat
        /\ Cardinality(Batch(t)) \in Nat /\ Cardinality(Batch(t)) <= Cardinality(A)
    <3> HIDE DEF A
    <3>1. A \in SUBSET Messages /\ Batch(t) \in SUBSET A /\ Batch(t) \in SUBSET Messages
      BY <1>2, <2>2, <2>4 DEF A
    <3> QED
      BY <3>1, MessagesFinite, FS_Subset
  <2> QED
    BY <2>3, <2>5, ObserverAssumption
<1>4. ASSUME NEW m \in Batch(t), NEW n \in Unobserved(t) \ Batch(t)
      PROVE  m < n
  <2>1. m \in Nat /\ n \in Nat
    BY <1>2 DEF Messages
  <2>2. SUFFICES ASSUME n <= m PROVE FALSE
    BY <2>1
  <2> DEFINE A == {k \in Unobserved(t) : k <= m}
             B == {k \in Unobserved(t) : k <= n}
  <2>3. B \in SUBSET A /\ A \in SUBSET Messages /\ B \in SUBSET Messages
    BY <1>2, <2>1, <2>2 DEF Messages
  <2>4. Cardinality(A) <= BatchLimit
    BY DEF Batch
  <2>5. ~(Cardinality(B) <= BatchLimit)
    BY DEF Batch
  <2> HIDE DEF A, B
  <2>6. Cardinality(B) <= Cardinality(A) /\ Cardinality(A) \in Nat /\ Cardinality(B) \in Nat
    BY <2>3, MessagesFinite, FS_Subset
  <2> QED
    BY <2>4, <2>5, <2>6, ObserverAssumption
<1> QED
  BY <1>2, <1>3, <1>4 DEF Heads

\* What a reflection gathers are numbers of observations, which are fewer than
\* the messages they compress.
LEMMA GatheredMessages ==
  ASSUME NEW obs \in [Threads -> Seq(SUBSET Messages)], NEW t \in Threads,
         Len(obs[t]) <= MaxMessages
  PROVE  Gathered(obs, t) \subseteq Messages
<1>1. obs[t] \in Seq(SUBSET Messages)
  OBVIOUS
<1>2. DOMAIN obs[t] = 1 .. Len(obs[t]) /\ Len(obs[t]) \in Nat
  BY <1>1
<1> QED
  BY <1>2, ObserverAssumption DEF Gathered, Messages

\* What follows a job is a reflection, or nothing.
LEMMA AfterJobs ==
  ASSUME NEW obs \in [Threads -> Seq(SUBSET Messages)], NEW todo \in SUBSET Threads,
         NEW loop \in BOOLEAN, \A t \in Threads : Len(obs[t]) <= MaxMessages,
         NEW job \in After(obs, todo, loop)
  PROVE  /\ job \in Jobs \union {None}
         /\ job # None => job.kind = "reflect"
<1>1. CASE todo = {}
  BY <1>1 DEF After
<1>2. CASE todo # {}
  <2>1. PICK t \in todo : job = Reflecting(obs, t, todo \ {t}, loop)
    BY <1>2 DEF After
  <2>2. Gathered(obs, t) \subseteq Messages
    BY GatheredMessages
  <2> QED
    BY <2>1, <2>2 DEF Reflecting, Jobs
<1> QED
  BY <1>1, <1>2

-----------------------------------------------------------------------------
(* The steps keep ObserverInv *)

LEMMA InitObserver == Init => ObserverInv
<1> USE ObserverAssumption
<1> SUFFICES ASSUME Init PROVE ObserverInv
  OBVIOUS
<1>1. TypeOK
  <2>1. \A t \in Threads : observations[t] = <<>>
    BY DEF Init
  <2> QED
    BY <2>1 DEF Init, TypeOK
<1>2. RowsOK
  BY DEF Init, RowsOK
<1>3. OldestObserved
  BY DEF Init, OldestObserved
<1>4. Compressing
  BY FS_EmptySet DEF Init, Compressing
<1>5. BatchCurrent
  BY DEF Init, BatchCurrent
<1>6. InOrder
  BY <1>1 DEF Init, InOrder
<1> QED
  BY <1>1, <1>2, <1>3, <1>4, <1>5, <1>6 DEF ObserverInv

\* No thread has more observations than messages.
LEMMA FewObservations ==
  ASSUME ObserverInv, NEW t \in Threads
  PROVE  Len(observations[t]) \in Nat /\ Len(observations[t]) <= MaxMessages
<1>1. observations[t] \in Seq(SUBSET Messages)
  BY DEF ObserverInv, RowsOK
<1>2. Len(observations[t]) \in Nat
  BY <1>1
<1>3. observed[t] \in SUBSET Messages
  BY DEF ObserverInv, TypeOK
<1>4. Len(observations[t]) <= Cardinality(observed[t])
  BY DEF ObserverInv, Compressing
<1> QED
  BY <1>2, <1>3, <1>4, MessagesFinite, ObserverAssumption

\* What the steps that write no row but marks of reflections have in common.
LEMMA RowsUntouched ==
  ASSUME ObserverInv, TypeOK', BatchCurrent', UNCHANGED <<recorded, observed, observations>>
  PROVE  ObserverInv'
<1>1. RowsOK' /\ OldestObserved' /\ Compressing' /\ InOrder'
  BY DEF ObserverInv, RowsOK, OldestObserved, Compressing, InOrder, Unobserved
<1> QED
  BY <1>1 DEF ObserverInv

\* The loop goes on to reflect, any other job releases the lock.
LEMMA ProceedJobs ==
  ASSUME NEW obs \in [Threads -> Seq(SUBSET Messages)],
         \A t \in Threads : Len(obs[t]) <= MaxMessages,
         holder.loop \in BOOLEAN, Proceed(obs)
  PROVE  /\ holder' \in Jobs \union {None}
         /\ holder' # None => holder'.kind = "reflect"
<1>1. CASE holder.loop
  <2>1. PICK over \in SUBSET Threads : holder' \in After(obs, over, TRUE)
    BY <1>1 DEF Proceed, Overgrown
  <2> QED
    BY <2>1, AfterJobs
<1>2. CASE ~holder.loop
  BY <1>2 DEF Proceed
<1> QED
  BY <1>1, <1>2

LEMMA RecordObserver ==
  ASSUME ObserverInv, NEW t \in Threads, Record(t)
  PROVE  ObserverInv'
<1> DEFINE new == recorded[t] + 1
<1>1. /\ recorded[t] < MaxMessages /\ recorded' = [recorded EXCEPT ![t] = new]
      /\ UNCHANGED <<observed, observations, reflected, queue, holder, roaming, asked, restarts>>
  BY DEF Record
<1>2. /\ recorded \in [Threads -> 0 .. MaxMessages] /\ MaxMessages \in Nat
      /\ observed \in [Threads -> SUBSET Messages]
  BY ObserverAssumption DEF ObserverInv, TypeOK
<1>3. TypeOK'
  <2>1. recorded' \in [Threads -> 0 .. MaxMessages]
    BY <1>1, <1>2
  <2> QED
    BY <1>1, <2>1 DEF ObserverInv, TypeOK
<1>4. ASSUME NEW u \in Threads
      PROVE  \A n \in Unobserved(u)' :
               n \in Unobserved(u) \/ (u = t /\ n = new /\ \A m \in 1 .. recorded[t] : m < n)
  BY <1>1, <1>2 DEF Unobserved
<1>5. ASSUME NEW u \in Threads PROVE Unobserved(u) \subseteq Unobserved(u)'
  BY <1>1, <1>2 DEF Unobserved
<1>6. OldestObserved'
  <2>1. ASSUME NEW u \in Threads PROVE observed[u] \subseteq 1 .. recorded'[u]
    BY <1>1, <1>2 DEF ObserverInv, OldestObserved
  <2>2. ASSUME NEW u \in Threads, NEW m \in observed[u], NEW n \in Unobserved(u)'
        PROVE  m < n
    <3>1. observed[u] \subseteq 1 .. recorded[u]
      BY DEF ObserverInv, OldestObserved
    <3>2. CASE n \in Unobserved(u)
      BY <3>2 DEF ObserverInv, OldestObserved
    <3>3. CASE u = t /\ n = new /\ \A k \in 1 .. recorded[t] : k < n
      BY <3>1, <3>3
    <3> QED
      BY <1>4, <3>2, <3>3
  <2> QED
    BY <1>1, <2>1, <2>2 DEF OldestObserved
<1>7. BatchCurrent'
  <2>1. SUFFICES ASSUME holder # None, holder.kind = "observe"
                 PROVE  Heads(holder.batch, holder.thread)'
    BY <1>1 DEF BatchCurrent
  <2>2. PICK u \in Threads : u = holder.thread
    BY <2>1 DEF ObserverInv, TypeOK, Jobs
  <2>3. PICK b \in SUBSET Messages : b = holder.batch
    BY <2>1 DEF ObserverInv, TypeOK, Jobs
  <2>4. /\ b # {} /\ b \subseteq Unobserved(u) /\ Cardinality(b) <= BatchLimit
        /\ \A m \in b, n \in Unobserved(u) \ b : m < n
    BY <2>1, <2>2, <2>3 DEF ObserverInv, BatchCurrent, Heads
  <2>5. Unobserved(u) \subseteq 1 .. recorded[u]
    BY DEF Unobserved
  <2>6. \A m \in b, n \in Unobserved(u)' \ b : m < n
    BY <1>4, <2>4, <2>5
  <2>7. b \subseteq Unobserved(u)'
    BY <1>5, <2>4
  <2>8. Heads(b, u)'
    BY <2>4, <2>6, <2>7 DEF Heads
  <2> QED
    BY <1>1, <2>2, <2>3, <2>8
<1>8. RowsOK' /\ Compressing' /\ InOrder'
  BY <1>1, <1>3 DEF ObserverInv, RowsOK, Compressing, InOrder
<1> QED
  BY <1>3, <1>6, <1>7, <1>8 DEF ObserverInv

\* A job is put at the end of the queue.
LEMMA QueueWaiting ==
  ASSUME TypeOK, NEW kind \in {"observe", "reflect"}, NEW t \in Threads,
         NEW loop \in BOOLEAN, Queue(kind, t, loop)
  PROVE  queue' \in Seq(Waiting)
<1>1. [kind |-> kind, thread |-> t, loop |-> loop] \in Waiting
  BY DEF Waiting
<1> QED
  BY <1>1 DEF Queue, TypeOK

LEMMA AskObserver ==
  ASSUME ObserverInv, NEW kind \in {"observe", "reflect"}, NEW t \in Threads, Ask(kind, t)
  PROVE  ObserverInv'
<1>1. asked' \in 0 .. MaxAsked
  BY ObserverAssumption DEF ObserverInv, TypeOK, Ask
<1>2. queue' \in Seq(Waiting)
  BY QueueWaiting DEF ObserverInv, Ask
<1>3. TypeOK'
  BY <1>1, <1>2 DEF ObserverInv, TypeOK, Ask, rows
<1>4. BatchCurrent'
  BY DEF ObserverInv, BatchCurrent, Heads, Unobserved, Ask, rows
<1> QED
  BY <1>3, <1>4, RowsUntouched DEF Ask, rows

LEMMA TickObserveObserver ==
  ASSUME ObserverInv, TickObserve
  PROVE  ObserverInv'
<1>1. queue' \in Seq(Waiting)
  BY QueueWaiting DEF ObserverInv, TickObserve, Above
<1>2. TypeOK'
  BY <1>1 DEF ObserverInv, TypeOK, TickObserve, rows
<1>3. BatchCurrent'
  BY DEF ObserverInv, BatchCurrent, TickObserve
<1> QED
  BY <1>2, <1>3, RowsUntouched DEF TickObserve, rows

LEMMA TickReflectObserver ==
  ASSUME ObserverInv, TickReflect
  PROVE  ObserverInv'
<1>1. PICK over \in SUBSET Threads : roaming' \in After(observations, over, TRUE)
  BY DEF TickReflect, Overgrown
<1>2. roaming' \in Jobs \union {None}
  BY <1>1, AfterJobs, FewObservations DEF ObserverInv, RowsOK
<1>3. TypeOK'
  BY <1>2 DEF ObserverInv, TypeOK, TickReflect, rows
<1>4. BatchCurrent'
  BY DEF ObserverInv, BatchCurrent, TickReflect
<1> QED
  BY <1>3, <1>4, RowsUntouched DEF TickReflect, rows

\* The lock is taken: the batch is what the rows say now.
LEMMA AcquireObserver ==
  ASSUME ObserverInv, Acquire
  PROVE  ObserverInv'
<1> DEFINE job == Head(queue)
           batch == IF job.kind = "observe" THEN Batch(job.thread)
                    ELSE Gathered(observations, job.thread)
           start == [kind |-> job.kind, thread |-> job.thread, batch |-> batch,
                     todo |-> {}, loop |-> job.loop]
<1>1. /\ holder = None /\ queue # <<>> /\ queue' = Tail(queue)
      /\ IF batch # {} THEN holder' = start
         ELSE IF job.loop THEN \E s \in Overgrown(observations) : holder' \in After(observations, s, TRUE)
         ELSE holder' = None
      /\ UNCHANGED <<rows, roaming, asked, restarts>>
  BY DEF Acquire
<1>2. queue \in Seq(Waiting)
  BY DEF ObserverInv, TypeOK
<1>3. job \in Waiting /\ queue' \in Seq(Waiting)
  BY <1>1, <1>2
<1>4. /\ holder' \in Jobs \union {None}
      /\ (holder' # None /\ holder'.kind = "observe") => Heads(holder'.batch, holder'.thread)
  <2>1. CASE batch # {} /\ job.kind = "observe"
    <3>1. Heads(batch, job.thread) /\ batch \subseteq Messages
      BY <1>3, <2>1, BatchHeads DEF Waiting
    <3> HIDE DEF batch
    <3>2. start \in Jobs
      BY <1>3, <3>1 DEF Jobs, Waiting
    <3>3. holder' = start /\ start.batch = batch /\ start.thread = job.thread
      BY <1>1, <2>1
    <3> QED
      BY <3>1, <3>2, <3>3
  <2>2. CASE batch # {} /\ job.kind # "observe"
    <3>1. batch \subseteq Messages
      BY <1>3, <2>2, GatheredMessages, FewObservations DEF ObserverInv, RowsOK, Waiting
    <3> HIDE DEF batch
    <3>2. start \in Jobs
      BY <1>3, <3>1 DEF Jobs, Waiting
    <3>3. holder' = start /\ start.kind = job.kind
      BY <1>1, <2>2
    <3> QED
      BY <2>2, <3>2, <3>3
  <2>3. CASE batch = {} /\ job.loop
    <3>1. PICK over \in SUBSET Threads : holder' \in After(observations, over, TRUE)
      BY <1>1, <2>3 DEF Overgrown
    <3>2. /\ holder' \in Jobs \union {None}
          /\ holder' # None => holder'.kind = "reflect"
      BY <3>1, AfterJobs, FewObservations DEF ObserverInv, RowsOK
    <3> QED
      BY <3>2
  <2>4. CASE batch = {} /\ ~job.loop
    BY <1>1, <2>4
  <2> QED
    BY <2>1, <2>2, <2>3, <2>4
<1> HIDE DEF job, batch
<1>5. TypeOK'
  BY <1>1, <1>3, <1>4 DEF ObserverInv, TypeOK, rows
<1>6. BatchCurrent'
  BY <1>1, <1>4 DEF BatchCurrent, Heads, Unobserved, rows
<1> QED
  BY <1>1, <1>5, <1>6, RowsUntouched DEF rows

LEMMA NotObservedObserver ==
  ASSUME ObserverInv, NotObserved
  PROVE  ObserverInv'
<1>1. holder.loop \in BOOLEAN
  BY DEF ObserverInv, TypeOK, NotObserved, Jobs
<1>2. holder' \in Jobs \union {None} /\ (holder' # None => holder'.kind = "reflect")
  BY <1>1, ProceedJobs, FewObservations DEF ObserverInv, RowsOK, NotObserved
<1>3. TypeOK'
  BY <1>2 DEF ObserverInv, TypeOK, NotObserved, rows
<1>4. BatchCurrent'
  BY <1>2 DEF BatchCurrent
<1> QED
  BY <1>3, <1>4, RowsUntouched DEF NotObserved, rows

LEMMA ReflectObserver ==
  ASSUME ObserverInv, Reflect
  PROVE  ObserverInv'
<1>1. ASSUME NEW job \in Jobs, Reflected(job)
      PROVE  reflected' \in [Threads -> [Messages -> 0 .. 2]]
  <2>1. reflected \in [Threads -> [Messages -> 0 .. 2]] /\ job.thread \in Threads
    BY DEF ObserverInv, TypeOK, Jobs
  <2>2. [o \in Messages |-> IF o \in job.batch /\ reflected[job.thread][o] < 2
                              THEN reflected[job.thread][o] + 1
                              ELSE reflected[job.thread][o]] \in [Messages -> 0 .. 2]
    BY <2>1
  <2> QED
    BY <1>1, <2>1, <2>2 DEF Reflected
<1>2. ASSUME NEW job \in Jobs, NEW loop \in BOOLEAN,
             NEW next \in After(observations, job.todo, loop)
      PROVE  next \in Jobs \union {None} /\ (next # None => next.kind = "reflect")
  <2>1. job.todo \in SUBSET Threads
    BY DEF Jobs
  <2> QED
    BY <2>1, AfterJobs, FewObservations DEF ObserverInv, RowsOK
<1>3. CASE /\ holder # None /\ holder.kind = "reflect"
           /\ Reflected(holder)
           /\ holder' \in After(observations, holder.todo, holder.loop) /\ UNCHANGED roaming
  <2>1. holder \in Jobs /\ holder.loop \in BOOLEAN
    BY <1>3 DEF ObserverInv, TypeOK, Jobs
  <2>2. TypeOK'
    BY <1>1, <1>2, <1>3, <2>1 DEF ObserverInv, TypeOK, Reflect
  <2>3. BatchCurrent'
    BY <1>2, <1>3, <2>1 DEF BatchCurrent
  <2> QED
    BY <2>2, <2>3, RowsUntouched DEF Reflect
<1>4. CASE /\ roaming # None
           /\ Reflected(roaming)
           /\ roaming' \in After(observations, roaming.todo, TRUE) /\ UNCHANGED holder
  <2>1. roaming \in Jobs
    BY <1>4 DEF ObserverInv, TypeOK
  <2>2. TypeOK'
    BY <1>1, <1>2, <1>4, <2>1 DEF ObserverInv, TypeOK, Reflect
  <2>3. BatchCurrent'
    BY <1>4 DEF ObserverInv, BatchCurrent, Heads, Unobserved, Reflect
  <2> QED
    BY <2>2, <2>3, RowsUntouched DEF Reflect
<1> QED
  BY <1>3, <1>4 DEF Reflect

LEMMA RestartObserver ==
  ASSUME ObserverInv, Restart
  PROVE  ObserverInv'
<1>1. TypeOK'
  <2>1. restarts' \in 0 .. MaxRestarts
    BY ObserverAssumption DEF ObserverInv, TypeOK, Restart
  <2>2. queue' \in Seq(Waiting)
    BY DEF Restart
  <2> QED
    BY <2>1, <2>2 DEF ObserverInv, TypeOK, Restart, rows
<1>2. BatchCurrent'
  BY DEF BatchCurrent, Restart
<1> QED
  BY <1>1, <1>2, RowsUntouched DEF Restart, rows

\* The write: the batch is what is oldest still, so the new observation comes
\* after all others and leaves only younger messages unobserved.
LEMMA ObserveObserver ==
  ASSUME ObserverInv, Observe
  PROVE  ObserverInv'
<1>1. PICK t \in Threads, b \in SUBSET Messages : t = holder.thread /\ b = holder.batch
  BY DEF ObserverInv, TypeOK, Observe, Jobs
<1>2. /\ observations' = [observations EXCEPT ![t] = Append(@, b)]
      /\ observed' = [observed EXCEPT ![t] = @ \union b]
      /\ Proceed(observations')
      /\ UNCHANGED <<recorded, reflected, queue, roaming, asked, restarts>>
  BY <1>1 DEF Observe
<1>3. /\ b # {} /\ b \subseteq Unobserved(t) /\ Cardinality(b) <= BatchLimit
      /\ \A m \in b, n \in Unobserved(t) \ b : m < n
  BY <1>1 DEF ObserverInv, BatchCurrent, Heads, Observe
<1>4. /\ observations \in [Threads -> Seq(SUBSET Messages)]
      /\ observed \in [Threads -> SUBSET Messages]
      /\ recorded \in [Threads -> 0 .. MaxMessages]
  BY DEF ObserverInv, RowsOK, TypeOK
<1>5. /\ observations' \in [Threads -> Seq(SUBSET Messages)]
      /\ observations'[t] = Append(observations[t], b)
      /\ \A u \in Threads : u # t => observations'[u] = observations[u]
  BY <1>2, <1>4
<1>6. /\ observed' \in [Threads -> SUBSET Messages]
      /\ observed'[t] = observed[t] \union b
      /\ \A u \in Threads : u # t => observed'[u] = observed[u]
  BY <1>2, <1>4
<1>7. Unobserved(t)' = Unobserved(t) \ b
      /\ \A u \in Threads : u # t => Unobserved(u)' = Unobserved(u)
  BY <1>2, <1>6 DEF Unobserved
<1>8. \A u \in Threads :
        /\ observed[u] \subseteq 1 .. recorded[u]
        /\ \A m \in observed[u], n \in Unobserved(u) : m < n
  BY DEF ObserverInv, OldestObserved
<1>9. OldestObserved'
  <2>1. \A u \in Threads : observed'[u] \subseteq 1 .. recorded[u]
    BY <1>3, <1>6, <1>8 DEF Unobserved
  <2>2. \A u \in Threads : \A m \in observed'[u], n \in Unobserved(u)' : m < n
    BY <1>3, <1>6, <1>7, <1>8
  <2> QED
    BY <1>2, <2>1, <2>2 DEF OldestObserved
<1>10. Compressing'
  <2>1. ASSUME NEW u \in Threads PROVE Len(observations'[u]) <= Cardinality(observed'[u])
    <3>1. Len(observations[u]) <= Cardinality(observed[u])
      BY DEF ObserverInv, Compressing
    <3>2. CASE u # t
      BY <1>5, <1>6, <3>1, <3>2
    <3>3. CASE u = t
      <4>1. /\ IsFiniteSet(observed[t]) /\ Cardinality(observed[t]) \in Nat
            /\ IsFiniteSet(b) /\ Cardinality(b) \in Nat
        BY <1>4, MessagesFinite
      <4>2. Cardinality(b) # 0
        BY <1>3, <4>1, FS_EmptySet
      <4>3. observed[t] \cap b = {}
        BY <1>3 DEF Unobserved
      <4>4. Cardinality(observed'[t]) = Cardinality(observed[t]) + Cardinality(b)
        BY <1>6, <4>1, <4>3, FS_Union, FS_EmptySet
      <4>5. Len(observations'[t]) = Len(observations[t]) + 1 /\ Len(observations[t]) \in Nat
        BY <1>4, <1>5
      <4> QED
        BY <3>1, <3>3, <4>1, <4>2, <4>4, <4>5
    <3> QED
      BY <3>2, <3>3
  <2> QED
    BY <2>1 DEF Compressing
<1>11. \A u \in Threads : Len(observations'[u]) <= MaxMessages
  <2>1. ASSUME NEW u \in Threads PROVE Len(observations'[u]) <= MaxMessages
    <3>1. Len(observations'[u]) \in Nat /\ observed'[u] \in SUBSET Messages
      BY <1>5, <1>6
    <3>2. Len(observations'[u]) <= Cardinality(observed'[u])
      BY <1>10 DEF Compressing
    <3> QED
      BY <3>1, <3>2, MessagesFinite, ObserverAssumption
  <2> QED
    BY <2>1
<1>12. holder' \in Jobs \union {None} /\ (holder' # None => holder'.kind = "reflect")
  <2>1. holder.loop \in BOOLEAN
    BY DEF ObserverInv, TypeOK, Observe, Jobs
  <2> QED
    BY <1>2, <1>5, <1>11, <2>1, ProceedJobs
<1>13. TypeOK'
  <2>1. \A u \in Threads : observations'[u] \in Seq({c \in SUBSET Messages : Cardinality(c) <= BatchLimit})
    <3>1. \A u \in Threads : observations[u] \in Seq({c \in SUBSET Messages : Cardinality(c) <= BatchLimit})
      BY DEF ObserverInv, TypeOK
    <3>2. b \in {c \in SUBSET Messages : Cardinality(c) <= BatchLimit}
      BY <1>3
    <3>3. Append(observations[t], b) \in Seq({c \in SUBSET Messages : Cardinality(c) <= BatchLimit})
      BY <3>1, <3>2
    <3> QED
      BY <1>5, <3>1, <3>3
  <2> QED
    BY <1>2, <1>6, <1>12, <2>1 DEF ObserverInv, TypeOK
<1>14. InOrder'
  <2>1. ASSUME NEW u \in Threads
        PROVE  /\ observed'[u] = UNION {observations'[u][i] : i \in DOMAIN observations'[u]}
               /\ \A i \in DOMAIN observations'[u] : observations'[u][i] # {}
               /\ \A i, j \in DOMAIN observations'[u] : i < j =>
                    \A m \in observations'[u][i], n \in observations'[u][j] : m < n
    <3>1. /\ observed[u] = UNION {observations[u][i] : i \in DOMAIN observations[u]}
          /\ \A i \in DOMAIN observations[u] : observations[u][i] # {}
          /\ \A i, j \in DOMAIN observations[u] : i < j =>
               \A m \in observations[u][i], n \in observations[u][j] : m < n
      BY DEF ObserverInv, InOrder
    <3>2. CASE u # t
      BY <1>5, <1>6, <3>1, <3>2
    <3>3. CASE u = t
      <4> DEFINE obs == observations[t]
                 new == observations'[t]
                 len == Len(obs)
      <4>1. /\ DOMAIN obs = 1 .. len /\ len \in Nat
            /\ DOMAIN new = 1 .. len + 1
            /\ \A i \in 1 .. len : new[i] = obs[i]
            /\ new[len + 1] = b
        BY <1>4, <1>5
      <4>2. /\ observed[t] = UNION {obs[i] : i \in 1 .. len}
            /\ \A i \in 1 .. len : obs[i] # {}
            /\ \A i, j \in 1 .. len : i < j => \A m \in obs[i], n \in obs[j] : m < n
        BY <3>1, <3>3, <4>1
      <4> HIDE DEF obs, new, len
      <4>3. observed'[t] = UNION {new[i] : i \in DOMAIN new}
        <5>1. 1 .. len + 1 = 1 .. len \union {len + 1}
          BY <4>1
        <5> QED
          BY <1>6, <4>1, <4>2, <5>1
      <4>4. \A i \in DOMAIN new : new[i] # {}
        BY <1>3, <4>1, <4>2
      <4>5. ASSUME NEW i \in DOMAIN new, NEW j \in DOMAIN new, i < j,
                   NEW m \in new[i], NEW n \in new[j]
            PROVE  m < n
        <5>1. CASE j = len + 1
          <6>1. i \in 1 .. len /\ n \in Unobserved(t)
            BY <1>3, <4>1, <4>5, <5>1
          <6>2. m \in observed[t]
            BY <4>1, <4>2, <6>1
          <6> QED
            BY <1>8, <6>1, <6>2
        <5>2. CASE j # len + 1
          BY <4>1, <4>2, <4>5, <5>2
        <5> QED
          BY <5>1, <5>2
      <4> QED
        BY <3>3, <4>3, <4>4, <4>5 DEF new
    <3> QED
      BY <3>2, <3>3
  <2> QED
    BY <1>13, <2>1 DEF InOrder
<1> QED
  BY <1>5, <1>9, <1>10, <1>12, <1>13, <1>14 DEF ObserverInv, RowsOK, BatchCurrent

\* Every step keeps ObserverInv.
LEMMA NextObserver ==
  ASSUME ObserverInv, [Next]_vars
  PROVE  ObserverInv'
<1>1. ASSUME NEW t \in Threads, Record(t) PROVE ObserverInv'
  BY <1>1, RecordObserver
<1>2. ASSUME NEW t \in Threads, Ask("observe", t) \/ Ask("reflect", t) PROVE ObserverInv'
  BY <1>2, AskObserver
<1>3. CASE TickObserve
  BY <1>3, TickObserveObserver
<1>4. CASE TickReflect
  BY <1>4, TickReflectObserver
<1>5. CASE Acquire
  BY <1>5, AcquireObserver
<1>6. CASE Observe
  BY <1>6, ObserveObserver
<1>7. CASE NotObserved
  BY <1>7, NotObservedObserver
<1>8. CASE Reflect
  BY <1>8, ReflectObserver
<1>9. CASE Restart
  BY <1>9, RestartObserver
<1>10. CASE UNCHANGED vars
  <2>1. TypeOK' /\ BatchCurrent'
    BY <1>10 DEF vars, ObserverInv, TypeOK, BatchCurrent, Heads, Unobserved
  <2> QED
    BY <1>10, <2>1, RowsUntouched DEF vars
<1> QED
  BY <1>1, <1>2, <1>3, <1>4, <1>5, <1>6, <1>7, <1>8, <1>9, <1>10 DEF Next

\* The batch in the hands of the observer stays what is oldest, and with it
\* ObserverInv holds in every reachable state.
THEOREM ObserverInvariant == Spec => []ObserverInv
<1>1. ObserverInv /\ [Next]_vars => ObserverInv'
  BY NextObserver
<1> QED
  BY InitObserver, <1>1, PTL DEF Spec

\* The rows, the queue of the lock and the jobs of the worker keep their types,
\* and an observation compresses BatchLimit messages at most.
THEOREM TypeCorrect == Spec => []TypeOK
<1>1. ObserverInv => TypeOK
  BY DEF ObserverInv
<1> QED
  BY ObserverInvariant, <1>1, PTL

\* The observations of a thread tell its messages once each and in order, and
\* no message is marked observed without one, whatever arrives, fails or
\* restarts between the read of a batch and its write.
THEOREM ObservedInOrder == Spec => []InOrder
<1>1. ObserverInv => InOrder
  BY DEF ObserverInv
<1> QED
  BY ObserverInvariant, <1>1, PTL

=============================================================================
