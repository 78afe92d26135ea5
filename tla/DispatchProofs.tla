--------------------------- MODULE DispatchProofs ----------------------------
(***************************************************************************)
(* Theorems of Dispatch, for any number of endpoints, request slots,       *)
(* rebuilds and permits, and any tier and fallback.                        *)
(*                                                                         *)
(* Every end of a call and every start of one goes through Walk, so most   *)
(* of the argument is about Walk: what it does to a state in which the     *)
(* request it moves holds no permit any more (WalkTyped, WalkPermits,      *)
(* WalkProbes).                                                            *)
(***************************************************************************)
EXTENDS Dispatch, FiniteSetTheorems, WellFoundedInduction, TLAPS

\* A request that waits or sends has a client, and waits in a queue once.
WithClient ==
  \A r \in Requests : pc[r] \in {"waiting", "sending"} => client[r] \in Clients

QueuedOnce ==
  \A k \in Clients : \A i, j \in DOMAIN queue[k] : queue[k][i] = queue[k][j] => i = j

\* The candidates of a request are positions, and stand for endpoints: the
\* position of the fallback is taken only when there is one.
Candidates == {c \in SUBSET Positions : \A i \in c : Candidate(i) \in Endpoints}

Typed == TypeOK /\ todo \in [Requests -> Candidates]

PermitsInv == Typed /\ WithClient /\ QueuedOnce /\ PermitsConserved

\* A breaker that is not closed has reached the threshold, and keeps the count:
\* its next failure opens it again.
Tripped(b) == b.state # "CLOSED" => b.failures >= Config.threshold

BreakersTripped == \A e \in Endpoints : Tripped(breaker[e])

ProbesInv == BreakersTripped /\ ProbesReport

-----------------------------------------------------------------------------
(* What the helpers return *)

\* The order of the numbers as a relation.
LEMMA BelowRelates ==
  ASSUME NEW x \in Nat, NEW m \in Nat, x < m
  PROVE  <<x, m>> \in OpToRel(<, Nat)
<1>1. <<x, m>> \in Nat \X Nat /\ <<x, m>>[1] < <<x, m>>[2]
  OBVIOUS
<1> QED
  BY <1>1, Zenon DEF OpToRel

\* A set of numbers that is not empty has a least element.
LEMMA LeastElement ==
  ASSUME NEW S, S \subseteq Nat, S # {}
  PROVE  Min(S) \in S /\ \A x \in S : Min(S) <= x
<1>1. PICK m \in S : \A x \in S : ~(<<x, m>> \in OpToRel(<, Nat))
  BY NatLessThanWellFounded, WFMin
<1>2. ASSUME NEW x \in S PROVE ~(x < m)
  BY <1>1, BelowRelates, Zenon
<1>3. m \in Nat /\ \A x \in S : x \in Nat
  OBVIOUS
<1>4. \A x \in S : m <= x
  BY <1>2, <1>3
<1> QED
  BY <1>4 DEF Min

\* The tier has a first endpoint.
LEMMA TierFacts ==
  Len(Tier) \in Nat \ {0} /\ DOMAIN Tier = 1 .. Len(Tier)
    /\ \A i \in DOMAIN Tier : Tier[i] \in Endpoints
BY TierAssumption

\* What the ladder, and a stream, put before a request are candidates.
LEMMA LadderCandidates ==
  {FirstEndpoint} \in Candidates /\ Ladder \in Candidates
<1> USE TierFacts
<1>1. Usable \subseteq DOMAIN Tier /\ DOMAIN Tier \subseteq Nat
  BY DEF Usable
<1>2. FirstEndpoint \in DOMAIN Tier
  BY <1>1, LeastElement DEF FirstEndpoint
<1>3. DOMAIN Tier \subseteq Positions /\ \A i \in DOMAIN Tier : Candidate(i) \in Endpoints
  BY DEF Positions, Candidate
<1>4. {FirstEndpoint} \in Candidates /\ {FirstEndpoint} \union Usable \in Candidates
  BY <1>1, <1>2, <1>3 DEF Candidates
<1>5. CASE Fallback \in Endpoints
  <2>1. Len(Tier) + 1 \in Positions /\ Candidate(Len(Tier) + 1) \in Endpoints
    BY <1>5 DEF Positions, Candidate
  <2> QED
    BY <1>4, <2>1 DEF Ladder, Candidates
<1>6. CASE Fallback \notin Endpoints
  BY <1>4, <1>6 DEF Ladder
<1> QED
  BY <1>4, <1>5, <1>6

\* The rules of the breaker map records to records.
LEMMA RulesTyped ==
  ASSUME NEW b \in Breakers
  PROVE  /\ AfterAllow(b, Config) \in Breakers
         /\ Aged(b) \in Breakers
         /\ \A outcome \in Outcomes : Verdict(b, outcome) \in Breakers
<1> USE OpenDurationAssumption
<1>1. b.state \in States /\ b.failures \in Nat /\ b.age \in Ages /\ b.probes \in Int
  BY DEF Breakers
<1>2. Config.threshold \in Nat /\ Config.probes \in Nat
  BY LimitAssumption DEF BreakerConfigs
<1>3. ASSUME NEW n \in Int PROVE HalfOpened(b, n) \in Breakers
  BY <1>1 DEF HalfOpened, Breakers, States
<1>4. AfterAllow(b, Config) \in Breakers
  BY <1>1, <1>2, <1>3 DEF AfterAllow
<1>5. Aged(b) \in Breakers
  <2>1. Older(b.age) \in Ages
    BY <1>1 DEF Older, Ages, NotOpened
  <2> QED
    BY <2>1 DEF Aged, Breakers
<1>6. ClosedBreaker \in Breakers
  BY DEF ClosedBreaker, Breakers, States, Ages, NotOpened
<1>7. AfterFailure(b, Config) \in Breakers
  <2>1. Opened(b) \in Breakers
    BY <1>1 DEF Opened, Breakers, States, Ages
  <2> QED
    BY <1>1, <2>1 DEF AfterFailure, Breakers
<1>8. Saturated(AfterFailure(b, Config)) \in Breakers
  BY <1>2, <1>7 DEF Saturated, Breakers
<1> QED
  BY <1>4, <1>5, <1>6, <1>8 DEF Verdict

\* Asking a breaker leaves a breaker.
LEMMA AskedTyped ==
  ASSUME NEW e \in Endpoints, NEW b \in Breakers, NEW stream \in BOOLEAN
  PROVE  Asked(e, b, stream) \in Breakers
BY RulesTyped DEF Asked

-----------------------------------------------------------------------------
(* What Walk does, whatever the state it starts from *)

\* The endpoints it has tried, and those it has tried in vain.
Asks(r, tried, b, quiet) ==
  /\ breaker' = [e \in Endpoints |-> IF e \in tried THEN Asked(e, b[e], streaming[r]) ELSE b[e]]
  /\ silent' = [e \in Endpoints |->
                  breaker'[e].state = "HALF_OPEN" /\
                    (silent[e] \/ e \in quiet \union {d \in tried : Wasted(d, b[d], streaming[r])})]

\* The request is answered ...
Answers(r, f) ==
  /\ pc' = [pc EXCEPT ![r] = "idle"] /\ streaming' = [streaming EXCEPT ![r] = FALSE]
  /\ todo' = [todo EXCEPT ![r] = {}] /\ client' = [client EXCEPT ![r] = NoClient]
  /\ free' = f /\ queue' = queue

\* ... takes a permit of client k ...
Enters(r, k, f) ==
  /\ f[k] > 0
  /\ pc' = [pc EXCEPT ![r] = "sending"] /\ client' = [client EXCEPT ![r] = k]
  /\ free' = [f EXCEPT ![k] = @ - 1] /\ queue' = queue

\* ... or joins its queue.
Joins(r, k, f) ==
  /\ pc' = [pc EXCEPT ![r] = "waiting"] /\ client' = [client EXCEPT ![r] = k]
  /\ free' = f /\ queue' = [queue EXCEPT ![k] = Append(@, r)]

Takes(r, e, kept, f) ==
  /\ Enters(r, ClientOf(e), f) \/ Joins(r, ClientOf(e), f)
  /\ todo' = [todo EXCEPT ![r] = kept] /\ UNCHANGED streaming

LEMMA WalkSteps ==
  ASSUME Typed, NEW r \in Requests, NEW cands \in Candidates, NEW b, NEW f, NEW quiet,
         Walk(r, cands, b, f, quiet)
  PROVE  \E tried \in SUBSET Endpoints :
           /\ Asks(r, tried, b, quiet)
           /\ \/ /\ \A e \in tried : ~Admitted(e, b[e], streaming[r])
                 /\ Answers(r, f)
              \/ \E e \in Endpoints, kept \in Candidates :
                   /\ \A d \in tried \ {e} : ~Admitted(d, b[d], streaming[r])
                   /\ Takes(r, e, kept, f)
<1> DEFINE yes == {i \in cands : Admitted(Candidate(i), b[Candidate(i)], streaming[r])}
           n == Min(yes)
           tried == {Candidate(i) : i \in {j \in cands : \A y \in yes : j <= y}}
           kept == {i \in cands : i > n}
<1>1. cands \subseteq Nat /\ \A i \in cands : Candidate(i) \in Endpoints
  BY TierFacts DEF Candidates, Positions
<1>2. tried \in SUBSET Endpoints
  BY <1>1
<1>3. Asks(r, tried, b, quiet)
  BY DEF Walk, Asks
<1>4. CASE yes = {}
  <2>1. Answers(r, f)
    BY <1>4 DEF Walk, Answers
  <2>2. \A e \in tried : ~Admitted(e, b[e], streaming[r])
    BY <1>4
  <2> QED
    BY <1>2, <1>3, <2>1, <2>2
<1>5. CASE yes # {}
  <2>1. n \in yes /\ \A y \in yes : n <= y
    BY <1>1, <1>5, LeastElement
  <2>2. Candidate(n) \in Endpoints /\ kept \in Candidates
    BY <1>1, <2>1 DEF Candidates
  <2>3. \A d \in tried \ {Candidate(n)} : ~Admitted(d, b[d], streaming[r])
    <3>1. SUFFICES ASSUME NEW j \in cands, \A y \in yes : j <= y,
                          Candidate(j) # Candidate(n), j \in yes
                   PROVE  FALSE
      OBVIOUS
    <3>2. j <= n /\ n <= j /\ j \in Nat /\ n \in Nat
      BY <1>1, <2>1, <3>1
    <3> QED
      BY <3>1, <3>2
  <2>4. Takes(r, Candidate(n), kept, f)
    <3> DEFINE k == ClientOf(Candidate(n))
               enter == f[k] > 0 /\ queue[k] = <<>>
    <3>1. /\ pc' = [pc EXCEPT ![r] = IF enter THEN "sending" ELSE "waiting"]
          /\ todo' = [todo EXCEPT ![r] = kept]
          /\ client' = [client EXCEPT ![r] = k]
          /\ free' = IF enter THEN [f EXCEPT ![k] = @ - 1] ELSE f
          /\ queue' = IF enter THEN queue ELSE [queue EXCEPT ![k] = Append(@, r)]
          /\ UNCHANGED streaming
      BY <1>5 DEF Walk
    <3> QED
      BY <3>1 DEF Takes, Enters, Joins
  <2> HIDE DEF n, kept, tried
  <2> QED
    BY <1>2, <1>3, <2>2, <2>3, <2>4
<1> QED
  BY <1>4, <1>5

\* Walk keeps the types.
LEMMA WalkTyped ==
  ASSUME Typed, NEW r \in Requests, NEW cands \in Candidates,
         NEW b \in [Endpoints -> Breakers], NEW f \in [Clients -> Nat],
         \A k \in Clients : f[k] <= Limit[k[1]],
         NEW quiet, Walk(r, cands, b, f, quiet)
  PROVE  Typed'
<1>1. PICK tried \in SUBSET Endpoints :
        /\ Asks(r, tried, b, quiet)
        /\ Answers(r, f) \/ \E e \in Endpoints, kept \in Candidates : Takes(r, e, kept, f)
  BY WalkSteps
<1>2. cut' = cut \ {r} /\ UNCHANGED gen
  BY DEF Walk
<1>3. breaker' \in [Endpoints -> Breakers] /\ silent' \in [Endpoints -> BOOLEAN]
  <2>1. streaming[r] \in BOOLEAN
    BY DEF Typed, TypeOK
  <2>2. \A e \in Endpoints : Asked(e, b[e], streaming[r]) \in Breakers
    BY <2>1, AskedTyped
  <2> QED
    BY <1>1, <2>2 DEF Asks
<1>4. CASE Answers(r, f)
  <2>1. {} \in Candidates
    BY DEF Candidates
  <2>2. streaming' \in [Requests -> BOOLEAN]
    BY <1>4 DEF Answers, Typed, TypeOK
  <2>3. todo' \in [Requests -> Candidates] /\ todo' \in [Requests -> SUBSET Positions]
    BY <1>4, <2>1 DEF Answers, Typed, TypeOK
  <2> QED
    BY <1>2, <1>3, <1>4, <2>2, <2>3 DEF Answers, Typed, TypeOK
<1>5. ASSUME NEW e \in Endpoints, NEW kept \in Candidates, Takes(r, e, kept, f)
      PROVE  Typed'
  <2>1. ClientOf(e) \in Clients
    BY DEF ClientOf, Clients, Typed, TypeOK
  <2>2. todo' \in [Requests -> Candidates] /\ todo' \in [Requests -> SUBSET Positions]
    BY <1>5 DEF Takes, Typed, TypeOK, Candidates
  <2>3. /\ pc' \in [Requests -> {"idle", "routed", "waiting", "sending"}]
        /\ client' \in [Requests -> Clients \union {NoClient}]
    <3>1. \/ pc' = [pc EXCEPT ![r] = "sending"]
          \/ pc' = [pc EXCEPT ![r] = "waiting"]
      BY <1>5 DEF Takes, Enters, Joins
    <3>2. client' = [client EXCEPT ![r] = ClientOf(e)]
      BY <1>5 DEF Takes, Enters, Joins
    <3>3. /\ pc \in [Requests -> {"idle", "routed", "waiting", "sending"}]
          /\ client \in [Requests -> Clients \union {NoClient}]
      BY DEF Typed, TypeOK
    <3> QED
      BY <2>1, <3>1, <3>2, <3>3
  <2>4. free' \in [Clients -> Nat] /\ \A k \in Clients : free'[k] <= Limit[k[1]]
    <3>1. CASE Enters(r, ClientOf(e), f)
      <4>1. f[ClientOf(e)] - 1 \in Nat /\ f[ClientOf(e)] - 1 <= Limit[ClientOf(e)[1]]
        <5>1. ClientOf(e)[1] \in Endpoints
          BY DEF ClientOf
        <5> QED
          BY <2>1, <3>1, <5>1, LimitAssumption DEF Enters
      <4> QED
        BY <2>1, <3>1, <4>1 DEF Enters
    <3>2. CASE Joins(r, ClientOf(e), f)
      BY <3>2 DEF Joins
    <3> QED
      BY <1>5, <3>1, <3>2 DEF Takes
  <2>5. queue' \in [Clients -> Seq(Requests)]
    <3>1. queue \in [Clients -> Seq(Requests)]
      BY DEF Typed, TypeOK
    <3>2. Append(queue[ClientOf(e)], r) \in Seq(Requests)
      BY <2>1, <3>1
    <3> QED
      BY <1>5, <3>1, <3>2 DEF Takes, Enters, Joins
  <2> QED
    BY <1>2, <1>3, <1>5, <2>2, <2>3, <2>4, <2>5 DEF Takes, Typed, TypeOK
<1> QED
  BY <1>1, <1>4, <1>5

-----------------------------------------------------------------------------
(* Permits and queues *)

\* The queues hold those that wait, each in the queue of its client.
Queued ==
  \A r \in Requests, k \in Clients :
    (r \in ToSet(queue[k])) <=> (pc[r] = "waiting" /\ client[r] = k)

\* With n free permits of client k, none is lost when r gives up or gets none.
Others(r, k) == Sending(k) \ {r}

LEMMA SendingFinite ==
  ASSUME NEW k
  PROVE  IsFiniteSet(Sending(k)) /\ Cardinality(Sending(k)) \in Nat
<1>1. Sending(k) \in SUBSET Requests
  BY DEF Sending
<1> QED
  BY <1>1, SlotsAssumption, FS_Subset, FS_CardinalityType

\* What a queue holds when somebody joins it, or its first waiter leaves.
LEMMA AppendHolds ==
  ASSUME NEW q \in Seq(Requests), NEW r \in Requests
  PROVE  /\ ToSet(Append(q, r)) = ToSet(q) \union {r}
         /\ r \notin ToSet(q) /\ (\A i, j \in DOMAIN q : q[i] = q[j] => i = j)
              => \A i, j \in DOMAIN Append(q, r) : Append(q, r)[i] = Append(q, r)[j] => i = j
<1> DEFINE a == Append(q, r)
<1>1. /\ Len(q) \in Nat /\ DOMAIN q = 1 .. Len(q) /\ DOMAIN a = 1 .. Len(q) + 1
      /\ \A i \in 1 .. Len(q) : a[i] = q[i]
      /\ a[Len(q) + 1] = r
  OBVIOUS
<1> HIDE DEF a
<1>2. 1 .. Len(q) + 1 = 1 .. Len(q) \union {Len(q) + 1}
  BY <1>1
<1>3. ToSet(a) = ToSet(q) \union {r}
  BY <1>1, <1>2 DEF ToSet
<1>4. ASSUME r \notin ToSet(q), \A i, j \in DOMAIN q : q[i] = q[j] => i = j,
             NEW i \in DOMAIN a, NEW j \in DOMAIN a, a[i] = a[j]
      PROVE  i = j
  <2>1. \A x \in 1 .. Len(q) : q[x] # r
    BY <1>1, <1>4 DEF ToSet
  <2>2. i \in 1 .. Len(q) \/ i = Len(q) + 1
    BY <1>1, <1>2
  <2>3. j \in 1 .. Len(q) \/ j = Len(q) + 1
    BY <1>1, <1>2
  <2> QED
    BY <1>1, <1>4, <2>1, <2>2, <2>3
<1> QED
  BY <1>3, <1>4 DEF a

LEMMA TailHolds ==
  ASSUME NEW q \in Seq(Requests), q # <<>>, \A i, j \in DOMAIN q : q[i] = q[j] => i = j
  PROVE  /\ Head(q) \in Requests /\ Head(q) \in ToSet(q) /\ Tail(q) \in Seq(Requests)
         /\ ToSet(Tail(q)) = ToSet(q) \ {Head(q)}
         /\ \A i, j \in DOMAIN Tail(q) : Tail(q)[i] = Tail(q)[j] => i = j
<1> DEFINE t == Tail(q)
           h == Head(q)
<1>1. /\ Len(q) \in Nat /\ Len(q) > 0 /\ DOMAIN q = 1 .. Len(q) /\ h = q[1]
      /\ t \in Seq(Requests) /\ DOMAIN t = 1 .. Len(q) - 1
      /\ \A i \in 1 .. Len(q) - 1 : t[i] = q[i + 1]
  OBVIOUS
<1>2. \A i \in DOMAIN q : q[i] \in Requests
  OBVIOUS
<1> HIDE DEF t, h
<1>3. \A x : x \in ToSet(t) => x \in ToSet(q) /\ x # h
  <2>1. SUFFICES ASSUME NEW i \in 1 .. Len(q) - 1
                 PROVE  t[i] \in ToSet(q) /\ t[i] # h
    BY <1>1 DEF ToSet
  <2>2. i + 1 \in DOMAIN q /\ 1 \in DOMAIN q /\ i + 1 # 1
    BY <1>1
  <2> QED
    BY <1>1, <2>2 DEF ToSet
<1>4. \A x : x \in ToSet(q) /\ x # h => x \in ToSet(t)
  <2>1. SUFFICES ASSUME NEW i \in 1 .. Len(q), q[i] # h PROVE q[i] \in ToSet(t)
    BY <1>1 DEF ToSet
  <2>2. i - 1 \in 1 .. Len(q) - 1 /\ (i - 1) + 1 = i
    BY <1>1, <2>1
  <2>3. t[i - 1] = q[i]
    BY <1>1, <2>2
  <2> QED
    BY <1>1, <2>2, <2>3 DEF ToSet
<1>5. ASSUME NEW i \in DOMAIN t, NEW j \in DOMAIN t, t[i] = t[j] PROVE i = j
  <2>1. i + 1 \in DOMAIN q /\ j + 1 \in DOMAIN q /\ q[i + 1] = q[j + 1]
    BY <1>1, <1>5
  <2>2. i + 1 = j + 1 /\ i \in Nat /\ j \in Nat
    BY <1>1, <2>1
  <2> QED
    BY <2>2
<1>6. h \in ToSet(q) /\ h \in Requests
  BY <1>1, <1>2 DEF ToSet
<1> QED
  BY <1>1, <1>3, <1>4, <1>5, <1>6 DEF t, h

\* Walk starts a call with a permit that is free, and joins a queue only where
\* the request is not yet.
LEMMA WalkPermits ==
  ASSUME PermitsInv, NEW r \in Requests, pc[r] # "waiting",
         NEW cands \in Candidates, NEW b, NEW f \in [Clients -> Nat],
         \A k \in Clients : f[k] + Cardinality(Others(r, k)) = Limit[k[1]],
         NEW quiet, Walk(r, cands, b, f, quiet), Typed'
  PROVE  PermitsInv'
<1>1. Answers(r, f) \/ \E e \in Endpoints, kept \in Candidates : Takes(r, e, kept, f)
  BY WalkSteps DEF PermitsInv
<1>2. /\ pc \in [Requests -> {"idle", "routed", "waiting", "sending"}]
      /\ client \in [Requests -> Clients \union {NoClient}]
      /\ queue \in [Clients -> Seq(Requests)]
  BY DEF PermitsInv, Typed, TypeOK
<1>3. Queued /\ \A k \in Clients : r \notin ToSet(queue[k])
  BY DEF PermitsInv, PermitsConserved, Queued
<1>4. WithClient /\ QueuedOnce
  BY DEF PermitsInv
<1>5. CASE Answers(r, f)
  <2>1. WithClient' /\ QueuedOnce'
    BY <1>2, <1>4, <1>5 DEF Answers, WithClient, QueuedOnce
  <2>2. \A k \in Clients : Sending(k)' = Others(r, k)
    BY <1>2, <1>5 DEF Answers, Sending, Others
  <2>3. Queued'
    BY <1>2, <1>3, <1>5 DEF Answers, Queued
  <2> QED
    BY <1>5, <2>1, <2>2, <2>3 DEF Answers, PermitsInv, PermitsConserved, Queued, Typed
<1>6. ASSUME NEW e \in Endpoints, NEW kept \in Candidates, Takes(r, e, kept, f)
      PROVE  PermitsInv'
  <2>1. PICK k \in Clients : k = ClientOf(e)
    BY DEF ClientOf, Clients, PermitsInv, Typed, TypeOK
  <2>2. CASE Enters(r, k, f)
    <3>1. WithClient' /\ QueuedOnce'
      BY <1>2, <1>4, <2>1, <2>2 DEF Enters, WithClient, QueuedOnce
    <3>2. Queued'
      BY <1>2, <1>3, <2>2 DEF Enters, Queued
    <3>3. Sending(k)' = Others(r, k) \union {r}
          /\ \A l \in Clients : l # k => Sending(l)' = Others(r, l)
      BY <1>2, <2>1, <2>2 DEF Enters, Sending, Others
    <3>4. IsFiniteSet(Others(r, k)) /\ Cardinality(Others(r, k)) \in Nat
      BY SendingFinite, FS_RemoveElement, FS_CardinalityType DEF Others
    <3>5. Cardinality(Sending(k)') = Cardinality(Others(r, k)) + 1
      <4>1. r \notin Others(r, k)
        BY DEF Others
      <4> QED
        BY <3>3, <3>4, <4>1, FS_AddElement
    <3>6. free'[k] = f[k] - 1 /\ f[k] \in Nat /\ \A l \in Clients : l # k => free'[l] = f[l]
      BY <2>1, <2>2 DEF Enters
    <3>7. \A l \in Clients : free'[l] + Cardinality(Sending(l)') = Limit[l[1]]
      <4>1. ASSUME NEW l \in Clients PROVE free'[l] + Cardinality(Sending(l)') = Limit[l[1]]
        <5>1. f[l] + Cardinality(Others(r, l)) = Limit[l[1]]
          OBVIOUS
        <5>2. CASE l = k
          BY <3>4, <3>5, <3>6, <5>1, <5>2
        <5>3. CASE l # k
          BY <3>3, <3>6, <5>1, <5>3
        <5> QED
          BY <5>2, <5>3
      <4> QED
        BY <4>1
    <3> QED
      BY <3>1, <3>2, <3>7 DEF PermitsInv, PermitsConserved, Queued, Typed
  <2>3. CASE Joins(r, k, f)
    <3>1. /\ queue'[k] = Append(queue[k], r) /\ queue[k] \in Seq(Requests)
          /\ \A l \in Clients : l # k => queue'[l] = queue[l]
      BY <1>2, <2>1, <2>3 DEF Joins
    <3>2. ToSet(queue'[k]) = ToSet(queue[k]) \union {r}
      BY <3>1, AppendHolds
    <3>3. QueuedOnce'
      <4>1. \A i, j \in DOMAIN queue'[k] : queue'[k][i] = queue'[k][j] => i = j
        <5>1. r \notin ToSet(queue[k]) /\ \A i, j \in DOMAIN queue[k] : queue[k][i] = queue[k][j] => i = j
          BY <1>3, <1>4 DEF QueuedOnce
        <5>2. \A i, j \in DOMAIN Append(queue[k], r) :
                Append(queue[k], r)[i] = Append(queue[k], r)[j] => i = j
          BY <3>1, <5>1, AppendHolds
        <5> QED
          BY <3>1, <5>2
      <4> QED
        BY <1>4, <3>1, <4>1 DEF QueuedOnce
    <3>4. WithClient'
      BY <1>2, <1>4, <2>1, <2>3 DEF Joins, WithClient
    <3>5. Queued'
      BY <1>2, <1>3, <2>1, <2>3, <3>1, <3>2 DEF Joins, Queued
    <3>6. \A l \in Clients : Sending(l)' = Others(r, l)
      BY <1>2, <2>1, <2>3 DEF Joins, Sending, Others
    <3> QED
      BY <2>3, <3>3, <3>4, <3>5, <3>6 DEF Joins, PermitsInv, PermitsConserved, Queued, Typed
  <2> QED
    BY <1>6, <2>1, <2>2, <2>3 DEF Takes
<1> QED
  BY <1>1, <1>5, <1>6

LEMMA InitPermits == Init => PermitsInv
<1> USE LimitAssumption
<1> SUFFICES ASSUME Init PROVE PermitsInv
  OBVIOUS
<1>1. TypeOK
  <2>1. ClosedBreaker \in Breakers
    BY OpenDurationAssumption DEF ClosedBreaker, Breakers, States, Ages, NotOpened
  <2>2. \A k \in Clients : k[1] \in Endpoints
    BY DEF Clients
  <2>3. free \in [Clients -> Nat] /\ \A k \in Clients : free[k] <= Limit[k[1]]
    BY <2>2 DEF Init
  <2>4. gen \in [Endpoints -> 0 .. MaxGen]
    BY DEF Init
  <2>5. queue \in [Clients -> Seq(Requests)]
    BY DEF Init
  <2> QED
    BY <2>1, <2>3, <2>4, <2>5 DEF Init, TypeOK
<1>2. Typed
  BY <1>1 DEF Typed, Init, Candidates
<1>3. WithClient /\ QueuedOnce /\ Queued
  BY DEF Init, WithClient, QueuedOnce, Queued, ToSet
<1>4. \A k \in Clients : free[k] + Cardinality(Sending(k)) = Limit[k[1]]
  <2>1. \A k \in Clients : k[1] \in Endpoints
    BY DEF Clients
  <2>2. \A k \in Clients : Sending(k) = {}
    BY DEF Init, Sending
  <2>3. ASSUME NEW k \in Clients PROVE free[k] + Cardinality(Sending(k)) = Limit[k[1]]
    <3>1. free[k] = Limit[k[1]] /\ Limit[k[1]] \in Nat
      BY <2>1 DEF Init
    <3>2. Cardinality(Sending(k)) = 0
      BY <2>2, FS_EmptySet
    <3> QED
      BY <3>1, <3>2
  <2> QED
    BY <2>3
<1> QED
  BY <1>2, <1>3, <1>4 DEF PermitsInv, PermitsConserved, Queued, Typed

LEMMA ArrivePermits ==
  ASSUME PermitsInv, NEW r \in Requests, Arrive(r)
  PROVE  PermitsInv'
<1>1. /\ pc[r] = "idle" /\ pc' = [pc EXCEPT ![r] = "routed"]
      /\ UNCHANGED <<breaker, gen, free, queue, client, cut, silent>>
  BY DEF Arrive
<1>2. /\ pc \in [Requests -> {"idle", "routed", "waiting", "sending"}]
      /\ todo \in [Requests -> Candidates] /\ streaming \in [Requests -> BOOLEAN]
  BY DEF PermitsInv, Typed, TypeOK
<1>3. PICK s \in BOOLEAN, c \in Candidates :
        streaming' = [streaming EXCEPT ![r] = s] /\ todo' = [todo EXCEPT ![r] = c]
  BY LadderCandidates, LimitAssumption DEF Arrive
<1>4. todo' \in [Requests -> Candidates] /\ todo' \in [Requests -> SUBSET Positions]
      /\ streaming' \in [Requests -> BOOLEAN]
  BY <1>2, <1>3 DEF Candidates
<1>5. Typed'
  BY <1>1, <1>4 DEF PermitsInv, Typed, TypeOK
<1>6. WithClient' /\ QueuedOnce' /\ Queued'
  BY <1>1, <1>2 DEF PermitsInv, WithClient, QueuedOnce, PermitsConserved, Queued
<1>7. \A k \in Clients : Sending(k)' = Sending(k)
  BY <1>1, <1>2 DEF Sending
<1> QED
  BY <1>1, <1>5, <1>6, <1>7 DEF PermitsInv, PermitsConserved, Queued, Typed

\* Forward is a Walk of a request that holds no permit.
LEMMA ForwardPermits ==
  ASSUME PermitsInv, NEW r \in Requests, Forward(r)
  PROVE  PermitsInv'
<1>1. pc[r] = "routed" /\ Walk(r, todo[r], breaker, free, {})
  BY DEF Forward
<1>2. /\ todo[r] \in Candidates /\ breaker \in [Endpoints -> Breakers]
      /\ free \in [Clients -> Nat] /\ \A k \in Clients : free[k] <= Limit[k[1]]
  BY DEF PermitsInv, Typed, TypeOK
<1>3. Typed'
  BY <1>1, <1>2, WalkTyped DEF PermitsInv
<1>4. \A k \in Clients : Others(r, k) = Sending(k)
  BY <1>1 DEF Others, Sending
<1>5. \A k \in Clients : free[k] + Cardinality(Others(r, k)) = Limit[k[1]]
  BY <1>4 DEF PermitsInv, PermitsConserved
<1> QED
  BY <1>1, <1>2, <1>3, <1>5, WalkPermits

\* A verdict leaves breakers.
LEMMA VerdictTyped ==
  ASSUME Typed, NEW e \in Endpoints, NEW outcome \in Outcomes
  PROVE  [breaker EXCEPT ![e] = Verdict(@, outcome)] \in [Endpoints -> Breakers]
<1>1. breaker \in [Endpoints -> Breakers]
  BY DEF Typed, TypeOK
<1>2. Verdict(breaker[e], outcome) \in Breakers
  BY <1>1, RulesTyped
<1> QED
  BY <1>1, <1>2

\* Finish is a Walk after the permit has been given back.
LEMMA FinishPermits ==
  ASSUME PermitsInv, NEW r \in Requests, NEW outcome \in Outcomes, Finish(r, outcome)
  PROVE  PermitsInv'
<1>1. PICK k \in Clients : k = client[r]
  BY DEF Finish, PermitsInv, WithClient
<1>2. k[1] \in Endpoints
  BY DEF Clients
<1> DEFINE rest == IF outcome = "failed" /\ ~streaming[r] THEN todo[r] ELSE {}
           b == [breaker EXCEPT ![k[1]] = Verdict(@, outcome)]
           f == [free EXCEPT ![k] = @ + 1]
<1>3. pc[r] = "sending"
      /\ Walk(r, rest, b, f, IF outcome \in {"rejected", "abandoned"} THEN {k[1]} ELSE {})
  BY <1>1 DEF Finish, Released
<1>4. rest \in Candidates
  BY DEF PermitsInv, Typed, Candidates
<1>5. b \in [Endpoints -> Breakers]
  BY <1>2, VerdictTyped DEF PermitsInv
<1>6. free \in [Clients -> Nat] /\ f \in [Clients -> Nat]
  BY DEF PermitsInv, Typed, TypeOK
<1>7. ASSUME NEW l \in Clients
      PROVE  f[l] + Cardinality(Others(r, l)) = Limit[l[1]] /\ f[l] <= Limit[l[1]]
  <2>1. free[l] + Cardinality(Sending(l)) = Limit[l[1]]
    BY DEF PermitsInv, PermitsConserved
  <2>2. Cardinality(Others(r, l)) = IF r \in Sending(l) THEN Cardinality(Sending(l)) - 1
                                     ELSE Cardinality(Sending(l))
    BY SendingFinite, FS_RemoveElement DEF Others
  <2>3. r \in Sending(l) <=> l = k
    BY <1>1, <1>3 DEF Sending
  <2>4. f[l] = IF l = k THEN free[l] + 1 ELSE free[l]
    BY <1>6
  <2>5. Cardinality(Others(r, l)) \in Nat
    BY SendingFinite, FS_RemoveElement, FS_CardinalityType DEF Others
  <2>6. Cardinality(Sending(l)) \in Nat /\ free[l] \in Nat
    BY <1>6, SendingFinite
  <2> HIDE DEF f
  <2> QED
    BY <2>1, <2>2, <2>3, <2>4, <2>5, <2>6
<1> HIDE DEF rest, b, f
<1>8. Typed'
  BY <1>3, <1>4, <1>5, <1>6, <1>7, WalkTyped DEF PermitsInv
<1> QED
  BY <1>3, <1>4, <1>6, <1>7, <1>8, WalkPermits

\* The first waiter takes the free permit.
LEMMA ResumePermits ==
  ASSUME PermitsInv, NEW k \in Clients, Resume(k)
  PROVE  PermitsInv'
<1>1. /\ pc \in [Requests -> {"idle", "routed", "waiting", "sending"}]
      /\ free \in [Clients -> Nat] /\ \A l \in Clients : free[l] <= Limit[l[1]]
      /\ queue \in [Clients -> Seq(Requests)]
  BY DEF PermitsInv, Typed, TypeOK
<1>2. PICK r : r = Head(queue[k])
  OBVIOUS
<1>3. /\ free[k] > 0 /\ queue[k] # <<>>
      /\ free' = [free EXCEPT ![k] = @ - 1]
      /\ queue' = [queue EXCEPT ![k] = Tail(@)]
      /\ pc' = [pc EXCEPT ![r] = "sending"]
      /\ UNCHANGED <<breaker, gen, streaming, todo, client, cut, silent>>
  BY <1>2 DEF Resume, CanResume
<1>4. \A i, j \in DOMAIN queue[k] : queue[k][i] = queue[k][j] => i = j
  BY DEF PermitsInv, QueuedOnce
<1>5. /\ r \in Requests /\ r \in ToSet(queue[k]) /\ Tail(queue[k]) \in Seq(Requests)
      /\ ToSet(Tail(queue[k])) = ToSet(queue[k]) \ {r}
      /\ \A i, j \in DOMAIN Tail(queue[k]) : Tail(queue[k])[i] = Tail(queue[k])[j] => i = j
  BY <1>1, <1>2, <1>3, <1>4, TailHolds
<1>6. Queued
  BY DEF PermitsInv, PermitsConserved, Queued
<1>7. pc[r] = "waiting" /\ client[r] = k
  BY <1>5, <1>6 DEF Queued
<1>8. Typed'
  <2>1. free' \in [Clients -> Nat] /\ \A l \in Clients : free'[l] <= Limit[l[1]]
    <3>1. \A l \in Clients : Limit[l[1]] \in Nat
      BY LimitAssumption DEF Clients
    <3> QED
      BY <1>1, <1>3, <3>1
  <2>2. queue' \in [Clients -> Seq(Requests)]
    BY <1>1, <1>3, <1>5
  <2> QED
    BY <1>3, <2>1, <2>2 DEF PermitsInv, Typed, TypeOK
<1>9. WithClient'
  BY <1>1, <1>3, <1>7 DEF PermitsInv, WithClient
<1>10. QueuedOnce'
  BY <1>1, <1>3, <1>5 DEF PermitsInv, QueuedOnce
<1>11. Queued'
  BY <1>1, <1>3, <1>5, <1>6, <1>7 DEF Queued
<1>12. \A l \in Clients : free'[l] + Cardinality(Sending(l)') = Limit[l[1]]
  <2>1. \A l \in Clients : l # k => Sending(l)' = Sending(l)
    BY <1>1, <1>3, <1>7 DEF Sending
  <2>2. Sending(k)' = Sending(k) \union {r} /\ r \notin Sending(k)
    BY <1>1, <1>3, <1>5, <1>7 DEF Sending
  <2>3. Cardinality(Sending(k)') = Cardinality(Sending(k)) + 1
    BY <2>2, SendingFinite, FS_AddElement
  <2>4. \A l \in Clients : free[l] + Cardinality(Sending(l)) = Limit[l[1]]
    BY DEF PermitsInv, PermitsConserved
  <2>5. ASSUME NEW l \in Clients PROVE free'[l] + Cardinality(Sending(l)') = Limit[l[1]]
    <3>1. CASE l = k
      <4>1. free'[k] = free[k] - 1 /\ free[k] \in Nat /\ Cardinality(Sending(k)) \in Nat
        BY <1>1, <1>3, SendingFinite
      <4> QED
        BY <2>3, <2>4, <3>1, <4>1
    <3>2. CASE l # k
      BY <1>1, <1>3, <2>1, <2>4, <3>2
    <3> QED
      BY <3>1, <3>2
  <2> QED
    BY <2>5
<1> QED
  BY <1>8, <1>9, <1>10, <1>11, <1>12 DEF PermitsInv, PermitsConserved, Queued, Typed

\* A rebuild gives the endpoint a client of its own and takes no permit away.
LEMMA RebuildPermits ==
  ASSUME PermitsInv, NEW e \in Endpoints, Rebuild(e)
  PROVE  PermitsInv'
<1>1. gen' \in [Endpoints -> 0 .. MaxGen]
  BY LimitAssumption DEF Rebuild, PermitsInv, Typed, TypeOK
<1>2. Typed'
  BY <1>1 DEF Rebuild, PermitsInv, Typed, TypeOK
<1>3. \A k \in Clients : Sending(k)' = Sending(k)
  BY DEF Rebuild, Sending
<1> QED
  BY <1>2, <1>3 DEF Rebuild, PermitsInv, WithClient, QueuedOnce, PermitsConserved, Typed

LEMMA TickPermits ==
  ASSUME PermitsInv, Tick
  PROVE  PermitsInv'
<1>1. breaker' \in [Endpoints -> Breakers]
  BY RulesTyped DEF Tick, PermitsInv, Typed, TypeOK
<1>2. Typed'
  BY <1>1 DEF Tick, PermitsInv, Typed, TypeOK
<1>3. \A k \in Clients : Sending(k)' = Sending(k)
  BY DEF Tick, Sending
<1> QED
  BY <1>2, <1>3 DEF Tick, PermitsInv, WithClient, QueuedOnce, PermitsConserved, Typed

\* Every step keeps the permits.
LEMMA NextPermits ==
  ASSUME PermitsInv, [Next]_vars
  PROVE  PermitsInv'
<1>1. ASSUME NEW r \in Requests, Arrive(r) PROVE PermitsInv'
  BY <1>1, ArrivePermits
<1>2. ASSUME NEW r \in Requests, Forward(r) PROVE PermitsInv'
  BY <1>2, ForwardPermits
<1>3. ASSUME NEW k \in Clients, Resume(k) PROVE PermitsInv'
  BY <1>3, ResumePermits
<1>4. ASSUME NEW r \in Requests, NEW outcome \in Outcomes, Finish(r, outcome) PROVE PermitsInv'
  BY <1>4, FinishPermits
<1>5. ASSUME NEW e \in Endpoints, Rebuild(e) PROVE PermitsInv'
  BY <1>5, RebuildPermits
<1>6. CASE Tick
  BY <1>6, TickPermits
<1>7. CASE UNCHANGED vars
  <2>1. \A k \in Clients : Sending(k)' = Sending(k)
    BY <1>7 DEF vars, Sending
  <2> QED
    BY <1>7, <2>1 DEF vars, PermitsInv, Typed, TypeOK, WithClient, QueuedOnce, PermitsConserved
<1> QED
  BY <1>1, <1>2, <1>3, <1>4, <1>5, <1>6, <1>7 DEF Next

\* PermitsInv holds in every reachable state.
THEOREM PermitsInvariant == Spec => []PermitsInv
<1>1. PermitsInv /\ [Next]_vars => PermitsInv'
  BY NextPermits
<1> QED
  BY InitPermits, <1>1, PTL DEF Spec

\* Breakers, clients, semaphores and requests keep their types: no semaphore
\* exceeds the concurrency of its endpoint.
THEOREM TypeCorrect == Spec => []TypeOK
<1>1. PermitsInv => TypeOK
  BY DEF PermitsInv, Typed
<1> QED
  BY PermitsInvariant, <1>1, PTL

\* No permit is lost or made up, whichever way calls end and whenever clients
\* are replaced under them, and a request waits in one queue, that of the
\* client it joined.
THEOREM PermitsAreConserved == Spec => []PermitsConserved
<1>1. PermitsInv => PermitsConserved
  BY DEF PermitsInv
<1> QED
  BY PermitsInvariant, <1>1, PTL

-----------------------------------------------------------------------------
(* Probes *)

\* Every rule keeps the count of a breaker that is not closed at the threshold,
\* so that a failure of a probe opens the breaker again.
LEMMA RulesTripped ==
  ASSUME NEW b \in Breakers, Tripped(b)
  PROVE  /\ Tripped(AfterAllow(b, Config))
         /\ Tripped(Aged(b))
         /\ \A outcome \in Outcomes : Tripped(Verdict(b, outcome))
         /\ \A outcome \in {"ok", "failed"} : Verdict(b, outcome).state # "HALF_OPEN"
<1>1. b.state \in States /\ b.failures \in Nat
  BY DEF Breakers
<1>2. Config.threshold \in Nat
  BY LimitAssumption DEF BreakerConfigs
<1>3. Tripped(AfterAllow(b, Config))
  BY DEF Tripped, AfterAllow, CooledDown, HalfOpened
<1>4. Tripped(Aged(b))
  BY DEF Tripped, Aged, Breakers
<1>5. Tripped(ClosedBreaker) /\ ClosedBreaker.state = "CLOSED"
  BY DEF Tripped, ClosedBreaker
<1> DEFINE a == AfterFailure(b, Config)
<1>6. /\ a \in Breakers
      /\ Trips(b, Config) => a.state = "OPEN" /\ a.failures >= Config.threshold
      /\ ~Trips(b, Config) => a.state = "CLOSED"
  <2>1. b.age \in Ages /\ b.probes \in Int /\ OpenDuration \in Nat
    BY OpenDurationAssumption DEF Breakers
  <2>2. a \in Breakers
    BY <1>1, <2>1 DEF AfterFailure, Opened, Breakers, States, Ages
  <2>3. Trips(b, Config) => a.state = "OPEN" /\ a.failures >= Config.threshold
    BY DEF AfterFailure, Opened, Trips
  <2>4. ~Trips(b, Config) => a.state = "CLOSED"
    BY <1>1, <1>2 DEF AfterFailure, Trips, Tripped, Breakers
  <2> QED
    BY <2>2, <2>3, <2>4
<1> HIDE DEF a
<1>7. /\ Saturated(a).state = a.state
      /\ a.failures >= Config.threshold => Saturated(a).failures >= Config.threshold
  BY <1>2, <1>6 DEF Saturated, Breakers
<1>8. Tripped(Saturated(a)) /\ Saturated(a).state # "HALF_OPEN"
  BY <1>6, <1>7 DEF Tripped
<1> QED
  BY <1>3, <1>4, <1>5, <1>8 DEF Verdict, a

LEMMA AskedTripped ==
  ASSUME NEW e \in Endpoints, NEW b \in Breakers, NEW stream \in BOOLEAN, Tripped(b)
  PROVE  Tripped(Asked(e, b, stream))
BY RulesTripped, RulesTyped DEF Asked

\* Asking in vain leaves a half-open breaker without probes only if it was one
\* already, or a probe was wasted.
LEMMA AskedInVain ==
  ASSUME Config.probes > 0, NEW e \in Endpoints, NEW b \in Breakers, NEW stream \in BOOLEAN,
         ~Admitted(e, b, stream), ~Wasted(e, b, stream)
  PROVE  Asked(e, b, stream) = b
<1>1. b.state \in States
  BY DEF Breakers
<1>2. CASE Allows(b, Config)
  BY <1>2 DEF Wasted
<1>3. CASE ~Allows(b, Config)
  <2>1. AfterAllow(b, Config) = b
    BY <1>1, <1>3 DEF Allows, AfterAllow
  <2> QED
    BY <1>3, <2>1 DEF Asked
<1> QED
  BY <1>2, <1>3

\* Walk leaves every half-open breaker without probes a call to wait for, when
\* the others of its calls, the verdict of the one that has ended, and the
\* probes it has wasted leave none.
LEMMA WalkProbes ==
  ASSUME Config.probes > 0, Typed, NEW r \in Requests, NEW cands \in Candidates,
         NEW b \in [Endpoints -> Breakers], \A e \in Endpoints : Tripped(b[e]),
         NEW f, NEW quiet,
         \A e \in Endpoints :
           (b[e].state = "HALF_OPEN" /\ b[e].probes <= 0 /\ ~silent[e] /\ e \notin quiet)
             => \E q \in Requests \ {r} : pc[q] \in {"waiting", "sending"} /\ client[q][1] = e,
         Walk(r, cands, b, f, quiet)
  PROVE  ProbesInv'
<1>1. PICK tried \in SUBSET Endpoints :
        /\ Asks(r, tried, b, quiet)
        /\ \/ /\ \A e \in tried : ~Admitted(e, b[e], streaming[r])
              /\ Answers(r, f)
           \/ \E e \in Endpoints, kept \in Candidates :
                /\ \A d \in tried \ {e} : ~Admitted(d, b[d], streaming[r])
                /\ Takes(r, e, kept, f)
  BY WalkSteps
<1>2. /\ streaming[r] \in BOOLEAN
      /\ pc \in [Requests -> {"idle", "routed", "waiting", "sending"}]
      /\ client \in [Requests -> Clients \union {NoClient}]
  BY DEF Typed, TypeOK
<1>3. BreakersTripped'
  <2>1. \A e \in Endpoints : Tripped(Asked(e, b[e], streaming[r]))
    BY <1>2, AskedTripped
  <2>2. \A e \in Endpoints : breaker'[e] = b[e] \/ breaker'[e] = Asked(e, b[e], streaming[r])
    BY <1>1 DEF Asks
  <2>3. \A e \in Endpoints : Tripped(breaker'[e])
    BY <2>1, <2>2
  <2> QED
    BY <2>3 DEF BreakersTripped, Tripped
<1>4. ProbesReport'
  <2>1. SUFFICES ASSUME NEW e \in Endpoints, breaker'[e].state = "HALF_OPEN",
                        breaker'[e].probes <= 0, ~silent'[e]
                 PROVE  \E q \in Requests : pc'[q] \in {"waiting", "sending"} /\ client'[q][1] = e
    BY DEF ProbesReport
  <2>2. ~silent[e] /\ e \notin quiet /\ (e \in tried => ~Wasted(e, b[e], streaming[r]))
    BY <1>1, <2>1 DEF Asks
  <2>3. CASE e \in tried /\ Admitted(e, b[e], streaming[r])
    <3>1. PICK kept \in Candidates : Takes(r, e, kept, f)
      BY <1>1, <2>3
    <3>2. pc'[r] \in {"waiting", "sending"} /\ client'[r] = ClientOf(e)
      BY <1>2, <3>1 DEF Takes, Enters, Joins
    <3> QED
      BY <3>2 DEF ClientOf
  <2>4. CASE ~(e \in tried /\ Admitted(e, b[e], streaming[r]))
    <3>1. breaker'[e] = b[e]
      <4>1. CASE e \in tried
        <5>1. Asked(e, b[e], streaming[r]) = b[e]
          BY <1>2, <2>2, <2>4, <4>1, AskedInVain
        <5> QED
          BY <1>1, <4>1, <5>1 DEF Asks
      <4>2. CASE e \notin tried
        BY <1>1, <4>2 DEF Asks
      <4> QED
        BY <4>1, <4>2
    <3>2. PICK q \in Requests \ {r} : pc[q] \in {"waiting", "sending"} /\ client[q][1] = e
      BY <2>1, <2>2, <3>1
    <3>3. pc'[q] = pc[q] /\ client'[q] = client[q]
      BY <1>1, <1>2 DEF Answers, Takes, Enters, Joins
    <3> QED
      BY <3>2, <3>3
  <2> QED
    BY <2>3, <2>4
<1> QED
  BY <1>3, <1>4 DEF ProbesInv

\* What the steps that leave the breakers alone have in common: a call that
\* waits or sends goes on doing so.
LEMMA CallsGoOn ==
  ASSUME ProbesInv, UNCHANGED <<breaker, client, silent>>,
         \A r \in Requests : pc[r] \in {"waiting", "sending"} => pc'[r] \in {"waiting", "sending"}
  PROVE  ProbesInv'
<1>1. BreakersTripped'
  BY DEF ProbesInv, BreakersTripped, Tripped
<1>2. ProbesReport'
  BY DEF ProbesInv, ProbesReport
<1> QED
  BY <1>1, <1>2 DEF ProbesInv

LEMMA NextProbes ==
  ASSUME Config.probes > 0, PermitsInv, ProbesInv, [Next]_vars
  PROVE  ProbesInv'
<1>1. /\ Typed /\ breaker \in [Endpoints -> Breakers]
      /\ pc \in [Requests -> {"idle", "routed", "waiting", "sending"}]
      /\ \A e \in Endpoints : Tripped(breaker[e])
  BY DEF PermitsInv, Typed, TypeOK, ProbesInv, BreakersTripped
<1>2. ASSUME NEW r \in Requests, Arrive(r) PROVE ProbesInv'
  BY <1>1, <1>2, CallsGoOn DEF Arrive
<1>3. ASSUME NEW r \in Requests, Forward(r) PROVE ProbesInv'
  <2>1. pc[r] = "routed" /\ Walk(r, todo[r], breaker, free, {}) /\ todo[r] \in Candidates
    BY <1>1, <1>3 DEF Forward, Typed
  <2>2. \A e \in Endpoints :
          (breaker[e].state = "HALF_OPEN" /\ breaker[e].probes <= 0 /\ ~silent[e])
            => \E q \in Requests \ {r} : pc[q] \in {"waiting", "sending"} /\ client[q][1] = e
    BY <2>1 DEF ProbesInv, ProbesReport
  <2> QED
    BY <1>1, <2>1, <2>2, WalkProbes
<1>4. ASSUME NEW k \in Clients, Resume(k) PROVE ProbesInv'
  BY <1>1, <1>4, CallsGoOn DEF Resume
<1>5. ASSUME NEW r \in Requests, NEW outcome \in Outcomes, Finish(r, outcome) PROVE ProbesInv'
  <2>1. PICK k \in Clients : k = client[r]
    BY <1>5 DEF Finish, PermitsInv, WithClient
  <2>2. PICK e \in Endpoints : e = k[1]
    BY DEF Clients
  <2> DEFINE rest == IF outcome = "failed" /\ ~streaming[r] THEN todo[r] ELSE {}
             b == [breaker EXCEPT ![e] = Verdict(@, outcome)]
             quiet == IF outcome \in {"rejected", "abandoned"} THEN {e} ELSE {}
  <2>3. Walk(r, rest, b, Released(k, outcome), quiet)
    BY <1>5, <2>1, <2>2 DEF Finish
  <2>4. rest \in Candidates
    BY <1>1 DEF Typed, Candidates
  <2>5. b \in [Endpoints -> Breakers]
    BY <1>1, VerdictTyped
  <2>6. /\ b[e] = Verdict(breaker[e], outcome)
        /\ \A d \in Endpoints : d # e => b[d] = breaker[d]
    BY <1>1
  <2>7. \A d \in Endpoints : Tripped(b[d])
    <3>1. Tripped(Verdict(breaker[e], outcome))
      BY <1>1, RulesTripped
    <3> QED
      BY <1>1, <2>6, <3>1
  <2>8. e \notin quiet => b[e].state # "HALF_OPEN"
    <3>1. outcome \in {"ok", "failed"} => Verdict(breaker[e], outcome).state # "HALF_OPEN"
      BY <1>1, RulesTripped
    <3> QED
      BY <2>6, <3>1 DEF Outcomes
  <2>9. ASSUME NEW d \in Endpoints, b[d].state = "HALF_OPEN", b[d].probes <= 0,
               ~silent[d], d \notin quiet
        PROVE  \E q \in Requests \ {r} : pc[q] \in {"waiting", "sending"} /\ client[q][1] = d
    <3>1. d # e
      BY <2>8, <2>9
    <3>2. breaker[d].state = "HALF_OPEN" /\ breaker[d].probes <= 0
      BY <2>6, <2>9, <3>1
    <3>3. PICK q \in Requests : pc[q] \in {"waiting", "sending"} /\ client[q][1] = d
      BY <2>9, <3>2 DEF ProbesInv, ProbesReport
    <3>4. q # r
      BY <2>1, <2>2, <3>1, <3>3
    <3> QED
      BY <3>3, <3>4
  <2> HIDE DEF rest, b, quiet
  <2> QED
    BY <1>1, <2>3, <2>4, <2>5, <2>7, <2>9, WalkProbes
<1>6. ASSUME NEW e \in Endpoints, Rebuild(e) PROVE ProbesInv'
  BY <1>6, CallsGoOn DEF Rebuild
<1>7. CASE Tick
  <2>1. \A e \in Endpoints : Tripped(Aged(breaker[e]))
    BY <1>1, RulesTripped
  <2>2. \A e \in Endpoints :
          breaker'[e] = Aged(breaker[e])
          /\ breaker'[e].state = breaker[e].state /\ breaker'[e].probes = breaker[e].probes
    BY <1>1, <1>7 DEF Tick, Aged, Breakers
  <2>3. BreakersTripped'
    BY <2>1, <2>2 DEF BreakersTripped, Tripped
  <2>4. ProbesReport'
    BY <1>7, <2>2 DEF Tick, ProbesInv, ProbesReport
  <2> QED
    BY <2>3, <2>4 DEF ProbesInv
<1>8. CASE UNCHANGED vars
  BY <1>8, CallsGoOn DEF vars
<1> QED
  BY <1>2, <1>3, <1>4, <1>5, <1>6, <1>7, <1>8 DEF Next

\* A breaker that half-opens with a probe to give is never left waiting for a
\* verdict that nobody will give: one without probes has a call on its way,
\* waiting or sending, unless a call has ended without a verdict since.
THEOREM ProbesAreReported == Config.probes > 0 => (Spec => []ProbesReport)
<1> SUFFICES ASSUME Config.probes > 0 PROVE Spec => []ProbesReport
  OBVIOUS
<1>1. Init => ProbesInv
  BY DEF Init, ProbesInv, BreakersTripped, Tripped, ProbesReport, ClosedBreaker
<1>2. PermitsInv /\ ProbesInv /\ [Next]_vars => ProbesInv'
  BY NextProbes
<1>3. ProbesInv => ProbesReport
  BY DEF ProbesInv
<1> QED
  BY PermitsInvariant, <1>1, <1>2, <1>3, PTL DEF Spec

=============================================================================
