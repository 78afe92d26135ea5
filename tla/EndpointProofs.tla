---------------------------- MODULE EndpointProofs ----------------------------
(***************************************************************************)
(* Theorems about endpoints: whether they are called (CircuitBreaker), for *)
(* every open duration, every set of configurations and every bound, and how *)
(* they are registered (Catalogue), for any providers, models, limits and  *)
(* administrators.                                                         *)
(*                                                                         *)
(* CircuitBreaker:                                                         *)
(*   TypeCorrect    - the type invariant, with no condition.               *)
(*   RowIsMemory    - under SteadyThreshold, a crash never loses anything. *)
(*   ProbesAreKept  - under SteadyThreshold, probes are conserved.         *)
(*   OneBreaker     - under SteadyThreshold, memory + row + crash + lazy   *)
(*                    load implement AbstractBreaker.                      *)
(* Catalogue:                                                              *)
(*   RegisteredOnce - the configuration names everything once.             *)
(***************************************************************************)
EXTENDS CircuitBreaker, Catalogue, TLAPS

-----------------------------------------------------------------------------
(***************************************************************************)
(* CircuitBreaker                                                          *)
(***************************************************************************)

(***************************************************************************)
(* The strengthening that makes RowMirrorsMemory and ProbesConserved       *)
(* inductive.  Its point is Tripped: a breaker that is not closed has      *)
(* reached the threshold, so its next failure trips it and writes the      *)
(* whole row; the branch of record_failure that writes a partial row runs  *)
(* only on a closed breaker, which has no opened_at and no probes to lose. *)
(***************************************************************************)
Tripped == Phase.state # "CLOSED" => Trips(Phase, config)

ClosedIsEmpty ==
  Phase.state = "CLOSED" => Phase.age = NotOpened /\ Phase.probes = 0

EpisodeOnly ==
  /\ Phase.state # "HALF_OPEN" => probing = 0 /\ granted = 0 /\ spent = 0
  /\ ~loaded => probing = 0 /\ stragglers = 0

IInv ==
  /\ TypeOK
  /\ RowMirrorsMemory
  /\ Tripped
  /\ ClosedIsEmpty
  /\ EpisodeOnly
  /\ ProbesConserved

-----------------------------------------------------------------------------
(* What the rules return *)

\* Every rule of circuit.py maps a breaker record to a breaker record.
LEMMA RulesTyped ==
  ASSUME NEW b \in Breakers, NEW c \in BreakerConfigs
  PROVE  /\ Loaded(b, c) \in Breakers
         /\ AfterAllow(b, c) \in Breakers
         /\ AfterFailure(b, c) \in Breakers
         /\ RowAfterFailure(b, c) \in Breakers
         /\ Aged(b) \in Breakers
<1> USE OpenDurationAssumption
<1>1. b.state \in States /\ b.failures \in Nat /\ b.age \in Ages /\ b.probes \in Int
  BY DEF Breakers
<1>2. c.threshold \in Nat /\ c.probes \in Nat
  BY DEF BreakerConfigs
<1>0. ASSUME NEW n \in Int PROVE HalfOpened(b, n) \in Breakers
  BY <1>1 DEF HalfOpened, Breakers, States
<1>3. Loaded(b, c) \in Breakers
  BY <1>0, <1>2 DEF Loaded
<1>4. AfterAllow(b, c) \in Breakers
  BY <1>0, <1>1, <1>2 DEF AfterAllow
<1>5. Opened(b) \in Breakers
  BY <1>1 DEF Opened, Breakers, States, Ages
<1>6. AfterFailure(b, c) \in Breakers
  BY <1>1, <1>5 DEF AfterFailure, Breakers
<1>7. RowAfterFailure(b, c) \in Breakers
  <2>1. NotOpened \in Ages
    BY DEF Ages
  <2> QED
    BY <1>1, <1>5, <2>1 DEF RowAfterFailure, Breakers
<1>8. Aged(b) \in Breakers
  <2>1. Older(b.age) \in Ages
    BY <1>1 DEF Older, Ages, NotOpened
  <2> QED
    BY <2>1 DEF Aged, Breakers
<1> QED
  BY <1>3, <1>4, <1>6, <1>7, <1>8

\* The fresh row that get_breaker_state invents is a breaker record.
LEMMA ClosedTyped == ClosedBreaker \in Breakers
  BY OpenDurationAssumption
  DEF ClosedBreaker, Breakers, States, Ages, NotOpened

\* Ending a call takes it out of the pool it is in, and no other.
LEMMA EndCallTyped ==
  ASSUME TypeOK, NEW kind \in CallKinds, InFlight(kind), EndCall(kind)
  PROVE  stragglers' \in Nat /\ probing' \in Nat /\ granted' \in Nat /\ spent' \in Nat
  BY DEF TypeOK, CallKinds, InFlight, EndCall

\* The calls left when an episode ends are stragglers.
LEMMA EndEpisodeTyped ==
  ASSUME TypeOK, NEW kind \in CallKinds, InFlight(kind), EndEpisode
  PROVE  stragglers' \in Nat /\ probing' \in Nat /\ granted' \in Nat /\ spent' \in Nat
  BY DEF TypeOK, CallKinds, InFlight, EndEpisode

-----------------------------------------------------------------------------
(* Type correctness *)

LEMMA TypeInit == Init => TypeOK
<1> SUFFICES ASSUME Init PROVE TypeOK
  OBVIOUS
<1>1. mem \in Breakers /\ db \in Breakers /\ config \in Configs
  BY ClosedTyped DEF Init
<1>2. loaded \in BOOLEAN
  BY DEF Init
<1>3. stragglers \in Nat /\ probing \in Nat /\ granted \in Nat /\ spent \in Nat
  BY DEF Init
<1> QED
  BY <1>1, <1>2, <1>3 DEF TypeOK

LEMMA TypeStep == TypeOK /\ [Next]_vars => TypeOK'
<1> SUFFICES ASSUME TypeOK, [Next]_vars PROVE TypeOK'
  OBVIOUS
<1> USE ConfigsAssumption
<1>1. config \in BreakerConfigs
  BY DEF TypeOK
<1>2. ASSUME NEW c \in Configs, Load(c) PROVE TypeOK'
  <2>1. Loaded(db, c) \in Breakers /\ c.probes \in Nat
    BY RulesTyped DEF TypeOK, BreakerConfigs
  <2> QED
    BY <1>2, <2>1 DEF Load, TypeOK
<1>3. ASSUME NEW c \in Configs, Configure(c) PROVE TypeOK'
  BY <1>3 DEF Configure, TypeOK, history
<1>4. CASE Admit
  <2>1. AfterAllow(mem, config) \in Breakers /\ config.probes \in Nat
    BY <1>1, RulesTyped DEF TypeOK, BreakerConfigs
  <2> QED
    BY <1>4, <2>1 DEF Admit, TypeOK
<1>5. CASE Refuse
  <2>1. AfterAllow(mem, config) \in Breakers /\ config.probes \in Nat
    BY <1>1, RulesTyped DEF TypeOK, BreakerConfigs
  <2> QED
    BY <1>5, <2>1 DEF Refuse, TypeOK
<1>6. ASSUME NEW kind \in CallKinds, Succeed(kind) PROVE TypeOK'
  <2>1. stragglers' \in Nat /\ probing' \in Nat /\ granted' \in Nat /\ spent' \in Nat
    BY <1>6, EndEpisodeTyped DEF Succeed
  <2> QED
    BY <1>6, <2>1, ClosedTyped DEF Succeed, TypeOK
<1>7. ASSUME NEW kind \in CallKinds, Fail(kind) PROVE TypeOK'
  <2>1. stragglers' \in Nat /\ probing' \in Nat /\ granted' \in Nat /\ spent' \in Nat
    BY <1>7, EndEpisodeTyped, EndCallTyped DEF Fail
  <2>2. mem' \in Breakers /\ db' \in Breakers
    BY <1>1, <1>7, RulesTyped DEF Fail, TypeOK
  <2> QED
    BY <1>7, <2>1, <2>2 DEF Fail, TypeOK
<1>8. ASSUME NEW kind \in CallKinds, EndSilently(kind) PROVE TypeOK'
  <2>1. stragglers' \in Nat /\ probing' \in Nat /\ granted' \in Nat /\ spent' \in Nat
    BY <1>8, EndCallTyped DEF EndSilently
  <2> QED
    BY <1>8, <2>1 DEF EndSilently, TypeOK
<1>9. CASE Restart
  <2>1. mem' \in Breakers /\ db' \in Breakers /\ config' \in Configs
    BY <1>9, ClosedTyped DEF Restart, TypeOK
  <2>2. loaded' \in BOOLEAN
    BY <1>9 DEF Restart
  <2>3. stragglers' \in Nat /\ probing' \in Nat /\ granted' \in Nat /\ spent' \in Nat
    BY <1>9 DEF Restart, TypeOK
  <2> QED
    BY <2>1, <2>2, <2>3 DEF TypeOK
<1>10. CASE Tick
  <2>1. Aged(mem) \in Breakers /\ Aged(db) \in Breakers
    BY <1>1, RulesTyped DEF TypeOK
  <2> QED
    BY <1>10, <2>1 DEF Tick, TypeOK, history
<1>11. CASE UNCHANGED vars
  BY <1>11 DEF vars, TypeOK
<1> QED
  BY <1>2, <1>3, <1>4, <1>5, <1>6, <1>7, <1>8, <1>9, <1>10, <1>11 DEF Next

\* Whatever the configurations and however calls, crashes and ticks
\* interleave, both copies of the breaker are breaker records and no count of
\* calls or probes (circuit.py, endpoints.py) goes below zero.
THEOREM TypeCorrect == Spec => []TypeOK
  BY TypeInit, TypeStep, PTL DEF Spec

-----------------------------------------------------------------------------
(* The inductive invariant *)

\* The part of IInv that is not typing.
Shape ==
  RowMirrorsMemory /\ Tripped /\ ClosedIsEmpty /\ EpisodeOnly /\ ProbesConserved

LEMMA IInvInit == Init => IInv
<1> SUFFICES ASSUME Init PROVE IInv
  OBVIOUS
<1>1. TypeOK
  BY TypeInit
<1>2. ~loaded /\ Phase = ClosedBreaker /\ probing = 0 /\ granted = 0 /\ spent = 0 /\ stragglers = 0
  BY DEF Init, Phase
<1>3. Phase.state = "CLOSED" /\ Phase.age = NotOpened /\ Phase.probes = 0
  BY <1>2 DEF ClosedBreaker
<1> QED
  BY <1>1, <1>2, <1>3
  DEF IInv, RowMirrorsMemory, Tripped, ClosedIsEmpty, EpisodeOnly, ProbesConserved

LEMMA ShapeLoad ==
  ASSUME SteadyThreshold, IInv, TypeOK', NEW c \in Configs, Load(c)
  PROVE  Shape'
<1>1. db \in Breakers /\ c \in BreakerConfigs /\ config \in BreakerConfigs
  BY ConfigsAssumption DEF IInv, TypeOK
<1>2. c.threshold = config.threshold
  BY DEF SteadyThreshold, IInv, TypeOK
<1>3. Phase = db /\ Phase' = mem' /\ db' = mem' /\ probing' = 0 /\ stragglers' = 0
  BY DEF Load, Phase, Loaded, IInv, EpisodeOnly
<1>4. mem'.failures = db.failures /\ mem'.age = db.age
  BY DEF Load, Loaded, HalfOpened
<1>5. CASE CooledDown(db)
  <2>1. mem'.state = "HALF_OPEN" /\ mem'.probes = c.probes /\ granted' = c.probes /\ spent' = 0
    BY <1>3, <1>5 DEF Load, Loaded, HalfOpened, CooledDown, IInv, EpisodeOnly
  <2> QED
    BY <1>1, <1>2, <1>3, <1>4, <1>5, <2>1
    DEF Shape, IInv, RowMirrorsMemory, Tripped, ClosedIsEmpty, EpisodeOnly,
        ProbesConserved, Left, Trips, CooledDown, Load, BreakerConfigs
<1>6. CASE ~CooledDown(db)
  <2>1. mem' = db /\ granted' = granted /\ spent' = spent /\ probing' = probing
    BY <1>6 DEF Load, Loaded
  <2> QED
    BY <1>1, <1>2, <1>3, <2>1
    DEF Shape, IInv, RowMirrorsMemory, Tripped, ClosedIsEmpty, EpisodeOnly,
        ProbesConserved, Trips, Load
<1> QED
  BY <1>5, <1>6

LEMMA ShapeConfigure ==
  ASSUME SteadyThreshold, IInv, NEW c \in Configs, Configure(c)
  PROVE  Shape'
<1>1. config'.threshold = config.threshold
  BY DEF SteadyThreshold, IInv, TypeOK, Configure
<1>2. Phase' = Phase /\ db' = db /\ mem' = mem /\ loaded' = loaded
  BY DEF Configure, Phase
<1> QED
  BY <1>1, <1>2
  DEF Shape, IInv, RowMirrorsMemory, Tripped, ClosedIsEmpty, EpisodeOnly,
      ProbesConserved, Trips, Configure, history

LEMMA ShapeAdmit ==
  ASSUME IInv, Admit
  PROVE  Shape'
<1>1. mem \in Breakers /\ config \in BreakerConfigs /\ loaded /\ loaded' /\ config' = config
  BY ConfigsAssumption DEF IInv, TypeOK, Admit
<1>2. Phase = mem /\ Phase' = mem' /\ db = mem
  BY <1>1 DEF Phase, IInv, RowMirrorsMemory
<1>3. probing \in Nat /\ spent \in Nat /\ granted \in Nat
  BY DEF IInv, TypeOK
<1>4. CASE mem.state = "CLOSED"
  <2>1. mem' = mem /\ db' = db /\ probing' = probing /\ granted' = granted /\ spent' = spent
    BY <1>4 DEF Admit, AfterAllow, CooledDown
  <2> QED
    BY <1>1, <1>2, <2>1
    DEF Shape, IInv, RowMirrorsMemory, Tripped, ClosedIsEmpty, EpisodeOnly, ProbesConserved, Trips
<1>5. CASE CooledDown(mem)
  <2>1. mem' = HalfOpened(mem, config.probes - 1) /\ db' = mem' /\ config.probes > 0
    BY <1>5 DEF Admit, AfterAllow, Allows, CooledDown
  <2>2. probing' = 1 /\ granted' = config.probes /\ spent' = 0
    BY <1>2, <1>3, <1>5 DEF Admit, CooledDown, IInv, EpisodeOnly
  <2>3. mem'.state = "HALF_OPEN" /\ mem'.failures = mem.failures /\ mem'.probes = config.probes - 1
    BY <2>1 DEF HalfOpened
  <2> QED
    BY <1>1, <1>2, <1>5, <2>1, <2>2, <2>3
    DEF Shape, IInv, RowMirrorsMemory, Tripped, ClosedIsEmpty, EpisodeOnly,
        ProbesConserved, Left, Trips, CooledDown, BreakerConfigs
<1>6. CASE mem.state = "HALF_OPEN" /\ mem.probes > 0
  <2>1. mem' = HalfOpened(mem, mem.probes - 1) /\ db' = mem'
    BY <1>6 DEF Admit, AfterAllow, CooledDown
  <2>2. probing' = probing + 1 /\ granted' = granted /\ spent' = spent
    BY <1>6 DEF Admit
  <2>3. mem'.state = "HALF_OPEN" /\ mem'.failures = mem.failures /\ mem'.probes = mem.probes - 1
    BY <2>1 DEF HalfOpened
  <2> QED
    BY <1>1, <1>2, <1>3, <1>6, <2>1, <2>2, <2>3
    DEF Shape, IInv, RowMirrorsMemory, Tripped, ClosedIsEmpty, EpisodeOnly,
        ProbesConserved, Left, Trips, Breakers
<1> QED
  BY <1>4, <1>5, <1>6 DEF Admit, Allows

LEMMA ShapeRefuse ==
  ASSUME IInv, Refuse
  PROVE  Shape'
<1>1. mem \in Breakers /\ config \in BreakerConfigs /\ loaded /\ loaded' /\ config' = config
  BY ConfigsAssumption DEF IInv, TypeOK, Refuse
<1>2. Phase = mem /\ Phase' = mem' /\ db = mem
  BY <1>1 DEF Phase, IInv, RowMirrorsMemory
<1>3. probing' = probing /\ spent' = spent
  BY DEF Refuse
<1>4. CASE CooledDown(mem)
  <2>1. mem' = HalfOpened(mem, config.probes - 1) /\ db' = mem' /\ config.probes = 0
    BY <1>1, <1>4 DEF Refuse, AfterAllow, Allows, BreakerConfigs
  <2>2. probing' = 0 /\ granted' = 0 /\ spent' = 0
    BY <1>2, <1>3, <1>4, <2>1 DEF Refuse, CooledDown, IInv, EpisodeOnly
  <2>3. mem'.state = "HALF_OPEN" /\ mem'.failures = mem.failures /\ mem'.probes = -1
    BY <2>1 DEF HalfOpened
  <2> QED
    BY <1>1, <1>2, <1>4, <2>1, <2>2, <2>3
    DEF Shape, IInv, RowMirrorsMemory, Tripped, ClosedIsEmpty, EpisodeOnly,
        ProbesConserved, Left, Trips, CooledDown
<1>5. CASE ~CooledDown(mem)
  <2>1. mem' = mem /\ db' = db /\ granted' = granted
    BY <1>5 DEF Refuse, AfterAllow, Allows
  <2> QED
    BY <1>1, <1>2, <1>3, <2>1
    DEF Shape, IInv, RowMirrorsMemory, Tripped, ClosedIsEmpty, EpisodeOnly, ProbesConserved, Trips
<1> QED
  BY <1>4, <1>5

LEMMA ShapeSucceed ==
  ASSUME IInv, NEW kind \in CallKinds, Succeed(kind)
  PROVE  Shape'
<1>1. loaded' /\ Phase' = ClosedBreaker /\ mem' = ClosedBreaker /\ db' = ClosedBreaker
  BY DEF Succeed, Phase
<1>2. Phase'.state = "CLOSED" /\ Phase'.age = NotOpened /\ Phase'.probes = 0
  BY <1>1 DEF ClosedBreaker
<1>3. probing' = 0 /\ granted' = 0 /\ spent' = 0
  BY DEF Succeed, EndEpisode
<1> QED
  BY <1>1, <1>2, <1>3
  DEF Shape, RowMirrorsMemory, Tripped, ClosedIsEmpty, EpisodeOnly, ProbesConserved

\* A failure either trips the breaker, which writes the whole row, or finds it
\* closed (Tripped), where the fields the row loses are already empty.
LEMMA ShapeFail ==
  ASSUME IInv, NEW kind \in CallKinds, Fail(kind)
  PROVE  Shape'
<1>1. mem \in Breakers /\ config \in BreakerConfigs /\ loaded /\ loaded' /\ config' = config
  BY ConfigsAssumption DEF IInv, TypeOK, Fail
<1>2. Phase = mem /\ Phase' = mem' /\ db = mem
  BY <1>1 DEF Phase, IInv, RowMirrorsMemory
<1>3. CASE Trips(mem, config)
  <2>1. mem' = Opened(mem) /\ db' = Opened(mem)
    BY <1>3 DEF Fail, AfterFailure, RowAfterFailure
  <2>2. mem'.state = "OPEN" /\ mem'.failures = mem.failures + 1
    BY <2>1 DEF Opened
  <2>3. probing' = 0 /\ granted' = 0 /\ spent' = 0
    BY <1>3 DEF Fail, EndEpisode
  <2> QED
    BY <1>1, <1>2, <1>3, <2>1, <2>2, <2>3
    DEF Shape, RowMirrorsMemory, Tripped, ClosedIsEmpty, EpisodeOnly,
        ProbesConserved, Trips, Breakers, BreakerConfigs
<1>4. CASE ~Trips(mem, config)
  <2>1. mem.state = "CLOSED" /\ mem.age = NotOpened /\ mem.probes = 0
    BY <1>2, <1>4 DEF IInv, Tripped, ClosedIsEmpty
  <2>2. mem' = [mem EXCEPT !.failures = mem.failures + 1]
    BY <1>4 DEF Fail, AfterFailure
  <2>3. db' = [state |-> mem.state, failures |-> mem.failures + 1,
               age |-> NotOpened, probes |-> 0]
    BY <1>4 DEF Fail, RowAfterFailure
  <2>4. mem' = db'
    BY <1>1, <2>1, <2>2, <2>3 DEF Breakers
  <2>5. mem'.state = "CLOSED" /\ mem'.age = NotOpened /\ mem'.probes = 0
    BY <2>1, <2>3, <2>4
  <2>6. probing = 0 /\ granted = 0 /\ spent = 0 /\ kind = "straggler"
    BY <1>2, <2>1 DEF IInv, EpisodeOnly, CallKinds, Fail, InFlight
  <2>7. probing' = 0 /\ granted' = 0 /\ spent' = 0
    BY <1>4, <2>6 DEF Fail, EndCall
  <2> QED
    BY <1>1, <1>2, <2>4, <2>5, <2>7
    DEF Shape, RowMirrorsMemory, Tripped, ClosedIsEmpty, EpisodeOnly, ProbesConserved
<1> QED
  BY <1>3, <1>4

LEMMA ShapeEndSilently ==
  ASSUME IInv, NEW kind \in CallKinds, EndSilently(kind)
  PROVE  Shape'
<1>1. Phase' = Phase /\ mem' = mem /\ db' = db /\ loaded' = loaded /\ config' = config
  BY DEF EndSilently, Phase
<1>2. probing \in Nat /\ spent \in Nat /\ stragglers \in Nat /\ granted' = granted
  BY DEF IInv, TypeOK, EndSilently, EndCall
<1>3. loaded
  BY <1>2 DEF IInv, EpisodeOnly, EndSilently, InFlight, CallKinds
<1>4. CASE kind = "probe"
  <2>1. probing' = probing - 1 /\ spent' = spent + 1 /\ probing > 0
    BY <1>4 DEF EndSilently, EndCall, InFlight
  <2>2. Phase.state = "HALF_OPEN"
    BY <1>2, <2>1 DEF IInv, EpisodeOnly
  <2>3. probing' + spent' = probing + spent
    BY <1>2, <2>1
  <2>4. Left(Phase') + probing' + spent' = granted'
    <3>1. Left(Phase) + probing + spent = granted /\ Left(Phase) \in Int
      <4>1. Phase \in Breakers
        BY DEF IInv, TypeOK, Phase
      <4> QED
        BY <2>2, <4>1 DEF IInv, ProbesConserved, Left, Breakers
    <3> QED
      BY <1>1, <1>2, <2>1, <3>1
  <2> QED
    BY <1>1, <1>3, <2>2, <2>4
    DEF Shape, IInv, RowMirrorsMemory, Tripped, ClosedIsEmpty, EpisodeOnly, ProbesConserved
<1>5. CASE kind # "probe"
  <2>1. probing' = probing /\ spent' = spent
    BY <1>5 DEF EndSilently, EndCall
  <2> QED
    BY <1>1, <1>2, <1>3, <2>1
    DEF Shape, IInv, RowMirrorsMemory, Tripped, ClosedIsEmpty, EpisodeOnly, ProbesConserved
<1> QED
  BY <1>4, <1>5

\* The crash: the row is what memory was.
LEMMA ShapeRestart ==
  ASSUME IInv, Restart
  PROVE  Shape'
<1>1. loaded /\ ~loaded' /\ db' = db /\ config' = config
  BY DEF Restart
<1>2. Phase = db /\ Phase' = db
  BY <1>1 DEF Phase, IInv, RowMirrorsMemory
<1>3. /\ probing \in Nat /\ spent \in Nat
      /\ probing' = 0 /\ stragglers' = 0 /\ granted' = granted /\ spent' = spent + probing
  BY DEF IInv, TypeOK, Restart
<1>4. db \in Breakers
  BY DEF IInv, TypeOK
<1> QED
  BY <1>1, <1>2, <1>3, <1>4
  DEF Shape, IInv, RowMirrorsMemory, Tripped, ClosedIsEmpty, EpisodeOnly,
      ProbesConserved, Left, Breakers

LEMMA ShapeTick ==
  ASSUME IInv, Tick
  PROVE  Shape'
<1>1. Phase \in Breakers
  BY DEF IInv, TypeOK, Phase
<1>2. Phase' = Aged(Phase) /\ loaded' = loaded /\ config' = config
  BY DEF Tick, Phase
<1>3. /\ Phase'.state = Phase.state /\ Phase'.failures = Phase.failures
      /\ Phase'.probes = Phase.probes /\ Phase'.age = Older(Phase.age)
  BY <1>1, <1>2 DEF Aged, Breakers
<1>4. Phase.age = NotOpened => Phase'.age = NotOpened
  BY <1>3, OpenDurationAssumption DEF Older, NotOpened
<1>5. loaded => db' = mem'
  BY DEF Tick, IInv, RowMirrorsMemory
<1> QED
  BY <1>2, <1>3, <1>4, <1>5
  DEF Shape, IInv, RowMirrorsMemory, Tripped, ClosedIsEmpty, EpisodeOnly,
      ProbesConserved, Left, Trips, Tick, history

LEMMA IInvStep ==
  ASSUME SteadyThreshold
  PROVE  IInv /\ [Next]_vars => IInv'
<1> SUFFICES ASSUME IInv, [Next]_vars PROVE IInv'
  OBVIOUS
<1>1. TypeOK'
  BY TypeStep DEF IInv
<1>2. CASE Next
  <2>1. Shape'
    BY <1>1, <1>2, ShapeLoad, ShapeConfigure, ShapeAdmit, ShapeRefuse, ShapeSucceed,
       ShapeFail, ShapeEndSilently, ShapeRestart, ShapeTick DEF Next
  <2> QED
    BY <1>1, <2>1 DEF IInv, Shape
<1>3. CASE UNCHANGED vars
  BY <1>1, <1>3
  DEF vars, IInv, Phase, RowMirrorsMemory, Tripped, ClosedIsEmpty, EpisodeOnly, ProbesConserved
<1> QED
  BY <1>2, <1>3

\* IInv holds throughout, while failure_threshold is not edited.
THEOREM Invariant ==
  ASSUME SteadyThreshold
  PROVE  Spec => []IInv
  BY IInvInit, IInvStep, PTL DEF Spec

\* Whatever the number of calls in flight and the moment of the crash, the row
\* equals the copy in memory as long as failure_threshold is not edited: every
\* method of circuit.py that moves `_state` writes all of it.
THEOREM RowIsMemory ==
  ASSUME SteadyThreshold
  PROVE  Spec => []RowMirrorsMemory
<1>1. IInv => RowMirrorsMemory
  BY DEF IInv
<1> QED
  BY <1>1, Invariant, PTL

\* allow() never gives more probes than half_open_max_probes in one half-open
\* episode, nor loses one it has not given, across crashes and reloads.
THEOREM ProbesAreKept ==
  ASSUME SteadyThreshold
  PROVE  Spec => []ProbesConserved
<1>1. IInv => ProbesConserved
  BY DEF IInv
<1> QED
  BY <1>1, Invariant, PTL

-----------------------------------------------------------------------------
(* Refinement *)

SamePhase == UNCHANGED <<Phase.state, Phase.failures, Phase.age, Phase.probes>>

LEMMA RefinesInit == Init => One!Closed
<1> SUFFICES ASSUME Init PROVE One!Closed
  OBVIOUS
<1>1. Phase = ClosedBreaker
  BY DEF Init, Phase
<1>2. /\ Phase.state = "CLOSED" /\ Phase.failures = 0
      /\ Phase.age = -1 /\ Phase.probes = 0
  BY <1>1 DEF ClosedBreaker, NotOpened
<1> QED
  BY <1>2 DEF One!Closed

\* A record that half-opens is the abstract HalfOpen step.
LEMMA HalfOpenStep ==
  ASSUME CooledDown(Phase), NEW c \in Configs, NEW n \in {c.probes, c.probes - 1},
         Phase' = HalfOpened(Phase, n)
  PROVE  One!HalfOpen
<1>1. /\ Phase'.state = "HALF_OPEN" /\ Phase'.failures = Phase.failures
      /\ Phase'.age = Phase.age /\ Phase'.probes = n
  BY DEF HalfOpened
<1>2. Phase.state = "OPEN" /\ Phase.age = OpenDuration
  BY DEF CooledDown
<1>3. c.probes \in {d.probes : d \in Configs}
  OBVIOUS
<1> QED
  BY <1>1, <1>2, <1>3 DEF One!HalfOpen

LEMMA RefinesLoad ==
  ASSUME IInv, NEW c \in Configs, Load(c)
  PROVE  One!HalfOpen \/ SamePhase
<1>1. Phase = db /\ Phase' = Loaded(db, c)
  BY DEF Load, Phase
<1>2. CASE CooledDown(db)
  <2>1. Phase' = HalfOpened(Phase, c.probes) /\ CooledDown(Phase)
    BY <1>1, <1>2 DEF Loaded
  <2> QED
    BY <2>1, HalfOpenStep
<1>3. CASE ~CooledDown(db)
  BY <1>1, <1>3 DEF Loaded, SamePhase
<1> QED
  BY <1>2, <1>3

\* allow(): nothing, the move to HALF_OPEN, or a probe taken.
LEMMA RefinesAllow ==
  ASSUME IInv, loaded, loaded', mem' = AfterAllow(mem, config)
  PROVE  One!HalfOpen \/ One!Probe \/ SamePhase
<1>1. Phase = mem /\ Phase' = mem' /\ config \in Configs
  BY DEF Phase, IInv, TypeOK
<1>2. CASE CooledDown(mem)
  <2>1. Phase' = HalfOpened(Phase, config.probes - 1) /\ CooledDown(Phase)
    BY <1>1, <1>2 DEF AfterAllow
  <2> QED
    BY <1>1, <2>1, HalfOpenStep
<1>3. CASE ~CooledDown(mem) /\ mem.state = "HALF_OPEN" /\ mem.probes > 0
  <2>1. Phase' = HalfOpened(Phase, Phase.probes - 1)
    BY <1>1, <1>3 DEF AfterAllow
  <2>2. /\ Phase'.state = "HALF_OPEN" /\ Phase'.failures = Phase.failures
        /\ Phase'.age = Phase.age /\ Phase'.probes = Phase.probes - 1
    BY <2>1 DEF HalfOpened
  <2> QED
    BY <1>1, <1>3, <2>2 DEF One!Probe
<1>4. CASE ~CooledDown(mem) /\ ~(mem.state = "HALF_OPEN" /\ mem.probes > 0)
  BY <1>1, <1>4 DEF AfterAllow, SamePhase
<1> QED
  BY <1>2, <1>3, <1>4

LEMMA RefinesSucceed ==
  ASSUME NEW kind \in CallKinds, Succeed(kind)
  PROVE  One!Close
<1>1. Phase' = ClosedBreaker
  BY DEF Succeed, Phase
<1>2. /\ Phase'.state = "CLOSED" /\ Phase'.failures = 0
      /\ Phase'.age = -1 /\ Phase'.probes = 0
  BY <1>1 DEF ClosedBreaker, NotOpened
<1> QED
  BY <1>2 DEF One!Close

LEMMA RefinesFail ==
  ASSUME IInv, NEW kind \in CallKinds, Fail(kind)
  PROVE  One!Trip \/ One!Count
<1>1. Phase = mem /\ Phase' = mem' /\ mem \in Breakers /\ config \in Configs
  BY DEF Fail, Phase, IInv, TypeOK
<1>2. config.threshold \in {d.threshold : d \in Configs}
  BY <1>1
<1>3. CASE Trips(mem, config)
  <2>1. Phase' = Opened(Phase)
    BY <1>1, <1>3 DEF Fail, AfterFailure
  <2>2. /\ Phase'.state = "OPEN" /\ Phase'.failures = Phase.failures + 1
        /\ Phase'.age = 0 /\ Phase'.probes = 0
    BY <2>1 DEF Opened
  <2> QED
    BY <1>1, <1>2, <1>3, <2>2 DEF One!Trip, Trips
<1>4. CASE ~Trips(mem, config)
  <2>1. Phase.state = "CLOSED"
    BY <1>1, <1>4 DEF IInv, Tripped
  <2>2. Phase' = [Phase EXCEPT !.failures = Phase.failures + 1]
    BY <1>1, <1>4 DEF Fail, AfterFailure
  <2>3. /\ Phase'.state = Phase.state /\ Phase'.failures = Phase.failures + 1
        /\ Phase'.age = Phase.age /\ Phase'.probes = Phase.probes
    BY <1>1, <2>2 DEF Breakers
  <2>4. Phase.failures + 1 < config.threshold
    BY <1>1, <1>4, ConfigsAssumption DEF Trips, Breakers, BreakerConfigs
  <2> QED
    BY <1>2, <2>1, <2>3, <2>4 DEF One!Count
<1> QED
  BY <1>3, <1>4

LEMMA RefinesTick ==
  ASSUME IInv, Tick
  PROVE  One!Wait \/ SamePhase
<1>1. Phase \in Breakers /\ Phase' = Aged(Phase)
  BY DEF IInv, TypeOK, Tick, Phase
<1>2. /\ Phase'.state = Phase.state /\ Phase'.failures = Phase.failures
      /\ Phase'.probes = Phase.probes /\ Phase'.age = Older(Phase.age)
  BY <1>1 DEF Aged, Breakers
<1> QED
  BY <1>2 DEF One!Wait, Older, SamePhase

LEMMA RefinesStep ==
  IInv /\ [Next]_vars /\ IInv' => [One!AbstractNext]_(One!abstractVars)
<1> SUFFICES ASSUME IInv, [Next]_vars, IInv'
             PROVE  One!AbstractNext \/ SamePhase
  BY DEF One!abstractVars, SamePhase
<1>1. ASSUME NEW c \in Configs, Load(c) PROVE One!AbstractNext \/ SamePhase
  BY <1>1, RefinesLoad DEF One!AbstractNext
<1>2. ASSUME NEW c \in Configs, Configure(c) PROVE SamePhase
  BY <1>2 DEF Configure, Phase, SamePhase
<1>3. CASE Admit \/ Refuse
  <2>1. loaded /\ loaded' /\ mem' = AfterAllow(mem, config)
    BY <1>3 DEF Admit, Refuse
  <2> QED
    BY <2>1, RefinesAllow DEF One!AbstractNext
<1>4. ASSUME NEW kind \in CallKinds, Succeed(kind) PROVE One!AbstractNext
  BY <1>4, RefinesSucceed DEF One!AbstractNext
<1>5. ASSUME NEW kind \in CallKinds, Fail(kind) PROVE One!AbstractNext
  BY <1>5, RefinesFail DEF One!AbstractNext
<1>6. ASSUME NEW kind \in CallKinds, EndSilently(kind) PROVE SamePhase
  BY <1>6 DEF EndSilently, Phase, SamePhase
<1>7. CASE Restart
  <2>1. Phase' = Phase
    BY <1>7 DEF Restart, Phase, IInv, RowMirrorsMemory
  <2> QED
    BY <2>1 DEF SamePhase
<1>8. CASE Tick
  BY <1>8, RefinesTick DEF One!AbstractNext
<1>9. CASE UNCHANGED vars
  BY <1>9 DEF vars, Phase, SamePhase
<1> QED
  BY <1>1, <1>2, <1>3, <1>4, <1>5, <1>6, <1>7, <1>8, <1>9 DEF Next

\* Memory, row, lazy load, write-through and crash together behave as one
\* breaker that never restarts: a cool-down is waited out in full, no probe
\* is given twice, and the failure count survives the process.
THEOREM OneBreaker ==
  ASSUME SteadyThreshold
  PROVE  Spec => IsOneBreaker
<1>1. Spec => []IInv
  BY Invariant
<1> QED
  BY <1>1, RefinesInit, RefinesStep, PTL DEF Spec, IsOneBreaker, One!AbstractSpec

-----------------------------------------------------------------------------
(***************************************************************************)
(* Catalogue                                                               *)
(***************************************************************************)

\* What is under way is of its type: answers that are awaited or have come,
\* the rows that are still to be stored, those that a registration has read.
PartialAnswers == UNION {[S -> Scores] : S \in SUBSET Entries}
UnderWay ==
  /\ catalogue \in [Entries -> Rows \union {None}]
  /\ calls \in [Syncs -> [Providers -> {None, Asked} \union PartialAnswers]]
  /\ reading # None => DOMAIN reading \subseteq Int

\* What Unambiguous says of the configuration.
NamedOnce == \A x, y \in endpoints : x.name = y.name => x = y
MembersNamed == \A t \in Tiers : members[t] \subseteq Names
TiersApart == \A t, u \in Tiers : t # u => members[t] \intersect members[u] = {}
Registry == NamedOnce /\ MembersNamed /\ TiersApart

\* Inductive: a registration only needs what it left behind before.
CatalogueInv == CatalogueTypeOK /\ UnderWay /\ Registry

-----------------------------------------------------------------------------
(* Registrations. *)

\* A row is added once, under a name that was free, and its first like it.
LEMMA AddedApart ==
  ASSUME NEW n, NEW i \in Added(n), NEW j \in Added(n), Planned(i).name = Planned(j).name
  PROVE  i = j /\ Planned(i).name \notin Names
<1>1. i \in Int /\ j \in Int /\ i \in 1 .. n /\ j \in 1 .. n
  BY DEF Added
<1>2. ~(j < i) /\ ~(i < j)
  BY <1>1 DEF Added
<1> QED
  BY <1>1, <1>2 DEF Added

\* Registering rows keeps the configuration unambiguous, with or without the
\* tier of the last one.
LEMMA RegisterKeeps ==
  ASSUME Registry, DOMAIN members = Tiers, NEW n, NEW tiered \in SUBSET Added(n),
         Register(Added(n), tiered)
  PROVE  Registry' /\ DOMAIN members' = Tiers
<1> DEFINE fresh == {Planned(i) : i \in Added(n)}
           placed(t) == {Planned(i).name : i \in {j \in tiered : reading[j].tier = t}}
<1>1. /\ endpoints' = endpoints \union fresh
      /\ members' = [t \in Tiers |-> members[t] \union placed(t)]
  BY Zenon DEF Register
<1>2. \A x \in fresh : x.name \notin Names
  BY AddedApart
<1>3. \A x, y \in fresh : x.name = y.name => x = y
  BY AddedApart
<1>4. Names' = Names \union {x.name : x \in fresh}
  BY <1>1 DEF Names
<1>5. \A t \in Tiers : placed(t) \subseteq {x.name : x \in fresh}
  OBVIOUS
<1>6. \A t, u \in Tiers : t # u => placed(t) \intersect placed(u) = {}
  <2> SUFFICES ASSUME NEW t \in Tiers, NEW u \in Tiers, t # u,
                      NEW i \in tiered, NEW j \in tiered,
                      reading[i].tier = t, reading[j].tier = u,
                      Planned(i).name = Planned(j).name
               PROVE  FALSE
    OBVIOUS
  <2>1. i = j
    BY AddedApart
  <2> QED
    BY <2>1
<1>7. NamedOnce'
  <2>1. \A x \in endpoints : x.name \in Names
    BY DEF Names
  <2> HIDE DEF fresh
  <2> QED
    BY <1>1, <1>2, <1>3, <2>1 DEF Registry, NamedOnce
<1> HIDE DEF fresh, placed
<1>8. MembersNamed'
  BY <1>1, <1>4, <1>5 DEF Registry, MembersNamed
<1>9. \A t \in Tiers : \A m \in placed(t) : m \notin Names
  BY <1>2, <1>5
<1>10. TiersApart'
  <2> SUFFICES ASSUME NEW t \in Tiers, NEW u \in Tiers, t # u,
                      NEW m, m \in members'[t], m \in members'[u]
               PROVE  FALSE
    BY DEF TiersApart
  <2>1. (m \in members[t] \/ m \in placed(t)) /\ (m \in members[u] \/ m \in placed(u))
    BY <1>1
  <2>2. m \in members[t] => m \notin placed(u)
    BY <1>9 DEF Registry, MembersNamed
  <2>3. m \in members[u] => m \notin placed(t)
    BY <1>9 DEF Registry, MembersNamed
  <2> QED
    BY <1>6, <2>1, <2>2, <2>3 DEF Registry, TiersApart
<1> QED
  BY <1>1, <1>7, <1>8, <1>10 DEF Registry

-----------------------------------------------------------------------------
(* Types. *)

LEMMA UpsertTyped ==
  ASSUME NEW old, NEW score \in Scores
  PROVE  Upsert(old, score) \in Rows
<1>1. TierOf(score) \in AllTiers
  BY DEF AllTiers
<1> QED
  BY <1>1 DEF Upsert, Rows

LEMMA CatalogueInitInv == CatalogueInit => CatalogueInv
<1> SUFFICES ASSUME CatalogueInit PROVE CatalogueInv
  OBVIOUS
<1>1. offers \in Answers /\ catalogue = [e \in Entries |-> None] /\ calls = Quiet
      /\ DOMAIN storing = {} /\ reading = None
      /\ endpoints = {} /\ members = [t \in Tiers |-> {}] /\ changes = 0 /\ edits = 0
  BY CatalogueAssumption DEF CatalogueInit, Answers
<1>2. CatalogueTypeOK
  BY <1>1, CatalogueAssumption DEF CatalogueTypeOK
<1>3. UnderWay
  BY <1>1 DEF UnderWay, Quiet
<1>4. Registry
  BY <1>1 DEF Registry, NamedOnce, MembersNamed, TiersApart
<1> QED
  BY <1>2, <1>3, <1>4 DEF CatalogueInv

LEMMA RegistrySame ==
  ASSUME Registry, UNCHANGED configured
  PROVE  Registry'
BY DEF configured, Registry, NamedOnce, MembersNamed, TiersApart, Names

\* The providers and the synchronisation.
LEMMA ProvidersKeep ==
  ASSUME CatalogueInv, NEW e \in Entries, Change(e) \/ StoreRow(e) \/ SkipRow(e)
  PROVE  CatalogueInv'
<1>1. UNCHANGED <<calls, reading, configured, edits>>
  BY DEF Change, StoreRow, SkipRow, sync, rows
<1>2. Registry'
  BY <1>1, RegistrySame DEF CatalogueInv
<1>3. CASE Change(e)
  <2>1. /\ changes' \in 0 .. MaxChanges /\ UNCHANGED <<catalogue, storing>>
        /\ \E s \in Scores \union {None} : offers' = [offers EXCEPT ![e] = s]
    BY <1>3, CatalogueAssumption DEF Change, sync, CatalogueInv, CatalogueTypeOK
  <2>2. offers' \in Answers
    BY <2>1 DEF CatalogueInv, CatalogueTypeOK, Answers
  <2>3. CatalogueTypeOK' /\ UnderWay'
    BY <1>1, <2>1, <2>2 DEF CatalogueInv, CatalogueTypeOK, UnderWay, configured
  <2> QED
    BY <1>2, <2>3 DEF CatalogueInv
<1>4. CASE StoreRow(e)
  <2>1. /\ e \in DOMAIN storing /\ UNCHANGED <<offers, changes>>
        /\ catalogue' = [catalogue EXCEPT ![e] = Upsert(catalogue[e], storing[e])]
        /\ storing' = [x \in DOMAIN storing \ {e} |-> storing[x]]
    BY <1>4 DEF StoreRow, Restrict
  <2>2. Upsert(catalogue[e], storing[e]) \in Rows
    BY <2>1, UpsertTyped DEF CatalogueInv, CatalogueTypeOK
  <2>3. catalogue' \in [Entries -> Rows \union {None}]
    BY <2>1, <2>2 DEF CatalogueInv, UnderWay
  <2>4. DOMAIN storing' \subseteq Entries /\ \A x \in DOMAIN storing' : storing'[x] \in Scores
    BY <2>1 DEF CatalogueInv, CatalogueTypeOK
  <2>5. CatalogueTypeOK' /\ UnderWay'
    BY <1>1, <2>1, <2>3, <2>4 DEF CatalogueInv, CatalogueTypeOK, UnderWay, configured
  <2> QED
    BY <1>2, <2>5 DEF CatalogueInv
<1>5. CASE SkipRow(e)
  <2>1. /\ UNCHANGED <<offers, catalogue, changes>>
        /\ storing' = [x \in DOMAIN storing \ {e} |-> storing[x]]
    BY <1>5 DEF SkipRow, Restrict, rows
  <2>2. DOMAIN storing' \subseteq Entries /\ \A x \in DOMAIN storing' : storing'[x] \in Scores
    BY <2>1 DEF CatalogueInv, CatalogueTypeOK
  <2>3. CatalogueTypeOK' /\ UnderWay'
    BY <1>1, <2>1, <2>2 DEF CatalogueInv, CatalogueTypeOK, UnderWay, configured
  <2> QED
    BY <1>2, <2>3 DEF CatalogueInv
<1> QED
  BY <1>3, <1>4, <1>5

LEMMA SyncKeeps ==
  ASSUME CatalogueInv, NEW s \in Syncs, NEW asked, Sync(s, asked), edits' \in 0 .. MaxEdits
  PROVE  CatalogueInv'
<1>1. /\ calls' = [calls EXCEPT ![s] = [p \in Providers |-> IF p \in asked THEN Asked ELSE None]]
      /\ UNCHANGED <<offers, catalogue, changes, storing, reading, configured>>
  BY DEF Sync, rows
<1>2. calls' \in [Syncs -> [Providers -> {None, Asked} \union PartialAnswers]]
  BY <1>1 DEF CatalogueInv, UnderWay
<1>3. CatalogueTypeOK' /\ UnderWay'
  BY <1>1, <1>2 DEF CatalogueInv, CatalogueTypeOK, UnderWay, configured
<1> QED
  BY <1>1, <1>3, RegistrySame DEF CatalogueInv

LEMMA AnswersKeep ==
  ASSUME CatalogueInv, NEW s \in Syncs, NEW p \in Providers,
         Respond(s, p) \/ FetchFails(s, p) \/ Store(s, p)
  PROVE  CatalogueInv'
<1>1. UNCHANGED <<offers, catalogue, changes, reading, configured, edits>>
  BY DEF Respond, FetchFails, Store, rows
<1>2. \E a \in {None} \union PartialAnswers : calls' = [calls EXCEPT ![s][p] = a]
  <2>1. CASE Respond(s, p)
    <3> DEFINE S == {e \in Entries : e.provider = p /\ offers[e] # None}
    <3>1. calls' = [calls EXCEPT ![s][p] = [e \in S |-> offers[e]]]
      BY <2>1, Zenon DEF Respond, Restrict
    <3>2. [e \in S |-> offers[e]] \in [S -> Scores]
      BY DEF CatalogueInv, CatalogueTypeOK, Answers
    <3>3. [e \in S |-> offers[e]] \in PartialAnswers
      BY <3>2 DEF PartialAnswers
    <3> QED
      BY <3>1, <3>3
  <2>2. CASE FetchFails(s, p) \/ Store(s, p)
    BY <2>2 DEF FetchFails, Store
  <2> QED
    BY <2>1, <2>2
<1>3. calls' \in [Syncs -> [Providers -> {None, Asked} \union PartialAnswers]]
  BY <1>2 DEF CatalogueInv, UnderWay
<1>4. DOMAIN storing' \subseteq Entries /\ \A e \in DOMAIN storing' : storing'[e] \in Scores
  <2>1. CASE Store(s, p)
    <3>1. storing' = calls[s][p] /\ calls[s][p] \in PartialAnswers
      BY <2>1 DEF Store, CatalogueInv, UnderWay
    <3> QED
      BY <3>1 DEF PartialAnswers
  <2>2. CASE Respond(s, p) \/ FetchFails(s, p)
    BY <2>2 DEF Respond, FetchFails, CatalogueInv, CatalogueTypeOK
  <2> QED
    BY <2>1, <2>2
<1>5. CatalogueTypeOK' /\ UnderWay'
  BY <1>1, <1>3, <1>4 DEF CatalogueInv, CatalogueTypeOK, UnderWay, configured
<1> QED
  BY <1>1, <1>5, RegistrySame DEF CatalogueInv

\* The administrators.
LEMMA EditsKeep ==
  ASSUME CatalogueInv, NEW e \in Entries,
         \/ \E t \in AllTiers : SetTier(e, t)
         \/ \E b \in BOOLEAN : SetEnabled(e, b)
  PROVE  CatalogueInv'
<1>1. /\ catalogue[e] # None /\ edits' \in 0 .. MaxEdits
      /\ UNCHANGED <<offers, changes, calls, storing, reading, configured>>
      /\ \/ \E t \in AllTiers : catalogue' = [catalogue EXCEPT ![e].tier = t]
         \/ \E b \in BOOLEAN : catalogue' = [catalogue EXCEPT ![e].enabled = b]
  BY CatalogueAssumption DEF SetTier, SetEnabled, Edited, sync, CatalogueInv, CatalogueTypeOK
<1>2. catalogue' \in [Entries -> Rows \union {None}]
  <2>1. catalogue[e] \in Rows /\ catalogue \in [Entries -> Rows \union {None}]
    BY <1>1 DEF CatalogueInv, UnderWay
  <2>2. CASE \E t \in AllTiers : catalogue' = [catalogue EXCEPT ![e].tier = t]
    <3>1. PICK t \in AllTiers : catalogue' = [catalogue EXCEPT ![e] = [catalogue[e] EXCEPT !.tier = t]]
      BY <2>2
    <3>2. [catalogue[e] EXCEPT !.tier = t] \in Rows
      BY <2>1 DEF Rows
    <3> QED
      BY <2>1, <3>1, <3>2
  <2>3. CASE \E b \in BOOLEAN : catalogue' = [catalogue EXCEPT ![e].enabled = b]
    <3>1. PICK b \in BOOLEAN : catalogue' = [catalogue EXCEPT ![e] = [catalogue[e] EXCEPT !.enabled = b]]
      BY <2>3
    <3>2. [catalogue[e] EXCEPT !.enabled = b] \in Rows
      BY <2>1 DEF Rows
    <3> QED
      BY <2>1, <3>1, <3>2
  <2> QED
    BY <1>1, <2>2, <2>3
<1>3. CatalogueTypeOK' /\ UnderWay'
  BY <1>1, <1>2 DEF CatalogueInv, CatalogueTypeOK, UnderWay, configured
<1> QED
  BY <1>1, <1>3, RegistrySame DEF CatalogueInv

LEMMA EndpointsKeep ==
  ASSUME CatalogueInv, NEW n, RemoveEndpoint(n) \/ AddEndpoint(n)
  PROVE  CatalogueInv'
<1>1. edits' \in 0 .. MaxEdits /\ UNCHANGED <<offers, catalogue, changes, calls, storing, reading>>
  BY CatalogueAssumption
  DEF RemoveEndpoint, AddEndpoint, Edited, sync, rows, CatalogueInv, CatalogueTypeOK
<1>2. Registry' /\ DOMAIN members' = Tiers
  <2>1. CASE RemoveEndpoint(n)
    <3>1. /\ endpoints' = {x \in endpoints : x.name # n}
          /\ members' = [t \in Tiers |-> members[t] \ {n}]
      BY <2>1 DEF RemoveEndpoint
    <3>2. Names' = Names \ {n}
      BY <3>1 DEF Names
    <3> QED
      BY <3>1, <3>2 DEF CatalogueInv, Registry, NamedOnce, MembersNamed, TiersApart
  <2>2. CASE AddEndpoint(n)
    <3> DEFINE own == [name |-> n, model |-> None, provider |-> None]
    <3>1. n \notin Names /\ endpoints' = endpoints \union {own} /\ members' = members
      BY <2>2 DEF AddEndpoint
    <3>2. own.name = n
      OBVIOUS
    <3> HIDE DEF own
    <3>3. Names' = Names \union {n}
      BY <3>1, <3>2 DEF Names
    <3>4. \A x \in endpoints : x.name # n
      BY <3>1 DEF Names
    <3>5. NamedOnce'
      BY <3>1, <3>2, <3>4 DEF CatalogueInv, Registry, NamedOnce
    <3>6. MembersNamed' /\ TiersApart' /\ DOMAIN members' = Tiers
      BY <3>1, <3>3 DEF CatalogueInv, CatalogueTypeOK, Registry, MembersNamed, TiersApart
    <3> QED
      BY <3>5, <3>6 DEF Registry
  <2> QED
    BY <2>1, <2>2
<1>3. CatalogueTypeOK' /\ UnderWay'
  BY <1>1, <1>2 DEF CatalogueInv, CatalogueTypeOK, UnderWay
<1> QED
  BY <1>2, <1>3 DEF CatalogueInv

\* The rows a registration reads are entries.
LEMMA ReadKeeps ==
  ASSUME CatalogueInv, NEW minimum, NEW limit, ReadCatalogue(minimum, limit)
  PROVE  CatalogueInv'
<1>1. edits' \in 0 .. MaxEdits /\ UNCHANGED <<offers, catalogue, changes, calls, storing, configured>>
  BY CatalogueAssumption DEF ReadCatalogue, Edited, sync, rows, CatalogueInv, CatalogueTypeOK
<1>2. PICK o \in Offered(minimum, limit) :
        reading' = [i \in DOMAIN o |-> [entry |-> o[i], tier |-> catalogue[o[i]].tier]]
  BY DEF ReadCatalogue
<1>3. PICK S \in SUBSET Entries : o \in SetToSeqs(S)
  BY DEF Offered
<1>4. o \in [1 .. Cardinality(S) -> S]
  BY <1>3 DEF SetToSeqs
<1>5. DOMAIN reading' \subseteq Int /\ \A i \in DOMAIN reading' : reading'[i].entry \in Entries
  BY <1>2, <1>4
<1>6. CatalogueTypeOK' /\ UnderWay'
  BY <1>1, <1>5 DEF CatalogueInv, CatalogueTypeOK, UnderWay, configured
<1> QED
  BY <1>1, <1>6, RegistrySame DEF CatalogueInv

LEMMA AutoRegisterKeeps ==
  ASSUME CatalogueInv, AutoRegister
  PROVE  CatalogueInv'
<1>1. /\ Register(Added(Len(reading)), Added(Len(reading))) /\ reading' = None
      /\ UNCHANGED <<offers, catalogue, changes, calls, storing, edits>>
  BY DEF AutoRegister, rows, sync
<1>2. Registry' /\ DOMAIN members' = Tiers
  BY <1>1, RegisterKeeps DEF CatalogueInv, CatalogueTypeOK
<1>3. CatalogueTypeOK' /\ UnderWay'
  BY <1>1, <1>2 DEF CatalogueInv, CatalogueTypeOK, UnderWay
<1> QED
  BY <1>2, <1>3 DEF CatalogueInv

LEMMA StopKeeps ==
  ASSUME CatalogueInv, Stop
  PROVE  CatalogueInv'
<1>1. /\ edits' \in 0 .. MaxEdits /\ calls' = Quiet /\ DOMAIN storing' = {} /\ reading' = None
      /\ UNCHANGED <<offers, catalogue, changes>>
  BY CatalogueAssumption DEF Stop, Edited, rows, CatalogueInv, CatalogueTypeOK
<1>2. Registry' /\ DOMAIN members' = Tiers
  <2>1. CASE UNCHANGED configured
    BY <2>1, RegistrySame DEF CatalogueInv, CatalogueTypeOK, configured
  <2>2. CASE /\ reading # None
             /\ \E n \in DOMAIN reading : \E tiered \in {Added(n - 1), Added(n)} :
                  Register(Added(n), tiered)
    <3>1. PICK n \in DOMAIN reading : \E tiered \in {Added(n - 1), Added(n)} :
                 Register(Added(n), tiered)
      BY <2>2
    <3>2. n \in Int
      BY <2>2 DEF CatalogueInv, UnderWay
    <3>3. Added(n - 1) \subseteq Added(n)
      BY <3>2 DEF Added
    <3> QED
      BY <3>1, <3>3, RegisterKeeps DEF CatalogueInv, CatalogueTypeOK
  <2> QED
    BY <2>1, <2>2 DEF Stop
<1>3. calls' \in [Syncs -> [Providers -> {None, Asked} \union PartialAnswers]]
  BY <1>1 DEF Quiet
<1>4. CatalogueTypeOK' /\ UnderWay'
  BY <1>1, <1>2, <1>3 DEF CatalogueInv, CatalogueTypeOK, UnderWay
<1> QED
  BY <1>2, <1>4 DEF CatalogueInv

\* The rows, the answers and the configuration stay of their types and name
\* everything once, through every sync, registration, edit and stop.
THEOREM CatalogueInvariant == CatalogueSpec => []CatalogueInv
<1>1. ASSUME CatalogueInv, [CatalogueNext]_catalogueVars
      PROVE  CatalogueInv'
  <2>1. ASSUME NEW e \in Entries, Change(e) \/ StoreRow(e) \/ SkipRow(e) PROVE CatalogueInv'
    BY <1>1, <2>1, ProvidersKeep
  <2>2. ASSUME NEW e \in Entries,
               (\E t \in AllTiers : SetTier(e, t)) \/ (\E b \in BOOLEAN : SetEnabled(e, b))
        PROVE  CatalogueInv'
    BY <1>1, <2>2, EditsKeep
  <2>3. CASE SyncLoop
    <3>1. Sync("loop", Providers) /\ edits' \in 0 .. MaxEdits /\ "loop" \in Syncs
      BY <1>1, <2>3 DEF SyncLoop, Syncs, CatalogueInv, CatalogueTypeOK
    <3> QED
      BY <1>1, <3>1, SyncKeeps
  <2>4. ASSUME NEW asked, SyncNow(asked) PROVE CatalogueInv'
    <3>1. Sync("admin", asked) /\ edits' \in 0 .. MaxEdits /\ "admin" \in Syncs
      BY <1>1, <2>4, CatalogueAssumption DEF SyncNow, Edited, Syncs, CatalogueInv, CatalogueTypeOK
    <3> QED
      BY <1>1, <3>1, SyncKeeps
  <2>5. ASSUME NEW s \in Syncs, NEW p \in Providers, Respond(s, p) \/ FetchFails(s, p) \/ Store(s, p)
        PROVE  CatalogueInv'
    BY <1>1, <2>5, AnswersKeep
  <2>6. ASSUME NEW n, RemoveEndpoint(n) \/ AddEndpoint(n) PROVE CatalogueInv'
    BY <1>1, <2>6, EndpointsKeep
  <2>7. ASSUME NEW minimum, NEW limit, ReadCatalogue(minimum, limit) PROVE CatalogueInv'
    BY <1>1, <2>7, ReadKeeps
  <2>8. CASE AutoRegister
    BY <1>1, <2>8, AutoRegisterKeeps
  <2>9. CASE Stop
    BY <1>1, <2>9, StopKeeps
  <2>10. CASE UNCHANGED catalogueVars
    <3>1. UNCHANGED configured
      BY <2>10 DEF catalogueVars, configured
    <3>2. CatalogueTypeOK' /\ UnderWay'
      BY <1>1, <2>10 DEF catalogueVars, CatalogueInv, CatalogueTypeOK, UnderWay
    <3> QED
      BY <1>1, <3>1, <3>2, RegistrySame DEF CatalogueInv
  <2> QED
    BY <1>1, <2>1, <2>2, <2>3, <2>4, <2>5, <2>6, <2>7, <2>8, <2>9, <2>10 DEF CatalogueNext
<1> QED
  BY <1>1, CatalogueInitInv, PTL DEF CatalogueSpec

\* The configuration that registrations leave names everything once, for any
\* models, providers, limits and administrators.
THEOREM RegisteredOnce == CatalogueSpec => []Unambiguous
<1>1. CatalogueInv => Unambiguous
  BY DEF CatalogueInv, Registry, NamedOnce, MembersNamed, TiersApart, Unambiguous
<1> QED
  BY <1>1, CatalogueInvariant, PTL
=============================================================================
