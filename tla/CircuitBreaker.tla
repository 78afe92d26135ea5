--------------------------- MODULE CircuitBreaker ---------------------------
(***************************************************************************)
(* The circuit breaker of one endpoint (src/gateway/circuit.py) with its   *)
(* row in the database (set_breaker_state / get_breaker_state in           *)
(* src/gateway/memory.py), the registry that loads it on first use, and    *)
(* the calls it has admitted.  Breakers of different endpoints share       *)
(* nothing, so one endpoint is enough; Dispatch composes several.          *)
(*                                                                         *)
(* The process may die between any two steps: memory and the calls in      *)
(* flight are lost, the row and the clock are not.                         *)
(*                                                                         *)
(* probing, stragglers, granted and spent are history: they follow the     *)
(* calls the breaker admitted, and no guard of the code reads them.        *)
(***************************************************************************)
EXTENDS BreakerRules

CONSTANTS
  Configs,      \* breaker configurations the endpoint is given over time
  MaxCalls,     \* bound: calls in flight
  MaxFailures   \* bound: consecutive failures counted

ASSUME ConfigsAssumption == Configs \subseteq BreakerConfigs
ASSUME BoundsAssumption == MaxCalls \in Nat /\ MaxFailures \in Nat

VARIABLES
  mem,          \* CircuitBreaker._state, meaningful while loaded
  loaded,       \* the registry holds the breaker
  db,           \* the row of the breakers table
  config,       \* CircuitBreaker.config
  stragglers,   \* calls in flight admitted outside this half-open episode
  probing,      \* calls in flight admitted as probes of this episode
  granted,      \* probes this episode started with
  spent         \* probes of this episode that ended and moved nothing

history == <<stragglers, probing, granted, spent>>
vars == <<mem, loaded, db, config, stragglers, probing, granted, spent>>

CallKinds == {"straggler", "probe"}

Phase == IF loaded THEN mem ELSE db

-----------------------------------------------------------------------------
Init ==
  /\ mem = ClosedBreaker /\ loaded = FALSE /\ db = ClosedBreaker
  /\ config \in Configs
  /\ stragglers = 0 /\ probing = 0 /\ granted = 0 /\ spent = 0

\* BreakerRegistry.get(name, c) for a breaker the registry does not hold:
\* the row is read, and written back if its open duration has passed.
Load(c) ==
  /\ ~loaded
  /\ loaded' = TRUE /\ config' = c
  /\ mem' = Loaded(db, c)
  /\ db' = IF CooledDown(db) THEN mem' ELSE db
  /\ granted' = IF CooledDown(db) THEN c.probes ELSE granted
  /\ UNCHANGED <<stragglers, probing, spent>>

\* BreakerRegistry.get(name, c) for a breaker it holds: c replaces the
\* configuration, whatever state the breaker is in.
Configure(c) ==
  /\ loaded /\ config # c
  /\ config' = c
  /\ UNCHANGED <<mem, loaded, db, history>>

\* allow() answers True and the caller sends its request.
Admit ==
  /\ loaded /\ Allows(mem, config)
  /\ stragglers + probing < MaxCalls
  /\ mem' = AfterAllow(mem, config)
  /\ db' = IF mem.state = "CLOSED" THEN db ELSE mem'
  /\ IF mem.state = "CLOSED"
       THEN stragglers' = stragglers + 1 /\ UNCHANGED <<probing, granted>>
       ELSE /\ probing' = probing + 1
            /\ granted' = IF mem.state = "OPEN" THEN config.probes ELSE granted
            /\ UNCHANGED stragglers
  /\ UNCHANGED <<loaded, config, spent>>

\* allow() answers False; with no probes configured it still half-opens.
Refuse ==
  /\ loaded /\ ~Allows(mem, config)
  /\ mem' = AfterAllow(mem, config)
  /\ db' = IF CooledDown(mem) THEN mem' ELSE db
  /\ granted' = IF CooledDown(mem) THEN config.probes ELSE granted
  /\ UNCHANGED <<loaded, config, stragglers, probing, spent>>

-----------------------------------------------------------------------------
(* The end of a call.  A verdict that moves the breaker ends the half-open *)
(* episode: its other probes in flight are stragglers from then on.        *)

\* Mutant: a call that has reported once reports again.
InFlightAgain(kind) == kind \in CallKinds

InFlight(kind) == IF kind = "probe" THEN probing > 0 ELSE stragglers > 0

EndEpisode ==
  /\ stragglers' = stragglers + probing - 1
  /\ probing' = 0 /\ granted' = 0 /\ spent' = 0

EndCall(kind) ==
  /\ IF kind = "probe"
       THEN probing' = probing - 1 /\ spent' = spent + 1 /\ UNCHANGED stragglers
       ELSE stragglers' = stragglers - 1 /\ UNCHANGED <<probing, spent>>
  /\ UNCHANGED granted

\* record_success() closes the breaker from any state.
Succeed(kind) ==
  /\ loaded /\ InFlight(kind)
  /\ mem' = ClosedBreaker /\ db' = ClosedBreaker
  /\ EndEpisode
  /\ UNCHANGED <<loaded, config>>

\* record_failure() opens it at the threshold, and counts below it.
Fail(kind) ==
  /\ loaded /\ InFlight(kind)
  /\ mem.failures < MaxFailures
  /\ mem' = AfterFailure(mem, config)
  /\ db' = RowAfterFailure(mem, config)
  /\ IF Trips(mem, config) THEN EndEpisode ELSE EndCall(kind)
  /\ UNCHANGED <<loaded, config>>

\* A call that never reports: a 4xx answer that is not retryable, a stream
\* whose reader went away, a second allow() that refused the same request.
EndSilently(kind) ==
  /\ InFlight(kind)
  /\ EndCall(kind)
  /\ UNCHANGED <<mem, loaded, db, config>>

-----------------------------------------------------------------------------
\* The process dies; the next one starts with an empty registry.
Restart ==
  /\ loaded
  /\ loaded' = FALSE /\ mem' = ClosedBreaker
  /\ stragglers' = 0 /\ probing' = 0 /\ spent' = spent + probing
  /\ UNCHANGED <<db, config, granted>>

Tick ==
  /\ db' = Aged(db)
  /\ mem' = IF loaded THEN Aged(mem) ELSE mem
  /\ <<mem, db>>' # <<mem, db>>
  /\ UNCHANGED <<loaded, config, history>>

Next ==
  \/ \E c \in Configs : Load(c)
  \/ \E c \in Configs : Configure(c)
  \/ Admit
  \/ Refuse
  \/ \E kind \in CallKinds : Succeed(kind)
  \/ \E kind \in CallKinds : Fail(kind)
  \/ \E kind \in CallKinds : EndSilently(kind)
  \/ Restart
  \/ Tick

Spec == Init /\ [][Next]_vars

(***************************************************************************)
(* Time passes.  Nothing is assumed of requests: the filters before the    *)
(* ladder may keep an open endpoint from ever being asked.                 *)
(***************************************************************************)
Fairness == WF_vars(Tick)

FairSpec == Spec /\ Fairness

-----------------------------------------------------------------------------
TypeOK ==
  /\ mem \in Breakers /\ db \in Breakers
  /\ loaded \in BOOLEAN
  /\ config \in Configs
  /\ stragglers \in Nat /\ probing \in Nat
  /\ granted \in Nat /\ spent \in Nat

\* The configured threshold never changes.  Raising it while the breaker is
\* open or half-open makes the row lose opened_at and the probes, so the
\* properties below hold under this condition.
SteadyThreshold == \A c, d \in Configs : c.threshold = d.threshold

\* The row always equals the copy in memory, so a crash after any step loses
\* nothing of the breaker: circuit.py writes the row in every method that
\* moves `_state`, and each write must name every field that matters.
RowMirrorsMemory == loaded => db = mem

Left(b) == IF b.probes > 0 THEN b.probes ELSE 0

\* Conservation of half-open probes, across crashes and late answers: every
\* probe allow() may give in a half-open episode is still to be given, in
\* flight, or ended without moving the breaker; none is given twice.
ProbesConserved ==
  Phase.state = "HALF_OPEN" => Left(Phase) + probing + spent = granted

\* Callers see one breaker: the copy in memory when there is one, the row
\* otherwise; the load, the crash and the write of the row are not visible.
One == INSTANCE AbstractBreaker WITH
  Cooldown   <- OpenDuration,
  Thresholds <- {c.threshold : c \in Configs},
  Budgets    <- {c.probes : c \in Configs},
  phase      <- Phase.state,
  streak     <- Phase.failures,
  since      <- Phase.age,
  permits    <- Phase.probes

IsOneBreaker == One!AbstractSpec

\* An open breaker is due for a probe in the end, even if the process
\* restarts again and again and answers of calls admitted earlier open it
\* anew: the cool-down is counted from the opened_at that was written last.
\* That it is then asked depends on the candidate filters (see Dispatch).
CoolsDown ==
  Phase.state = "OPEN" ~> Phase.state # "OPEN" \/ CooledDown(Phase)

=============================================================================
