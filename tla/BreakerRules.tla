---------------------------- MODULE BreakerRules ----------------------------
(***************************************************************************)
(* The rules of one circuit breaker (src/gateway/circuit.py) as operators  *)
(* on breaker records.  The same record type serves the in-memory dict     *)
(* `_state` of a CircuitBreaker and its row of the `breakers` table.       *)
(*                                                                         *)
(* `opened_at` is kept as an age: the time since the breaker opened, in    *)
(* ticks, saturating at OpenDuration (the code only ever compares it with  *)
(* open_duration_seconds).  NotOpened stands for a null opened_at.         *)
(*                                                                         *)
(* No operator here is recursive: the modules built on this one are proved *)
(* about.                                                                  *)
(***************************************************************************)
EXTENDS Integers

CONSTANT OpenDuration      \* open_duration_seconds, in ticks

ASSUME OpenDurationAssumption == OpenDuration \in Nat

-----------------------------------------------------------------------------
(* Records *)

States == {"CLOSED", "OPEN", "HALF_OPEN"}

NotOpened == -1

Ages == 0 .. OpenDuration \union {NotOpened}

\* half_open_probes_remaining can be -1: allow() stores max_probes - 1
\* even when half_open_max_probes is 0.
Breakers == [state : States, failures : Nat, age : Ages, probes : Int]

BreakerConfigs == [threshold : Nat, probes : Nat]

\* What get_breaker_state returns for an endpoint without a row, and what
\* record_success leaves behind.
ClosedBreaker ==
  [state |-> "CLOSED", failures |-> 0, age |-> NotOpened, probes |-> 0]

-----------------------------------------------------------------------------
(* Time *)

Older(age) == IF age \in 0 .. OpenDuration - 1 THEN age + 1 ELSE age

Aged(b) == [b EXCEPT !.age = Older(@)]

CooledDown(b) == b.state = "OPEN" /\ b.age = OpenDuration

-----------------------------------------------------------------------------
(* opened_at and the failure count survive the move to HALF_OPEN. *)

HalfOpened(b, n) ==
  [state |-> "HALF_OPEN", failures |-> b.failures, age |-> b.age, probes |-> n]

-----------------------------------------------------------------------------
(* _load_state: a row whose open duration has passed comes back HALF_OPEN  *)
(* with every probe still to be given.                                     *)

\* Mutant: _load_state half-opens an OPEN row without looking at opened_at.
LoadedTooEarly(row, c) ==
  IF row.state = "OPEN"
    THEN HalfOpened(row, c.probes)
    ELSE row

Loaded(row, c) ==
  IF CooledDown(row)
    THEN HalfOpened(row, c.probes)
    ELSE row

-----------------------------------------------------------------------------
(* allow(): its answer, and the state it leaves.  The call that half-opens *)
(* the breaker takes the first probe itself.                               *)

Allows(b, c) ==
  \/ b.state = "CLOSED"
  \/ CooledDown(b) /\ c.probes > 0
  \/ b.state = "HALF_OPEN" /\ b.probes > 0

\* Mutant: the call that half-opens the breaker does not take its probe.
AfterAllowUncounted(b, c) ==
  IF CooledDown(b)
    THEN HalfOpened(b, c.probes)
    ELSE IF b.state = "HALF_OPEN" /\ b.probes > 0
           THEN HalfOpened(b, b.probes - 1)
           ELSE b

AfterAllow(b, c) ==
  IF CooledDown(b)
    THEN HalfOpened(b, c.probes - 1)
    ELSE IF b.state = "HALF_OPEN" /\ b.probes > 0
           THEN HalfOpened(b, b.probes - 1)
           ELSE b

-----------------------------------------------------------------------------
(* record_success() and record_failure(): the state in memory and the row  *)
(* each one writes.  A failure below the threshold names neither opened_at *)
(* nor half_open_probes_remaining, so set_breaker_state stores their       *)
(* defaults (null and 0) in the row.                                       *)

Trips(b, c) == b.failures + 1 >= c.threshold

Opened(b) ==
  [state |-> "OPEN", failures |-> b.failures + 1, age |-> 0, probes |-> 0]

AfterFailure(b, c) ==
  IF Trips(b, c) THEN Opened(b) ELSE [b EXCEPT !.failures = @ + 1]

\* Mutant: the write of a trip leaves opened_at to its default.
RowWithoutOpenedAt(b, c) ==
  [state |-> IF Trips(b, c) THEN "OPEN" ELSE b.state,
   failures |-> b.failures + 1, age |-> NotOpened, probes |-> 0]

RowAfterFailure(b, c) ==
  IF Trips(b, c)
    THEN Opened(b)
    ELSE [state |-> b.state, failures |-> b.failures + 1,
          age |-> NotOpened, probes |-> 0]
=============================================================================
