-------------------------- MODULE AbstractBreaker ---------------------------
(***************************************************************************)
(* What callers of a circuit breaker are promised: ONE breaker, with no    *)
(* copy in memory, no row in a database and no restart.  Its state moves   *)
(* only as src/gateway/circuit.py's docstring says it does.  CircuitBreaker*)
(* (two copies, lazily loaded, and a process that may die between any two  *)
(* steps) is shown to implement it.                                        *)
(***************************************************************************)
EXTENDS Integers

CONSTANTS
  Cooldown,     \* ticks an open breaker refuses every call
  Thresholds,   \* the failure thresholds in use
  Budgets       \* the numbers of half-open probes in use

VARIABLES
  phase,        \* "CLOSED", "OPEN" or "HALF_OPEN"
  streak,       \* consecutive failures
  since,        \* ticks since it opened, -1 while closed
  permits       \* probes still to be given out

abstractVars == <<phase, streak, since, permits>>

Closed ==
  phase = "CLOSED" /\ streak = 0 /\ since = -1 /\ permits = 0

Close ==
  phase' = "CLOSED" /\ streak' = 0 /\ since' = -1 /\ permits' = 0

\* A failure opens the breaker when the streak reaches a threshold...
Trip ==
  /\ \E t \in Thresholds : streak + 1 >= t
  /\ phase' = "OPEN" /\ streak' = streak + 1 /\ since' = 0 /\ permits' = 0

\* ... and is only counted when the breaker is closed and the streak short.
Count ==
  /\ phase = "CLOSED"
  /\ \E t \in Thresholds : streak + 1 < t
  /\ streak' = streak + 1
  /\ UNCHANGED <<phase, since, permits>>

\* Only an open breaker that has waited its cool-down out starts probing; the
\* caller that finds out may take the first probe.
HalfOpen ==
  /\ phase = "OPEN" /\ since = Cooldown
  /\ phase' = "HALF_OPEN"
  /\ \E n \in Budgets : permits' \in {n, n - 1}
  /\ UNCHANGED <<streak, since>>

Probe ==
  /\ phase = "HALF_OPEN" /\ permits > 0
  /\ permits' = permits - 1
  /\ UNCHANGED <<phase, streak, since>>

Wait ==
  /\ since \in 0 .. Cooldown - 1
  /\ since' = since + 1
  /\ UNCHANGED <<phase, streak, permits>>

AbstractNext == Close \/ Trip \/ Count \/ HalfOpen \/ Probe \/ Wait

AbstractSpec == Closed /\ [][AbstractNext]_abstractVars
=============================================================================
