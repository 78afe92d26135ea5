----------------------------- MODULE MCDispatch -----------------------------
(* Small configurations of Dispatch for TLC. *)
EXTENDS Dispatch

CONSTANTS e1, e2

MCOne == <<e1>>
MCTwo == <<e1, e2>>

MCLimit == [e \in Endpoints |-> 1]

\* Two failures open a breaker; the shipped default of one half-open probe.
MCDefault == [threshold |-> 2, probes |-> 1]

\* One failure opens a breaker; two probes, so that a request on the ladder
\* gets past the second allow().
MCTwoProbes == [threshold |-> 1, probes |-> 2]
=============================================================================
