--------------------------- MODULE MCUsageLedger ----------------------------
(* Small configurations of the usage ledger for TLC. *)
EXTENDS UsageLedger, TLC

CONSTANTS e1, e2

\* The tenant may use 4 tokens a day, 3 of them at e1; e2 has no limit of its own.
MCLimit == (Tenant :> 4) @@ (e1 :> 3) @@ (e2 :> 0)

MCSymmetry == Permutations(Requests)
=============================================================================
