------------------------------ MODULE MCTrainer ------------------------------
(* Small configurations of Trainer for TLC. *)
EXTENDS Trainer
=============================================================================
