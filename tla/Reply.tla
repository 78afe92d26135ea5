------------------------------- MODULE Reply -------------------------------
(* What the ways of answering a chat request share: the request, how far it *)
(* is, how it ended and what it was settled at.                             *)
EXTENDS Integers, Sequences, FiniteSets, SequencesExt, FiniteSetsExt

CONSTANT None

VARIABLES
  req,       \* the request
  path,      \* "none", "swarm", "stream" or "whole"
  stage,     \* see Stages
  outcome,   \* None, "refused", "raised", "aborted", "failed", "lost" or "ok"
  charged    \* what was settled, or stays booked; None before

reply == <<req, path, stage, outcome, charged>>

Stages == {"idle", "reserving", "planning", "running", "synthesis",
           "opening", "streaming", "settling", "ended"}

End(how) == stage' = "settling" /\ outcome' = how /\ UNCHANGED <<req, path, charged>>
Go(s) == stage' = s /\ UNCHANGED <<req, path, outcome, charged>>
=============================================================================
