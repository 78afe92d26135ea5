--------------------------- MODULE MCReviewQueue ----------------------------
(* Small configurations of the review pipeline for TLC. *)
EXTENDS ReviewQueue

\* The last prompt is too long for the reviewer's context.
MCTruncated == {N}
=============================================================================
