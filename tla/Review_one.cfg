\* One gateway process, or several that never touch the same decision at once.
SPECIFICATION FairSpec
CONSTANTS
  Processes = {p1}
  N = 2
  BatchSize = 2
  Truncated <- MCTruncated
  Fenced = FALSE
  MaxComplaints = 2
  MaxCrashes = 2
INVARIANTS CuratedOnce CorrectionsLearned NoneAbandoned
PROPERTIES Settled
