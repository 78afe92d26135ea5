\* A tier of one endpoint with a fallback in another tier: e1, then e2.
SPECIFICATION FairSpec
CONSTANTS
  e1 = e1
  e2 = e2
  Endpoints = {e1, e2}
  Requests = {r1, r2}
  Tier <- MCOne
  Fallback = e2
  NoEndpoint = none
  Limit <- MCLimit
  Config <- MCTwoProbes
  Blocked = {}
  Streams = {TRUE, FALSE}
  MaxGen = 1
  OpenDuration = 1
INVARIANTS PermitsConserved ProbesReport
PROPERTIES Answered
