\* Every database, and a tenant with or without a users row. The run stops
\* when every request has ended.
SPECIFICATION Spec
CONSTANTS
  e1 = e1
  e2 = e2
  Endpoints = {e1, e2}
  Requests = {r1, r2, r3}
  Tenant = tenant
  Limit <- MCLimit
  Estimates = {2}
  Actuals = {1, 3}
  MaxDay = 1
  MaxWait = 1
  Backends = {TRUE, FALSE}
SYMMETRY MCSymmetry
CHECK_DEADLOCK FALSE
INVARIANTS RowsAddUp QuotaHolds
