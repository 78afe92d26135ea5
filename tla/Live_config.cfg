SPECIFICATION Spec
CONSTANTS
  Names = {e1, e2}
  Keys = {k}
  Tenants <- MCTenants
  Bases <- MCBases
  Absent = Absent
  Garbled = Garbled
  MaxChanges = 2
  MaxCrashes = 1
  Requests = {r1, r2}
  Limits <- MCLimits
  Quotas <- MCQuotas
  ColumnLimit = 1
  None = None
  MaxEdits = 2
  MaxWork = 2
CHECK_DEADLOCK FALSE
INVARIANTS EditsKept SlotsConserved RowsServed
PROPERTY PickedUp
