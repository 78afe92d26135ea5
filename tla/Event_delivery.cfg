\* Two tenants, a filtered and an unfiltered stream, one name of a hook.
SPECIFICATION FairSpec
CONSTANTS
  t1 = t1
  t2 = t2
  Tenants = {t1, t2}
  NoTenant = none
  All = all
  Origins = {t1, none}
  r1 = r1
  Readers = {r1}
  Filter <- MCFilter
  RingSize = 3
  ReplayLimit = 2
  MaxQueue = 1
  MaxEvents = 2
  Names = {h1}
  NoHook = noHook
  Retries <- MCRetries
  Shapes <- MCShapes
  Unset = unset
  DefaultRetries = 2
  Permits = 1
  MaxHooks = 2
INVARIANTS SeamOneSided NoCrossTenant AttemptsLogged
PROPERTIES Concluded
CHECK_DEADLOCK FALSE
