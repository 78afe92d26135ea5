\* One breaker whose threshold is never edited; probes are.
SPECIFICATION FairSpec
CONSTANTS
  OpenDuration = 3
  Configs <- MCSteady
  MaxCalls = 4
  MaxFailures = 4
INVARIANTS TypeOK RowMirrorsMemory ProbesConserved
PROPERTIES IsOneBreaker CoolsDown
