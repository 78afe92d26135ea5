\* Two runs, two samples, two failed writes or crashes.
SPECIFICATION Spec
CONSTANTS
  Threshold = 1
  FineTunes = {TRUE, FALSE}
  NoFile = NoFile
  Torn = Torn
  Boot = Boot
  MaxRuns = 2
  MaxCurated = 2
  MaxIncidents = 2
INVARIANTS WatermarkTrained BootGated ServedAsTrained
PROPERTIES RollbackRestores
