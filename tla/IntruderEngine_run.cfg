SPECIFICATION Spec
CONSTANTS
  MaxJobs = 8
  DefaultConcurrency = 1
  MaxConcurrency = 2
  Configs <- MCConfigs
CHECK_DEADLOCK FALSE
INVARIANTS
  TypeOK
  EverythingIsTried
  EveryJobIsAccounted
PROPERTIES
  ImplementsContract
