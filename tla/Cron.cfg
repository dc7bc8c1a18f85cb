SPECIFICATION FairSpec
CONSTANTS
  shot = shot
  repeat = repeat
  Jobs = {shot, repeat}
  Kinds <- MCKinds
  At <- MCAt
  Period <- MCPeriod
  MaxTime = 3
  Horizon = 3
  MaxMishaps = 1
  MaxStops = 1
INVARIANTS
  CronInv
  DuesAreKept
PROPERTIES
  DueJobsRun
CHECK_DEADLOCK FALSE
