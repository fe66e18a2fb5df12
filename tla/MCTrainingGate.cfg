SPECIFICATION FairSpec
CONSTANTS
  Jobs = {j1, j2}
  Trainings = {T1}
  Workers = {w1}
  Credits = 2
  DailyCap = 2
  FreeRetrains = 0
  MaxExecutions = 2
  MaxStarts = 2
  MaxMessages = 1
  None = None
  Faults = {"provisionFails", "trainFails", "generateFails", "probeFails", "stuck", "resend", "killed"}
INVARIANTS ParkedIsAwaited OneGeneration ReadyHasAdapter
PROPERTIES EveryJobEnds EveryRunEnds
CHECK_DEADLOCK FALSE
