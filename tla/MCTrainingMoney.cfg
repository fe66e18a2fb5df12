SPECIFICATION Spec
CONSTANTS
  Jobs = {j1}
  Trainings = {T1, T2}
  Workers = {w1}
  Credits = 1
  DailyCap = 2
  FreeRetrains = 0
  MaxExecutions = 2
  MaxStarts = 2
  MaxMessages = 1
  None = None
  Faults = {"replyLost", "dbFails", "badFiles", "poison", "provisionFails", "reset", "retention", "giveUp", "busy", "sweepFails", "noEvidence", "crash", "stuck"}
SYMMETRY Symmetry
INVARIANTS QueuedIsCarried CreditsConserved
PROPERTY FusedForGood
CHECK_DEADLOCK FALSE
