SPECIFICATION Spec
CONSTANTS
  Workers = {w1}
  Reapers = {r1,r2}
  MaxExecutions = 2
  MaxStarts = 3
  MaxMessages = 1
  Fundings = {"legacy"}
  Faults = {"crash","startFails","apiFails","provisionFails","probeFails","killed","envLost","preflightOnly","targetMissing","giveUp","appFails"}
PROPERTIES PromiseKept
INVARIANTS RefundOnce BudgetKept OneLiveExecution RetriedNeverRan
SYMMETRY Symmetry
CHECK_DEADLOCK FALSE
