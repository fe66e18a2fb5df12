SPECIFICATION FairSpec
CONSTANTS
  Workers = {w1}
  Reapers = {r1}
  MaxExecutions = 2
  MaxStarts = 2
  MaxMessages = 1
  Fundings = {"legacy"}
  Faults = {"provisionFails","killed","stall","noTelemetry","targetMissing","duplicate","verdictLost","cancel"}
PROPERTIES Terminates DebtIsPaid
CHECK_DEADLOCK FALSE
