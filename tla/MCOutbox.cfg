SPECIFICATION FairSpec
CONSTANTS
  Rows = 3
  MaxAttempts = 2
  MaxBatch = 2
  Faults = {"queueDown","dbFails","senderDies"}
PROPERTIES DeliversAtLeastOnce EveryRowIsSent
CHECK_DEADLOCK FALSE
