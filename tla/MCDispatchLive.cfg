SPECIFICATION FairSpec
CONSTANTS
  Jobs = {j1}
  Workers = {w1, w2}
  MaxActive = 1
  MaxDefers = 1
  MaxDequeue = 2
  MaxCopies = 0
  Faults = {"crash", "replyLost", "lroFails", "startFails"}
  NoWorker = NoWorker
  NoMsg = NoMsg
  NameNone = NameNone
PROPERTIES QueueDrains JobLeavesQueue
CHECK_DEADLOCK FALSE
