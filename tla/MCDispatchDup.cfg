SPECIFICATION Spec
CONSTANTS
  Jobs = {j1}
  Workers = {w1, w2}
  MaxActive = 1
  MaxDefers = 1
  MaxDequeue = 2
  MaxCopies = 1
  Faults = {"crash", "duplicate", "startFails", "diesSilently", "stall", "pause", "apiFails", "configError", "lroFails"}
  NoWorker = NoWorker
  NoMsg = NoMsg
  NameNone = NameNone
SYMMETRY Symmetry
INVARIANTS NoDoubleStart QueuedIsCarried
CHECK_DEADLOCK FALSE
