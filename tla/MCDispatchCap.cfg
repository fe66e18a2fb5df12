SPECIFICATION Spec
CONSTANTS
  Jobs = {j1, j2}
  Workers = {w1, w2}
  MaxActive = 1
  MaxDefers = 1
  MaxDequeue = 2
  MaxCopies = 0
  Faults = {"startFails", "apiFails", "diesSilently", "configError"}
  NoWorker = NoWorker
  NoMsg = NoMsg
  NameNone = NameNone
SYMMETRY Symmetry
INVARIANTS GpuCap ReservationOutlivesLease
PROPERTY NeverFailsARunningJob
CHECK_DEADLOCK FALSE
