SPECIFICATION Spec
CONSTANTS
  Workers = {w1}
  Reapers = {r1}
  MaxExecutions = 2
  MaxStarts = 1
  MaxMessages = 1
  Fundings = {"legacy","one_time","monthly","organization"}
  Faults = {"provisionFails","targetMissing","badEvidence","lapse","replyLost","adminRetry","corruptHistory"}
INVARIANTS FailedIsSettled LedgerMatchesBalances
CHECK_DEADLOCK FALSE
