SPECIFICATION FairSpec
CONSTANTS
  Sessions = {1, 2}
  Plans = {1, 2}
  Packs = {1}
  Rate = 1
  Trial = 0
  Cost = 2
  Adjustments = {1}
  MaxChanges = 1
  MaxBusy = 1
  MaxGift = 1
  None = None
  Faults = {"createFails", "crash"}
INVARIANT OneSubscription
PROPERTIES SplitKept AddOnsSurvive SoldOnce PaidIsGranted
CHECK_DEADLOCK FALSE
