SPECIFICATION Spec
CONSTANTS
  Count = 2
  Budget = 3
  Retries = 1
  Bar = 1
  Scores = {0, 1}
  Gates = {TRUE, FALSE}
  Crops = {0, 1}
  None = None
  Requests = {r1, r2}
  Sizes = {2}
  Fee = 1
  MaxCredits = 1
  MaxBusy = 2
  Flaky = TRUE
SYMMETRY Symmetry
CONSTRAINT Apart
INVARIANTS StorageAgrees SparesThePaying MixedByRivalsOnly
PROPERTIES ShippedWell
CHECK_DEADLOCK FALSE
