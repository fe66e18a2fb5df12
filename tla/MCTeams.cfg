SPECIFICATION Spec
CONSTANTS
  Orgs = {o1}
  People = {p1, p2, p3}
  Emails = {e1, e2}
  Links = {l1, l2}
  Sessions = {s1, s2}
  Requests = {r1, r2}
  Jobs = {j1, j2}
  Seats = 2
  PerSeat = 1
  Own = 1
  Cost = 1
  None = None
SYMMETRY Symmetry
INVARIANTS SeatsAreEarned PoolsConserved 
CHECK_DEADLOCK FALSE
