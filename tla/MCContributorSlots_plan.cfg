SPECIFICATION MCSpec
CONSTANTS
  Human = {p1, p2}
  Bot = {b1}
  Upload = {c1, c2, c3}
  Limit = 1
  Grace = 0
  MaxTime = 1
  MaxFaults = 1
  MaxChurn = 2
SYMMETRY Symmetry
CHECK_DEADLOCK FALSE
INVARIANTS WithinLimit Covered RemovedHoldsNothing PlanFollows
PROPERTIES FullOrEnded
