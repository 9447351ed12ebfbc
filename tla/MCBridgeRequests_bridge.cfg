SPECIFICATION MCSpec
CONSTANTS
  Key = {x, y}
  Call = {c1, c2, c3}
  Operation = {"publish", "version", "visibility"}
  Lease = 1
  MaxTime = 1
  MaxLost = 1
  None = None
SYMMETRY Symmetry
CHECK_DEADLOCK FALSE
INVARIANTS NothingHalfDone
PROPERTIES AtMostOnce
