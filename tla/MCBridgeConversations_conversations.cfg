SPECIFICATION MCSpec
CONSTANTS
  ExternalId = {x, y}
  Call = {c1, c2, c3}
  Operation = {"publish", "revise"}
  ProjectLimit = 2
  People = {"archive", "open", "stop"}
  MaxRetries = 1
  MaxLost = 1
  None = None
SYMMETRY Symmetry
CHECK_DEADLOCK FALSE
INVARIANTS Confidential
PROPERTIES BindingStands
