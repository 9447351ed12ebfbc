SPECIFICATION MCSpec
CONSTANTS
  p1 = p1
  Procs = {p1, p2}
  Accounts = {a, b}
  Creds = {x, y}
  None = None
  Native = TRUE
  Posix = FALSE
  MaxCalls = 2
  MaxFaults = 1
  MaxKills = 0
SYMMETRY NameSymmetry
CHECK_DEADLOCK FALSE
PROPERTIES AnswersAreTrue KeepsThePromise
