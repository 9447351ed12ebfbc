SPECIFICATION MCSpec
CONSTANTS
  f1 = f1
  f2 = f2
  r1 = r1
  h1 = h1
  h2 = h2
  bot = bot
  o1 = o1
  o2 = o2
  a1 = a1
  a2 = a2
  Files = {f1, f2, f3}
  Requests = {r1, r2}
  Editors = {}
  Kinds = {"dialog", "create"}
  Terms = {}
  Limit = 2
  Window = 2
  MaxTime = 4
  MaxPolicies = 0
SYMMETRY NameSymmetry
CHECK_DEADLOCK FALSE
INVARIANTS WithinLimit RecordIsHistory
PROPERTIES TermsKept GatesHold
