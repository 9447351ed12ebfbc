SPECIFICATION MCSpec
CONSTANTS
  Human = {h}
  Bot = {b}
  Device = {d}
  Credential = {c1, c2, c3}
  Session = {s1, s2, s3}
  r1 = r1
  Rotation = {r1, r2}
  Call = {q1, q2}
  Process = {p}
  None = None
  CredentialTtl = 2
  SessionTtl = 1
  RetryTtl = 1
  MaxTime = 2
SYMMETRY IdSymmetry
VIEW WithoutPromises
CHECK_DEADLOCK FALSE
INVARIANTS TypeOK NoFork EndedForGood OneFamilyPerDevice BotHoldsOneFamily NotLockedOut
PROPERTIES LogoutLeavesNothing
