SPECIFICATION MCSpec
CONSTANTS
  Human = {h}
  Bot = {}
  Device = {d}
  Credential = {c1, c2}
  Session = {s1, s2}
  Rotation = {r1}
  Call = {q1}
  None = None
  CredentialTtl = 2
  SessionTtl = 2
  RetryTtl = 1
  MaxTime = 1
SYMMETRY IdSymmetry
CHECK_DEADLOCK FALSE
INVARIANTS RevokeAllEndsSessions
