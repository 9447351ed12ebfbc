SPECIFICATION MCSpec
CONSTANTS
  u1 = u1
  u2 = u2
  u3 = u3
  c1 = c1
  c2 = c2
  c3 = c3
  o1 = o1
  o2 = o2
  Users = {u1, u2, u3}
  Calls = {c1, c2, c3}
  Loader = c3
  Kinds = {"transfer", "grant", "revoke", "remove", "restore", "load", "signin", "integrate"}
  NoUser = NoUser
  Owner = u1
  MaxRemovals = 2
  Bot = Bot
  Stranger = Stranger
SYMMETRY NameSymmetry
CHECK_DEADLOCK FALSE
INVARIANTS HomeIsActive
PROPERTIES OwnerKept ChangesAnswerable DecidesWithAuthority
