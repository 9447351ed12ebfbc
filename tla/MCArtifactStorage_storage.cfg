SPECIFICATION MCSpec
CONSTANTS
  Shareable = {s1}
  Upload = {u1, u2, u3}
  Deleter = {d1}
  Path = {p, q}
  Entry = p
  None = None
  Quota = 3
  Retain = 1
  MaxRequest = 1
  QuotaGrace = 2
  ObjectGrace = 2
  LostReply = FALSE
  Offered = {"createPage", "createSite", "page", "append", "site"}
  Daily = {"quota", "orphans", "verify"}
  MaxTime = 3
  LastBegin = 2
  MaxCrashes = 1
SYMMETRY UploadSymmetry
CHECK_DEADLOCK FALSE
INVARIANTS TypeOK NoDangling CurrentPublished CounterSound NoFalseAlarm
PROPERTIES NoLostUpdate
