SPECIFICATION MCFairSpec
CONSTANTS
  Shareable = {s1}
  Upload = {u1, u2}
  Deleter = {d1}
  Path = {p}
  Entry = p
  None = None
  Quota = 3
  Retain = 1
  MaxRequest = 1
  QuotaGrace = 2
  ObjectGrace = 2
  LostReply = FALSE
  Offered = {"createPage", "page"}
  Daily = {"quota", "orphans"}
  MaxTime = 5
  LastBegin = 1
  MaxCrashes = 1
CHECK_DEADLOCK FALSE
PROPERTIES Repaired LossReported
