SPECIFICATION Spec
CONSTANTS
  s1 = s1
  s2 = s2
  ana = ana
  nobody = nobody
  Alarm = Alarm
  noName = noName
  NoUser = NoUser
  u1 = u1
  u2 = u2
  c1 = c1
  c2 = c2
  sub1 = sub1
  sub2 = sub2
  h1 = h1
  h2 = h2
  bot = bot
CHECK_DEADLOCK FALSE
PROPERTIES EveryPlaceReturned OwnerReturns EveryEventProcessed OwnerIsTold
