SPECIFICATION MCSpec
CONSTANTS
  ana = ana
  tab1 = tab1
  tab2 = tab2
  cy = cy
  bo = bo
  Nobody = Nobody
  Alarm = Alarm
  None = None
  Socket = {s1, s2}
  Presence = {ana, bo}
  UserOf <- Everyone
  RoomCap = 2
  UserCap = 2
  Deadlines = {2}
  Interval = 1
  MaxUpdates = 2
  MaxFaults = 1
SYMMETRY Symmetry
CHECK_DEADLOCK FALSE
INVARIANTS CapsHold ObligationsKept
