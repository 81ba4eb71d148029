SPECIFICATION FairSpec
CHECK_DEADLOCK FALSE
PROPERTIES
  EditsReachTheStore
  LeavingEnds
CONSTANTS
  t1 = t1
  u1 = u1
  u2 = u2
  NoId = NoId
  Nobody = Nobody
  Tabs = {t1}
  Users = {u1, u2}
  Ids = {c1, c2, c3, c4}
  Existing = {c1}
  Art = {a1}
  AdminTabs = {}
  Handlers = {"art"}
  PastDates = {FALSE}
  MaxTyped = 1
  MaxCalls = 2
  MaxMounts = 1
  MaxFaults = 1
  UserOf <- TwoUsers
