SPECIFICATION Spec
CHECK_DEADLOCK FALSE
INVARIANTS
  TypedIsSaved
CONSTANTS
  t1 = t1
  u1 = u1
  u2 = u2
  NoId = NoId
  Nobody = Nobody
  Tabs = {t1}
  Users = {u1, u2}
  Ids = {c1}
  Existing = {}
  Art = {}
  AdminTabs = {}
  Handlers = {}
  PastDates = {FALSE}
  MaxTyped = 2
  MaxCalls = 2
  MaxMounts = 1
  MaxFaults = 0
  UserOf <- TwoUsers
