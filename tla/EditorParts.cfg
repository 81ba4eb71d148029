SPECIFICATION PartsSpec
CHECK_DEADLOCK FALSE
INVARIANTS
  TypeOK
  OneCampaignPerEditor
  PersistedIsStored
PROPERTIES
  StoredEditsDroppedOnlyByRaces
  SubmittedFormStays
  UnsavedEditorsClosedOnPurpose
CONSTANTS
  t1 = t1
  t2 = t2
  u1 = u1
  u2 = u2
  NoId = NoId
  Nobody = Nobody
  Tabs = {t1, t2}
  Users = {u1, u2}
  Ids = {c1, c2}
  Existing = {c1}
  Art = {a1}
  AdminTabs = {t2}
  Handlers = {"submit", "po", "docs", "art"}
  PastDates = {TRUE, FALSE}
  MaxTyped = 2
  MaxCalls = 2
  MaxMounts = 2
  MaxFaults = 1
  UserOf <- TwoUsers
