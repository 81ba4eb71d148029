SPECIFICATION WebSpec
CHECK_DEADLOCK FALSE
INVARIANTS
  NamedImagesAreListed
  FramesWithinTotal
  RecordsAreRows
  FilesOfImages
  CompletedHaveFiles
  StoredIsOwn
  ListIsTheTable
PROPERTIES
  UntickedIsGone
  NamesAreKept
  EditsAreKept
CONSTANTS
  ta = ta
  tb = tb
  m1 = m1
  m2 = m2
  w1 = w1
  w2 = w2
  i1 = i1
  Nobody = Nobody
  Gone = Gone
  Jobs = {i1}
  Workers = {w1, w2}
  Pages = 1
  MaxCrashes = 1
  MaxPauses = 1
  MaxErrors = 2
  MaxLost = 1
  Tenants = {ta, tb}
  Home = ta
  MarketOrder <- MCMarketOrder
  NoTenant = NoTenant
  NoMarket = NoMarket
  Leave = Leave
  Nothing = NoAction
  MaxEdits = 2
  MaxRefusals = 1
  MaxMoves = 2
  Owners = {ta, tb}
  First = ta
  MaxChanges = 2
  MaxFailures = 1
  MaxSwitches = 3
  NoRecord = NoRecord
  Images = {"a", "b"}
  Uploading = {"b"}
  Formats <- MCFormats
  Multi = {"QA0"}
  Eight = "sheet8"
  QA0 = "QA0"
  Assets = {"x"}
  Plans <- MCPlans
  Stored <- MCStored
  Material = "paper"
  Blobs = {"pages", "thumbnail"}
  None = None
  MaxRows = 3
  MaxClicks = 4
