CONSTANTS
  h1 = h1  h2 = h2  ann = ann  root = root  j1 = j1  j2 = j2
  v1 = v1  v2 = v2  b1 = b1  b2 = b2
  None = None
  Handlers = {h1}
  Users = {root}
  SuperAdmins = {root}
  JournalIDs = {j1}
  Inputs = {v1}
  Builds = {b1}
  NMarkets = 1
  Products = 2
  Deliveries = 1
  Uploads = 2
  MaxFaults = 2
  MaxDrops = 0
SPECIFICATION FairSpec
INVARIANTS TypeOK DuplicatesOnlyAfterTimeouts
PROPERTIES RequestsEnd
