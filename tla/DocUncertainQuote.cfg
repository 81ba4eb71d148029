CONSTANTS
  h1 = h1  h2 = h2  ann = ann  root = root  j1 = j1  j2 = j2
  v1 = v1  v2 = v2  b1 = b1  b2 = b2
  None = None
  Handlers = {h1}
  Users = {ann}
  SuperAdmins = {}
  JournalIDs = {j1, j2}
  Inputs = {v1, v2}
  Builds = {b1}
  NMarkets = 1
  Products = 1
  Deliveries = 0
  Uploads = 1
  MaxFaults = 1
  MaxDrops = 0
SPECIFICATION Spec
INVARIANTS UncertainQuoteNotRecreated
