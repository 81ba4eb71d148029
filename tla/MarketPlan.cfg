SPECIFICATION MCSpec
CHECK_DEADLOCK FALSE
INVARIANTS
  SummaryOfThePlan
  RowsOfEveryLine
  AddressesCurrent
  AssembledIsWhole
PROPERTIES
  SavingKeepsTheOthers
  FramesOfOneAsset
CONSTANTS
  sydney = sydney
  perth = perth
  a1 = a1
  a2 = a2
  a3 = a3
  home = home
  oldHome = oldHome
  Latest <- Renewed
  Typed = {oldHome}
  None = None
  Names = {sydney, perth}
  Catalogue <- TwoMarkets
  PerWeek <- Needs
  Divisor = 2
  Preferred <- Preference
  Addresses = {home, oldHome}
  LastId = 3
  Stored <- OldMarket
  StoredWeeks = 2
  MaxWeeks = 2
  Starts = {TRUE, FALSE}
  MaxAssets = 2
  MaxEdits = 3
  MaxStale = 1
  MaxFaults = 1
  c1 = c1
  c2 = c2
  Chunks = {1, 2}
  Clients = {c1, c2}
  Requests = {1, 2, 3}
  NoRequest = 0
  MaxBreaks = 1
  Attempts = 2
