SPECIFICATION FairSpec
CONSTANTS
  p1 = p1
  p2 = p2
  p3 = p3
  w1 = w1
  u1 = u1
  l1 = l1
  stack = stack
  e1 = e1
  NoPlayer = NoPlayer
  NoListing = NoListing
  NoRequest = NoRequest
  NoProfile = NoProfile
  Players = {p1, p2, p3}
  Worlds = {w1}
  Stacks = {stack}
  Listings = {l1}
  Editors = {e1}
  Prices = {1, 2}
  Modes = {"fixed", "auction"}
  SaleFees = {0, 1}
  ListingFee = 1
  PriceMin = 1
  PriceMax = 2
  MinRaise = 1
  RaisePercent = 5
  ListingsPerPlayer = 1
  MaxRevision = 1
  WorldOf <- OneWorld
  UniverseOf <- OneUniverse
  InitialCoins <- Purses
  InitialStacks <- FirstHasAll
INVARIANTS TypeOK AccountsBalance StackHasOnePlace
PROPERTIES TitlePassesBySale EndedListingSettles
CHECK_DEADLOCK FALSE
