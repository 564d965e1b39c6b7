SPECIFICATION LiveSpec
CONSTANTS
  Product = {4}
  Id = {1, 2, 3}
  Cost = {1, 2}
  MaxCount = 2
  PageLimit = 2
  Client = {c}
  Serial = TRUE
  None = None
  Gone = Gone
  Limit = 1
  Offer <- Offers
  Asked <- Trades
INVARIANT Safe
PROPERTIES
  SellsStock
  FairTrade
  CrossedIsTried
CHECK_DEADLOCK FALSE
