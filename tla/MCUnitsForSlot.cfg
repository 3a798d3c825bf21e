SPECIFICATION Spec
CONSTANTS
  Campaigns = {"c1", "c2"}
  Assets = {"dai", "tst"}
  MaxEarning = 1
  GlobalMin = 1
  MaxPrice = 3
  Channels <- SomeChannels
INVARIANTS TypeOK PricesInBounds
PROPERTIES OffersAreCurrent NoNewEarningsAtLimit
