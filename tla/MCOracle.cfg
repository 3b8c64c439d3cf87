SPECIFICATION FairSpec
CONSTANTS
  f1 = f1
  f2 = f2
  Pools <- TwoPools
  OracleId <- Named
  Canaries = {"ETH", "BTC"}
  Liquid = {f1, f2}
  MaxAge = 1
  NoPrice <- MinusOne
  MaxTime = 3
  MaxDrops = 1
  MaxGarbled = 1
INVARIANTS TypeOK ToldNotAhead FreshPricesUsed
PROPERTIES PricesNeverGoBack FeedGoesOn
CHECK_DEADLOCK FALSE
