SPECIFICATION Spec
CONSTANTS
  f1 = f1
  f2 = f2
  Pools <- TwoPools
  OracleId <- Hex
  Canaries = {"ETH", "BTC"}
  Liquid = {f1}
  MaxAge = 1
  NoPrice <- MinusOne
  MaxTime = 4
  MaxDrops = 1
  MaxGarbled = 1
INVARIANTS FreshPricesUsed
CHECK_DEADLOCK FALSE
