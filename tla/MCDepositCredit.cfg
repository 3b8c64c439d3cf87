SPECIFICATION PoolSpec
CONSTANTS
  Faucets = {f1, f2}
  Users = {u1}
  Serials = {x1}
  Kinds = {"DEPOSIT", "WITHDRAW", "ZOROSWAP"}
  P = 29
  MaxAssetAmount = 28
  Amounts = {0, 4}
  PoolArgs = {}
  Endowment = 8
  U64 = 32
  U256 = 4096
  PriceScale = 1
  Prices = {1, 3}
  FeePrecision = 4
  SwapFee = 1
  BackstopFee = 1
  Psi <- DummyPsi
  InverseDiagonal <- DummyInverseDiagonal
  InverseHorizontal <- DummyInverseHorizontal
  MaxNotes = 5
PROPERTIES DepositCreditedAsReported
CHECK_DEADLOCK FALSE
