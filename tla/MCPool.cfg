SPECIFICATION ViewSpec
CONSTANTS
  Faucets = {f1, f2}
  Users = {u1}
  Serials = {x1, x2}
  Kinds = {"DEPOSIT", "WITHDRAW", "ZOROSWAP", "POSITION"}
  P = 29
  MaxAssetAmount = 28
  Amounts = {0, 4}
  PoolArgs = {}
  Endowment = 8
  U64 = 32
  U256 = 4096
  PriceScale = 1
  Prices = {1, 2}
  FeePrecision = 4
  SwapFee = 1
  BackstopFee = 1
  Psi <- DummyPsi
  InverseDiagonal <- DummyInverseDiagonal
  InverseHorizontal <- DummyInverseHorizontal
  MaxNotes = 4
  NoPosition = NoPosition
INVARIANTS PoolTypeOK MirrorAgrees
PROPERTIES SharePriceNeverFalls WithdrawMinimumHonoured FailedMovesNothing RespawnAgrees
SYMMETRY Symmetry
CHECK_DEADLOCK FALSE
