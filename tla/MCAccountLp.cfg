SPECIFICATION Spec
CONSTANTS
  Faucets = {f1}
  Users = {u1, u2}
  Serials = {x1}
  Kinds = {"DEPOSIT", "WITHDRAW"}
  P = 7
  MaxAssetAmount = 6
  Amounts = {0, 2, 5}
  PoolArgs <- LpPoolArgs
  Endowment = 5
SYMMETRY Symm
INVARIANTS TypeOK Solvent LpSupplyIsSumOfShares
PROPERTIES MinimumHonoured
CHECK_DEADLOCK FALSE
