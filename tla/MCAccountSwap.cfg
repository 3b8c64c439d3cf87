SPECIFICATION Spec
CONSTANTS
  Faucets = {f1, f2}
  Users = {u1}
  Serials = {x1, x2}
  Kinds = {"DEPOSIT", "ZOROSWAP", "POSITION"}
  P = 5
  MaxAssetAmount = 4
  Amounts = {0, 1, 2}
  PoolArgs <- SwapPoolArgs
  Endowment = 2
SYMMETRY Symm
INVARIANTS Solvent AssetsConserved
PROPERTIES MinimumHonoured
CHECK_DEADLOCK FALSE
