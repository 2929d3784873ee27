CONSTANTS
  p1 = p1
  p2 = p2
  f1 = f1
  f2 = f2
  Portfolios = {p1, p2}
  Funds = {f1, f2}
  Clients = {c1, c2}
  MaxPfs = 3
  MaxTxns = 3
  MaxDividends = 2
  Month = 1
  LastDay = 3
  Inputs <- AllInputs
SPECIFICATION Spec
SYMMETRY InterchangeableClients
INVARIANT DividendsAddUp
CHECK_DEADLOCK FALSE
