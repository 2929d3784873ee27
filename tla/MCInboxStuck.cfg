CONSTANTS
  Trades = {t1}
  WithFees = {t1}
  Portfolios = {p1, p2}
  Dividends = {d1}
  NoPortfolio = NoPortfolio
  NoLink = NoLink
  OwnLink = OwnLink
  MaxEntries = 2
  MaxRounds = 1
  MaxRequests = 1
SPECIFICATION Spec
SYMMETRY PortfolioSymmetry
INVARIANT ProcessedCanBeUnallocated
