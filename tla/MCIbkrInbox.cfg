CONSTANTS
  Trades = {t1}
  WithFees = {t1}
  Portfolios = {p1, p2}
  Dividends = {d1}
  NoPortfolio = NoPortfolio
  NoLink = NoLink
  OwnLink = OwnLink
  MaxEntries = 1
  MaxRounds = 2
  MaxRequests = 2
SPECIFICATION Spec
CONSTRAINT FewAtOnce
SYMMETRY PortfolioSymmetry
INVARIANTS
  TypeOK
  AllocationsAreOfOneDecision
  CountedOnce
  ReinvestmentsExist
PROPERTY
  KeepsDecisions
