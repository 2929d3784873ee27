SPECIFICATION CacheSpec
CONSTANTS
  Portfolios = {p1, p2}
  NoPortfolio = NoPortfolio
  Loops = {}
  Hooks = {h1, h2}
  NoWorker = NoWorker
  NoAllocation = NoAllocation
  LastDate = 0
  MaxWrites = 4
  MaxNow = 0
  maxRegenRetries = 1
INVARIANTS
  CacheTypeOK
  
SYMMETRY Symmetry
CONSTRAINT FewFacts
CHECK_DEADLOCK FALSE
