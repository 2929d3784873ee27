SPECIFICATION CacheSpec
CONSTANTS
  Portfolios = {p1}
  NoPortfolio = NoPortfolio
  Loops = {g1}
  Hooks = {h1}
  NoWorker = NoWorker
  NoAllocation = NoAllocation
  LastDate = 1
  MaxWrites = 2
  MaxNow = 1
  maxRegenRetries = 1
 
PROPERTY RefreshEndsStaleness
CONSTRAINT TwoFacts
CHECK_DEADLOCK FALSE
