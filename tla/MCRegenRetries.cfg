SPECIFICATION LoopSpec
CONSTANTS
  Portfolios = {p1}
  NoPortfolio = NoPortfolio
  Loops = {g1}
  LastDate = 1
  maxRegenRetries = 3
PROPERTY GivesUpOnlyAfterMaxRetries
