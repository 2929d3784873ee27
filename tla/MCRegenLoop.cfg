SPECIFICATION FairLoopSpec
CONSTANTS
  Portfolios = {p1, p2}
  NoPortfolio = NoPortfolio
  Loops = {g1, g2}
  LastDate = 3
  maxRegenRetries = 3
INVARIANTS
  LoopTypeOK
  OneLoopPerPortfolio
  EntryMeansLoop
  EntryIsEarliestAsked
PROPERTIES
  AttemptsGoBackInTime
  MeetsRequestContract
  EntriesDrain
