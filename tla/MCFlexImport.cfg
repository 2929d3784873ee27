CONSTANTS
  MaxTrades = 2
  Queries = {q1}
  NoQuery = NoQuery
  Clients = {cron, api}
  Cron = cron
  maxAttempts = 2
  MaxFaults = 1
  MaxChanges = 1
SPECIFICATION FairSpec
INVARIANTS
  ImportTypeOK
  StoredMeansInInbox
  DatedUnlessOwed
PROPERTIES
  ImplementsInbox
  ReportedTradesArrive
CHECK_DEADLOCK FALSE
