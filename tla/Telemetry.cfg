SPECIFICATION Spec
CONSTANTS
  Workers = {w1, w2}
  Servers = {"none", "expvar", "prometheus"}
  Texts <- MCTexts
  Jsons <- MCJsons
  Metrics <- MCMetrics
  ExpVars <- MCExpVars
  WallTimes <- MCWallTimes
  Expiration = 0
  MaxTime = 2
  MaxCount = 1
  MaxScrapes = 2
  MaxFailures = 1
INVARIANTS
  IndexNamesOneRecord
  CounterIsMonotonic
PROPERTIES
  RecordIsComplete
  ExpiresOnlyIdle
  ScrapeReadsTheText
CHECK_DEADLOCK FALSE
