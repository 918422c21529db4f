SPECIFICATION FairSpec
CONSTANTS
  w1 = w1
  w2 = w2
  w3 = w3
  Workers = {w1, w2}
  Consoles = {1}
  Readings <- TwoReadings
  Alerts <- TwoAlerts
  MaxTaken = 3
  MaxPosts = 1
  MAX_MESSAGES = 1
  maxkeys = 2
  maxalerts = 2
  PageWords = 90
  PointerLow = 1000
  PointerHigh = 2000
INVARIANTS TypeOK CountsReadings AlertPerReading AtMostOneOwed
PROPERTIES AlertsAreABook WatcherReturns
CHECK_DEADLOCK FALSE
