SPECIFICATION Spec
CONSTANTS
  w1 = w1
  w2 = w2
  w3 = w3
  Workers = {w1}
  Consoles = {1}
  Readings <- TwoReadings
  Alerts <- OneAlert
  MaxTaken = 3
  MaxPosts = 0
  MAX_MESSAGES = 1
  maxkeys = 2
  maxalerts = 2
  PageWords = 90
  PointerLow = 1000
  PointerHigh = 2000
INVARIANTS NoFalseAlert
CHECK_DEADLOCK FALSE
