SPECIFICATION Spec
CONSTANTS
  w1 = w1
  w2 = w2
  w3 = w3
  Workers = {w1, w2, w3}
  Consoles = {}
  Readings <- ThreeReadings
  Alerts = {}
  MaxTaken = 3
  MaxPosts = 0
  MAX_MESSAGES = 1
  maxkeys = 1
  maxalerts = 0
  PageWords = 50
  PointerLow = 1000
  PointerHigh = 2000
PROPERTIES ThreeSensorsFirst
CHECK_DEADLOCK FALSE
