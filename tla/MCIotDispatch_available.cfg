SPECIFICATION FairSpec
CONSTANTS
  c1 = c1
  c2 = c2
  s1 = s1
  Consoles = {c2}
  LowConsoles = {}
  Sensors = {s1}
  MaxSent <- One
  ReadMax = 3
  PipeSize = 4
  MAX_MESSAGES = 1
  queusize = 3
  nworkers = 2
PROPERTIES WrittenToAvailableWorker
CHECK_DEADLOCK FALSE
