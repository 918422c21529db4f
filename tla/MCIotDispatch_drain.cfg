SPECIFICATION FairSpec
CONSTANTS
  c1 = c1
  c2 = c2
  s1 = s1
  Consoles = {}
  LowConsoles = {c1}
  Sensors = {s1}
  MaxSent <- Commands
  ReadMax = 3
  PipeSize = 4
  MAX_MESSAGES = 1
  queusize = 2
  nworkers = 1
PROPERTIES HeldSlotStable QueueDrains
CHECK_DEADLOCK FALSE
