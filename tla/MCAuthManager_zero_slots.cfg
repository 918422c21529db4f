SPECIFICATION FairSpec
CONSTANTS
  u1 = u1
  u2 = u2
  Users = {u1, u2}
  Interval <- MCInterval
  MaxElapsed = 1
  NumAuthRequests = 2
  MaxSent <- Few
  ReadMax = 6
  QueuePos = 0
  MaxAuthServers = 2
  MaxLeftover = 0
CHECK_DEADLOCK FALSE
PROPERTY RequestKillsManager
