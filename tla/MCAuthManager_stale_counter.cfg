SPECIFICATION FairSpec
CONSTANTS
  u1 = u1
  u2 = u2
  Users = {u1}
  Interval <- MCInterval
  MaxElapsed = 1
  NumAuthRequests = 2
  MaxSent <- Few
  ReadMax = 6
  QueuePos = 3
  MaxAuthServers = 1
  MaxLeftover = 1
CHECK_DEADLOCK FALSE
INVARIANT PopFindsRequest
