SPECIFICATION FairSpec
CONSTANTS
  u1 = u1
  u2 = u2
  Users = {u1}
  Interval <- MCInterval
  MaxElapsed = 1
  NumAuthRequests = 2
  MaxSent <- Few
  ReadMax = 6
  QueuePos = 2
  MaxAuthServers = 2
  MaxLeftover = 1
INVARIANTS TypeOK ShmAccount OtherNeverTaken
PROPERTIES FrozenAfterHandOff FirstVideoHandedOver
CHECK_DEADLOCK FALSE
