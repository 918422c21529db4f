SPECIFICATION FairSpec
CONSTANTS
  u1 = u1
  u2 = u2
  Users = {u1}
  Interval <- MCInterval
  MaxElapsed = 1
  NumAuthRequests = 4
  MaxSent <- Many
  ReadMax = 6
  QueuePos = 2
  MaxAuthServers = 0
  MaxLeftover = 0
CHECK_DEADLOCK FALSE
INVARIANTS CountMatches PopFindsRequest
PROPERTIES HeldSlotStable VideoQueueIsFifo OtherQueueIsFifo ReceiverDrains
