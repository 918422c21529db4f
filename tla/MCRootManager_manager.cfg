SPECIFICATION FairSpec
CONSTANTS
  u1 = u1
  u2 = u2
  b1 = b1
  Users = {u1, u2}
  BackOffices = {b1}
  numAuthRequests = 1
  Interval <- Seconds
  MaxElapsed = 0
  MaxSent <- FewMessages
  QUEUE_POS = 2
  ReadMax = 3
  PipeSize = 4
  MaxWords = 1
  MaxStarts = 2
INVARIANTS TypeOK QueuesFillOnce
PROPERTIES DeafForEver EndsWithItsClients ReadUntilEmpty BothQueuesTaken
CHECK_DEADLOCK FALSE
