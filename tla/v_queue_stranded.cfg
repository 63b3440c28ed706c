SPECIFICATION FairSpec
CONSTANTS
  Requests = {a, b, c, d}
  w1 = w1  w2 = w2  w3 = w3  w4 = w4
  Workers <- AllWorkers
  FirstWorkers <- TwoWorkers
  MaxQueueSize = 1
  MayClose = FALSE
PROPERTIES
  QueuedCallIsPickedUp
CHECK_DEADLOCK FALSE
