SPECIFICATION FairSpec
CONSTANTS
  w1 = w1
  w2 = w2
  Writers = {w1, w2}
  QueueCap = 1
  MaxSize = 1
  MaxWrites = 3
  MaxCrashes = 1
  Faults = {"crash", "writeErr", "syncErr", "openErr", "manifestErr"}
PROPERTY WriteReturns
CHECK_DEADLOCK FALSE
