SPECIFICATION Spec
CONSTANTS
  w1 = w1
  w2 = w2
  Writers = {w1, w2}
  QueueCap = 2
  MaxSize = 2
  MaxWrites = 4
  MaxCrashes = 1
  Faults = {"crash", "manifestErr"}
INVARIANT NoSilentLoss
CHECK_DEADLOCK FALSE
