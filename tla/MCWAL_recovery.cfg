SPECIFICATION Spec
CONSTANTS
  w1 = w1
  w2 = w2
  Writers = {w1, w2}
  QueueCap = 2
  MaxSize = 2
  MaxWrites = 4
  MaxCrashes = 2
  Faults = {"crash", "syncErr", "openErr"}
INVARIANTS TypeOK AckedRecovered ReplayInOrder
PROPERTY DurableLogSpec
CHECK_DEADLOCK FALSE
