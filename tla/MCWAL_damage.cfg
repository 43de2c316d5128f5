SPECIFICATION Spec
CONSTANTS
  w1 = w1
  w2 = w2
  Writers = {w1, w2}
  QueueCap = 2
  MaxSize = 2
  MaxWrites = 3
  MaxCrashes = 2
  Faults = {"crash", "truncCrash", "tornTail", "writeErr", "syncErr", "openErr"}
INVARIANTS AckedOnDisk NoSilentLoss
SYMMETRY Symmetry
CHECK_DEADLOCK FALSE
