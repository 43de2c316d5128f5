SPECIFICATION Spec
CONSTANTS
  k1 = k1
  k2 = k2
  c1 = c1
  c2 = c2
  Absent = Absent
  Never = Never
  Keys = {k1}
  Clients = {c1, c2}
  Loads <- OrderLoads
  Strings <- Values
  Elements = {"a"}
  Faults = {"crash"}
  MaxLen = 2
  MaxInt = 1
PROPERTY RestartRestores
SYMMETRY Symmetry
CHECK_DEADLOCK FALSE
