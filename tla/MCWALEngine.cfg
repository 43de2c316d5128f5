SPECIFICATION Spec
CONSTANTS
  k1 = k1
  k2 = k2
  c1 = c1
  c2 = c2
  Absent = Absent
  Never = Never
  Keys = {k1, k2}
  Clients = {c1, c2}
  Loads <- RestartLoads
  Strings <- Values
  Elements = {"a", "b"}
  Faults = {"crash", "logErr"}
  MaxLen = 2
  MaxInt = 0
INVARIANT TypeOK
PROPERTY UnspoiledRestored
CONSTRAINT SomeUnspoiled
SYMMETRY Symmetry
CHECK_DEADLOCK FALSE
