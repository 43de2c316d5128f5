SPECIFICATION Spec
CONSTANTS
  k1 = k1
  k2 = k2
  c1 = c1
  c2 = c2
  Keys = {k1, k2}
  Clients = {c1, c2}
  Words <- SomeWords
  Requests <- TwoClients
  Contents <- SomeContents
  Faults = {"refuse"}
  MaxTime = 1
  MaxInt = 3
  Absent = Absent
  Never = Never
INVARIANT TypeOK
INVARIANT CountsOwnEffects
INVARIANT NegativeHarmless
INVARIANT RenameKeepsValue
INVARIANT TypeSteady
 
CHECK_DEADLOCK FALSE
