SPECIFICATION Spec
CONSTANTS
  k1 = k1
  k2 = k2
  c1 = c1
  Absent = Absent
  Never = Never
  Keys = {k1}
  NumShards = 1
  ShardOf <- OneShard
  Clients = {c1}
  Ops <- RaceOps
  Passes = {}
  Strings <- OneValue
  Elements = {"a"}
  TTLs <- OneTick
  MaxLen = 1
  MaxTime = 1
  MaxInt = 0
PROPERTY GetEvictsOnlyExpired
CHECK_DEADLOCK FALSE
