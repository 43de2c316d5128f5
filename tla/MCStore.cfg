SPECIFICATION FairSpec
CONSTANTS
  k1 = k1
  k2 = k2
  c1 = c1
  Absent = Absent
  Never = Never
  Keys = {k1, k2}
  NumShards = 2
  ShardOf <- TwoShards
  Clients = {c1}
  Ops <- AllOps
  Passes = {"Keys", "Size", "FlushAll"}
  Strings <- OneValue
  Elements = {"a"}
  TTLs <- OneTick
  MaxLen = 1
  MaxTime = 1
  MaxInt = 0
INVARIANT TypeOK
INVARIANT NoEmptyCollections
INVARIANT ExpiredInvisible
INVARIANT KeysComplete
INVARIANT SizeComplete
INVARIANT FlushComplete
PROPERTY OnlyExpiredEvicted
 
PROPERTY ExpiredSwept
CHECK_DEADLOCK FALSE
