SPECIFICATION Spec
CONSTANTS
  Base = 4
  Default <- DefaultConfig
  Flags = {"port", "requirepass"}
  NoValue = 0
  KeyLengths = {2, 8}
INVARIANT LoggedIsReplayed
INVARIANT CutNeverInvents
INVARIANT RangeExact
INVARIANT GlobExact
INVARIANT PipelinedExact
INVARIANT PrefixWaits
 
INVARIANT CompactCrashSafe
 
CHECK_DEADLOCK FALSE
