SPECIFICATION Spec
CONSTANTS
  Base = 4
  Default <- DefaultConfig
  Flags = {"port", "requirepass"}
  NoValue = 0
  KeyLengths = {8, 9}
INVARIANT WholeSegmentReplayed
CHECK_DEADLOCK FALSE
