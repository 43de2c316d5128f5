SPECIFICATION FairSpec
CONSTANTS
  c1 = c1
  c2 = c2
  c3 = c3
  Conns = {c1, c2, c3}
  MaxClients = 2
  Passwords = {"", "p"}
  NoPass = ""
  InitPass = "p"
  MaxCommands = 2
INVARIANTS TypeOK SlotsExact 
PROPERTIES  SlotFreed SignalStops
CHECK_DEADLOCK FALSE
