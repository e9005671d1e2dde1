SPECIFICATION FairSpec
CONSTANTS
  r1 = r1
  r2 = r2
  NoSlot = NoSlot
  Slot = {r1, r2}
  Config <- MCConfigPlain
PROPERTY SignalStops
CHECK_DEADLOCK FALSE
