SPECIFICATION Spec
CONSTANTS
  r1 = r1
  r2 = r2
  NoSlot = NoSlot
  Slot = {r1, r2}
  Config <- MCConfigBeside
INVARIANT OnlyAddedRemoved
CHECK_DEADLOCK FALSE
