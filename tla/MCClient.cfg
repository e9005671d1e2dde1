SPECIFICATION FairSpec
CONSTANTS
  r1 = r1
  r2 = r2
  NoSlot = NoSlot
  Slot = {r1, r2}
  Config <- MCConfig
INVARIANT TypeOK
INVARIANT GivenBack
INVARIANT ForeignKept
INVARIANT OnlyReadersSurvive
INVARIANT StopsWithinOneRun
PROPERTY ClosedRunReturns
CHECK_DEADLOCK FALSE
