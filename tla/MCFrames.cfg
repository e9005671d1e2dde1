SPECIFICATION FairSpec
CONSTANTS
  a = a
  b = b
  NoConn = NoConn
  Conn = {a, b}
  Exit = {a}
  Cap = 1
INVARIANT TypeOK
INVARIANT ClientFramesWhole
PROPERTY StallBounded
CHECK_DEADLOCK FALSE
