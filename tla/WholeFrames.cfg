SPECIFICATION Spec
CONSTANTS
  a = a
  b = b
  NoConn = NoConn
  Conn = {a, b}
  Exit = {a}
  Cap = 1
INVARIANT WholeFrames
CHECK_DEADLOCK FALSE
