SPECIFICATION Spec
CONSTANTS
  x = x
  g = g
  x1 = x1
  x2 = x2
  g1 = g1
  r1 = r1
  r2 = r2
  NoConn = NoConn
  NoDevice = NoDevice
  Device = {x, g}
  Conn = {x1, x2, g1}
  Request = {r1, r2}
  Offers = {x}
  Switched = {x}
  Global = {g}
  DeviceOf <- MCDeviceOf
  Via <- MCVia
  HostOf <- MCHostOf
PROPERTY RevokedExitUnused
CHECK_DEADLOCK FALSE
