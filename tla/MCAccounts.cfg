SPECIFICATION Spec
CONSTANTS
  Request = {r1, r2}
  Code = {k1}
  Account = {a1, a2}
  Device = {d1, d2, d3}
  MaxDevices = 1
  MaxTokens = 2
  NoAccount = NoAccount
  NoDevice = NoDevice
SYMMETRY Symmetry
INVARIANT TypeOK
INVARIANT RegisteredForGood
INVARIANT RevokedForGood
INVARIANT RotatedForGood
INVARIANT DeviceOverrun
