SPECIFICATION Spec
CONSTANTS
  l1 = l1
  l2 = l2
  d1 = d1
  d2 = d2
  acc = acc
  free = free
  unlimited = unlimited
  NoDevice = NoDevice
  NoPacket = NoPacket
  Loop = {l1, l2}
  Device = {d1, d2}
  Account = {acc}
  AccountOf <- MCAccountOf
  Tier = {free, unlimited}
  BytesPerDay <- MCBytesPerDay
  EgressBytesPerDay <- MCEgressBytesPerDay
  Size = {1}
  Flow <- MCFlow
  StartTier <- MCStartTier
  MaxDay = 1
  MaxSent = 3
  MaxRestarts = 0
INVARIANT HardLimit
CHECK_DEADLOCK FALSE
