SPECIFICATION Spec
CONSTANTS
  d1 = d1
  d2 = d2
  d3 = d3
  d4 = d4
  n1 = n1
  n2 = n2
  NoDevice = NoDevice
  Network = {n1, n2}
  Device = {d1, d2, d3, d4}
  NetOf <- MCNetOf
  Broadcast = 3
  Probes = 65536
INVARIANT TypeOK
INVARIANT OneLease
INVARIANT HostsOnly
INVARIANT NoneLost
INVARIANT SettledWhileSaved
PROPERTY FileDurable
