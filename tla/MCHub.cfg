SPECIFICATION Spec
CONSTANTS
  c1 = c1
  c2 = c2
  c3 = c3
  d1 = d1
  d2 = d2
  d3 = d3
  acc1 = acc1
  acc2 = acc2
  ip1 = ip1
  ip2 = ip2
  NoConn = NoConn
  NoDevice = NoDevice
  Conn = {c1, c2, c3}
  Device = {d1, d2, d3}
  Revocable = {d1}
  Account = {acc1, acc2}
  Addr = {ip1, ip2}
  AccountOf <- MCAccountOf
  AddrOf <- MCAddrOf
SYMMETRY Symmetry
INVARIANT TypeOK
INVARIANT Listed
INVARIANT NetworkIsolation
INVARIANT LeavesAnnounced
CHECK_DEADLOCK FALSE
