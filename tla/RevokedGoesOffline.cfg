SPECIFICATION FairSpec
CONSTANTS
  c1 = c1
  c2 = c2
  c3 = c3
  d1 = d1
  d2 = d2
  d3 = d3
  acc1 = acc1
  acc2 = acc2
  ip1 = ip1
  ip2 = ip2
  NoConn = NoConn
  NoDevice = NoDevice
  Conn = {c1, c2}
  Device = {d1, d2}
  Revocable = {d1}
  Account = {acc1}
  Addr = {ip1, ip2}
  AccountOf <- MCAccountOf2
  AddrOf <- MCAddrOf2
PROPERTY RevokedGoesOffline
CHECK_DEADLOCK FALSE
