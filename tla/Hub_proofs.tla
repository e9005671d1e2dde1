---------------------------- MODULE Hub_proofs ----------------------------
(* Theorems about module Hub, for any sets of connections, devices,        *)
(* accounts and addresses.                                                 *)
EXTENDS Hub, TLAPS

(* A connection has no device before its hello was accepted, and has one   *)
(* while its handler can touch the tables.                                 *)
Known ==
  \A c \in Conn :
    /\ pc[c] = "idle" => dev[c] = NoDevice
    /\ pc[c] \in Live \cup {"authed", "leaving", "left", "failed"} => dev[c] # NoDevice

\* the inductive invariant
HubInv == TypeOK /\ Known /\ Listed /\ NetworkIsolation

-----------------------------------------------------------------------------

(* What the variables' types make of the operators on keys and tables.     *)
LEMMA KeyOfType ==
  ASSUME NEW d \in Device
  PROVE  /\ AccountOf[d] \in Account
         /\ AddrOf[d] \in Addr
         /\ KeyOf(d) \in Key
         /\ KeyOf(d)[1] = AccountOf[d]
         /\ KeyOf(d)[2] = AddrOf[d]
BY HubAssumption DEF KeyOf, Key

(* Two devices never share a key: the leases of a network are distinct.    *)
LEMMA KeyOfInjective ==
  ASSUME NEW d \in Device, NEW e \in Device, KeyOf(d) = KeyOf(e)
  PROVE  d = e
BY HubAssumption, KeyOfType DEF KeyOf

(* A broadcast reaches connections of its own network only.                *)
LEMMA MembersOfNetwork ==
  ASSUME TypeOK, Listed, NEW n \in Account, NEW a, NEW t \in Members(n, a)
  PROVE  t \in Conn /\ dev[t] # NoDevice /\ AccountOf[dev[t]] = n
<1>1. PICK b \in Addr : t = networks[n][b] /\ t # NoConn
  BY DEF Members
<1>2. <<n, b>> \in Key /\ <<n, b>>[1] = n /\ <<n, b>>[2] = b
  BY <1>1 DEF Key
<1>3. t = ipTable[<<n, b>>]
  BY <1>1, <1>2 DEF Listed
<1>4. t \in Conn /\ dev[t] # NoDevice /\ KeyOf(dev[t]) = <<n, b>>
  BY <1>1, <1>2, <1>3 DEF Listed, TypeOK
<1> QED
  BY <1>4, KeyOfType DEF KeyOf, TypeOK

-----------------------------------------------------------------------------
(* Type correctness.                                                       *)

(* A step keeps the types; the targets of a broadcast are connections      *)
(* because the tables hold connections.                                    *)
LEMMA TypeNext ==
  ASSUME TypeOK, Known, Listed, [Next]_vars
  PROVE  TypeOK'
<1> USE DEF TypeOK, Phase
<1>1. CASE UNCHANGED vars
  BY <1>1 DEF vars
<1>2. ASSUME NEW c \in Conn, NEW d \in Device, Authenticate(c, d)
      PROVE  TypeOK'
  BY <1>2 DEF Authenticate, Goto, admin, tables, client
<1>3. ASSUME NEW c \in Conn, Reject(c) \/ Welcome(c) \/ WelcomeFails(c) \/ AttachConn(c)
      PROVE  TypeOK'
  <2>1. CASE Reject(c)
    BY <2>1 DEF Reject, Goto, Close, admin, tables, client
  <2>2. CASE Welcome(c)
    BY <2>2 DEF Welcome, Goto, admin, tables, client
  <2>3. CASE WelcomeFails(c)
    BY <2>3 DEF WelcomeFails, Goto, Close, admin, tables, client
  <2>4. CASE AttachConn(c)
    BY <2>4 DEF AttachConn, Goto, admin, tables, client
  <2> QED
    BY <1>3, <2>1, <2>2, <2>3, <2>4
<1>4. ASSUME NEW c \in Conn, Register(c)
      PROVE  TypeOK'
  <2>1. dev[c] \in Device
    BY <1>4 DEF Register, Known
  <2>2. /\ KeyOf(dev[c]) \in Key
        /\ AccountOf[dev[c]] \in Account
        /\ AddrOf[dev[c]] \in Addr
    BY <2>1, KeyOfType
  <2> QED
    BY <1>4, <2>2 DEF Register, Goto, admin, tables, client
<1>5. ASSUME NEW c \in Conn, NotifyPeerJoined(c) \/ NotifyPeerLeft(c)
      PROVE  TypeOK'
  <2>1. AccountOf[dev[c]] \in Account
    BY <1>5, KeyOfType DEF NotifyPeerJoined, NotifyPeerLeft, Known, Live
  <2>2. Members(AccountOf[dev[c]], AddrOf[dev[c]]) \in SUBSET Conn
    BY <2>1, MembersOfNetwork
  <2>3. CASE NotifyPeerJoined(c)
    BY <2>3, <2>2 DEF NotifyPeerJoined, Goto, admin, tables, client
  <2>4. CASE NotifyPeerLeft(c)
    BY <2>4, <2>2 DEF NotifyPeerLeft, Goto, admin, tables, client
  <2> QED
    BY <1>5, <2>3, <2>4
<1>6. ASSUME NEW c \in Conn, NEW t \in Conn, WritePeerJoin(c, t) \/ WritePeerLeave(c, t)
      PROVE  TypeOK'
  <2>1. pc[c] \in {"joining", "left"}
    BY <1>6 DEF WritePeerJoin, WritePeerLeave
  <2>2. AddrOf[dev[c]] \in Addr
    BY <2>1, KeyOfType DEF Known, Live
  <2>3. PICK known \in SUBSET Addr : WriteTo(c, t, known)
    <3>1. /\ told[t] \cup {AddrOf[dev[c]]} \in SUBSET Addr
          /\ told[t] \ {AddrOf[dev[c]]} \in SUBSET Addr
      BY <2>2
    <3> QED
      BY <1>6, <3>1 DEF WritePeerJoin, WritePeerLeave
  <2>4. CASE sock[t] = "closed"
    BY <2>3, <2>4 DEF WriteTo, admin, tables, client
  <2>5. CASE sock[t] # "closed"
    <3>1. told' = [told EXCEPT ![t] = known]
      BY <2>3, <2>5 DEF WriteTo
    <3>2. first' = [first EXCEPT ![t] = IF @ = "none" THEN "other" ELSE @]
      BY <2>3, <2>5 DEF WriteTo
    <3> QED
      BY <2>3, <3>1, <3>2 DEF WriteTo, admin, tables
  <2> QED
    BY <2>4, <2>5
<1>7. ASSUME NEW c \in Conn, EnterDataLoop(c) \/ Finish(c) \/ ClientLeaves(c)
      PROVE  TypeOK'
  <2>1. CASE EnterDataLoop(c)
    BY <2>1 DEF EnterDataLoop, Goto, admin, tables, client
  <2>2. CASE Finish(c)
    BY <2>2 DEF Finish, Goto, Close, admin, tables, client
  <2>3. CASE ClientLeaves(c)
    BY <2>3 DEF ClientLeaves, admin, tables, client
  <2> QED
    BY <1>7, <2>1, <2>2, <2>3
<1>8. ASSUME NEW c \in Conn, NEW a \in Addr, RelayLookup(c, a)
      PROVE  TypeOK'
  <2>1. <<AccountOf[dev[c]], a>> \in Key
    BY <1>8, KeyOfType DEF RelayLookup, Known, Live, Key
  <2> QED
    BY <1>8, <2>1 DEF RelayLookup, admin, tables, client
<1>9. ASSUME NEW c \in Conn, RelayWrite(c)
      PROVE  TypeOK'
  BY <1>9 DEF RelayWrite, admin, tables, client
<1>10. ASSUME NEW c \in Conn, Unregister(c)
       PROVE  TypeOK'
  <2>1. dev[c] \in Device
    BY <1>10 DEF Unregister, Known, Live
  <2>2. /\ KeyOf(dev[c]) \in Key
        /\ AccountOf[dev[c]] \in Account
        /\ AddrOf[dev[c]] \in Addr
    BY <2>1, KeyOfType
  <2> QED
    BY <1>10, <2>2 DEF Unregister, Delisted, Dropped, Goto, admin, tables, client
<1>11. ASSUME NEW d \in Device, Revoke(d)
       PROVE  TypeOK'
  <2>1. CASE RemoveDevice(d)
    BY <2>1 DEF RemoveDevice, tables, client
  <2>2. CASE KickLookup(d)
    BY <2>2 DEF KickLookup, tables, client
  <2>3. CASE KickClose(d)
    BY <2>3 DEF KickClose, tables, client
  <2> QED
    BY <1>11, <2>1, <2>2, <2>3 DEF Revoke
<1> QED
  BY <1>1, <1>2, <1>3, <1>4, <1>5, <1>6, <1>7, <1>8, <1>9, <1>10, <1>11
  DEF Next, Handler, Environment

-----------------------------------------------------------------------------
(* How a step moves handlers and connections.                              *)

\* a handler stays on its side of Register and Unregister
Keeps(c) ==
  /\ dev[c] # NoDevice => dev'[c] = dev[c]
  /\ pc[c] \in Live \cup {"failed"} => pc'[c] \in Live \cup {"failed"}

(* Only Register and Unregister touch the tables; every other step leaves  *)
(* a handler that is listed where it may be listed, for the same device.   *)
LEMMA TablesStep ==
  ASSUME TypeOK, Known, [Next]_vars
  PROVE  \/ \E c \in Conn : Register(c) \/ Unregister(c)
         \/ UNCHANGED tables /\ \A c \in Conn : Keeps(c)
<1> USE DEF Keeps
<1>1. CASE UNCHANGED vars
  BY <1>1 DEF vars, tables
<1>2. ASSUME NEW c \in Conn, NEW d \in Device, Authenticate(c, d)
      PROVE  UNCHANGED tables /\ \A s \in Conn : Keeps(s)
  BY <1>2 DEF Authenticate, Goto, TypeOK, Known, Live, tables
<1>3. ASSUME NEW c \in Conn,
             \/ Reject(c) \/ Welcome(c) \/ WelcomeFails(c) \/ AttachConn(c)
             \/ NotifyPeerJoined(c) \/ EnterDataLoop(c) \/ NotifyPeerLeft(c) \/ Finish(c)
      PROVE  UNCHANGED tables /\ \A s \in Conn : Keeps(s)
  BY <1>3 DEF Reject, Welcome, WelcomeFails, AttachConn, NotifyPeerJoined,
              EnterDataLoop, NotifyPeerLeft, Finish, Goto, TypeOK, Live, tables
<1>4. ASSUME NEW c \in Conn, NEW t \in Conn, WritePeerJoin(c, t) \/ WritePeerLeave(c, t)
      PROVE  UNCHANGED tables /\ \A s \in Conn : Keeps(s)
  BY <1>4 DEF WritePeerJoin, WritePeerLeave, WriteTo, tables
<1>5. ASSUME NEW c \in Conn, RelayWrite(c) \/ ClientLeaves(c) \/ \E a \in Addr : RelayLookup(c, a)
      PROVE  UNCHANGED tables /\ \A s \in Conn : Keeps(s)
  BY <1>5 DEF RelayWrite, ClientLeaves, RelayLookup, tables
<1>6. ASSUME NEW d \in Device, Revoke(d)
      PROVE  UNCHANGED tables /\ \A s \in Conn : Keeps(s)
  BY <1>6 DEF Revoke, RemoveDevice, KickLookup, KickClose, tables
<1> QED
  BY <1>1, <1>2, <1>3, <1>4, <1>5, <1>6 DEF Next, Handler, Environment

(* A connection keeps the device it authenticated as, in every step.       *)
LEMMA DeviceKept ==
  ASSUME TypeOK, Known, [Next]_vars, NEW c \in Conn, dev[c] # NoDevice
  PROVE  dev'[c] = dev[c]
BY TablesStep DEF Keeps, Register, Unregister

(* Known is inductive.                                                     *)
LEMMA KnownNext ==
  ASSUME TypeOK, Known, [Next]_vars
  PROVE  Known'
<1> USE DEF Known, Live
<1>1. CASE UNCHANGED vars
  BY <1>1 DEF vars
<1>2. ASSUME NEW c \in Conn, NEW d \in Device, Authenticate(c, d)
      PROVE  Known'
  BY <1>2, HubAssumption DEF Authenticate, Goto, TypeOK
<1>3. ASSUME NEW c \in Conn,
             \/ Reject(c) \/ Register(c) \/ Welcome(c) \/ WelcomeFails(c) \/ AttachConn(c)
             \/ NotifyPeerJoined(c) \/ EnterDataLoop(c) \/ Unregister(c) \/ NotifyPeerLeft(c)
             \/ Finish(c)
      PROVE  Known'
  BY <1>3 DEF Reject, Register, Welcome, WelcomeFails, AttachConn, NotifyPeerJoined,
              EnterDataLoop, Unregister, NotifyPeerLeft, Finish, Goto, TypeOK
<1>4. ASSUME NEW c \in Conn, NEW t \in Conn, WritePeerJoin(c, t) \/ WritePeerLeave(c, t)
      PROVE  Known'
  BY <1>4 DEF WritePeerJoin, WritePeerLeave, WriteTo
<1>5. ASSUME NEW c \in Conn, RelayWrite(c) \/ ClientLeaves(c) \/ \E a \in Addr : RelayLookup(c, a)
      PROVE  Known'
  BY <1>5 DEF RelayWrite, ClientLeaves, RelayLookup
<1>6. ASSUME NEW d \in Device, Revoke(d)
      PROVE  Known'
  BY <1>6 DEF Revoke, RemoveDevice, KickLookup, KickClose
<1> QED
  BY <1>1, <1>2, <1>3, <1>4, <1>5, <1>6 DEF Next, Handler, Environment

-----------------------------------------------------------------------------
(* The directory.                                                          *)

(* Listed is preserved: an entry is stored by a Register whose connection  *)
(* is in no table yet, and taken away by its own handler alone.            *)
LEMMA ListedNext ==
  ASSUME TypeOK, Known, Listed, [Next]_vars
  PROVE  Listed'
<1>1. CASE UNCHANGED tables /\ \A c \in Conn : Keeps(c)
  BY <1>1 DEF Listed, Keeps, TypeOK, tables
<1>2. ASSUME NEW c \in Conn, Register(c)
      PROVE  Listed'
  <2> DEFINE d == dev[c]
  <2>1. /\ d \in Device /\ KeyOf(d) \in Key
        /\ KeyOf(d)[1] = AccountOf[d] /\ KeyOf(d)[2] = AddrOf[d]
        /\ AccountOf[d] \in Account /\ AddrOf[d] \in Addr
    BY <1>2, KeyOfType DEF Register, Known, TypeOK
  <2>2. /\ ipTable' = [ipTable EXCEPT ![KeyOf(d)] = c]
        /\ networks' = [networks EXCEPT ![AccountOf[d]][AddrOf[d]] = c]
        /\ pc' = [pc EXCEPT ![c] = "registered"]
        /\ dev' = dev
    BY <1>2 DEF Register, Goto
  <2> SUFFICES ASSUME NEW k \in Key
               PROVE  /\ networks'[k[1]][k[2]] = ipTable'[k]
                      /\ ipTable'[k] # NoConn =>
                           /\ dev'[ipTable'[k]] # NoDevice
                           /\ KeyOf(dev'[ipTable'[k]]) = k
                           /\ pc'[ipTable'[k]] \in Live \cup {"failed"}
    BY DEF Listed
  <2>3. CASE k = KeyOf(d)
    <3>1. ipTable'[k] = c /\ networks'[k[1]][k[2]] = c
      BY <2>1, <2>2, <2>3 DEF TypeOK
    <3> QED
      BY <3>1, <2>1, <2>2, <2>3, HubAssumption DEF TypeOK, Live
  <2>4. CASE k # KeyOf(d)
    <3>1. k[1] \in Account /\ k[2] \in Addr /\ k = <<k[1], k[2]>>
      BY DEF Key
    <3>2. k[1] # AccountOf[d] \/ k[2] # AddrOf[d]
      BY <3>1, <2>4 DEF KeyOf
    <3>3. ipTable'[k] = ipTable[k] /\ networks'[k[1]][k[2]] = networks[k[1]][k[2]]
      BY <2>1, <2>2, <2>4, <3>1, <3>2 DEF TypeOK
    <3>4. ipTable[k] # c
      BY <1>2, HubAssumption DEF Register, Listed, Live
    <3> QED
      BY <2>2, <3>3, <3>4 DEF Listed, TypeOK
  <2> QED
    BY <2>3, <2>4
<1>3. ASSUME NEW c \in Conn, Unregister(c)
      PROVE  Listed'
  <2> DEFINE d == dev[c]
  <2>1. /\ d \in Device /\ KeyOf(d) \in Key
        /\ KeyOf(d)[1] = AccountOf[d] /\ KeyOf(d)[2] = AddrOf[d]
        /\ AccountOf[d] \in Account /\ AddrOf[d] \in Addr
    BY <1>3, KeyOfType DEF Unregister, Known, Live, TypeOK
  <2>2. ipTable[KeyOf(d)] = networks[AccountOf[d]][AddrOf[d]]
    BY <2>1 DEF Listed
  <2>3. /\ pc' = [pc EXCEPT ![c] = "leaving"]
        /\ dev' = dev
        /\ ipTable' = Delisted(c)
        /\ networks' = Dropped(c)
    BY <1>3 DEF Unregister, Goto
  <2> SUFFICES ASSUME NEW k \in Key
               PROVE  /\ networks'[k[1]][k[2]] = ipTable'[k]
                      /\ ipTable'[k] # NoConn =>
                           /\ dev'[ipTable'[k]] # NoDevice
                           /\ KeyOf(dev'[ipTable'[k]]) = k
                           /\ pc'[ipTable'[k]] \in Live \cup {"failed"}
    BY DEF Listed
  <2>4. k[1] \in Account /\ k[2] \in Addr /\ k = <<k[1], k[2]>>
    BY DEF Key
  <2>5. /\ networks[k[1]][k[2]] = ipTable[k]
        /\ ipTable[k] # NoConn =>
             /\ dev[ipTable[k]] # NoDevice
             /\ KeyOf(dev[ipTable[k]]) = k
             /\ pc[ipTable[k]] \in Live \cup {"failed"}
    BY DEF Listed
  <2>6. CASE ipTable[KeyOf(d)] = c
    <3>1. /\ ipTable' = [ipTable EXCEPT ![KeyOf(d)] = NoConn]
          /\ networks' = [networks EXCEPT ![AccountOf[d]][AddrOf[d]] = NoConn]
      BY <2>2, <2>3, <2>6 DEF Delisted, Dropped
    <3>2. CASE k = KeyOf(d)
      BY <2>1, <3>1, <3>2 DEF TypeOK
    <3>3. CASE k # KeyOf(d)
      <4>1. k[1] # AccountOf[d] \/ k[2] # AddrOf[d]
        BY <2>4, <3>3 DEF KeyOf
      <4>2. ipTable'[k] = ipTable[k] /\ networks'[k[1]][k[2]] = networks[k[1]][k[2]]
        BY <2>1, <2>4, <3>1, <3>3, <4>1 DEF TypeOK
      <4>3. ipTable[k] # c
        BY <2>5, <3>3, HubAssumption
      <4> QED
        BY <2>3, <2>5, <4>2, <4>3 DEF TypeOK
    <3> QED
      BY <3>2, <3>3
  <2>7. CASE ipTable[KeyOf(d)] # c
    <3>1. ipTable' = ipTable /\ networks' = networks
      BY <2>2, <2>3, <2>7 DEF Delisted, Dropped
    <3>2. ipTable[k] # c
      BY <2>5, <2>7, HubAssumption
    <3> QED
      BY <2>3, <2>5, <3>1, <3>2 DEF TypeOK
  <2> QED
    BY <2>6, <2>7
<1> QED
  BY <1>1, <1>2, <1>3, TablesStep

(* Where the entry of a key can go in one step.                            *)
LEMMA OwnerStep ==
  ASSUME TypeOK, Known, Listed, [Next]_vars
  PROVE  OwnerChange
<1> SUFFICES ASSUME NEW k \in Key, ipTable[k] # NoConn, ipTable'[k] # ipTable[k]
             PROVE  \/ /\ ipTable'[k] = NoConn
                       /\ pc[ipTable[k]] = "data" /\ pc'[ipTable[k]] = "leaving"
                    \/ /\ ipTable'[k] # NoConn
                       /\ dev[ipTable'[k]] = dev[ipTable[k]]
                       /\ pc[ipTable'[k]] = "authed"
  BY DEF OwnerChange
<1>1. CASE UNCHANGED tables
  BY <1>1 DEF tables
<1>2. ASSUME NEW c \in Conn, Register(c)
      PROVE  /\ ipTable'[k] # NoConn
             /\ dev[ipTable'[k]] = dev[ipTable[k]]
             /\ pc[ipTable'[k]] = "authed"
  <2>1. dev[c] \in Device
    BY <1>2 DEF Register, Known, TypeOK
  <2>2. k = KeyOf(dev[c]) /\ ipTable'[k] = c
    BY <1>2, <2>1 DEF Register, TypeOK
  <2>3. dev[ipTable[k]] \in Device /\ KeyOf(dev[ipTable[k]]) = k
    BY DEF Listed, TypeOK
  <2>4. dev[ipTable[k]] = dev[c]
    BY <2>1, <2>2, <2>3, KeyOfInjective
  <2> QED
    BY <1>2, <2>2, <2>4, HubAssumption DEF Register
<1>3. ASSUME NEW c \in Conn, Unregister(c)
      PROVE  /\ ipTable'[k] = NoConn
             /\ pc[ipTable[k]] = "data" /\ pc'[ipTable[k]] = "leaving"
  <2>1. ipTable[k] = c /\ ipTable'[k] = NoConn
    BY <1>3 DEF Unregister, Delisted, TypeOK
  <2> QED
    BY <1>3, <2>1 DEF Unregister, Goto, TypeOK
<1> QED
  BY <1>1, <1>2, <1>3, TablesStep

-----------------------------------------------------------------------------
(* Isolation of the networks.                                              *)

\* what NetworkIsolation says of one pair of connections
SameNetwork(c, t) ==
  /\ dev[c] # NoDevice /\ dev[t] # NoDevice
  /\ AccountOf[dev[c]] = AccountOf[dev[t]]

(* A step lets a connection write to another only when both belong to one  *)
(* network: because a broadcast collects its targets from its own network, *)
(* and Relay looks its destination up there.                               *)
LEMMA IsolationNext ==
  ASSUME TypeOK, Known, Listed, NetworkIsolation, [Next]_vars
  PROVE  NetworkIsolation'
<1> SUFFICES ASSUME NEW c \in Conn, NEW t \in Conn, t \in targets'[c] \/ t = carry'[c]
             PROVE  SameNetwork(c, t)
  BY DeviceKept DEF NetworkIsolation, SameNetwork
<1>1. ASSUME t \in targets[c] \/ t = carry[c]
      PROVE  SameNetwork(c, t)
  BY <1>1 DEF NetworkIsolation, SameNetwork
<1>2. CASE UNCHANGED <<targets, carry>>
  BY <1>1, <1>2
<1>3. ASSUME NEW s \in Conn, NotifyPeerJoined(s) \/ NotifyPeerLeft(s)
      PROVE  SameNetwork(c, t)
  <2>1. /\ targets' = [targets EXCEPT ![s] = Members(AccountOf[dev[s]], AddrOf[dev[s]])]
        /\ carry' = carry
        /\ dev[s] # NoDevice
    BY <1>3 DEF NotifyPeerJoined, NotifyPeerLeft, Known, Live
  <2>2. CASE s = c /\ t \in targets'[c]
    <3>1. dev[c] \in Device /\ AccountOf[dev[c]] \in Account
      BY <2>1, <2>2, KeyOfType DEF TypeOK
    <3>2. t \in Members(AccountOf[dev[c]], AddrOf[dev[c]])
      BY <2>1, <2>2 DEF TypeOK
    <3> QED
      BY <3>1, <3>2, MembersOfNetwork, HubAssumption DEF SameNetwork
  <2> QED
    BY <1>1, <2>1, <2>2 DEF TypeOK
<1>4. ASSUME NEW s \in Conn, NEW u \in Conn, WritePeerJoin(s, u) \/ WritePeerLeave(s, u)
      PROVE  SameNetwork(c, t)
  BY <1>1, <1>4 DEF WritePeerJoin, WritePeerLeave, WriteTo, TypeOK
<1>5. ASSUME NEW s \in Conn, NEW a \in Addr, RelayLookup(s, a)
      PROVE  SameNetwork(c, t)
  <2>1. CASE s = c /\ t = carry'[c]
    <3>1. dev[c] \in Device
      BY <1>5, <2>1 DEF RelayLookup, Known, Live, TypeOK
    <3>2. <<AccountOf[dev[c]], a>> \in Key
      BY <3>1, KeyOfType DEF Key
    <3>3. t = ipTable[<<AccountOf[dev[c]], a>>]
      BY <1>5, <2>1 DEF RelayLookup, TypeOK
    <3>4. dev[t] \in Device /\ KeyOf(dev[t]) = <<AccountOf[dev[c]], a>>
      BY <1>5, <2>1, <3>2, <3>3 DEF RelayLookup, Listed, TypeOK
    <3> QED
      BY <3>1, <3>4, HubAssumption DEF SameNetwork, KeyOf
  <2> QED
    BY <1>1, <1>5, <2>1 DEF RelayLookup, TypeOK
<1>6. ASSUME NEW s \in Conn, RelayWrite(s)
      PROVE  SameNetwork(c, t)
  BY <1>1, <1>6, HubAssumption DEF RelayWrite, TypeOK
<1>7. ASSUME NEW s \in Conn,
             \/ Reject(s) \/ Register(s) \/ Welcome(s) \/ WelcomeFails(s) \/ AttachConn(s)
             \/ EnterDataLoop(s) \/ Unregister(s) \/ Finish(s) \/ ClientLeaves(s)
             \/ \E d \in Device : Authenticate(s, d)
      PROVE  UNCHANGED <<targets, carry>>
  BY <1>7 DEF Reject, Register, Welcome, WelcomeFails, AttachConn, EnterDataLoop, Unregister,
              Finish, ClientLeaves, Authenticate
<1>8. ASSUME NEW d \in Device, Revoke(d)
      PROVE  UNCHANGED <<targets, carry>>
  BY <1>8 DEF Revoke, RemoveDevice, KickLookup, KickClose
<1>9. CASE UNCHANGED vars
  BY <1>2, <1>9 DEF vars
<1> QED
  BY <1>2, <1>3, <1>4, <1>5, <1>6, <1>7, <1>8, <1>9 DEF Next, Handler, Environment

-----------------------------------------------------------------------------
(* Hub implements Presence.                                                *)

(* Where the handlers that had their chance come from.                     *)
LEMMA SpentStep ==
  ASSUME TypeOK, [Next]_vars
  PROVE  \/ \E c \in Conn : Register(c) \/ Unregister(c) \/ Reject(c)
         \/ \A c \in Conn : pc'[c] \in {"idle", "authed"} <=> pc[c] \in {"idle", "authed"}
<1>1. CASE UNCHANGED vars
  BY <1>1 DEF vars
<1>2. ASSUME NEW c \in Conn,
             \/ \E d \in Device : Authenticate(c, d)
             \/ Welcome(c) \/ WelcomeFails(c) \/ AttachConn(c)
             \/ NotifyPeerJoined(c) \/ EnterDataLoop(c) \/ NotifyPeerLeft(c) \/ Finish(c)
      PROVE  \A s \in Conn : pc'[s] \in {"idle", "authed"} <=> pc[s] \in {"idle", "authed"}
  BY <1>2 DEF Authenticate, Welcome, WelcomeFails, AttachConn, NotifyPeerJoined,
              EnterDataLoop, NotifyPeerLeft, Finish, Goto, TypeOK
<1>3. ASSUME NEW c \in Conn, NEW t \in Conn, WritePeerJoin(c, t) \/ WritePeerLeave(c, t)
      PROVE  pc' = pc
  BY <1>3 DEF WritePeerJoin, WritePeerLeave, WriteTo
<1>4. ASSUME NEW c \in Conn, RelayWrite(c) \/ ClientLeaves(c) \/ \E a \in Addr : RelayLookup(c, a)
      PROVE  pc' = pc
  BY <1>4 DEF RelayWrite, ClientLeaves, RelayLookup
<1>5. ASSUME NEW d \in Device, Revoke(d)
      PROVE  pc' = pc
  BY <1>5 DEF Revoke, RemoveDevice, KickLookup, KickClose
<1> QED
  BY <1>1, <1>2, <1>3, <1>4, <1>5 DEF Next, Handler, Environment

(* Every step of Hub is a step of Presence, or leaves the directory alone. *)
LEMMA PresenceStep ==
  ASSUME TypeOK, Known, Listed, [Next]_vars
  PROVE  [Directory!Next]_<<[d \in Device |-> ipTable[KeyOf(d)]],
                            {c \in Conn : pc[c] \notin {"idle", "authed"}}>>
<1> DEFINE current == [d \in Device |-> ipTable[KeyOf(d)]]
           spent == {c \in Conn : pc[c] \notin {"idle", "authed"}}
<1>1. ASSUME NEW c \in Conn, Register(c)
      PROVE  \E d \in Device : Directory!Enter(d, c)
  <2>1. dev[c] \in Device /\ KeyOf(dev[c]) \in Key
    BY <1>1, KeyOfType DEF Register, Known, TypeOK
  <2>2. c \notin spent /\ spent' = spent \cup {c}
    BY <1>1 DEF Register, Goto, TypeOK
  <2>3. ipTable' = [ipTable EXCEPT ![KeyOf(dev[c])] = c]
    BY <1>1 DEF Register
  <2>4. ASSUME NEW e \in Device
        PROVE  ipTable'[KeyOf(e)] = IF e = dev[c] THEN c ELSE ipTable[KeyOf(e)]
    BY <2>1, <2>3, KeyOfType, KeyOfInjective DEF TypeOK
  <2>5. current' = [current EXCEPT ![dev[c]] = c]
    BY <2>1, <2>4
  <2> QED
    BY <2>1, <2>2, <2>5 DEF Directory!Enter
<1>2. ASSUME NEW c \in Conn, Unregister(c)
      PROVE  (\E d \in Device : Directory!Leave(d)) \/ UNCHANGED <<current, spent>>
  <2>1. dev[c] \in Device /\ KeyOf(dev[c]) \in Key
    BY <1>2, KeyOfType DEF Unregister, Known, Live, TypeOK
  <2>2. spent' = spent
    BY <1>2 DEF Unregister, Goto, TypeOK
  <2>3. CASE ipTable[KeyOf(dev[c])] = c
    <3>1. ipTable' = [ipTable EXCEPT ![KeyOf(dev[c])] = NoConn]
      BY <1>2, <2>3 DEF Unregister, Delisted
    <3>2. ASSUME NEW e \in Device
          PROVE  ipTable'[KeyOf(e)] = IF e = dev[c] THEN NoConn ELSE ipTable[KeyOf(e)]
      BY <2>1, <3>1, KeyOfType, KeyOfInjective DEF TypeOK
    <3>3. current' = [current EXCEPT ![dev[c]] = NoConn]
      BY <2>1, <3>2
    <3> QED
      BY <2>1, <2>2, <2>3, <3>3, HubAssumption DEF Directory!Leave
  <2>4. CASE ipTable[KeyOf(dev[c])] # c
    BY <1>2, <2>2, <2>4 DEF Unregister, Delisted
  <2> QED
    BY <2>3, <2>4
<1>3. ASSUME NEW c \in Conn, Reject(c)
      PROVE  Directory!Refuse(c)
  BY <1>3 DEF Reject, Goto, tables, TypeOK, Directory!Refuse
<1>4. CASE /\ UNCHANGED tables
           /\ \A c \in Conn : pc'[c] \in {"idle", "authed"} <=> pc[c] \in {"idle", "authed"}
  BY <1>4 DEF tables
<1> QED
  BY <1>1, <1>2, <1>3, <1>4, TablesStep, SpentStep DEF Directory!Next

-----------------------------------------------------------------------------
(* What the clients have been told.                                        *)

\* a handler never announces its device to a connection of its own address
Apart == \A c, t \in Conn : t \in targets[c] => AddrOf[dev[t]] # AddrOf[dev[c]]

(* The handler of `s` serves its device, or has still to tell `c` that the *)
(* device left.                                                            *)
Speaks(s, c) ==
  \/ pc[s] \in Live \cup {"failed", "leaving"}
  \/ pc[s] = "left" /\ c \in targets[s]

\* some handler of the address accounts for its place in the client's list
Backed(c, a) ==
  \E s \in Conn : /\ dev[s] # NoDevice
                  /\ KeyOf(dev[s]) = <<AccountOf[dev[c]], a>>
                  /\ Speaks(s, c)

\* the connection is listed, and its client still gets what is written to it
Reached(c) ==
  /\ dev[c] # NoDevice
  /\ ipTable[KeyOf(dev[c])] = c
  /\ sock[c] # "closed"

Supported ==
  \A c \in Conn : Reached(c) =>
    \A a \in told[c] : a # AddrOf[dev[c]] /\ Backed(c, a)

LEMMA MembersApart ==
  ASSUME TypeOK, Listed, NEW n \in Account, NEW a, NEW t \in Members(n, a)
  PROVE  AddrOf[dev[t]] # a
<1>1. PICK b \in Addr : t = networks[n][b] /\ t # NoConn /\ b # a
  BY DEF Members
<1>2. <<n, b>> \in Key /\ <<n, b>>[1] = n /\ <<n, b>>[2] = b
  BY <1>1 DEF Key
<1>3. dev[t] \in Device /\ KeyOf(dev[t]) = <<n, b>>
  BY <1>1, <1>2 DEF Listed, TypeOK
<1> QED
  BY <1>1, <1>3, KeyOfType DEF KeyOf

(* Which steps change the targets, and how.                                *)
LEMMA TargetsStep ==
  ASSUME TypeOK, [Next]_vars
  PROVE  \/ \E s \in Conn :
              /\ NotifyPeerJoined(s) \/ NotifyPeerLeft(s)
              /\ targets' = [targets EXCEPT ![s] = Members(AccountOf[dev[s]], AddrOf[dev[s]])]
         \/ \E s, u \in Conn :
              /\ WritePeerJoin(s, u) \/ WritePeerLeave(s, u)
              /\ targets' = [targets EXCEPT ![s] = @ \ {u}]
         \/ targets' = targets
<1>1. ASSUME NEW s \in Conn,
             \/ Reject(s) \/ Register(s) \/ Welcome(s) \/ WelcomeFails(s) \/ AttachConn(s)
             \/ EnterDataLoop(s) \/ Unregister(s) \/ Finish(s) \/ ClientLeaves(s) \/ RelayWrite(s)
             \/ \E d \in Device : Authenticate(s, d)
             \/ \E a \in Addr : RelayLookup(s, a)
      PROVE  targets' = targets
  BY <1>1 DEF Reject, Register, Welcome, WelcomeFails, AttachConn, EnterDataLoop, Unregister,
              Finish, ClientLeaves, Authenticate, RelayWrite, RelayLookup
<1>2. ASSUME NEW d \in Device, Revoke(d)
      PROVE  targets' = targets
  BY <1>2 DEF Revoke, RemoveDevice, KickLookup, KickClose
<1>3. ASSUME NEW s \in Conn, NotifyPeerJoined(s) \/ NotifyPeerLeft(s)
      PROVE  targets' = [targets EXCEPT ![s] = Members(AccountOf[dev[s]], AddrOf[dev[s]])]
  BY <1>3 DEF NotifyPeerJoined, NotifyPeerLeft
<1>4. ASSUME NEW s \in Conn, NEW u \in Conn, WritePeerJoin(s, u) \/ WritePeerLeave(s, u)
      PROVE  targets' = [targets EXCEPT ![s] = @ \ {u}]
  BY <1>4 DEF WritePeerJoin, WritePeerLeave, WriteTo
<1>5. CASE UNCHANGED vars
  BY <1>5 DEF vars
<1> QED
  BY <1>1, <1>2, <1>3, <1>4, <1>5 DEF Next, Handler, Environment

LEMMA ApartNext ==
  ASSUME HubInv, Apart, [Next]_vars
  PROVE  Apart'
<1> USE DEF HubInv
<1> SUFFICES ASSUME NEW c \in Conn, NEW t \in Conn, t \in targets'[c]
             PROVE  AddrOf[dev'[t]] # AddrOf[dev'[c]]
  BY DEF Apart
<1>1. CASE t \in targets[c]
  BY <1>1, DeviceKept DEF Apart, NetworkIsolation
<1>2. ASSUME NotifyPeerJoined(c) \/ NotifyPeerLeft(c),
             t \in Members(AccountOf[dev[c]], AddrOf[dev[c]])
      PROVE  AddrOf[dev'[t]] # AddrOf[dev'[c]]
  <2>1. dev[c] \in Device
    BY <1>2 DEF NotifyPeerJoined, NotifyPeerLeft, Known, Live, TypeOK
  <2>2. AccountOf[dev[c]] \in Account
    BY <2>1, KeyOfType
  <2>3. AddrOf[dev[t]] # AddrOf[dev[c]] /\ dev[t] # NoDevice
    BY <1>2, <2>2, MembersApart, MembersOfNetwork
  <2> QED
    BY <2>1, <2>3, DeviceKept, HubAssumption
<1> QED
  BY <1>1, <1>2, TargetsStep DEF TypeOK

(* How a step moves a handler that has something to say to `c`: none       *)
(* passes in silence.                                                      *)
LEMMA SpeaksNext ==
  ASSUME HubInv, [Next]_vars, NEW s \in Conn, NEW c \in Conn, Speaks(s, c),
         Reached(c), dev[s] # NoDevice,
         AccountOf[dev[s]] = AccountOf[dev[c]], AddrOf[dev[s]] # AddrOf[dev[c]]
  PROVE  Speaks(s, c)' \/ WritePeerLeave(s, c)
<1> USE DEF HubInv
<1>1. CASE UNCHANGED vars
  BY <1>1 DEF vars, Speaks
<1>2. ASSUME NEW u \in Conn,
             \/ \E d \in Device : Authenticate(u, d)
             \/ Reject(u) \/ Register(u) \/ Welcome(u) \/ WelcomeFails(u) \/ AttachConn(u)
             \/ EnterDataLoop(u) \/ Unregister(u)
      PROVE  Speaks(s, c)'
  BY <1>2 DEF Speaks, Live, Authenticate, Reject, Register, Welcome, WelcomeFails, AttachConn,
              EnterDataLoop, Unregister, Goto, TypeOK
<1>3. ASSUME NEW u \in Conn, NotifyPeerJoined(u)
      PROVE  Speaks(s, c)'
  BY <1>3 DEF Speaks, Live, NotifyPeerJoined, Goto, TypeOK
<1>4. ASSUME NEW u \in Conn, NotifyPeerLeft(u)
      PROVE  Speaks(s, c)'
  <2>1. CASE u # s
    BY <1>4, <2>1 DEF Speaks, NotifyPeerLeft, Goto, TypeOK
  <2>2. CASE u = s
    <3>1. dev[c] \in Device /\ ipTable[KeyOf(dev[c])] = c
      BY DEF Reached, TypeOK
    <3>2. networks[AccountOf[dev[c]]][AddrOf[dev[c]]] = c /\ AddrOf[dev[c]] \in Addr
      BY <3>1, KeyOfType DEF Listed
    <3>3. c \in Members(AccountOf[dev[s]], AddrOf[dev[s]])
      BY <3>2, HubAssumption DEF Members
    <3>4. pc'[s] = "left" /\ c \in targets'[s]
      BY <1>4, <2>2, <3>3 DEF NotifyPeerLeft, Goto, TypeOK
    <3> QED
      BY <3>4 DEF Speaks
  <2> QED
    BY <2>1, <2>2
<1>5. ASSUME NEW u \in Conn, Finish(u)
      PROVE  Speaks(s, c)'
  BY <1>5 DEF Speaks, Live, Finish, Goto, TypeOK
<1>6. ASSUME NEW u \in Conn, NEW t \in Conn, WritePeerJoin(u, t) \/ WritePeerLeave(u, t)
      PROVE  Speaks(s, c)' \/ WritePeerLeave(s, c)
  <2>1. pc' = pc /\ targets' = [targets EXCEPT ![u] = @ \ {t}]
    BY <1>6 DEF WritePeerJoin, WritePeerLeave, WriteTo
  <2>2. CASE pc[s] = "left" /\ u = s /\ t = c
    BY <1>6, <2>2 DEF WritePeerJoin
  <2>3. CASE ~(pc[s] = "left" /\ u = s /\ t = c)
    BY <2>1, <2>3 DEF Speaks, Live, TypeOK
  <2> QED
    BY <2>2, <2>3
<1>7. ASSUME NEW u \in Conn, RelayWrite(u) \/ ClientLeaves(u) \/ \E a \in Addr : RelayLookup(u, a)
      PROVE  Speaks(s, c)'
  BY <1>7 DEF Speaks, RelayWrite, ClientLeaves, RelayLookup
<1>8. ASSUME NEW d \in Device, Revoke(d)
      PROVE  Speaks(s, c)'
  BY <1>8 DEF Speaks, Revoke, RemoveDevice, KickLookup, KickClose
<1> QED
  BY <1>1, <1>2, <1>3, <1>4, <1>5, <1>6, <1>7, <1>8 DEF Next, Handler, Environment

(* A closed connection stays closed, and a client learns of an address by  *)
(* its own Register and by the PEER_JOIN of the address' handler alone.    *)
LEMMA ClientStep ==
  ASSUME TypeOK, [Next]_vars, NEW c \in Conn, sock'[c] # "closed"
  PROVE  /\ sock[c] # "closed"
         /\ \/ Register(c)
            \/ \E s \in Conn : WritePeerJoin(s, c) /\ told'[c] = told[c] \cup {AddrOf[dev[s]]}
            \/ told'[c] \subseteq told[c]
<1> DEFINE Learns ==
             \/ Register(c)
             \/ \E s \in Conn : WritePeerJoin(s, c) /\ told'[c] = told[c] \cup {AddrOf[dev[s]]}
             \/ told'[c] \subseteq told[c]
<1>1. CASE UNCHANGED vars
  BY <1>1 DEF vars
<1>2. ASSUME NEW u \in Conn,
             \/ \E d \in Device : Authenticate(u, d)
             \/ Reject(u) \/ Welcome(u) \/ WelcomeFails(u) \/ AttachConn(u)
             \/ NotifyPeerJoined(u) \/ EnterDataLoop(u) \/ Unregister(u) \/ NotifyPeerLeft(u)
             \/ Finish(u) \/ RelayWrite(u) \/ ClientLeaves(u)
             \/ \E a \in Addr : RelayLookup(u, a)
      PROVE  sock[c] # "closed" /\ told' = told
  BY <1>2 DEF Authenticate, Reject, Welcome, WelcomeFails, AttachConn, NotifyPeerJoined,
              EnterDataLoop, Unregister, NotifyPeerLeft, Finish, RelayWrite, ClientLeaves,
              RelayLookup, Close, client, TypeOK
<1>3. ASSUME NEW u \in Conn, Register(u)
      PROVE  sock[c] # "closed" /\ Learns
  BY <1>3, ZenonT(60) DEF Register, TypeOK
<1>4. ASSUME NEW u \in Conn, NEW t \in Conn, WritePeerJoin(u, t) \/ WritePeerLeave(u, t)
      PROVE  sock[c] # "closed" /\ Learns
  <2>1. sock' = sock
    BY <1>4 DEF WritePeerJoin, WritePeerLeave, WriteTo
  <2>2. CASE t = c /\ WritePeerJoin(u, t)
    <3>1. told'[c] = told[c] \cup {AddrOf[dev[u]]}
      BY <2>1, <2>2 DEF WritePeerJoin, WriteTo, TypeOK
    <3> QED
      BY <2>1, <2>2, <3>1
  <2>3. CASE t # c \/ WritePeerLeave(u, t)
    <3>1. told'[c] \subseteq told[c]
      BY <1>4, <2>1, <2>3 DEF WritePeerJoin, WritePeerLeave, WriteTo, client, TypeOK
    <3> QED
      BY <2>1, <3>1
  <2> QED
    BY <1>4, <2>2, <2>3
<1>5. ASSUME NEW d \in Device, Revoke(d)
      PROVE  sock[c] # "closed" /\ told' = told
  BY <1>5 DEF Revoke, RemoveDevice, KickLookup, KickClose, client, TypeOK
<1> QED
  BY <1>1, <1>2, <1>3, <1>4, <1>5 DEF Next, Handler, Environment

(* A connection gets into the tables by its own Register.                  *)
LEMMA ReachedBefore ==
  ASSUME HubInv, TypeOK', [Next]_vars, NEW c \in Conn, Reached(c)', ~Register(c)
  PROVE  Reached(c) /\ dev'[c] = dev[c]
<1> USE DEF HubInv
<1>1. sock[c] # "closed"
  BY ClientStep DEF Reached
<1>2. dev'[c] \in Device /\ KeyOf(dev'[c]) \in Key /\ ipTable'[KeyOf(dev'[c])] = c
  BY KeyOfType DEF Reached, TypeOK
<1>3. ipTable[KeyOf(dev'[c])] = c
  <2>1. ASSUME NEW x \in Conn, Register(x)
        PROVE  ipTable[KeyOf(dev'[c])] = c
    <3>1. ipTable' = [ipTable EXCEPT ![KeyOf(dev[x])] = x] /\ x # c
      BY <2>1 DEF Register
    <3> QED
      BY <1>2, <3>1 DEF TypeOK
  <2>2. ASSUME NEW x \in Conn, Unregister(x)
        PROVE  ipTable[KeyOf(dev'[c])] = c
    BY <1>2, <2>2, HubAssumption DEF Unregister, Delisted, TypeOK
  <2> QED
    BY <1>2, <2>1, <2>2, TablesStep DEF tables
<1>4. dev[c] # NoDevice
  BY <1>2, <1>3, HubAssumption DEF Listed
<1> QED
  BY <1>1, <1>3, <1>4, DeviceKept DEF Reached

LEMMA SupportedNext ==
  ASSUME HubInv, TypeOK', Apart, Supported, [Next]_vars
  PROVE  Supported'
<1> USE DEF HubInv
<1> SUFFICES ASSUME NEW c \in Conn, Reached(c)', NEW a \in told'[c]
             PROVE  a # AddrOf[dev'[c]] /\ Backed(c, a)'
  BY DEF Supported
<1>1. CASE Register(c)
  <2>1. /\ dev[c] \in Device /\ dev' = dev /\ pc[c] = "authed"
        /\ \A s \in Conn : s # c => pc'[s] = pc[s]
    BY <1>1 DEF Register, Goto, Known, TypeOK
  <2> DEFINE n == AccountOf[dev[c]]
  <2>2. a \in Addr /\ a # AddrOf[dev[c]] /\ networks[n][a] # NoConn
    BY <1>1 DEF Register, TypeOK
  <2>3. <<n, a>> \in Key /\ <<n, a>>[1] = n /\ <<n, a>>[2] = a
    BY <2>1, <2>2, KeyOfType DEF Key
  <2>4. PICK s \in Conn : /\ dev[s] # NoDevice /\ KeyOf(dev[s]) = <<n, a>>
                          /\ pc[s] \in Live \cup {"failed"}
    <3>1. ipTable[<<n, a>>] \in Conn
      BY <2>2, <2>3 DEF Listed, TypeOK
    <3> QED
      BY <2>3, <3>1, HubAssumption DEF Listed
  <2>5. s # c
    BY <2>1, <2>4 DEF Live
  <2>6. Speaks(s, c)'
    BY <2>1, <2>4, <2>5 DEF Speaks
  <2> QED
    BY <2>1, <2>2, <2>4, <2>6 DEF Backed
<1>2. CASE ~Register(c)
  <2>1. Reached(c) /\ dev'[c] = dev[c] /\ dev[c] \in Device
    BY <1>2, ReachedBefore DEF Reached, TypeOK
  <2>2. ASSUME NEW s \in Conn, WritePeerJoin(s, c), a = AddrOf[dev[s]]
        PROVE  a # AddrOf[dev[c]] /\ Backed(c, a)'
    <3>1. c \in targets[s] /\ pc[s] = "joining" /\ dev' = dev /\ pc' = pc
      BY <2>2 DEF WritePeerJoin, WriteTo
    <3>2. dev[s] # NoDevice /\ AccountOf[dev[s]] = AccountOf[dev[c]] /\ a # AddrOf[dev[c]]
      BY <2>2, <3>1 DEF NetworkIsolation, Apart
    <3>3. Speaks(s, c)' /\ KeyOf(dev[s]) = <<AccountOf[dev[c]], a>>
      BY <2>2, <3>1, <3>2 DEF Speaks, Live, KeyOf
    <3> QED
      BY <3>1, <3>2, <3>3 DEF Backed
  <2>3. ASSUME a \in told[c]
        PROVE  a # AddrOf[dev[c]] /\ Backed(c, a)'
    <3>1. a # AddrOf[dev[c]] /\ Backed(c, a)
      BY <2>1, <2>3 DEF Supported
    <3>2. PICK s \in Conn : /\ dev[s] # NoDevice
                            /\ KeyOf(dev[s]) = <<AccountOf[dev[c]], a>>
                            /\ Speaks(s, c)
      BY <3>1 DEF Backed
    <3>3. AccountOf[dev[s]] = AccountOf[dev[c]] /\ AddrOf[dev[s]] = a
      BY <3>2 DEF KeyOf
    <3>4. dev'[s] = dev[s] /\ dev'[s] # NoDevice
      BY <3>2, DeviceKept
    <3>5. ~WritePeerLeave(s, c)
      <4>1. ASSUME WritePeerLeave(s, c)
            PROVE  a \notin told'[c]
        BY <2>1, <3>3, <4>1 DEF WritePeerLeave, WriteTo, Reached, TypeOK
      <4> QED
        BY <4>1
    <3>6. Speaks(s, c)'
      BY <2>1, <3>1, <3>2, <3>3, <3>5, SpeaksNext
    <3> QED
      BY <2>1, <3>1, <3>2, <3>4, <3>6 DEF Backed
  <2>4. sock'[c] # "closed"
    BY DEF Reached
  <2> QED
    BY <1>2, <2>1, <2>2, <2>3, <2>4, ClientStep
<1> QED
  BY <1>1, <1>2

-----------------------------------------------------------------------------
(* The theorems.                                                           *)

LEMMA HubInvInit ==
  ASSUME Init
  PROVE  HubInv
<1> USE HubAssumption DEF Init
<1>1. TypeOK
  BY DEF TypeOK, Phase
<1>2. Known
  BY DEF Known, Live
<1>3. Listed
  <2>1. \A k \in Key : k[1] \in Account /\ k[2] \in Addr
    BY DEF Key
  <2> QED
    BY <2>1 DEF Listed
<1>4. NetworkIsolation
  BY DEF NetworkIsolation
<1> QED
  BY <1>1, <1>2, <1>3, <1>4 DEF HubInv

(* The inductive invariant holds: types, Known, and the two properties     *)
(* below, each of which needs the others to be preserved.                  *)
THEOREM HubInvariant == Spec => []HubInv
<1>1. Init => HubInv
  BY HubInvInit
<1>2. HubInv /\ [Next]_vars => HubInv'
  BY TypeNext, KnownNext, ListedNext, IsolationNext DEF HubInv
<1> QED
  BY <1>1, <1>2, PTL DEF Spec

(* What the clients of listed connections were told is accounted for.      *)
THEOREM ToldInvariant == Spec => [](HubInv /\ Apart /\ Supported)
<1>1. Init => Apart /\ Supported
  BY DEF Init, Apart, Supported, Reached
<1>2. HubInv /\ HubInv' /\ Apart /\ Supported /\ [Next]_vars => Apart' /\ Supported'
  BY ApartNext, SupportedNext DEF HubInv
<1> QED
  BY <1>1, <1>2, HubInvariant, PTL DEF Spec

(* Every variable of the server's directory keeps its type.                *)
THEOREM TypeCorrect == Spec => []TypeOK
BY HubInvariant, PTL DEF HubInv

(* Relay's table and the broadcasts' table always agree, and each entry is *)
(* the node of a handler that has not yet unregistered, under its own key. *)
THEOREM ListedCorrect == Spec => []Listed
BY HubInvariant, PTL DEF HubInv

(* Accounts that share one address space never reach each other: neither   *)
(* a relayed packet nor a membership broadcast crosses networks.           *)
THEOREM Isolation == Spec => []NetworkIsolation
BY HubInvariant, PTL DEF HubInv

(* The deferred Unregister of a superseded handler never takes the newer   *)
(* connection of its device out of the tables.                             *)
THEOREM OnlyOwnerLeavesCorrect == Spec => OnlyOwnerLeaves
<1>1. HubInv /\ [Next]_vars => [OwnerChange]_vars
  BY OwnerStep DEF HubInv
<1> QED
  BY <1>1, HubInvariant, PTL DEF Spec, OnlyOwnerLeaves

(* The directory Hub keeps under its lock, with handlers that register,    *)
(* supersede each other, fail and unregister in any order, implements the  *)
(* directory of module Presence.                                           *)
THEOREM ImplementsPresenceCorrect == Spec => ImplementsPresence
<1>1. Init => Directory!Init
  BY KeyOfType DEF Init, Directory!Init
<1>2. HubInv /\ [Next]_vars =>
        [Directory!Next]_<<[d \in Device |-> ipTable[KeyOf(d)]],
                           {c \in Conn : pc[c] \notin {"idle", "authed"}}>>
  BY PresenceStep DEF HubInv
<1> QED
  BY <1>1, <1>2, HubInvariant, PTL DEF Spec, ImplementsPresence, Directory!Spec

(* Once no broadcast is under way, a current connection has been told the  *)
(* leave of every address it was told of whose every connection has ended. *)
THEOREM LeavesAnnouncedCorrect == Spec => []LeavesAnnounced
<1>1. HubInv /\ Supported => LeavesAnnounced
  <2> SUFFICES ASSUME HubInv, Supported, Quiet, NEW c \in Conn, Current(c), NEW a \in told[c]
               PROVE  \E s \in Conn : /\ pc[s] \in {"data", "failed"}
                                       /\ KeyOf(dev[s]) = <<AccountOf[dev[c]], a>>
    BY DEF LeavesAnnounced
  <2>1. Reached(c)
    BY DEF Current, Reached, HubInv, Known, Live
  <2>2. Backed(c, a)
    BY <2>1 DEF Supported
  <2> QED
    BY <2>2 DEF Backed, Speaks, Quiet, Live
<1> QED
  BY <1>1, ToldInvariant, PTL
=============================================================================
