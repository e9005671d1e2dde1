---------------------------- MODULE Egress_proofs ----------------------------
(***************************************************************************)
(* That the store decides over the switch of an exit, that captured        *)
(* packets go to allowed exits only, and when a client's registry is what  *)
(* the hub knows: for any devices, connections and requests.               *)
(***************************************************************************)
EXTENDS Egress, TLAPS

(* Where the handler of a connection can stand: a client holds one that    *)
(* has not ended, the hub lists none that has not registered or was        *)
(* removed, and nobody writes to one that was not listed yet.              *)
Positions ==
  /\ \A d \in Device :
       /\ at[d] # NoConn =>
            pc[at[d]] \in {"hello", "registered", "welcomed", "joining", "data"}
       /\ d \in running => pc[at[d]] \in {"welcomed", "joining", "data"}
       /\ node[d] # NoConn =>
            /\ pc[node[d]] \notin {"idle", "hello", "removed"}
            /\ pc[node[d]] = "done" => targets[node[d]] = {}
  /\ \A k \in Conn :
       /\ targets[k] # {} => pc[k] = "data" \/ (pc[k] = "done" /\ say[k] = "absent")
       /\ \A t \in targets[k] : pc[t] \notin {"idle", "hello"}

(* Requests about a device that do not overlap carry what the store holds, *)
(* unless it could not be saved.                                           *)
Ordered ==
  \A d \in Device \ torn, r \in Request :
    request[r] # NoRequest /\ request[r].of = d =>
      /\ request[r].on = enabled[d]
      /\ \A s \in Request : request[s] # NoRequest /\ request[s].of = d => s = r

(* Whatever calls a device an exit, an administrator has allowed it.       *)
Authorised ==
  /\ \A d \in Device : enabled[d] => d \in allowed
  /\ \A r \in Request : request[r] # NoRequest /\ request[r].on => request[r].of \in allowed
  /\ \A c \in Conn :
       /\ flag[c] => DeviceOf[c] \in allowed
       /\ say[c] = "exit" => DeviceOf[c] \in allowed
       /\ \A x \in Device : welcome[c][x] = "exit" => x \in allowed
  /\ \A d \in Consumer, x \in Device : peers[d][x] = "exit" => x \in allowed
  /\ OnlyAllowedExits

-----------------------------------------------------------------------------

\* the client's connection is the one the hub knows: broadcasts reach it
Tracked(d) == at[d] # NoConn /\ node[d] = at[d]

\* what the registry will hold when the WELCOME that is due has come
Learns(d, y) ==
  IF pc[at[d]] = "registered" /\ welcome[at[d]][y] # "absent"
  THEN welcome[at[d]][y] ELSE peers[d][y]

\* what the hub knows of a device
View(y) == IF node[y] = NoConn THEN "absent" ELSE KindOf(flag[node[y]])

\* no superseded handler of the device has still something to say
Alone(y) ==
  IF node[y] # NoConn THEN Handlers(y) \subseteq {node[y]}
  ELSE \A k \in Handlers(y) : pc[k] \in {"removed", "done"}

(* The client has been told, or a broadcast that will tell it is due.      *)
Informed(d, y) ==
  IF node[y] = NoConn
  THEN \/ Learns(d, y) = "absent"
       \/ \E k \in Handlers(y) : pc[k] = "removed" \/ at[d] \in targets[k]
  ELSE /\ pc[node[y]] = "joining" => say[node[y]] = View(y)
       /\ pc[node[y]] \in {"data", "done"} =>
            IF at[d] \in targets[node[y]] THEN say[node[y]] = View(y)
            ELSE Learns(d, y) = View(y)

Follows(d, y) == Tracked(d) /\ y \notin doubt[d] => Alone(y) /\ Informed(d, y)

Views == \A d \in Consumer : \A y \in Device \ {d} : Follows(d, y)

IInv == TypeOK /\ Positions /\ Ordered /\ StoreDecides /\ Authorised /\ Views

-----------------------------------------------------------------------------
(* The operators of the model.                                             *)

LEMMA Kinds ==
  /\ \A b \in BOOLEAN : KindOf(b) \in {"plain", "exit"} /\ (KindOf(b) = "exit" <=> b)
  /\ {"plain", "exit"} \subseteq Kind /\ "absent" \in Kind
  /\ \A d \in Device : Granted(d) \in BOOLEAN \/ enabled[d] \notin BOOLEAN
  BY DEF KindOf, Kind, Granted

LEMMA OthersAre ==
  ASSUME TypeOK, NEW d \in Device
  PROVE  /\ Others(d) \subseteq Conn
         /\ \A t \in Others(d) : node[DeviceOf[t]] = t /\ DeviceOf[t] # d
         /\ \A x \in Device \ {d} : node[x] # NoConn => node[x] \in Others(d)
  BY DEF TypeOK, Others

(* Nothing of a connection that is not in use is left.                     *)
LEMMA UnusedIs ==
  ASSUME TypeOK, NEW c \in Conn, Unused(c)
  PROVE  /\ pc[c] \in {"idle", "done"} /\ targets[c] = {}
         /\ \A x \in Device : node[x] # c
         /\ \A k \in Conn : c \notin targets[k]
  BY EgressAssumption DEF TypeOK, Unused

LEMMA InitIInv == Init => IInv
  <1> SUFFICES ASSUME Init PROVE IInv
    OBVIOUS
  <1>1. Nobody \in [Device -> Kind] /\ NoPacket \in Hand
    BY DEF Nobody, Kind, NoPacket, Hand
  <1>2. TypeOK
    BY <1>1 DEF Init, TypeOK, Kind
  <1>3. Positions /\ Ordered /\ StoreDecides /\ Views
    BY EgressAssumption DEF Init, Positions, Ordered, StoreDecides, Views, Follows, Tracked,
                               Consumer
  <1>4. Authorised
    BY DEF Init, Authorised, OnlyAllowedExits, Nobody, NoPacket
  <1> QED
    BY <1>2, <1>3, <1>4 DEF IInv

-----------------------------------------------------------------------------
(* Types.                                                                  *)

\* what TypeOK says of a client's connection and of the listed node
Placed ==
  \A d \in Device :
    /\ node[d] # NoConn => DeviceOf[node[d]] = d
    /\ at[d] # NoConn => DeviceOf[at[d]] = d
    /\ d \in running => at[d] # NoConn /\ pc[at[d]] \notin {"idle", "hello"}

LEMMA TypesAdminister ==
  ASSUME TypeOK, NEW r \in Request, Administer(r)
  PROVE  TypeOK'
  <1>1. ASSUME NEW d \in Switched, NEW b \in BOOLEAN,
               SetDeviceEgress(r, d, b) \/ SetDeviceEgressFails(r, d, b)
        PROVE  TypeOK'
    <2>1. d \in Device /\ Switch(r, d, b)
      BY <1>1, EgressAssumption DEF SetDeviceEgress, SetDeviceEgressFails
    <2>2. enabled' \in [Device -> BOOLEAN] /\ allowed' \subseteq Device
      BY <2>1 DEF Switch, TypeOK
    <2>3. /\ torn' \subseteq Device
          /\ request' \in [Request -> [of : Device, on : BOOLEAN] \cup {NoRequest}]
      BY <1>1, <2>1 DEF SetDeviceEgress, SetDeviceEgressFails, TypeOK
    <2> QED
      BY <2>1, <2>2, <2>3 DEF Switch, TypeOK, hub, clients
  <1>2. ASSUME UpdateEgress(r) PROVE TypeOK'
    <2>1. request[r].of \in Device /\ request[r].on \in BOOLEAN
      BY <1>2 DEF UpdateEgress, TypeOK, NoRequest
    <2>2. request' \in [Request -> [of : Device, on : BOOLEAN] \cup {NoRequest}]
      BY <1>2 DEF UpdateEgress, TypeOK
    <2>3. flag' \in [Conn -> BOOLEAN]
      <3>1. flag' = flag \/ flag' = [flag EXCEPT ![node[request[r].of]] = request[r].on]
        BY <1>2 DEF UpdateEgress
      <3> QED
        BY <2>1, <3>1 DEF TypeOK
    <2>4. doubt' \in [Consumer -> SUBSET Device]
      <3>1. \/ doubt' = doubt
            \/ doubt' = [y \in Consumer |-> doubt[y] \cup {request[r].of}]
        BY <1>2 DEF UpdateEgress
      <3> QED
        BY <2>1, <3>1 DEF TypeOK
    <2> QED
      BY <1>2, <2>2, <2>3, <2>4 DEF UpdateEgress, TypeOK, clients
  <1> QED
    BY <1>1, <1>2 DEF Administer

LEMMA TypesConnections ==
  ASSUME TypeOK, NEW c \in Conn, NEW d \in Device, Connect(c) \/ Disconnect(d)
  PROVE  TypeOK'
  <1>1. DeviceOf[c] \in Device
    BY EgressAssumption
  <1>2. CASE Connect(c)
    <2>1. at' \in [Device -> Conn \cup {NoConn}] /\ at'[DeviceOf[c]] = c
      BY <1>1, <1>2 DEF Connect, TypeOK
    <2>2. pc' \in [Conn -> {"idle", "hello", "registered", "welcomed", "joining",
                            "data", "removed", "done"}]
      BY <1>2 DEF Connect, TypeOK
    <2>3. Placed'
      BY <1>1, <1>2, <2>1 DEF Connect, TypeOK, Placed
    <2> QED
      BY <1>2, <2>1, <2>2, <2>3 DEF Connect, TypeOK, Placed, admin
  <1>3. CASE Disconnect(d)
    <2>1. out' \in [Consumer -> Hand]
      <3>1. NoPacket \in Hand
        BY DEF NoPacket, Hand
      <3> QED
        BY <1>3, <3>1 DEF Disconnect, TypeOK
    <2>2. at' \in [Device -> Conn \cup {NoConn}] /\ running' \subseteq Device /\ Placed'
      BY <1>3 DEF Disconnect, Hangup, TypeOK, Placed, hub
    <2> QED
      BY <1>3, <2>1, <2>2 DEF Disconnect, TypeOK, Placed, admin, hub
  <1> QED
    BY <1>2, <1>3

(* What is told of a device is a kind; registries take what they are told. *)
LEMMA UpsertTypes ==
  ASSUME TypeOK, NEW d \in Device, NEW told \in [Device -> Kind], Upsert(d, told)
  PROVE  peers' \in [Consumer -> [Device -> Kind]]
  BY DEF TypeOK, Upsert

LEMMA ForgetTypes ==
  ASSUME TypeOK, NEW d \in Device, NEW y \in Device, Forget(d, y)
  PROVE  peers' \in [Consumer -> [Device -> Kind]]
  BY Kinds DEF TypeOK, Forget

LEMMA AnnounceTypes ==
  ASSUME TypeOK, NEW c \in Conn, NEW kind \in Kind, Announce(c, kind)
  PROVE  targets' \in [Conn -> SUBSET Conn] /\ say' \in [Conn -> Kind]
  <1>1. DeviceOf[c] \in Device /\ "absent" \in Kind
    BY EgressAssumption, Kinds
  <1> QED
    BY <1>1, OthersAre DEF TypeOK, Announce

LEMMA GotoTypes ==
  ASSUME TypeOK, NEW c \in Conn, NEW p \in {"registered", "welcomed", "joining", "data", "removed", "done"},
         Goto(c, p)
  PROVE  /\ pc' \in [Conn -> {"idle", "hello", "registered", "welcomed", "joining",
                              "data", "removed", "done"}]
         /\ pc'[c] = p
         /\ \A k \in Conn : k # c => pc'[k] = pc[k]
         /\ \A k \in Conn : pc[k] \notin {"idle", "hello"} => pc'[k] \notin {"idle", "hello"}
  BY DEF TypeOK, Goto

LEMMA TypesHandler ==
  ASSUME TypeOK, NEW c \in Conn, Handler(c)
  PROVE  TypeOK'
  <1>1. DeviceOf[c] \in Device /\ DeviceOf \in [Conn -> Device]
    BY EgressAssumption
  <1>2. Nobody \in [Device -> Kind]
    BY Kinds DEF Nobody
  <1>3. CASE Register(c)
    <2>1. flag' \in [Conn -> BOOLEAN]
      <3>1. Granted(DeviceOf[c]) \in BOOLEAN
        BY <1>1, Kinds DEF TypeOK
      <3> QED
        BY <1>3, <3>1 DEF Register, TypeOK
    <2>2. node' \in [Device -> Conn \cup {NoConn}] /\ Placed'
      BY <1>1, <1>3, GotoTypes DEF Register, TypeOK, Placed, clients
    <2>3. welcome' \in [Conn -> [Device -> Kind]]
      <3> DEFINE told == [x \in Device |-> IF x = DeviceOf[c] \/ node[x] = NoConn THEN "absent"
                                           ELSE KindOf(flag[node[x]])]
      <3>1. told \in [Device -> Kind]
        BY Kinds, SMTT(30) DEF TypeOK
      <3>2. welcome' = [welcome EXCEPT ![c] = told]
        BY <1>3 DEF Register
      <3> HIDE DEF told
      <3> QED
        BY <3>1, <3>2 DEF TypeOK
    <2>4. doubt' \in [Consumer -> SUBSET Device]
      BY <1>1, <1>3 DEF Register, TypeOK
    <2>5. pc' \in [Conn -> {"idle", "hello", "registered", "welcomed", "joining",
                            "data", "removed", "done"}]
      BY <1>3, GotoTypes DEF Register
    <2> QED
      BY <1>3, <2>1, <2>2, <2>3, <2>4, <2>5 DEF Register, TypeOK, Placed, admin, clients
  <1>4. CASE Welcome(c)
    <2>1. peers' \in [Consumer -> [Device -> Kind]]
      <3>1. welcome[c] \in [Device -> Kind]
        BY DEF TypeOK
      <3>2. peers' = peers \/ Upsert(DeviceOf[c], welcome[c])
        BY <1>4 DEF Welcome
      <3> QED
        BY <1>1, <3>1, <3>2, UpsertTypes DEF TypeOK
    <2>2. pc' \in [Conn -> {"idle", "hello", "registered", "welcomed", "joining",
                            "data", "removed", "done"}]
      BY <1>4, GotoTypes DEF Welcome
    <2>3. running' \subseteq Device /\ Placed'
      <3>1. /\ \A k \in Conn : pc[k] \notin {"idle", "hello"} => pc'[k] \notin {"idle", "hello"}
            /\ pc'[c] = "welcomed"
        BY <1>4, GotoTypes DEF Welcome
      <3>2. \/ running' = running
            \/ Uses(c) /\ running' = running \cup {DeviceOf[c]}
        BY <1>4 DEF Welcome
      <3>3. at[DeviceOf[c]] = c => c # NoConn
        BY EgressAssumption
      <3> QED
        BY <1>1, <1>4, <3>1, <3>2, <3>3 DEF Welcome, TypeOK, Placed, Uses
    <2>4. welcome' \in [Conn -> [Device -> Kind]]
      BY <1>2, <1>4 DEF Welcome, TypeOK
    <2> QED
      BY <1>4, <2>1, <2>2, <2>3, <2>4 DEF Welcome, TypeOK, Placed, admin
  <1>5. CASE WelcomeFails(c)
    <2>1. pc' \in [Conn -> {"idle", "hello", "registered", "welcomed", "joining",
                            "data", "removed", "done"}] /\ Placed'
      BY <1>5, GotoTypes DEF WelcomeFails, TypeOK, Placed, clients
    <2>2. welcome' \in [Conn -> [Device -> Kind]]
      BY <1>2, <1>5 DEF WelcomeFails, TypeOK
    <2>3. doubt' \in [Consumer -> SUBSET Device]
      <3>1. \/ doubt' = doubt
            \/ doubt' = [y \in Consumer |-> doubt[y] \cup {DeviceOf[c]}]
        BY <1>5 DEF WelcomeFails
      <3> QED
        BY <1>1, <3>1 DEF TypeOK
    <2> QED
      BY <1>5, <2>1, <2>2, <2>3 DEF WelcomeFails, TypeOK, Placed, admin, clients
  <1>6. CASE NotifyPeerJoined(c)
    <2>1. pc' \in [Conn -> {"idle", "hello", "registered", "welcomed", "joining",
                            "data", "removed", "done"}] /\ Placed'
      BY <1>6, GotoTypes DEF NotifyPeerJoined, TypeOK, Placed, clients
    <2>2. KindOf(flag[c]) \in Kind
      BY Kinds DEF TypeOK
    <2>3. say' \in [Conn -> Kind]
      BY <1>6, <2>2 DEF NotifyPeerJoined, TypeOK
    <2> QED
      BY <1>6, <2>1, <2>3 DEF NotifyPeerJoined, TypeOK, Placed, admin, clients
  <1>10. CASE BroadcastJoin(c)
    <2>1. pc' \in [Conn -> {"idle", "hello", "registered", "welcomed", "joining",
                            "data", "removed", "done"}] /\ Placed'
      BY <1>10, GotoTypes DEF BroadcastJoin, TypeOK, Placed, clients
    <2>2. targets' \in [Conn -> SUBSET Conn] /\ say' \in [Conn -> Kind]
      BY <1>10, AnnounceTypes DEF BroadcastJoin, TypeOK
    <2> QED
      BY <1>10, <2>1, <2>2 DEF BroadcastJoin, TypeOK, Placed, admin, clients
  <1>7. CASE NotifyPeerLeft(c)
    <2>1. pc' \in [Conn -> {"idle", "hello", "registered", "welcomed", "joining",
                            "data", "removed", "done"}] /\ Placed'
      BY <1>7, GotoTypes DEF NotifyPeerLeft, TypeOK, Placed, clients
    <2>2. targets' \in [Conn -> SUBSET Conn] /\ say' \in [Conn -> Kind]
      BY <1>7, Kinds, AnnounceTypes DEF NotifyPeerLeft
    <2>3. flag' \in [Conn -> BOOLEAN]
      BY <1>7 DEF NotifyPeerLeft, TypeOK
    <2> QED
      BY <1>7, <2>1, <2>2, <2>3 DEF NotifyPeerLeft, TypeOK, Placed, admin, clients
  <1>8. CASE Remove(c)
    <2>1. pc' \in [Conn -> {"idle", "hello", "registered", "welcomed", "joining",
                            "data", "removed", "done"}] /\ Placed'
      BY <1>8, GotoTypes DEF Remove, TypeOK, Placed, clients
    <2>2. node' \in [Device -> Conn \cup {NoConn}]
      BY <1>8 DEF Remove, TypeOK
    <2> QED
      BY <1>8, <2>1, <2>2 DEF Remove, TypeOK, Placed, admin, clients
  <1>9. ASSUME NEW t \in Conn, WriteTo(c, t) PROVE TypeOK'
    <2>1. targets' \in [Conn -> SUBSET Conn] /\ say' \in [Conn -> Kind]
      BY <1>9, Kinds DEF WriteTo, TypeOK
    <2>2. /\ at' \in [Device -> Conn \cup {NoConn}] /\ running' \subseteq Device
          /\ Placed'
      BY <1>1, <1>9, ZenonT(60) DEF WriteTo, Hangup, TypeOK, Placed
    <2>3. peers' \in [Consumer -> [Device -> Kind]]
      <3> DEFINE told == [Nobody EXCEPT ![DeviceOf[c]] = say[c]]
      <3>1. told \in [Device -> Kind]
        BY <1>2 DEF TypeOK
      <3>2. \/ peers' = peers
            \/ Forget(DeviceOf[t], DeviceOf[c])
            \/ Upsert(DeviceOf[t], told)
        BY <1>9 DEF WriteTo
      <3> HIDE DEF told
      <3> QED
        BY <1>1, <3>1, <3>2, UpsertTypes, ForgetTypes DEF TypeOK
    <2> QED
      BY <1>9, <2>1, <2>2, <2>3 DEF WriteTo, TypeOK, Placed, admin
  <1> QED
    BY <1>3, <1>4, <1>5, <1>6, <1>7, <1>8, <1>9, <1>10 DEF Handler

LEMMA TypesTraffic ==
  ASSUME TypeOK, NEW d \in Consumer, Traffic(d)
  PROVE  TypeOK'
  <1>1. Via[d] \subseteq Device /\ NoPacket \in Hand /\ d \in Device
    BY EgressAssumption DEF NoPacket, Hand, Consumer
  <1>2. \A v \in GlobalExit(d) : v \subseteq Device
    BY DEF GlobalExit
  <1>3. PICK p \in Hand : Hold(d, p)
    BY <1>1, <1>2 DEF Traffic, Match, Resolve, Relay, Hand, TypeOK
  <1>4. UNCHANGED <<admin, hub, clients, doubt>>
    BY DEF Traffic, Match, Resolve, Relay
  <1> QED
    BY <1>3, <1>4 DEF Hold, TypeOK, admin, hub, clients

LEMMA TypesNext == ASSUME TypeOK, Next PROVE TypeOK'
  <1>2. ASSUME NEW d \in Device, Disconnect(d) PROVE TypeOK'
    <2>1. at[d] \in Conn
      BY <1>2 DEF Disconnect, TypeOK
    <2> QED
      BY <1>2, <2>1, TypesConnections
  <1>3. ASSUME NEW c \in Conn, Connect(c) PROVE TypeOK'
    <2>1. DeviceOf[c] \in Device
      BY EgressAssumption
    <2> QED
      BY <1>3, <2>1, TypesConnections
  <1> QED
    BY <1>2, <1>3, TypesAdminister, TypesHandler, TypesTraffic DEF Next

-----------------------------------------------------------------------------
(* Where handlers stand.                                                   *)

LEMMA PositionsConnections ==
  ASSUME TypeOK, Positions, NEW c \in Conn, NEW d \in Device, Connect(c) \/ Disconnect(d)
  PROVE  Positions'
  <1>1. CASE Connect(c)
    <2>1. /\ \A x \in Device : node[x] # c
          /\ targets[c] = {} /\ \A k \in Conn : c \notin targets[k]
      BY <1>1, UnusedIs DEF Connect
    <2>2. /\ at' = [at EXCEPT ![DeviceOf[c]] = c] /\ at[DeviceOf[c]] = NoConn
          /\ pc' = [pc EXCEPT ![c] = "hello"]
          /\ UNCHANGED <<node, targets, say, running>>
      BY <1>1 DEF Connect
    <2>3. \A x \in Device :
            /\ at'[x] # NoConn =>
                 pc'[at'[x]] \in {"hello", "registered", "welcomed", "joining", "data"}
            /\ x \in running' => pc'[at'[x]] \in {"welcomed", "joining", "data"}
            /\ node'[x] # NoConn =>
                 /\ pc'[node'[x]] \notin {"idle", "hello", "removed"}
                 /\ pc'[node'[x]] = "done" => targets'[node'[x]] = {}
      BY <2>1, <2>2, EgressAssumption DEF TypeOK, Positions
    <2>4. \A k \in Conn :
            /\ targets'[k] # {} => pc'[k] = "data" \/ (pc'[k] = "done" /\ say'[k] = "absent")
            /\ \A t \in targets'[k] : pc'[t] \notin {"idle", "hello"}
      BY <2>1, <2>2 DEF TypeOK, Positions
    <2> QED
      BY <2>3, <2>4 DEF Positions
  <1>2. CASE Disconnect(d)
    BY <1>2 DEF Disconnect, Hangup, TypeOK, Positions, hub
  <1> QED
    BY <1>1, <1>2

LEMMA PositionsHandler ==
  ASSUME TypeOK, Positions, NEW c \in Conn, Handler(c)
  PROVE  Positions'
  <1>1. DeviceOf[c] \in Device /\ DeviceOf \in [Conn -> Device] /\ c # NoConn
    BY EgressAssumption
  <1> DEFINE InUse(x) == at[x] # NoConn =>
               pc[at[x]] \in {"hello", "registered", "welcomed", "joining", "data"}
             InRun(x) == x \in running => pc[at[x]] \in {"welcomed", "joining", "data"}
             InTable(x) == node[x] # NoConn =>
               /\ pc[node[x]] \notin {"idle", "hello", "removed"}
               /\ pc[node[x]] = "done" => targets[node[x]] = {}
             OfDevices == \A x \in Device : InUse(x) /\ InRun(x) /\ InTable(x)
  <1> DEFINE OfTargets == \A k \in Conn :
            /\ targets[k] # {} => pc[k] = "data" \/ (pc[k] = "done" /\ say[k] = "absent")
            /\ \A t \in targets[k] : pc[t] \notin {"idle", "hello"}
  <1>10. /\ node \in [Device -> Conn \cup {NoConn}]
         /\ running \subseteq Device
         /\ targets \in [Conn -> SUBSET Conn]
    BY DEF TypeOK
  <1>12. \A x \in Device : /\ node[x] # NoConn => node[x] \in Conn /\ DeviceOf[node[x]] = x
                           /\ at[x] # NoConn => at[x] \in Conn /\ DeviceOf[at[x]] = x
                           /\ x \in running => at[x] # NoConn
    BY DEF TypeOK
  <1>11. OfDevices /\ OfTargets
    BY DEF Positions
  <1>2. CASE Register(c)
    <2> /\ pc[c] = "hello" /\ pc'[c] = "registered"
        /\ \A k \in Conn : k # c => pc'[k] = pc[k]
        /\ UNCHANGED <<targets, say, at, running>>
        /\ node' = [node EXCEPT ![DeviceOf[c]] = c]
      BY <1>2, GotoTypes DEF Register, clients
    <2>1. OfDevices'
      <3> SUFFICES ASSUME NEW x \in Device PROVE InUse(x)' /\ InRun(x)' /\ InTable(x)'
        OBVIOUS
      <3>3. /\ at[x] # NoConn => at[x] \in Conn /\ DeviceOf[at[x]] = x
            /\ x \in running => at[x] # NoConn
        BY <1>12
      <3>7. InUse(x) /\ InRun(x)
        BY <1>11
      <3>4. InUse(x)'
        BY <1>1, <3>3, <3>7
      <3>5. InRun(x)'
        BY <1>1, <3>3, <3>7
      <3>6. InTable(x)'
        BY <1>1, <1>10, <1>11, <1>12
      <3> QED
        BY <3>4, <3>5, <3>6
    <2>2. OfTargets'
      BY <1>10, <1>11, <1>12
    <2> QED
      BY <2>1, <2>2 DEF Positions
  <1>3. CASE Welcome(c)
    <2>1. /\ pc[c] = "registered" /\ pc'[c] = "welcomed"
          /\ \A k \in Conn : k # c => pc'[k] = pc[k]
          /\ UNCHANGED <<node, at, targets, say>>
          /\ running' = running \/ (Uses(c) /\ running' = running \cup {DeviceOf[c]})
      BY <1>3, GotoTypes DEF Welcome
    <2>2. OfDevices'
      <3> SUFFICES ASSUME NEW x \in Device PROVE InUse(x)' /\ InRun(x)' /\ InTable(x)'
        OBVIOUS
      <3>3. /\ at[x] # NoConn => at[x] \in Conn /\ DeviceOf[at[x]] = x
            /\ x \in running => at[x] # NoConn
        BY <1>12
      <3>7. InUse(x) /\ InRun(x)
        BY <1>11
      <3>4. InUse(x)'
        BY <1>1, <3>3, <3>7, <2>1 DEF Uses
      <3>5. InRun(x)'
        BY <1>1, <3>3, <3>7, <2>1 DEF Uses
      <3>6. InTable(x)'
        BY <1>1, <1>10, <1>11, <1>12, <2>1 DEF Uses
      <3> QED
        BY <3>4, <3>5, <3>6
    <2>3. OfTargets'
      BY <1>10, <1>11, <1>12, <2>1
    <2> QED
      BY <2>2, <2>3 DEF Positions
  <1>4. CASE WelcomeFails(c)
    <2>1. /\ pc[c] = "registered" /\ pc'[c] = "done" /\ ~Uses(c)
          /\ \A k \in Conn : k # c => pc'[k] = pc[k]
          /\ UNCHANGED <<node, at, targets, say, running>>
      BY <1>4, GotoTypes DEF WelcomeFails, clients
    <2>2. OfDevices'
      <3> SUFFICES ASSUME NEW x \in Device PROVE InUse(x)' /\ InRun(x)' /\ InTable(x)'
        OBVIOUS
      <3>3. /\ at[x] # NoConn => at[x] \in Conn /\ DeviceOf[at[x]] = x
            /\ x \in running => at[x] # NoConn
        BY <1>12
      <3>7. InUse(x) /\ InRun(x)
        BY <1>11
      <3>4. InUse(x)'
        BY <1>1, <3>3, <3>7, <2>1 DEF Uses
      <3>5. InRun(x)'
        BY <1>1, <3>3, <3>7, <2>1 DEF Uses
      <3>6. InTable(x)'
        BY <1>1, <1>10, <1>11, <1>12, <2>1 DEF Uses
      <3> QED
        BY <3>4, <3>5, <3>6
    <2>3. OfTargets'
      BY <1>10, <1>11, <1>12, <2>1
    <2> QED
      BY <2>2, <2>3 DEF Positions
  <1>9. CASE NotifyPeerJoined(c)
    <2>1. /\ pc[c] = "welcomed" /\ pc'[c] = "joining"
          /\ \A k \in Conn : k # c => pc'[k] = pc[k] /\ say'[k] = say[k]
          /\ UNCHANGED <<node, at, running, targets>>
      BY <1>9, GotoTypes DEF NotifyPeerJoined, TypeOK, clients
    <2>2. OfDevices'
      <3>1. \A x \in Device : node'[x] # NoConn => node'[x] \in Conn /\ node'[x] = node[x]
        BY <1>1, <1>10, <2>1
      <3> SUFFICES ASSUME NEW x \in Device PROVE InUse(x)' /\ InRun(x)' /\ InTable(x)'
        OBVIOUS
      <3>3. /\ at[x] # NoConn => at[x] \in Conn /\ DeviceOf[at[x]] = x
            /\ x \in running => at[x] # NoConn
        BY <1>12
      <3>7. InUse(x) /\ InRun(x)
        BY <1>11
      <3>4. InUse(x)'
        BY <1>1, <3>3, <3>7, <2>1
      <3>5. InRun(x)'
        BY <1>1, <3>3, <3>7, <2>1
      <3>6. InTable(x)'
        BY <1>1, <1>10, <1>11, <1>12, <2>1, <3>1
      <3> QED
        BY <3>4, <3>5, <3>6
    <2>3. OfTargets'
      BY <1>10, <1>11, <1>12, <2>1
    <2> QED
      BY <2>2, <2>3 DEF Positions
  <1>5. CASE BroadcastJoin(c)
    <2>1. /\ pc[c] = "joining" /\ pc'[c] = "data"
          /\ \A k \in Conn : k # c => pc'[k] = pc[k] /\ targets'[k] = targets[k] /\ say'[k] = say[k]
          /\ UNCHANGED <<node, at, running>>
          /\ targets'[c] = Others(DeviceOf[c])
      BY <1>5, GotoTypes DEF BroadcastJoin, Announce, TypeOK, clients
    <2>2. OfDevices'
      <3> SUFFICES ASSUME NEW x \in Device PROVE InUse(x)' /\ InRun(x)' /\ InTable(x)'
        OBVIOUS
      <3>3. /\ at[x] # NoConn => at[x] \in Conn /\ DeviceOf[at[x]] = x
            /\ x \in running => at[x] # NoConn
        BY <1>12
      <3>7. InUse(x) /\ InRun(x)
        BY <1>11
      <3>4. InUse(x)'
        BY <1>1, <3>3, <3>7, <2>1
      <3>5. InRun(x)'
        BY <1>1, <3>3, <3>7, <2>1
      <3>6. InTable(x)'
        BY <1>1, <1>10, <1>11, <1>12, <2>1
      <3> QED
        BY <3>4, <3>5, <3>6
    <2>3. OfTargets'
      <3>1. \A t \in Others(DeviceOf[c]) : t \in Conn /\ pc'[t] \notin {"idle", "hello"}
        <4>1. \A t \in Others(DeviceOf[c]) : t \in Conn /\ node[DeviceOf[t]] = t
          BY <1>1, OthersAre
        <4>2. \A t \in Others(DeviceOf[c]) : pc[t] \notin {"idle", "hello"}
          BY <1>1, <4>1, EgressAssumption DEF Positions
        <4> QED
          BY <2>1, <4>1, <4>2
      <3> QED
        BY <1>10, <1>11, <1>12, <2>1, <3>1
    <2> QED
      BY <2>2, <2>3 DEF Positions
  <1>6. CASE Remove(c)
    <2>1. /\ pc[c] = "data" /\ targets[c] = {} /\ ~Uses(c) /\ pc'[c] = "removed"
          /\ \A k \in Conn : k # c => pc'[k] = pc[k]
          /\ UNCHANGED <<targets, say, at, running>>
          /\ node' = IF node[DeviceOf[c]] = c THEN [node EXCEPT ![DeviceOf[c]] = NoConn] ELSE node
      BY <1>6, GotoTypes DEF Remove, clients
    <2>2. OfDevices'
      <3>1. \A x \in Device : node'[x] # NoConn => node'[x] \in Conn /\ node'[x] = node[x] /\ node[x] # c
        <4>1. CASE node[DeviceOf[c]] = c
          BY <1>1, <1>10, <1>12, <2>1, <4>1
        <4>2. CASE node[DeviceOf[c]] # c
          BY <1>1, <1>10, <1>12, <2>1, <4>2
        <4> QED
          BY <4>1, <4>2
      <3> SUFFICES ASSUME NEW x \in Device PROVE InUse(x)' /\ InRun(x)' /\ InTable(x)'
        OBVIOUS
      <3>3. /\ at[x] # NoConn => at[x] \in Conn /\ DeviceOf[at[x]] = x
            /\ x \in running => at[x] # NoConn
        BY <1>12
      <3>7. InUse(x) /\ InRun(x)
        BY <1>11
      <3>4. InUse(x)'
        BY <1>1, <3>3, <3>7, <2>1 DEF Uses
      <3>5. InRun(x)'
        BY <1>1, <3>3, <3>7, <2>1 DEF Uses
      <3>6. InTable(x)'
        BY <1>1, <1>10, <1>11, <1>12, <2>1, <3>1 DEF Uses
      <3> QED
        BY <3>4, <3>5, <3>6
    <2>3. OfTargets'
      BY <1>10, <1>11, <1>12, <2>1
    <2> QED
      BY <2>2, <2>3 DEF Positions
  <1>7. CASE NotifyPeerLeft(c)
    <2>1. /\ pc[c] = "removed" /\ pc'[c] = "done"
          /\ \A k \in Conn : k # c => pc'[k] = pc[k] /\ targets'[k] = targets[k] /\ say'[k] = say[k]
          /\ UNCHANGED <<node, at, running>>
          /\ targets'[c] = Others(DeviceOf[c]) /\ say'[c] = "absent"
      BY <1>7, GotoTypes DEF NotifyPeerLeft, Announce, TypeOK, clients
    <2>2. OfDevices'
      <3>1. \A x \in Device : node'[x] # NoConn => node'[x] \in Conn /\ node'[x] = node[x] /\ node[x] # c
        BY <1>1, <1>10, <1>11, <1>12, <2>1
      <3> SUFFICES ASSUME NEW x \in Device PROVE InUse(x)' /\ InRun(x)' /\ InTable(x)'
        OBVIOUS
      <3>3. /\ at[x] # NoConn => at[x] \in Conn /\ DeviceOf[at[x]] = x
            /\ x \in running => at[x] # NoConn
        BY <1>12
      <3>7. InUse(x) /\ InRun(x)
        BY <1>11
      <3>4. InUse(x)'
        BY <1>1, <3>3, <3>7, <2>1
      <3>5. InRun(x)'
        BY <1>1, <3>3, <3>7, <2>1
      <3>6. InTable(x)'
        BY <1>1, <1>10, <1>11, <1>12, <2>1, <3>1
      <3> QED
        BY <3>4, <3>5, <3>6
    <2>3. OfTargets'
      <3>1. \A t \in Others(DeviceOf[c]) : t \in Conn /\ pc'[t] \notin {"idle", "hello"}
        <4>1. \A t \in Others(DeviceOf[c]) : t \in Conn /\ node[DeviceOf[t]] = t
          BY <1>1, OthersAre
        <4>2. \A t \in Others(DeviceOf[c]) : pc[t] \notin {"idle", "hello"}
          BY <1>1, <4>1, EgressAssumption DEF Positions
        <4> QED
          BY <2>1, <4>1, <4>2
      <3> QED
        BY <1>10, <1>11, <1>12, <2>1, <3>1
    <2> QED
      BY <2>2, <2>3 DEF Positions
  <1>8. ASSUME NEW t \in Conn, WriteTo(c, t) PROVE Positions'
    <2>1. /\ UNCHANGED <<pc, node>>
          /\ at' = at \/ at' = [at EXCEPT ![DeviceOf[t]] = NoConn]
          /\ running' \subseteq running
          /\ at' # at => DeviceOf[t] \notin running'
      BY <1>8 DEF WriteTo, Hangup
    <2>2. /\ targets'[c] \subseteq targets[c] /\ say'[c] \in {say[c], "absent"}
          /\ \A k \in Conn : k # c => targets'[k] = targets[k] /\ say'[k] = say[k]
      BY <1>8 DEF WriteTo, TypeOK
    <2>3. OfDevices'
      <3>1. \A x \in Device : node'[x] # NoConn =>
              node'[x] = node[x] /\ (targets[node[x]] = {} => targets'[node[x]] = {})
        BY <1>10, <2>1, <2>2
      <3>2. \A x \in Device : at'[x] # NoConn => at'[x] = at[x]
        BY <1>1, <2>1 DEF TypeOK
      <3>3. \A x \in Device : x \in running' => x \in running /\ at'[x] = at[x]
        BY <1>1, <2>1 DEF TypeOK
      <3> QED
        BY <1>11, <2>1, <3>1, <3>2, <3>3
    <2>4. OfTargets'
      BY <1>10, <1>11, <1>12, <2>1, <2>2
    <2> QED
      BY <2>3, <2>4 DEF Positions
  <1> QED
    BY <1>2, <1>3, <1>4, <1>5, <1>6, <1>7, <1>8, <1>9 DEF Handler

LEMMA PositionsNext == ASSUME TypeOK, Positions, Next PROVE Positions'
  <1>1. ASSUME NEW d \in Device, Disconnect(d) PROVE Positions'
    <2>1. at[d] \in Conn
      BY <1>1 DEF Disconnect, TypeOK
    <2> QED
      BY <1>1, <2>1, PositionsConnections
  <1>2. ASSUME NEW c \in Conn, Connect(c) PROVE Positions'
    <2>1. DeviceOf[c] \in Device
      BY EgressAssumption
    <2> QED
      BY <1>2, <2>1, PositionsConnections
  <1>3. ASSUME UNCHANGED <<pc, node, targets, say, at, running>> PROVE Positions'
    BY <1>3 DEF Positions
  <1>4. ASSUME NEW r \in Request, Administer(r)
        PROVE  UNCHANGED <<pc, node, targets, say, at, running>>
    BY <1>4 DEF Administer, SetDeviceEgress, SetDeviceEgressFails, Switch, UpdateEgress,
                hub, clients
  <1>5. ASSUME NEW d \in Consumer, Traffic(d)
        PROVE  UNCHANGED <<pc, node, targets, say, at, running>>
    BY <1>5 DEF Traffic, Match, Resolve, Relay, hub, clients
  <1> QED
    BY <1>1, <1>2, <1>3, <1>4, <1>5, PositionsHandler DEF Next

-----------------------------------------------------------------------------
(* The switch.                                                             *)

\* a switch that is not torn over holds what the store holds
Decided(d) ==
  node[d] # NoConn /\ InFlight(d) = {} /\ d \notin torn =>
    (flag[node[d]] => enabled[d]) /\ (Granted(d) => flag[node[d]])

LEMMA SwitchAdminister ==
  ASSUME TypeOK, Ordered, StoreDecides, NEW r \in Request, Administer(r)
  PROVE  Ordered' /\ StoreDecides'
  <1>1. ASSUME NEW d \in Switched, NEW b \in BOOLEAN, SetDeviceEgress(r, d, b)
        PROVE  Ordered' /\ StoreDecides'
    <2>1. d \in Device /\ NoDevice \notin Device
      BY EgressAssumption
    <2>2. /\ request[r] = NoRequest /\ UNCHANGED <<node, flag>>
          /\ request'[r] = [of |-> d, on |-> b] /\ request'[r] # NoRequest
          /\ \A s \in Request \ {r} : request'[s] = request[s]
          /\ enabled'[d] = b /\ \A x \in Device \ {d} : enabled'[x] = enabled[x]
          /\ torn' = IF InFlight(d) = {} THEN torn \ {d} ELSE torn \cup {d}
      BY <1>1, <2>1 DEF SetDeviceEgress, Switch, TypeOK, hub, NoRequest
    <2>3. ASSUME NEW x \in Device \ torn', NEW s \in Request,
                 request'[s] # NoRequest, request'[s].of = x
          PROVE  /\ request'[s].on = enabled'[x]
                 /\ \A q \in Request : request'[q] # NoRequest /\ request'[q].of = x => q = s
      <3>1. CASE x = d
        <4>1. InFlight(d) = {}
          BY <2>2, <2>3, <3>1
        <4>2. \A q \in Request : request'[q] # NoRequest /\ request'[q].of = d => q = r
          BY <2>2, <4>1 DEF InFlight
        <4> QED
          BY <2>2, <2>3, <3>1, <4>2
      <3>2. CASE x # d
        <4>1. x \notin torn /\ enabled'[x] = enabled[x]
          BY <2>2, <3>2
        <4>2. \A q \in Request : request'[q] # NoRequest /\ request'[q].of = x =>
                q # r /\ request'[q] = request[q]
          BY <2>2, <3>2
        <4> QED
          BY <2>3, <4>1, <4>2 DEF Ordered
      <3> QED
        BY <3>1, <3>2
    <2>4. ASSUME NEW x \in Device PROVE Decided(x)'
      <3>1. CASE x = d
        <4>1. r \in InFlight(d)'
          BY <2>2 DEF InFlight
        <4> QED
          BY <3>1, <4>1 DEF Decided
      <3>2. CASE x # d
        <4>1. (x \in torn <=> x \in torn') /\ enabled'[x] = enabled[x] /\ Granted(x)' = Granted(x)
          BY <2>2, <3>2 DEF Granted
        <4>2. InFlight(x)' = InFlight(x)
          BY <2>2, <3>2 DEF InFlight
        <4> QED
          BY <2>2, <4>1, <4>2 DEF StoreDecides, Decided
      <3> QED
        BY <3>1, <3>2
    <2>5. Ordered'
      BY <2>3 DEF Ordered
    <2> QED
      BY <2>4, <2>5 DEF StoreDecides, Decided
  <1>2. ASSUME UpdateEgress(r) PROVE Ordered' /\ StoreDecides'
    <2> DEFINE d == request[r].of
    <2>1. d \in Device /\ request[r].on \in BOOLEAN /\ request[r] # NoRequest
      BY <1>2 DEF UpdateEgress, TypeOK, NoRequest
    <2>2. /\ UNCHANGED <<node, enabled, torn>>
          /\ request'[r] = NoRequest
          /\ \A s \in Request \ {r} : request'[s] = request[s]
          /\ \A x \in Device : Granted(x)' = Granted(x)
      BY <1>2 DEF UpdateEgress, TypeOK, Granted
    <2>3. /\ node[d] = NoConn => flag' = flag
          /\ node[d] # NoConn => flag' = [flag EXCEPT ![node[d]] = request[r].on]
      BY <1>2 DEF UpdateEgress
    <2>4. Ordered'
      BY <2>2 DEF Ordered
    <2>5. ASSUME NEW x \in Device, node[x] # NoConn, InFlight(x)' = {}, x \notin torn
          PROVE  (flag'[node[x]] => enabled[x]) /\ (Granted(x) => flag'[node[x]])
      <3>1. CASE x = d
        <4>1. request[r].on = enabled[x]
          BY <2>1, <2>5, <3>1 DEF Ordered
        <4>2. flag'[node[x]] = enabled[x]
          BY <2>3, <2>5, <3>1, <4>1 DEF TypeOK
        <4> QED
          BY <4>2 DEF Granted
      <3>2. CASE x # d
        <4>1. InFlight(x) = {}
          BY <2>2, <2>5, <3>2 DEF InFlight
        <4>2. flag'[node[x]] = flag[node[x]]
          <5>1. node[x] \in Conn /\ (node[d] = NoConn \/ node[x] # node[d])
            BY <2>1, <2>5, <3>2 DEF TypeOK
          <5> QED
            BY <2>3, <5>1 DEF TypeOK
        <4> QED
          BY <2>5, <4>1, <4>2 DEF StoreDecides
      <3> QED
        BY <3>1, <3>2
    <2>6. StoreDecides'
      BY <2>2, <2>5 DEF StoreDecides
    <2> QED
      BY <2>4, <2>6
  <1>3. ASSUME NEW d \in Switched, NEW b \in BOOLEAN, SetDeviceEgressFails(r, d, b)
        PROVE  Ordered' /\ StoreDecides'
    <2>1. /\ UNCHANGED <<node, flag, request>> /\ torn' = torn \cup {d}
          /\ \A x \in Device \ {d} : enabled'[x] = enabled[x]
      BY <1>3 DEF SetDeviceEgressFails, Switch, TypeOK, hub
    <2>2. \A x \in Device \ {d} : Granted(x)' = Granted(x) /\ InFlight(x)' = InFlight(x)
      BY <2>1 DEF Granted, InFlight
    <2>3. Ordered'
      BY <2>1 DEF Ordered
    <2>4. StoreDecides'
      BY <2>1, <2>2 DEF StoreDecides
    <2> QED
      BY <2>3, <2>4
  <1> QED
    BY <1>1, <1>2, <1>3 DEF Administer

LEMMA SwitchHandler ==
  ASSUME TypeOK, Positions, Ordered, StoreDecides, NEW c \in Conn, Handler(c)
  PROVE  Ordered' /\ StoreDecides'
  <1>1. /\ UNCHANGED <<enabled, request, allowed>>
        /\ \/ torn' = torn
           \/ Register(c) /\ InFlight(DeviceOf[c]) = {} /\ torn' = torn \ {DeviceOf[c]}
    BY DEF Handler, Register, Welcome, WelcomeFails, NotifyPeerJoined, BroadcastJoin, WriteTo,
           Remove, NotifyPeerLeft, admin
  <1>2. \A x \in Device : InFlight(x)' = InFlight(x) /\ Granted(x)' = Granted(x)
    BY <1>1 DEF InFlight, Granted
  <1>5. Ordered'
    <2>1. ASSUME NEW x \in Device \ torn', NEW r \in Request,
                 request[r] # NoRequest, request[r].of = x
          PROVE  x \notin torn
      <3>1. InFlight(x) # {}
        BY <2>1 DEF InFlight
      <3> QED
        BY <1>1, <3>1
    <2> QED
      BY <1>1, <2>1 DEF Ordered
  <1>3. ASSUME NEW x \in Device, node'[x] # NoConn, InFlight(x) = {}, x \notin torn',
               \/ x \notin torn /\ node'[x] = node[x] /\ flag'[node[x]] = flag[node[x]]
               \/ flag'[node'[x]] = Granted(x)
        PROVE  (flag'[node'[x]] => enabled[x]) /\ (Granted(x) => flag'[node'[x]])
    BY <1>3 DEF StoreDecides, Granted
  <1>4. ASSUME NEW x \in Device, node'[x] # NoConn, x \notin torn'
        PROVE  \/ x \notin torn /\ node'[x] = node[x] /\ flag'[node[x]] = flag[node[x]]
               \/ flag'[node'[x]] = Granted(x)
    <2>1. CASE Register(c)
      <3>1. /\ node' = [node EXCEPT ![DeviceOf[c]] = c]
            /\ flag' = [flag EXCEPT ![c] = Granted(DeviceOf[c])]
        BY <2>1 DEF Register
      <3>2. CASE x = DeviceOf[c]
        BY <3>1, <3>2 DEF TypeOK
      <3>3. CASE x # DeviceOf[c]
        <4>1. node'[x] = node[x] /\ x \notin torn
          BY <1>1, <1>4, <3>1, <3>3 DEF TypeOK
        <4>2. node[x] \in Conn /\ node[x] # c
          BY <1>4, <3>3, <4>1 DEF TypeOK
        <4> QED
          BY <3>1, <4>1, <4>2 DEF TypeOK
      <3> QED
        BY <3>2, <3>3
    <2>2. CASE Remove(c)
      BY <1>4, <2>2 DEF Remove, TypeOK, admin
    <2>3. CASE NotifyPeerLeft(c)
      <3>1. /\ node' = node /\ pc[c] = "removed" /\ flag' = [flag EXCEPT ![c] = FALSE]
            /\ torn' = torn
        BY <2>3 DEF NotifyPeerLeft, admin
      <3>2. node[x] # c
        BY <1>4, <3>1 DEF Positions
      <3> QED
        BY <1>4, <3>1, <3>2 DEF TypeOK
    <2>4. CASE \/ Welcome(c) \/ WelcomeFails(c) \/ NotifyPeerJoined(c) \/ BroadcastJoin(c)
               \/ \E t \in Conn : WriteTo(c, t)
      BY <1>4, <2>4 DEF Welcome, WelcomeFails, NotifyPeerJoined, BroadcastJoin, WriteTo, admin
    <2> QED
      BY <2>1, <2>2, <2>3, <2>4 DEF Handler
  <1>6. StoreDecides'
    BY <1>1, <1>2, <1>3, <1>4 DEF StoreDecides
  <1> QED
    BY <1>5, <1>6

LEMMA SwitchNext ==
  ASSUME TypeOK, Positions, Ordered, StoreDecides, Next
  PROVE  Ordered' /\ StoreDecides'
  <1>3. ASSUME UNCHANGED <<admin, node, flag>> PROVE Ordered' /\ StoreDecides'
    BY <1>3 DEF Ordered, StoreDecides, InFlight, Granted, admin
  <1>4. ASSUME NEW c \in Conn, Connect(c) PROVE UNCHANGED <<admin, node, flag>>
    BY <1>4 DEF Connect
  <1>5. ASSUME NEW d \in Device, Disconnect(d) PROVE UNCHANGED <<admin, node, flag>>
    BY <1>5 DEF Disconnect, hub
  <1>6. ASSUME NEW d \in Consumer, Traffic(d) PROVE UNCHANGED <<admin, node, flag>>
    BY <1>6 DEF Traffic, Match, Resolve, Relay, hub
  <1> QED
    BY <1>3, <1>4, <1>5, <1>6, SwitchAdminister, SwitchHandler DEF Next

-----------------------------------------------------------------------------
(* Where the word "exit" comes from.                                       *)

\* the parts of Authorised
ByStore ==
  /\ \A d \in Device : enabled[d] => d \in allowed
  /\ \A r \in Request : request[r] # NoRequest /\ request[r].on => request[r].of \in allowed

ByNode == \A c \in Conn : flag[c] => DeviceOf[c] \in allowed
BySaying == \A c \in Conn : say[c] = "exit" => DeviceOf[c] \in allowed
ByWelcome == \A c \in Conn, x \in Device : welcome[c][x] = "exit" => x \in allowed
ByRegistry == \A d \in Consumer, x \in Device : peers[d][x] = "exit" => x \in allowed

LEMMA AuthorisedParts ==
  Authorised <=> ByStore /\ ByNode /\ BySaying /\ ByWelcome /\ ByRegistry /\ OnlyAllowedExits
  BY DEF Authorised, ByStore, ByNode, BySaying, ByWelcome, ByRegistry

LEMMA AuthorisedAdminister ==
  ASSUME TypeOK, Authorised, NEW r \in Request, Administer(r)
  PROVE  Authorised'
  <1>1. ByStore /\ ByNode /\ BySaying /\ ByWelcome /\ ByRegistry /\ OnlyAllowedExits
    BY AuthorisedParts
  <1>2. ASSUME NEW d \in Switched, NEW b \in BOOLEAN,
               SetDeviceEgress(r, d, b) \/ SetDeviceEgressFails(r, d, b)
        PROVE  Authorised'
    <2>1. d \in Device /\ Switch(r, d, b)
      BY <1>2, EgressAssumption DEF SetDeviceEgress, SetDeviceEgressFails
    <2>2. /\ allowed \subseteq allowed' /\ (b => d \in allowed')
          /\ UNCHANGED <<flag, say, welcome, peers, out>>
      BY <2>1 DEF Switch, hub, clients
    <2>3. ByNode' /\ BySaying' /\ ByWelcome' /\ ByRegistry' /\ OnlyAllowedExits'
      BY <1>1, <2>2 DEF ByNode, BySaying, ByWelcome, ByRegistry, OnlyAllowedExits
    <2>4. \A x \in Device : enabled'[x] => x \in allowed'
      <3>1. enabled'[d] = b /\ \A x \in Device \ {d} : enabled'[x] = enabled[x]
        BY <2>1 DEF Switch, TypeOK
      <3> QED
        BY <1>1, <2>2, <3>1 DEF ByStore
    <2>5. \A s \in Request : request'[s] # NoRequest /\ request'[s].on => request'[s].of \in allowed'
      <3>1. /\ request'[r] = request[r] \/ (request'[r].of = d /\ request'[r].on = b)
            /\ \A s \in Request \ {r} : request'[s] = request[s]
        BY <1>2 DEF SetDeviceEgress, SetDeviceEgressFails, TypeOK
      <3> QED
        BY <1>1, <2>2, <3>1 DEF ByStore
    <2> QED
      BY <2>3, <2>4, <2>5, AuthorisedParts DEF ByStore, Authorised, ByNode, BySaying, ByWelcome,
         ByRegistry
  <1>3. ASSUME UpdateEgress(r) PROVE Authorised'
    <2>1. request[r] # NoRequest /\ request[r].of \in Device /\ request[r].on \in BOOLEAN
      BY <1>3 DEF UpdateEgress, TypeOK, NoRequest
    <2>2. UNCHANGED <<enabled, allowed, say, welcome, peers, out>>
      BY <1>3 DEF UpdateEgress, clients
    <2>3. BySaying' /\ ByWelcome' /\ ByRegistry' /\ OnlyAllowedExits'
      BY <1>1, <2>2 DEF BySaying, ByWelcome, ByRegistry, OnlyAllowedExits
    <2>4. ByStore'
      <3>1. request'[r] = NoRequest /\ \A s \in Request \ {r} : request'[s] = request[s]
        BY <1>3 DEF UpdateEgress, TypeOK
      <3> QED
        BY <1>1, <2>2, <3>1 DEF ByStore
    <2>5. ASSUME NEW c \in Conn, flag'[c] PROVE DeviceOf[c] \in allowed
      <3> DEFINE k == node[request[r].of]
      <3>1. \/ flag' = flag
            \/ k # NoConn /\ flag' = [flag EXCEPT ![k] = request[r].on]
        BY <1>3 DEF UpdateEgress
      <3>2. flag[c] \/ (c = k /\ k # NoConn /\ request[r].on)
        BY <2>5, <3>1 DEF TypeOK
      <3>3. k # NoConn => DeviceOf[k] = request[r].of
        BY <2>1 DEF TypeOK
      <3> QED
        BY <1>1, <2>1, <3>2, <3>3 DEF ByNode, ByStore
    <2>6. ByNode'
      BY <2>2, <2>5 DEF ByNode
    <2> QED
      BY <2>3, <2>4, <2>6 DEF ByStore, Authorised, ByNode, BySaying, ByWelcome, ByRegistry
  <1> QED
    BY <1>2, <1>3 DEF Administer

LEMMA AuthorisedHandler ==
  ASSUME TypeOK, Authorised, NEW c \in Conn, Handler(c)
  PROVE  Authorised'
  <1>1. ByStore /\ ByNode /\ BySaying /\ ByWelcome /\ ByRegistry /\ OnlyAllowedExits
    BY AuthorisedParts
  <1>2. DeviceOf[c] \in Device /\ DeviceOf \in [Conn -> Device]
    BY EgressAssumption
  <1>3. UNCHANGED <<enabled, request, allowed, out>>
    BY DEF Handler, Register, Welcome, WelcomeFails, NotifyPeerJoined, BroadcastJoin, WriteTo,
           Remove, NotifyPeerLeft, admin
  <1>4. ByStore' /\ OnlyAllowedExits' /\ allowed' = allowed
    BY <1>1, <1>3 DEF ByStore, OnlyAllowedExits
  <1>5. ByNode'
    <2>1. ASSUME NEW k \in Conn, flag'[k] PROVE DeviceOf[k] \in allowed
      <3>1. \/ flag' = flag
            \/ flag' = [flag EXCEPT ![c] = Granted(DeviceOf[c])]
            \/ flag' = [flag EXCEPT ![c] = FALSE]
        BY DEF Handler, Register, Welcome, WelcomeFails, NotifyPeerJoined, BroadcastJoin,
               WriteTo, Remove, NotifyPeerLeft
      <3>2. flag[k] \/ (k = c /\ Granted(DeviceOf[c]))
        BY <2>1, <3>1 DEF TypeOK
      <3> QED
        BY <1>1, <1>2, <3>2 DEF ByNode, ByStore, Granted
    <2> QED
      BY <1>4, <2>1 DEF ByNode
  <1>6. BySaying'
    <2>1. ASSUME NEW k \in Conn, say'[k] = "exit" PROVE say[k] = "exit" \/ (k = c /\ flag[c])
      <3>1. CASE NotifyPeerJoined(c)
        BY <2>1, <3>1, Kinds DEF NotifyPeerJoined, TypeOK
      <3>5. CASE BroadcastJoin(c)
        BY <2>1, <3>5 DEF BroadcastJoin, Announce, TypeOK
      <3>2. CASE NotifyPeerLeft(c)
        BY <2>1, <3>2 DEF NotifyPeerLeft, Announce, TypeOK
      <3>3. CASE \E t \in Conn : WriteTo(c, t)
        BY <2>1, <3>3 DEF WriteTo, TypeOK
      <3>4. CASE Register(c) \/ Welcome(c) \/ WelcomeFails(c) \/ Remove(c)
        BY <2>1, <3>4 DEF Register, Welcome, WelcomeFails, Remove
      <3> QED
        BY <3>1, <3>2, <3>3, <3>4, <3>5 DEF Handler
    <2> QED
      BY <1>1, <1>4, <2>1 DEF BySaying, ByNode
  <1>7. ByWelcome'
    <2>1. ASSUME NEW k \in Conn, NEW x \in Device, welcome'[k][x] = "exit"
          PROVE  welcome[k][x] = "exit" \/ (node[x] # NoConn /\ flag[node[x]])
      <3>1. CASE Register(c)
        <4> DEFINE told == [y \in Device |-> IF y = DeviceOf[c] \/ node[y] = NoConn THEN "absent"
                                             ELSE KindOf(flag[node[y]])]
        <4>1. welcome' = [welcome EXCEPT ![c] = told]
          BY <3>1 DEF Register
        <4>2. told[x] = "exit" => node[x] # NoConn /\ flag[node[x]]
          BY Kinds DEF TypeOK
        <4> HIDE DEF told
        <4> QED
          BY <2>1, <4>1, <4>2 DEF TypeOK
      <3>2. CASE Welcome(c) \/ WelcomeFails(c)
        BY <2>1, <3>2 DEF Welcome, WelcomeFails, Nobody, TypeOK
      <3>3. CASE \/ NotifyPeerJoined(c) \/ BroadcastJoin(c) \/ NotifyPeerLeft(c) \/ Remove(c)
                 \/ \E t \in Conn : WriteTo(c, t)
        BY <2>1, <3>3 DEF NotifyPeerJoined, BroadcastJoin, NotifyPeerLeft, Remove, WriteTo
      <3> QED
        BY <3>1, <3>2, <3>3 DEF Handler
    <2>2. \A x \in Device : node[x] # NoConn => node[x] \in Conn /\ DeviceOf[node[x]] = x
      BY DEF TypeOK
    <2> QED
      BY <1>1, <1>4, <2>1, <2>2 DEF ByWelcome, ByNode
  <1>8. ByRegistry'
    <2>1. ASSUME NEW d \in Consumer, NEW x \in Device, peers'[d][x] = "exit"
          PROVE  x \in allowed
      <3>1. CASE Welcome(c)
        <4>1. peers' = peers \/ Upsert(DeviceOf[c], welcome[c])
          BY <3>1 DEF Welcome
        <4>2. peers[d][x] = "exit" \/ welcome[c][x] = "exit"
          BY <2>1, <4>1 DEF Upsert
        <4> QED
          BY <1>1, <4>2 DEF ByRegistry, ByWelcome
      <3>2. ASSUME NEW t \in Conn, WriteTo(c, t) PROVE x \in allowed
        <4> DEFINE told == [Nobody EXCEPT ![DeviceOf[c]] = say[c]]
        <4>1. \/ peers' = peers
              \/ Forget(DeviceOf[t], DeviceOf[c])
              \/ Upsert(DeviceOf[t], told)
          BY <3>2 DEF WriteTo
        <4>2. told[x] = "exit" => x = DeviceOf[c] /\ say[c] = "exit"
          BY DEF Nobody
        <4> HIDE DEF told
        <4>3. peers[d][x] = "exit" \/ told[x] = "exit"
          <5>1. ASSUME Forget(DeviceOf[t], DeviceOf[c]) PROVE peers[d][x] = "exit"
            BY <2>1, <5>1 DEF Forget, TypeOK
          <5>2. ASSUME Upsert(DeviceOf[t], told) PROVE peers[d][x] = "exit" \/ told[x] = "exit"
            BY <2>1, <5>2 DEF Upsert
          <5> QED
            BY <2>1, <4>1, <5>1, <5>2
        <4> QED
          BY <1>1, <4>2, <4>3 DEF ByRegistry, BySaying
      <3>3. CASE UNCHANGED peers
        BY <1>1, <2>1, <3>3 DEF ByRegistry
      <3>4. CASE \/ Register(c) \/ WelcomeFails(c) \/ NotifyPeerJoined(c) \/ BroadcastJoin(c)
                 \/ NotifyPeerLeft(c) \/ Remove(c)
        BY <3>3, <3>4 DEF Register, WelcomeFails, NotifyPeerJoined, BroadcastJoin,
                          NotifyPeerLeft, Remove, clients
      <3> QED
        BY <3>1, <3>2, <3>4 DEF Handler
    <2> QED
      BY <1>4, <2>1 DEF ByRegistry
  <1> QED
    BY <1>4, <1>5, <1>6, <1>7, <1>8 DEF ByStore, Authorised, ByNode, BySaying, ByWelcome, ByRegistry

LEMMA AuthorisedTraffic ==
  ASSUME TypeOK, Authorised, NEW d \in Consumer, Traffic(d)
  PROVE  Authorised'
  <1>1. ByRegistry /\ OnlyAllowedExits
    BY AuthorisedParts
  <1>2. UNCHANGED <<admin, hub, clients>>
    BY DEF Traffic, Match, Resolve, Relay
  <1>3. PICK p : Hold(d, p) /\ (p.step = "send" => p.to \in allowed)
    <2>1. CASE Match(d)
      <3>1. PICK v : Hold(d, [step |-> "via", via |-> v])
        BY <2>1 DEF Match
      <3> QED
        BY <3>1
    <2>2. CASE Resolve(d)
      <3>1. CASE Hold(d, NoPacket)
        BY <3>1 DEF NoPacket
      <3>2. CASE \E x \in Exits(d) : Hold(d, [step |-> "send", to |-> x])
        BY <1>1, <3>2 DEF Exits, ByRegistry
      <3> QED
        BY <2>2, <3>1, <3>2 DEF Resolve
    <2>3. CASE Relay(d)
      BY <2>3 DEF Relay, NoPacket
    <2> QED
      BY <2>1, <2>2, <2>3 DEF Traffic
  <1>4. OnlyAllowedExits'
    BY <1>1, <1>2, <1>3 DEF OnlyAllowedExits, Hold, TypeOK, admin
  <1> QED
    BY <1>2, <1>4 DEF Authorised, admin, hub, clients

LEMMA AuthorisedNext == ASSUME TypeOK, Authorised, Next PROVE Authorised'
  <1>1. ASSUME NEW c \in Conn, Connect(c) PROVE Authorised'
    BY <1>1 DEF Connect, Authorised, OnlyAllowedExits, admin
  <1>2. ASSUME NEW d \in Device, Disconnect(d) PROVE Authorised'
    <2>1. \A y \in Consumer : out'[y] \in {out[y], NoPacket}
      BY <1>2 DEF Disconnect, TypeOK
    <2>2. OnlyAllowedExits'
      BY <1>2, <2>1 DEF Disconnect, Authorised, OnlyAllowedExits, admin, NoPacket
    <2> QED
      BY <1>2, <2>2 DEF Disconnect, Authorised, admin, hub
  <1> QED
    BY <1>1, <1>2, AuthorisedAdminister, AuthorisedHandler, AuthorisedTraffic DEF Next

-----------------------------------------------------------------------------
(* What the clients know of the others.                                    *)

LEMMA HandlersAre ==
  ASSUME NEW y \in Device, NEW k \in Conn
  PROVE  /\ k \in Handlers(y) <=>
              DeviceOf[k] = y /\ (pc[k] \notin {"idle", "hello", "done"} \/ targets[k] # {})
         /\ k \in Handlers(y)' <=>
              DeviceOf[k] = y /\ (pc'[k] \notin {"idle", "hello", "done"} \/ targets'[k] # {})
  BY DEF Handlers

(* A step that changes neither what the hub knows of `y` nor what `d` has  *)
(* learned of it, and no handler of `y` in what it has to tell `d`.        *)
LEMMA FollowsKept ==
  ASSUME TypeOK, NEW d \in Device, NEW y \in Device, Follows(d, y),
         UNCHANGED <<at[d], node[d], node[y]>>,
         y \notin doubt'[d] => y \notin doubt[d],
         Learns(d, y)' = Learns(d, y), View(y)' = View(y),
         \A k \in Conn : DeviceOf[k] = y =>
           \/ /\ pc'[k] = pc[k]
              /\ at[d] \in targets[k] <=> at[d] \in targets'[k]
              /\ targets'[k] # {} => targets[k] # {}
              /\ at[d] \in targets'[k] \/ pc[k] = "joining" => say'[k] = say[k]
           \/ pc[k] = "registered" /\ pc'[k] = "welcomed" /\ targets'[k] = {}
           \/ k # node[y] /\ k \notin Handlers(y) /\ k \notin Handlers(y)'
  PROVE  Follows(d, y)'
  <1>1. SUFFICES ASSUME Tracked(d)', y \notin doubt'[d] PROVE Alone(y)' /\ Informed(d, y)'
    BY DEF Follows
  <1>2. Tracked(d) /\ Alone(y) /\ Informed(d, y)
    BY <1>1 DEF Follows, Tracked
  <1>3. Handlers(y)' \subseteq Handlers(y)
    BY HandlersAre DEF Handlers
  <1>4. CASE node[y] = NoConn
    <2>1. \A k \in Handlers(y) : k \in Conn /\ DeviceOf[k] = y /\ pc[k] \in {"removed", "done"}
      BY <1>2, <1>4 DEF Alone, Handlers
    <2>2. \A k \in Handlers(y)' : pc'[k] = pc[k]
      BY <1>3, <2>1
    <2>3. Alone(y)'
      BY <1>3, <1>4, <2>1, <2>2 DEF Alone
    <2>4. ASSUME NEW k \in Handlers(y), pc[k] = "removed" \/ at[d] \in targets[k]
          PROVE  k \in Handlers(y)' /\ (pc'[k] = "removed" \/ at'[d] \in targets'[k])
      <3>1. pc'[k] = pc[k] /\ (at[d] \in targets[k] <=> at[d] \in targets'[k])
        BY <2>1
      <3> QED
        BY <2>1, <2>4, <3>1, HandlersAre
    <2>5. Informed(d, y)'
      BY <1>2, <1>4, <2>4 DEF Informed
    <2> QED
      BY <2>3, <2>5
  <1>5. CASE node[y] # NoConn
    <2>1. node[y] \in Conn /\ DeviceOf[node[y]] = y
      BY <1>5 DEF TypeOK
    <2>2. Alone(y)'
      BY <1>2, <1>3, <1>5 DEF Alone
    <2>3. /\ pc'[node[y]] = "joining" =>
               pc[node[y]] = "joining" /\ say'[node[y]] = say[node[y]]
          /\ pc'[node[y]] \in {"data", "done"} =>
               /\ pc[node[y]] \in {"data", "done"}
               /\ at[d] \in targets[node[y]] <=> at[d] \in targets'[node[y]]
               /\ at[d] \in targets'[node[y]] => say'[node[y]] = say[node[y]]
      BY <2>1
    <2>4. Informed(d, y)'
      BY <1>2, <1>5, <2>3 DEF Informed
    <2> QED
      BY <2>2, <2>4
  <1> QED
    BY <1>4, <1>5

LEMMA FollowsUnchanged ==
  ASSUME UNCHANGED <<at, node, doubt, pc, targets, say, peers, welcome, flag>>,
         NEW d \in Device, NEW y \in Device, Follows(d, y)
  PROVE  Follows(d, y)'
  BY DEF Follows, Tracked, Alone, Informed, Learns, View, Handlers

LEMMA ViewsUpdate ==
  ASSUME TypeOK, NEW r \in Request, UpdateEgress(r),
         NEW d \in Consumer, NEW y \in Device, Follows(d, y)
  PROVE  Follows(d, y)'
  <1> DEFINE e == request[r].of
  <1>1. d \in Device /\ e \in Device
    BY EgressAssumption DEF Consumer, UpdateEgress, TypeOK, NoRequest
  <1>2. UNCHANGED <<at, node, pc, targets, say, peers, welcome>>
    BY DEF UpdateEgress, clients
  <1>3. CASE node[e] = NoConn
    BY <1>1, <1>2, <1>3, FollowsUnchanged DEF UpdateEgress
  <1>4. CASE node[e] # NoConn
    <2>1. flag' = [flag EXCEPT ![node[e]] = request[r].on] /\ doubt'[d] = doubt[d] \cup {e}
      BY <1>4 DEF UpdateEgress
    <2>2. CASE y = e
      BY <2>1, <2>2 DEF Follows
    <2>3. CASE y # e
      <3>1. View(y)' = View(y)
        <4>1. node[y] # NoConn => node[y] \in Conn /\ node[y] # node[e]
          BY <1>1, <1>4, <2>3 DEF TypeOK
        <4>2. node[y] # NoConn => flag'[node[y]] = flag[node[y]]
          BY <2>1, <4>1 DEF TypeOK
        <4> QED
          BY <1>2, <4>2 DEF View
      <3>2. Learns(d, y)' = Learns(d, y)
        BY <1>2 DEF Learns
      <3> QED
        BY <1>1, <1>2, <2>1, <3>1, <3>2, FollowsKept
    <2> QED
      BY <2>2, <2>3
  <1> QED
    BY <1>3, <1>4

LEMMA ViewsConnections ==
  ASSUME TypeOK, Positions, NEW d \in Consumer, NEW y \in Device, Follows(d, y)
  PROVE  /\ \A c \in Conn : Connect(c) => Follows(d, y)'
         /\ \A e \in Device : Disconnect(e) => Follows(d, y)'
  <1>1. d \in Device
    BY EgressAssumption DEF Consumer
  <1>2. ASSUME NEW c \in Conn, Connect(c) PROVE Follows(d, y)'
    <2>1. /\ pc[c] \in {"idle", "done"} /\ targets[c] = {}
          /\ \A x \in Device : node[x] # c
      BY <1>2, UnusedIs DEF Connect
    <2>2. /\ at' = [at EXCEPT ![DeviceOf[c]] = c] /\ at[DeviceOf[c]] = NoConn
          /\ pc' = [pc EXCEPT ![c] = "hello"]
          /\ UNCHANGED <<flag, node, welcome, say, targets, peers, doubt>>
      BY <1>2 DEF Connect
    <2>3. CASE d = DeviceOf[c]
      BY <1>1, <2>1, <2>2, <2>3 DEF Follows, Tracked, TypeOK
    <2>4. CASE d # DeviceOf[c]
      <3>1. at'[d] = at[d] /\ at[d] # c
        BY <1>1, <2>2, <2>4, EgressAssumption DEF TypeOK
      <3>2. pc'[c] = "hello" /\ \A k \in Conn : k # c => pc'[k] = pc[k]
        BY <2>2 DEF TypeOK
      <3>3. c # node[y] /\ c \notin Handlers(y) /\ c \notin Handlers(y)'
        BY <2>1, <2>2, <3>2 DEF Handlers
      <3>4. CASE at[d] = NoConn
        BY <2>2, <3>1, <3>4 DEF Follows, Tracked
      <3>5. CASE at[d] # NoConn
        <4>1. pc'[at[d]] = pc[at[d]]
          BY <1>1, <3>1, <3>2, <3>5 DEF TypeOK
        <4>2. Learns(d, y)' = Learns(d, y)
          BY <2>2, <3>1, <4>1 DEF Learns
        <4>3. View(y)' = View(y)
          BY <2>2 DEF View
        <4> QED
          BY <1>1, <2>2, <3>1, <3>2, <3>3, <4>2, <4>3, FollowsKept
      <3> QED
        BY <3>4, <3>5
    <2> QED
      BY <2>3, <2>4
  <1>3. ASSUME NEW e \in Device, Disconnect(e) PROVE Follows(d, y)'
    <2>1. at' = [at EXCEPT ![e] = NoConn] /\ UNCHANGED <<hub, peers, doubt>>
      BY <1>3 DEF Disconnect, Hangup
    <2>2. CASE d = e
      BY <1>1, <2>1, <2>2 DEF Follows, Tracked, TypeOK
    <2>3. CASE d # e
      <3>1. at'[d] = at[d]
        BY <1>1, <2>1, <2>3 DEF TypeOK
      <3>2. Learns(d, y)' = Learns(d, y) /\ View(y)' = View(y)
        BY <2>1, <3>1 DEF Learns, View, hub
      <3> QED
        BY <1>1, <2>1, <3>1, <3>2, FollowsKept DEF hub
    <2> QED
      BY <2>2, <2>3
  <1> QED
    BY <1>2, <1>3

(* A client that registers knows of each device that is not in doubt what  *)
(* its WELCOME will say; the others have yet to be told of a new node.     *)
LEMMA ViewsRegister ==
  ASSUME TypeOK, Positions, NEW c \in Conn, Register(c),
         NEW d \in Consumer, NEW y \in Device \ {d}, Follows(d, y)
  PROVE  Follows(d, y)'
  <1> DEFINE e == DeviceOf[c]
  <1>1. d \in Device /\ e \in Device /\ DeviceOf \in [Conn -> Device] /\ NoConn \notin Conn
    BY EgressAssumption DEF Consumer
  <1>2. /\ pc[c] = "hello" /\ pc'[c] = "registered"
        /\ \A k \in Conn : k # c => pc'[k] = pc[k]
        /\ UNCHANGED <<targets, say, at, running, peers>>
    BY GotoTypes DEF Register, clients
  <1>3. node'[e] = c /\ \A x \in Device \ {e} : node'[x] = node[x]
    BY <1>1 DEF Register, TypeOK
  <1>4. \A x \in Device \ {e} : View(x)' = View(x)
    <2>1. ASSUME NEW x \in Device \ {e}, node[x] # NoConn PROVE flag'[node[x]] = flag[node[x]]
      <3>1. node[x] \in Conn /\ node[x] # c
        BY <2>1 DEF TypeOK
      <3> QED
        BY <3>1 DEF Register, TypeOK
    <2> QED
      BY <1>3, <2>1 DEF View
  <1>5. \A x \in Device \ {e} : Handlers(x)' = Handlers(x)
    BY <1>2 DEF Handlers
  <1>6. CASE d = e /\ ~Uses(c)
    BY <1>2, <1>3, <1>6 DEF Follows, Tracked, Uses
  <1>7. CASE d = e /\ Uses(c)
    <2>1. at'[d] = c /\ node'[y] = node[y] /\ y # e /\ c \in Conn
      BY <1>2, <1>3, <1>7 DEF Uses
    <2>2. welcome'[c][y] = View(y)
      <3>1. welcome'[c][y] = IF node[y] = NoConn THEN "absent" ELSE KindOf(flag[node[y]])
        BY <2>1 DEF Register, TypeOK
      <3> QED
        BY <3>1 DEF View
    <2>3. SUFFICES ASSUME y \notin doubt'[d] PROVE Alone(y)' /\ Informed(d, y)'
      BY DEF Follows
    <2>4. /\ node[y] = NoConn => peers[d][y] = "absent"
          /\ Handlers(y) \subseteq {node[y]}
          /\ node[y] # NoConn /\ pc[node[y]] = "joining" => say[node[y]] = View(y)
      BY <1>1, <1>7, <2>3, HandlersAre DEF Register, View
    <2>5. Alone(y)'
      <3>1. Handlers(y) \subseteq Conn
        BY DEF Handlers
      <3> QED
        BY <1>1, <1>5, <2>1, <2>4, <3>1 DEF Alone
    <2>6. CASE node[y] = NoConn
      <3>1. Learns(d, y)' = "absent"
        BY <1>2, <2>1, <2>2, <2>4, <2>6 DEF Learns, View
      <3> QED
        BY <2>1, <2>5, <2>6, <3>1 DEF Informed
    <2>7. CASE node[y] # NoConn
      <3>1. node[y] \in Conn /\ c \notin targets[node[y]] /\ node[y] # c
        BY <1>2, <2>1, <2>7 DEF TypeOK, Positions
      <3>2. View(y) # "absent" /\ View(y)' = View(y)
        BY <1>4, <2>1, <2>7, <3>1, Kinds DEF View, TypeOK
      <3>3. Learns(d, y)' = View(y)'
        BY <1>2, <2>1, <2>2, <3>2 DEF Learns
      <3> QED
        BY <1>2, <2>1, <2>4, <2>5, <2>7, <3>1, <3>2, <3>3 DEF Informed
    <2> QED
      BY <2>6, <2>7
  <1>8. CASE d # e /\ y = e
    <2>1. SUFFICES ASSUME y \notin doubt'[d] PROVE Alone(y)' /\ Informed(d, y)'
      BY DEF Follows
    <2>2. Handlers(y) = {}
      BY <1>8, <2>1 DEF Register
    <2>3. Handlers(y)' \subseteq {c}
      BY <1>2, <2>2, HandlersAre DEF Handlers
    <2> QED
      BY <1>1, <1>2, <1>3, <1>8, <2>3 DEF Alone, Informed
  <1>9. CASE d # e /\ y # e
    <2>1. at[d] # c /\ node'[d] = node[d] /\ node'[y] = node[y]
      BY <1>1, <1>3, <1>9 DEF TypeOK
    <2>2. doubt'[d] = IF Handlers(e) # {} THEN doubt[d] \cup {e} ELSE doubt[d] \ {e}
      BY <1>9 DEF Register
    <2>3. CASE at[d] = NoConn
      BY <1>2, <2>3 DEF Follows, Tracked
    <2>4. CASE at[d] # NoConn
      <3>1. at[d] \in Conn /\ pc'[at[d]] = pc[at[d]] /\ welcome'[at[d]] = welcome[at[d]]
        BY <1>1, <1>2, <2>1, <2>4 DEF Register, TypeOK
      <3>2. Learns(d, y)' = Learns(d, y)
        BY <1>2, <3>1 DEF Learns
      <3>3. \A k \in Conn : DeviceOf[k] = y => k # c
        BY <1>9
      <3> QED
        BY <1>1, <1>2, <1>4, <1>9, <2>1, <2>2, <3>2, <3>3, FollowsKept
    <2> QED
      BY <2>3, <2>4
  <1> QED
    BY <1>6, <1>7, <1>8, <1>9

(* The WELCOME comes, or fails because the client is gone.                 *)
LEMMA ViewsWelcome ==
  ASSUME TypeOK, Positions, NEW c \in Conn, Welcome(c) \/ WelcomeFails(c),
         NEW d \in Consumer, NEW y \in Device \ {d}, Follows(d, y)
  PROVE  Follows(d, y)'
  <1>1. d \in Device /\ DeviceOf \in [Conn -> Device] /\ NoConn \notin Conn
    BY EgressAssumption DEF Consumer
  <1>2. /\ pc[c] = "registered" /\ pc'[c] \in {"welcomed", "done"}
        /\ \A k \in Conn : k # c => pc'[k] = pc[k]
        /\ UNCHANGED <<flag, node, targets, say, at>>
        /\ welcome' = [welcome EXCEPT ![c] = Nobody]
        /\ doubt[d] \subseteq doubt'[d]
    <2>1. CASE Welcome(c)
      BY <2>1, GotoTypes DEF Welcome
    <2>2. CASE WelcomeFails(c)
      <3>1. \/ doubt' = doubt
            \/ doubt' = [z \in Consumer |-> doubt[z] \cup {DeviceOf[c]}]
        BY <2>2 DEF WelcomeFails
      <3> QED
        BY <2>2, <3>1, GotoTypes DEF WelcomeFails, clients
    <2> QED
      BY <2>1, <2>2
  <1>3. targets[c] = {}
    BY <1>2 DEF Positions
  <1>4. View(y)' = View(y)
    BY <1>2 DEF View
  <1>5. CASE at[d] = NoConn
    BY <1>2, <1>5 DEF Follows, Tracked
  <1>6. CASE at[d] # NoConn
    <2>1. at[d] \in Conn
      BY <1>1, <1>6 DEF TypeOK
    <2>2. Learns(d, y)' = Learns(d, y)
      <3>1. CASE at[d] = c
        <4>1. DeviceOf[c] = d /\ Uses(c)
          BY <1>1, <1>6, <3>1 DEF TypeOK, Uses
        <4>2. Upsert(d, welcome[c]) /\ pc'[c] = "welcomed"
          BY <4>1, GotoTypes DEF Welcome, WelcomeFails
        <4>3. peers'[d][y] = IF welcome[c][y] = "absent" THEN peers[d][y] ELSE welcome[c][y]
          BY <4>2 DEF Upsert
        <4> QED
          BY <1>2, <3>1, <4>2, <4>3 DEF Learns
      <3>2. CASE at[d] # c
        <4>1. pc'[at[d]] = pc[at[d]] /\ welcome'[at[d]] = welcome[at[d]]
          BY <1>2, <2>1, <3>2 DEF TypeOK
        <4>2. peers'[d] = peers[d]
          <5>1. Uses(c) => DeviceOf[c] # d
            BY <3>2 DEF Uses
          <5>2. peers' = peers \/ (Uses(c) /\ Upsert(DeviceOf[c], welcome[c]))
            BY DEF Welcome, WelcomeFails, clients
          <5> QED
            BY <5>1, <5>2 DEF Upsert
        <4> QED
          BY <1>2, <4>1, <4>2 DEF Learns
      <3> QED
        BY <3>1, <3>2
    <2>3. CASE DeviceOf[c] # y \/ Welcome(c)
      <3>1. DeviceOf[c] = y => pc'[c] = "welcomed"
        BY <2>3, GotoTypes DEF Welcome
      <3>2. \A k \in Conn : k # c => pc'[k] = pc[k]
        BY <1>2
      <3> QED
        BY <1>1, <1>2, <1>3, <1>4, <2>2, <3>1, <3>2, FollowsKept
    <2>4. CASE DeviceOf[c] = y /\ WelcomeFails(c)
      <3>1. c \in Handlers(y)
        BY <1>2, <2>4 DEF Handlers
      <3>2. CASE node[y] = c
        <4>1. y \in doubt'[d]
          BY <2>4, <3>2 DEF WelcomeFails
        <4> QED
          BY <4>1 DEF Follows
      <3>3. CASE node[y] # c
        <4>1. ~Alone(y)
          BY <1>2, <3>1, <3>3 DEF Alone
        <4> QED
          BY <1>2, <4>1 DEF Follows, Tracked
      <3> QED
        BY <3>2, <3>3
    <2> QED
      BY <2>3, <2>4
  <1> QED
    BY <1>5, <1>6

(* The handler of a listed node reads what its broadcast is going to say.  *)
LEMMA ViewsJoining ==
  ASSUME TypeOK, Positions, NEW c \in Conn, NotifyPeerJoined(c),
         NEW d \in Consumer, NEW y \in Device \ {d}, Follows(d, y)
  PROVE  Follows(d, y)'
  <1>1. d \in Device /\ DeviceOf \in [Conn -> Device] /\ NoConn \notin Conn
    BY EgressAssumption DEF Consumer
  <1>2. /\ pc[c] = "welcomed" /\ pc'[c] = "joining"
        /\ \A k \in Conn : k # c => pc'[k] = pc[k] /\ say'[k] = say[k]
        /\ UNCHANGED <<flag, node, welcome, at, peers, doubt, targets>>
        /\ say'[c] = KindOf(flag[c])
    BY GotoTypes DEF NotifyPeerJoined, TypeOK, clients
  <1>3. View(y)' = View(y)
    BY <1>2 DEF View
  <1>4. SUFFICES ASSUME Tracked(d), y \notin doubt[d], Alone(y), Informed(d, y)
                 PROVE  Follows(d, y)'
    BY <1>2 DEF Follows, Tracked
  <1>5. at[d] \in Conn /\ at[d] = node[d]
    BY <1>1, <1>4 DEF Tracked, TypeOK
  <1>6. Learns(d, y)' = Learns(d, y)
    BY <1>2, <1>5 DEF Learns
  <1>7. CASE y = DeviceOf[c]
    <2>1. c \in Handlers(y)
      BY <1>2, <1>7 DEF Handlers
    <2>2. node[y] = c /\ Handlers(y) \subseteq {c}
      BY <1>2, <1>4, <2>1 DEF Alone
    <2>3. Handlers(y)' \subseteq {c}
      BY <1>2, <2>2, HandlersAre DEF Handlers
    <2>4. say'[c] = View(y)'
      BY <1>1, <1>2, <1>3, <2>2 DEF View
    <2> QED
      BY <1>1, <1>2, <2>2, <2>3, <2>4 DEF Follows, Alone, Informed
  <1>8. CASE y # DeviceOf[c]
    <2>1. \A k \in Conn : DeviceOf[k] = y => k # c
      BY <1>8
    <2> QED
      BY <1>1, <1>2, <1>3, <1>4, <1>6, <2>1, FollowsKept
  <1> QED
    BY <1>7, <1>8

(* The handler of a listed node has told nobody yet, and now tells all     *)
(* what it read, which is still so unless the node is in doubt.            *)
LEMMA ViewsJoined ==
  ASSUME TypeOK, Positions, NEW c \in Conn, BroadcastJoin(c),
         NEW d \in Consumer, NEW y \in Device \ {d}, Follows(d, y)
  PROVE  Follows(d, y)'
  <1> DEFINE e == DeviceOf[c]
  <1>1. d \in Device /\ e \in Device /\ DeviceOf \in [Conn -> Device] /\ NoConn \notin Conn
    BY EgressAssumption DEF Consumer
  <1>2. /\ pc[c] = "joining" /\ pc'[c] = "data"
        /\ \A k \in Conn : k # c =>
             pc'[k] = pc[k] /\ targets'[k] = targets[k] /\ say'[k] = say[k]
        /\ UNCHANGED <<flag, node, welcome, at, peers, doubt>>
        /\ targets'[c] = Others(e)
        /\ say'[c] = IF Others(e) = {} THEN "absent" ELSE say[c]
    BY GotoTypes DEF BroadcastJoin, Announce, TypeOK, clients
  <1>3. View(y)' = View(y)
    BY <1>2 DEF View
  <1>4. SUFFICES ASSUME Tracked(d), y \notin doubt[d], Alone(y), Informed(d, y)
                 PROVE  Follows(d, y)'
    BY <1>2 DEF Follows, Tracked
  <1>5. at[d] \in Conn /\ at[d] = node[d]
    BY <1>1, <1>4 DEF Tracked, TypeOK
  <1>6. Learns(d, y)' = Learns(d, y)
    BY <1>2, <1>5 DEF Learns
  <1>7. CASE y = e
    <2>1. c \in Handlers(y)
      BY <1>2, <1>7 DEF Handlers
    <2>2. node[y] = c /\ Handlers(y) \subseteq {c}
      BY <1>2, <1>4, <2>1 DEF Alone
    <2>3. Handlers(y)' \subseteq {c}
      BY <1>2, <2>2, HandlersAre DEF Handlers
    <2>4. at[d] \in Others(e)
      BY <1>1, <1>5, <1>7, OthersAre
    <2>5. say'[c] = View(y)'
      BY <1>1, <1>2, <1>3, <1>4, <2>2, <2>4 DEF Informed
    <2> QED
      BY <1>1, <1>2, <2>2, <2>3, <2>4, <2>5 DEF Follows, Alone, Informed
  <1>8. CASE y # e
    <2>1. \A k \in Conn : DeviceOf[k] = y => k # c
      BY <1>8
    <2> QED
      BY <1>1, <1>2, <1>3, <1>4, <1>6, <2>1, FollowsKept
  <1> QED
    BY <1>7, <1>8

(* The removed node's handler has still to tell that the device left.      *)
LEMMA ViewsRemove ==
  ASSUME TypeOK, Positions, NEW c \in Conn, Remove(c),
         NEW d \in Consumer, NEW y \in Device \ {d}, Follows(d, y)
  PROVE  Follows(d, y)'
  <1> DEFINE e == DeviceOf[c]
  <1>1. d \in Device /\ e \in Device /\ DeviceOf \in [Conn -> Device] /\ NoConn \notin Conn
    BY EgressAssumption DEF Consumer
  <1>2. /\ pc[c] = "data" /\ pc'[c] = "removed" /\ ~Uses(c)
        /\ \A k \in Conn : k # c => pc'[k] = pc[k]
        /\ UNCHANGED <<flag, targets, say, welcome, at, peers, doubt>>
        /\ node' = IF node[e] = c THEN [node EXCEPT ![e] = NoConn] ELSE node
    BY GotoTypes DEF Remove, clients
  <1>3. SUFFICES ASSUME Tracked(d)', y \notin doubt[d] PROVE Follows(d, y)'
    BY <1>2 DEF Follows
  <1>4. /\ at[d] \in Conn /\ at[d] # c
        /\ node'[d] = node[d] /\ node[d] = at[d] /\ at' = at
    <2>1. at[d] \in Conn /\ at'[d] = at[d] /\ node'[d] = at[d]
      BY <1>1, <1>2, <1>3 DEF Tracked, TypeOK
    <2>2. at[d] # c
      BY <1>1, <1>2, <2>1 DEF Uses, TypeOK
    <2>3. node'[d] = node[d]
      BY <1>1, <1>2, <2>1 DEF TypeOK
    <2> QED
      BY <1>2, <2>1, <2>2, <2>3
  <1>5. Alone(y) /\ Informed(d, y)
    BY <1>1, <1>3, <1>4 DEF Follows, Tracked
  <1>6. CASE y = e
    <2>1. c \in Handlers(y)
      BY <1>2, <1>6 DEF Handlers
    <2>2. node[y] = c /\ Handlers(y) \subseteq {c}
      BY <1>2, <1>5, <2>1 DEF Alone
    <2>3. node'[y] = NoConn
      BY <1>2, <1>6, <2>2 DEF TypeOK
    <2>4. Handlers(y)' \subseteq {c} /\ c \in Handlers(y)'
      BY <1>2, <1>6, <2>2, HandlersAre DEF Handlers
    <2> QED
      BY <1>2, <2>3, <2>4 DEF Follows, Alone, Informed
  <1>7. CASE y # e
    <2>1. node'[y] = node[y] /\ \A k \in Conn : DeviceOf[k] = y => k # c
      BY <1>2, <1>7 DEF TypeOK
    <2>2. View(y)' = View(y)
      BY <1>2, <2>1 DEF View
    <2>3. Learns(d, y)' = Learns(d, y)
      BY <1>2, <1>4 DEF Learns
    <2> QED
      BY <1>1, <1>2, <1>4, <2>1, <2>2, <2>3, FollowsKept
  <1> QED
    BY <1>6, <1>7

LEMMA ViewsLeft ==
  ASSUME TypeOK, Positions, NEW c \in Conn, NotifyPeerLeft(c),
         NEW d \in Consumer, NEW y \in Device \ {d}, Follows(d, y)
  PROVE  Follows(d, y)'
  <1> DEFINE e == DeviceOf[c]
  <1>1. d \in Device /\ e \in Device /\ DeviceOf \in [Conn -> Device] /\ NoConn \notin Conn
    BY EgressAssumption DEF Consumer
  <1>2. /\ pc[c] = "removed" /\ pc'[c] = "done"
        /\ \A k \in Conn : k # c =>
             pc'[k] = pc[k] /\ targets'[k] = targets[k] /\ say'[k] = say[k]
        /\ UNCHANGED <<node, welcome, at, peers, doubt>>
        /\ targets'[c] = Others(e)
        /\ \A k \in Conn : k # c => flag'[k] = flag[k]
    BY GotoTypes DEF NotifyPeerLeft, Announce, TypeOK, clients
  <1>3. SUFFICES ASSUME Tracked(d), y \notin doubt[d], Alone(y), Informed(d, y)
                 PROVE  Follows(d, y)'
    BY <1>2 DEF Follows, Tracked
  <1>4. at[d] \in Conn /\ at[d] = node[d]
    BY <1>1, <1>3 DEF Tracked, TypeOK
  <1>5. \A x \in Device : node[x] # c
    BY <1>1, <1>2 DEF Positions
  <1>6. CASE y = e
    <2>1. c \in Handlers(y)
      BY <1>2, <1>6 DEF Handlers
    <2>2. node[y] = NoConn /\ \A k \in Handlers(y) : pc[k] \in {"removed", "done"}
      BY <1>3, <1>5, <2>1 DEF Alone
    <2>3. \A k \in Handlers(y)' : pc'[k] \in {"removed", "done"}
      <3>1. ASSUME NEW k \in Handlers(y)', k # c PROVE pc'[k] \in {"removed", "done"}
        <4>1. k \in Conn /\ k \in Handlers(y) /\ pc'[k] = pc[k]
          BY <1>2, <3>1 DEF Handlers
        <4> QED
          BY <2>2, <4>1
      <3> QED
        BY <1>2, <3>1
    <2>4. at[d] \in Others(e)
      BY <1>1, <1>4, <1>6, OthersAre
    <2>5. c \in Handlers(y)'
      BY <1>2, <1>6, <2>4 DEF Handlers
    <2> QED
      BY <1>2, <2>2, <2>3, <2>4, <2>5 DEF Follows, Alone, Informed
  <1>7. CASE y # e
    <2>1. \A k \in Conn : DeviceOf[k] = y => k # c
      BY <1>7
    <2>2. View(y)' = View(y)
      BY <1>2, <1>5 DEF View, TypeOK
    <2>3. Learns(d, y)' = Learns(d, y)
      BY <1>2, <1>4 DEF Learns
    <2> QED
      BY <1>1, <1>2, <1>3, <2>1, <2>2, <2>3, FollowsKept
  <1> QED
    BY <1>6, <1>7

(* A client that runs takes what it is told, and that is what the hub      *)
(* knows; one that waits for its WELCOME hangs up.                         *)
LEMMA ViewsWrite ==
  ASSUME TypeOK, Positions, NEW c \in Conn, NEW t \in Conn, WriteTo(c, t),
         NEW d \in Consumer, NEW y \in Device \ {d}, Follows(d, y)
  PROVE  Follows(d, y)'
  <1> DEFINE e == DeviceOf[c]
  <1>1. /\ d \in Device /\ e \in Device /\ DeviceOf[t] \in Device
        /\ DeviceOf \in [Conn -> Device] /\ NoConn \notin Conn
    BY EgressAssumption DEF Consumer
  <1>2. /\ t \in targets[c]
        /\ targets'[c] = targets[c] \ {t}
        /\ say'[c] = IF targets[c] = {t} THEN "absent" ELSE say[c]
        /\ \A k \in Conn : k # c => targets'[k] = targets[k] /\ say'[k] = say[k]
        /\ UNCHANGED <<pc, flag, node, welcome, doubt>>
    BY DEF WriteTo, TypeOK
  <1>3. View(y)' = View(y)
    BY <1>2 DEF View
  <1>4. CASE at[d] # t
    <2>1. at'[d] = at[d] /\ peers'[d] = peers[d]
      <3>1. Uses(t) => DeviceOf[t] # d
        BY <1>4 DEF Uses
      <3>2. at' = at \/ (Uses(t) /\ at' = [at EXCEPT ![DeviceOf[t]] = NoConn])
        BY DEF WriteTo, Hangup
      <3>3. \/ peers' = peers
            \/ Uses(t) /\ Forget(DeviceOf[t], e)
            \/ Uses(t) /\ Upsert(DeviceOf[t], [Nobody EXCEPT ![e] = say[c]])
        BY DEF WriteTo
      <3> QED
        BY <1>1, <3>1, <3>2, <3>3 DEF TypeOK, Forget, Upsert
    <2>2. Learns(d, y)' = Learns(d, y)
      BY <1>2, <2>1 DEF Learns
    <2>3. pc[c] # "joining"
      BY <1>2 DEF Positions
    <2> QED
      BY <1>1, <1>2, <1>3, <1>4, <2>1, <2>2, <2>3, FollowsKept
  <1>5. CASE at[d] = t
    <2>1. DeviceOf[t] = d /\ Uses(t)
      BY <1>1, <1>5 DEF TypeOK, Uses
    <2>2. CASE d \notin running
      BY <1>1, <2>1, <2>2 DEF WriteTo, Hangup, Follows, Tracked, TypeOK
    <2>3. CASE d \in running
      <3>1. /\ at' = at
            /\ \/ say[c] = "absent" /\ Forget(d, e)
               \/ say[c] # "absent" /\ Upsert(d, [Nobody EXCEPT ![e] = say[c]])
        BY <2>1, <2>3 DEF WriteTo
      <3>2. peers'[d][y] = IF y = e THEN say[c] ELSE peers[d][y]
        <4>1. ASSUME Forget(d, e), say[c] = "absent"
              PROVE  peers'[d][y] = IF y = e THEN say[c] ELSE peers[d][y]
          BY <1>1, <4>1 DEF Forget, TypeOK
        <4>2. ASSUME Upsert(d, [Nobody EXCEPT ![e] = say[c]]), say[c] # "absent"
              PROVE  peers'[d][y] = IF y = e THEN say[c] ELSE peers[d][y]
          <5>1. [Nobody EXCEPT ![e] = say[c]][y] = IF y = e THEN say[c] ELSE "absent"
            BY <1>1 DEF Nobody
          <5> QED
            BY <4>2, <5>1 DEF Upsert
        <4> QED
          BY <3>1, <4>1, <4>2
      <3>3. Learns(d, y) = peers[d][y] /\ Learns(d, y)' = peers'[d][y]
        <4>1. pc[t] # "registered"
          BY <1>1, <1>5, <2>3 DEF Positions
        <4> QED
          BY <1>2, <1>5, <3>1, <4>1 DEF Learns
      <3>4. CASE y # e
        <4>1. \A k \in Conn : DeviceOf[k] = y => k # c
          BY <3>4
        <4>2. Learns(d, y)' = Learns(d, y) /\ at'[d] = at[d]
          BY <3>1, <3>2, <3>3, <3>4
        <4> QED
          BY <1>1, <1>2, <1>3, <4>1, <4>2, FollowsKept
      <3>5. CASE y = e
        <4>1. SUFFICES ASSUME Tracked(d), y \notin doubt[d], Alone(y), Informed(d, y)
                       PROVE  Alone(y)' /\ Informed(d, y)'
          BY <1>2, <3>1 DEF Follows, Tracked
        <4>2. c \in Handlers(y)
          BY <1>2, <3>5 DEF Handlers
        <4>3. Handlers(y)' \subseteq Handlers(y)
          BY <1>2, HandlersAre DEF Handlers
        <4>4. Alone(y)'
          BY <1>2, <4>1, <4>3 DEF Alone
        <4>5. CASE node[y] = NoConn
          <5>1. pc[c] \in {"removed", "done"} /\ targets[c] # {}
            BY <1>2, <4>1, <4>2, <4>5 DEF Alone
          <5>2. say[c] = "absent"
            BY <5>1 DEF Positions
          <5> QED
            BY <1>2, <3>2, <3>3, <3>5, <4>4, <4>5, <5>2 DEF Informed
        <4>6. CASE node[y] # NoConn
          <5>1. node[y] = c
            BY <4>1, <4>2, <4>6 DEF Alone
          <5>2. say[c] = View(y) /\ pc[c] = "data"
            <6>1. pc[c] = "data"
              BY <1>2, <4>6, <5>1 DEF Positions
            <6> QED
              BY <1>2, <1>5, <4>1, <4>6, <5>1, <6>1 DEF Informed
          <5> QED
            BY <1>2, <1>3, <1>5, <3>1, <3>2, <3>3, <3>5, <4>4, <4>6, <5>1, <5>2 DEF Informed
        <4> QED
          BY <4>5, <4>6
      <3> QED
        BY <3>4, <3>5
    <2> QED
      BY <2>2, <2>3
  <1> QED
    BY <1>4, <1>5

LEMMA ViewsNext == ASSUME TypeOK, Positions, Views, Next PROVE Views'
  <1> SUFFICES ASSUME NEW d \in Consumer, NEW y \in Device \ {d} PROVE Follows(d, y)'
    BY DEF Views
  <1>1. d \in Device /\ Follows(d, y)
    BY EgressAssumption DEF Views, Consumer
  <1>2. ASSUME NEW r \in Request, Administer(r) PROVE Follows(d, y)'
    <2>1. CASE UpdateEgress(r)
      BY <1>1, <2>1, ViewsUpdate
    <2>2. CASE \E x \in Switched, b \in BOOLEAN : Switch(r, x, b)
      BY <1>1, <2>2, FollowsUnchanged DEF Switch, hub, clients
    <2> QED
      BY <1>2, <2>1, <2>2 DEF Administer, SetDeviceEgress, SetDeviceEgressFails
  <1>3. ASSUME NEW c \in Conn, Connect(c) \/ Handler(c) PROVE Follows(d, y)'
    BY <1>1, <1>3, ViewsConnections, ViewsRegister, ViewsWelcome, ViewsJoining, ViewsJoined, ViewsWrite,
       ViewsRemove, ViewsLeft DEF Handler
  <1>4. ASSUME NEW e \in Device, Disconnect(e) PROVE Follows(d, y)'
    BY <1>1, <1>4, ViewsConnections
  <1>5. ASSUME NEW e \in Consumer, Traffic(e) PROVE Follows(d, y)'
    BY <1>1, <1>5, FollowsUnchanged DEF Traffic, Match, Resolve, Relay, hub, clients
  <1> QED
    BY <1>2, <1>3, <1>4, <1>5 DEF Next

-----------------------------------------------------------------------------

(* Register, the broadcasts, the admin API's switch, the clients and their *)
(* packets all keep the invariant that the properties below follow from.   *)
THEOREM EgressInvariant == Spec => []IInv
  <1>1. IInv /\ [Next]_vars => IInv'
    <2> SUFFICES ASSUME IInv, [Next]_vars PROVE IInv'
      OBVIOUS
    <2>1. TypeOK /\ Positions /\ Ordered /\ StoreDecides /\ Authorised /\ Views
      BY DEF IInv
    <2>2. CASE Next
      BY <2>1, <2>2, TypesNext, PositionsNext, SwitchNext, AuthorisedNext, ViewsNext DEF IInv
    <2>3. CASE UNCHANGED vars
      <3>1. TypeOK' /\ Positions'
        BY <2>1, <2>3 DEF vars, TypeOK, Positions
      <3>2. Ordered' /\ StoreDecides'
        BY <2>1, <2>3 DEF vars, Ordered, StoreDecides, InFlight, Granted
      <3>3. Authorised'
        BY <2>1, <2>3 DEF vars, Authorised, OnlyAllowedExits
      <3>4. Views'
        <4>1. Consumer \subseteq Device
          BY EgressAssumption DEF Consumer
        <4> QED
          BY <2>1, <2>3, <4>1, FollowsUnchanged DEF vars, Views
      <3> QED
        BY <3>1, <3>2, <3>3, <3>4 DEF IInv
    <2> QED
      BY <2>2, <2>3
  <1> QED
    BY <1>1, InitIInv, PTL DEF Spec

(* Every reachable state is of the stated shape, and a client that runs    *)
(* has a connection that handleConn has taken up.                          *)
THEOREM TypeCorrect == Spec => []TypeOK
  <1>1. IInv => TypeOK
    BY DEF IInv
  <1> QED
    BY <1>1, EgressInvariant, PTL

(* hub.go:144: the store has authority over the switch of a node, however  *)
(* registrations and requests of the admin API interleave, until requests  *)
(* overlap or a save fails, and again from the next registration or        *)
(* request on.                                                             *)
THEOREM StoreDecidesCorrect == Spec => []StoreDecides
  <1>1. IInv => StoreDecides
    BY DEF IInv
  <1> QED
    BY <1>1, EgressInvariant, PTL

(* client.go:277: a captured packet leaves only in a shell for a device    *)
(* that an administrator has allowed at some time.                         *)
THEOREM OnlyAllowedExitsCorrect == Spec => []OnlyAllowedExits
  <1>1. IInv => OnlyAllowedExits
    BY DEF IInv, Authorised
  <1> QED
    BY <1>1, EgressInvariant, PTL

(* peers.go:10: but for the four doubts that ViewFresh names, a connected  *)
(* client knows of a device whose handlers have said all what the hub      *)
(* knows, for any devices, connections and reconnects.                     *)
THEOREM ViewFreshCorrect == Spec => []ViewFresh
  <1>1. IInv => ViewFresh
    <2> SUFFICES ASSUME IInv, NEW d \in Consumer, NEW y \in Device \ {d},
                        Reachable(d), Settled(y), y \notin doubt[d]
                 PROVE  peers[d][y] = IF node[y] = NoConn THEN "absent"
                                      ELSE KindOf(flag[node[y]])
      BY DEF ViewFresh
    <2>1. d \in Device
      BY EgressAssumption DEF Consumer
    <2>2. TypeOK /\ Follows(d, y)
      BY DEF IInv, Views
    <2>3. Tracked(d) /\ Learns(d, y) = peers[d][y]
      BY <2>1, <2>2 DEF Reachable, Tracked, Learns, TypeOK
    <2>4. Informed(d, y)
      BY <2>2, <2>3 DEF Follows
    <2>5. CASE node[y] = NoConn
      BY <2>3, <2>4, <2>5 DEF Informed, Handlers, Settled
    <2>6. CASE node[y] # NoConn
      <3>1. node[y] \in Conn /\ DeviceOf[node[y]] = y
        BY <2>2, <2>6 DEF TypeOK
      <3> QED
        BY <2>3, <2>4, <2>6, <3>1 DEF Informed, Settled, View
    <2> QED
      BY <2>5, <2>6
  <1> QED
    BY <1>1, EgressInvariant, PTL
=============================================================================
