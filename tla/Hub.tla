-------------------------------- MODULE Hub --------------------------------
(***************************************************************************)
(* The server's directory of online nodes: internal/server/hub.go with     *)
(* the connection handler of internal/server/server.go that drives it and  *)
(* the revocation handlers of internal/server/api.go.                      *)
(*                                                                         *)
(* One goroutine runs handleConn per accepted connection; its node is      *)
(* identified with the connection.  One action is one region that runs     *)
(* under Hub.mu (or the account store's lock), or one frame written to one *)
(* connection: frames are written after the lock is released, so every     *)
(* other handler may run in between.                                       *)
(*                                                                         *)
(* What the server has told a connection is kept here, not what the client *)
(* holds: its PeerRegistry outlives its connections, takes over what each  *)
(* of them is told and keeps what it missed while it was away.  Registries *)
(* over reconnects are in module Egress.                                   *)
(***************************************************************************)
EXTENDS FiniteSets

CONSTANTS
  Conn,       \* connections, each handled by one goroutine of its own
  Device,     \* device ids ever enrolled
  Account,    \* account ids; networkID = account id (server.go:152)
  Addr,       \* virtual addresses of the CIDR every network shares
  AccountOf,  \* the account of a device
  AddrOf,     \* the address leased to a device (module Leases)
  Revocable,  \* the devices somebody may ask to revoke
  NoConn,     \* nil *Node / nil net.Conn
  NoDevice    \* no device authenticated yet

ASSUME HubAssumption ==
  /\ AccountOf \in [Device -> Account]
  /\ AddrOf \in [Device -> Addr]
  /\ \A d, e \in Device :
       AccountOf[d] = AccountOf[e] /\ AddrOf[d] = AddrOf[e] => d = e
  /\ Revocable \subseteq Device
  /\ NoConn \notin Conn
  /\ NoDevice \notin Device

VARIABLES
  enrolled,   \* account.Store.devices
  revocation, \* where the revoke request of a device stands
  kicked,     \* the connection KickDevice read from the device's node
  pc,         \* where the handler of a connection stands
  dev,        \* the device a connection authenticated as
  sock,       \* "open", "gone" (the client left), "closed" (by the server)
  ipTable,    \* Hub.ipTable: netKey -> node, what Relay routes by
  networks,   \* Hub.networks: Network.Nodes, what broadcasts go to
  targets,    \* connections the handler's broadcast has still to write to
  carry,      \* the connection the handler's Relay is writing a packet to
  told,       \* history: addresses a connection was told of, not of their leave
  first       \* the first frame written to a connection since Register

vars == <<enrolled, revocation, kicked, pc, dev, sock, ipTable, networks,
          targets, carry, told, first>>

admin == <<enrolled, revocation, kicked>>
client == <<told, first>>
tables == <<ipTable, networks>>

-----------------------------------------------------------------------------

Key == Account \X Addr

KeyOf(d) == <<AccountOf[d], AddrOf[d]>>

(* "failed" is a handler that ended because its WELCOME could not be       *)
(* written; "done" is any other handler that ended.                        *)
Phase == {"idle", "authed", "registered", "welcomed", "attached", "joining",
          "data", "leaving", "left", "failed", "done"}

\* handlers that stand between Register and Unregister
Live == {"registered", "welcomed", "attached", "joining", "data"}

\* handlers whose node.conn is set: from server.go:170 on
Attached(c) == pc[c] \in {"attached", "joining", "data", "leaving", "left", "done"}

\* mutant: the broadcast does not skip the addresses nobody holds
AllMembers(n, a) == {networks[n][b] : b \in Addr \ {a}}

\* Network.Nodes without the address `a`: whom a broadcast reaches
Members(n, a) == {networks[n][b] : b \in Addr \ {a}} \ {NoConn}

TypeOK ==
  /\ enrolled \subseteq Device
  /\ revocation \in [Device -> {"none", "removed", "kicking", "done"}]
  /\ kicked \in [Device -> Conn \cup {NoConn}]
  /\ pc \in [Conn -> Phase]
  /\ dev \in [Conn -> Device \cup {NoDevice}]
  /\ sock \in [Conn -> {"open", "gone", "closed"}]
  /\ ipTable \in [Key -> Conn \cup {NoConn}]
  /\ networks \in [Account -> [Addr -> Conn \cup {NoConn}]]
  /\ targets \in [Conn -> SUBSET Conn]
  /\ carry \in [Conn -> Conn \cup {NoConn}]
  /\ told \in [Conn -> SUBSET Addr]
  /\ first \in [Conn -> {"none", "welcome", "other"}]

Init ==
  /\ enrolled = Device
  /\ revocation = [d \in Device |-> "none"]
  /\ kicked = [d \in Device |-> NoConn]
  /\ pc = [c \in Conn |-> "idle"]
  /\ dev = [c \in Conn |-> NoDevice]
  /\ sock = [c \in Conn |-> "open"]
  /\ ipTable = [k \in Key |-> NoConn]
  /\ networks = [n \in Account |-> [a \in Addr |-> NoConn]]
  /\ targets = [c \in Conn |-> {}]
  /\ carry = [c \in Conn |-> NoConn]
  /\ told = [c \in Conn |-> {}]
  /\ first = [c \in Conn |-> "none"]

-----------------------------------------------------------------------------
(* The handshake: handleConn down to the data loop.                        *)

Goto(c, p) == pc' = [pc EXCEPT ![c] = p]

\* what the handler's deferred conn.Close leaves
Close(c) == sock' = [sock EXCEPT ![c] = "closed"]

\* the hello was read and VerifyDevice found the device and its account
Authenticate(c, d) ==
  /\ pc[c] = "idle"
  /\ d \in enrolled
  /\ Goto(c, "authed")
  /\ dev' = [dev EXCEPT ![c] = d]
  /\ UNCHANGED <<admin, sock, tables, targets, carry, client>>

\* rate limit, unreadable hello, bad token; or Allocate failed in Register
Reject(c) ==
  /\ pc[c] \in {"idle", "authed"}
  /\ Goto(c, "done")
  /\ Close(c)
  /\ UNCHANGED <<admin, dev, tables, targets, carry, client>>

\* mutants: removeLocked without `cur == node`, and without its second table
DelistedByKey(c) == [ipTable EXCEPT ![KeyOf(dev[c])] = NoConn]
NotDropped(c) == networks

\* removeLocked on its two tables: only the entry that still is this node
Delisted(c) ==
  LET k == KeyOf(dev[c]) IN
  IF ipTable[k] = c THEN [ipTable EXCEPT ![k] = NoConn] ELSE ipTable

Dropped(c) ==
  LET n == AccountOf[dev[c]]
      a == AddrOf[dev[c]] IN
  IF networks[n][a] = c THEN [networks EXCEPT ![n][a] = NoConn] ELSE networks

(* The old node under the device's key is dropped first and the new one    *)
(* stored over it, so the old node's connection stays open and its handler *)
(* keeps running.  The list WELCOME will carry is the first that the new   *)
(* connection is told.                                                     *)
Register(c) ==
  LET n == AccountOf[dev[c]]
      a == AddrOf[dev[c]] IN
  /\ pc[c] = "authed"
  /\ ipTable' = [ipTable EXCEPT ![KeyOf(dev[c])] = c]
  /\ networks' = [networks EXCEPT ![n][a] = c]
  /\ told' = [told EXCEPT ![c] = {b \in Addr \ {a} : networks[n][b] # NoConn}]
  /\ Goto(c, "registered")
  /\ UNCHANGED <<admin, dev, sock, targets, carry, first>>

Welcome(c) ==
  /\ pc[c] = "registered"
  /\ sock[c] # "closed"
  /\ Goto(c, "welcomed")
  /\ first' = [first EXCEPT ![c] = IF @ = "none" THEN "welcome" ELSE @]
  /\ UNCHANGED <<admin, dev, sock, tables, targets, carry, told>>

\* the early return at server.go:163: the node is not unregistered
WelcomeFails(c) ==
  /\ pc[c] = "registered"
  /\ sock[c] # "open"
  /\ Goto(c, "failed")
  /\ Close(c)
  /\ UNCHANGED <<admin, dev, tables, targets, carry, client>>

\* mutant: attaching the connection stores the node under its key once more
AttachRelists(c) ==
  /\ pc[c] = "welcomed"
  /\ Goto(c, "attached")
  /\ ipTable' = [ipTable EXCEPT ![KeyOf(dev[c])] = c]
  /\ UNCHANGED <<admin, dev, sock, networks, targets, carry, client>>

(* node.conn = conn, outside Hub.mu.  KickDevice's racing read sees nil or *)
(* the connection (a torn interface value panics in the HTTP handler,      *)
(* which net/http recovers: nothing is closed), as it does on either side  *)
(* of this step.                                                           *)
AttachConn(c) ==
  /\ pc[c] = "welcomed"
  /\ Goto(c, "attached")
  /\ UNCHANGED <<admin, dev, sock, tables, targets, carry, client>>

\* broadcastCtrl collects its targets under the lock ...
NotifyPeerJoined(c) ==
  /\ pc[c] = "attached"
  /\ targets' = [targets EXCEPT ![c] = Members(AccountOf[dev[c]], AddrOf[dev[c]])]
  /\ Goto(c, "joining")
  /\ UNCHANGED <<admin, dev, sock, tables, carry, client>>

\* mutant: a failed write is tried again
WriteToRetrying(c, t, known) ==
  /\ t \in targets[c]
  /\ sock[t] # "closed"
  /\ targets' = [targets EXCEPT ![c] = @ \ {t}]
  /\ told' = [told EXCEPT ![t] = known]
  /\ first' = [first EXCEPT ![t] = IF @ = "none" THEN "other" ELSE @]
  /\ UNCHANGED <<admin, pc, dev, sock, tables, carry>>

\* ... and writes to them one by one after releasing it.
WriteTo(c, t, known) ==
  /\ t \in targets[c]
  /\ targets' = [targets EXCEPT ![c] = @ \ {t}]
  /\ IF sock[t] = "closed"
     THEN UNCHANGED client
     ELSE /\ told' = [told EXCEPT ![t] = known]
          /\ first' = [first EXCEPT ![t] = IF @ = "none" THEN "other" ELSE @]
  /\ UNCHANGED <<admin, pc, dev, sock, tables, carry>>

WritePeerJoin(c, t) ==
  /\ pc[c] = "joining"
  /\ WriteTo(c, t, told[t] \cup {AddrOf[dev[c]]})

EnterDataLoop(c) ==
  /\ pc[c] = "joining"
  /\ targets[c] = {}
  /\ Goto(c, "data")
  /\ UNCHANGED <<admin, dev, sock, tables, targets, carry, client>>

-----------------------------------------------------------------------------
(* The data loop.  Quota and accounting of Relay: module Metering.         *)

\* mutant: Relay looks the destination up by its address alone
RelayLookupByAddress(c, a) ==
  /\ pc[c] = "data"
  /\ sock[c] # "closed"
  /\ carry[c] = NoConn
  /\ \E n \in Account :
       /\ ipTable[<<n, a>>] # NoConn
       /\ carry' = [carry EXCEPT ![c] = ipTable[<<n, a>>]]
  /\ UNCHANGED <<admin, pc, dev, sock, tables, targets, client>>

\* Relay finds the node that owns the destination in the sender's network
RelayLookup(c, a) ==
  LET t == ipTable[<<AccountOf[dev[c]], a>>] IN
  /\ pc[c] = "data"
  /\ sock[c] # "closed"
  /\ carry[c] = NoConn
  /\ t # NoConn
  /\ carry' = [carry EXCEPT ![c] = t]
  /\ UNCHANGED <<admin, pc, dev, sock, tables, targets, client>>

\* ... and writes to that node's connection after releasing the lock
RelayWrite(c) ==
  LET t == carry[c] IN
  /\ t # NoConn
  /\ carry' = [carry EXCEPT ![c] = NoConn]
  /\ first' = [first EXCEPT ![t] = IF @ = "none" /\ sock[t] # "closed"
                                   THEN "other" ELSE @]
  /\ UNCHANGED <<admin, pc, dev, sock, tables, targets, told>>

\* ReadFrame fails: the client left, was kicked, or was silent for 90 s;
\* the deferred Unregister removes the node ...
Unregister(c) ==
  /\ pc[c] = "data"
  /\ carry[c] = NoConn
  /\ ipTable' = Delisted(c)
  /\ networks' = Dropped(c)
  /\ Goto(c, "leaving")
  /\ UNCHANGED <<admin, dev, sock, targets, carry, client>>

\* mutant: Unregister does not broadcast
SilentLeave(c) ==
  /\ pc[c] = "leaving"
  /\ Goto(c, "left")
  /\ UNCHANGED <<admin, dev, sock, tables, targets, carry, client>>

\* ... collects the members under a second lock ...
NotifyPeerLeft(c) ==
  /\ pc[c] = "leaving"
  /\ targets' = [targets EXCEPT ![c] = Members(AccountOf[dev[c]], AddrOf[dev[c]])]
  /\ Goto(c, "left")
  /\ UNCHANGED <<admin, dev, sock, tables, carry, client>>

WritePeerLeave(c, t) ==
  /\ pc[c] = "left"
  /\ WriteTo(c, t, told[t] \ {AddrOf[dev[c]]})

Finish(c) ==
  /\ pc[c] = "left"
  /\ targets[c] = {}
  /\ Goto(c, "done")
  /\ Close(c)
  /\ UNCHANGED <<admin, dev, tables, targets, carry, client>>

-----------------------------------------------------------------------------
(* The client's end and the revocation request.                            *)

\* the client closes the connection, or its host goes away
ClientLeaves(c) ==
  /\ pc[c] \notin {"idle", "done", "failed"}
  /\ sock[c] = "open"
  /\ sock' = [sock EXCEPT ![c] = "gone"]
  /\ UNCHANGED <<admin, pc, dev, tables, targets, carry, client>>

RemoveDevice(d) ==
  /\ d \in Revocable \cap enrolled
  /\ enrolled' = enrolled \ {d}
  /\ revocation' = [revocation EXCEPT ![d] = "removed"]
  /\ UNCHANGED <<kicked, pc, dev, sock, tables, targets, carry, client>>

\* KickDevice reads the node's connection under the lock; nil ends the request
KickLookup(d) ==
  LET nodes == {c \in Conn : dev[c] = d /\ \E k \in Key : ipTable[k] = c} IN
  /\ revocation[d] = "removed"
  /\ \/ \E c \in nodes :
          /\ Attached(c)
          /\ kicked' = [kicked EXCEPT ![d] = c]
          /\ revocation' = [revocation EXCEPT ![d] = "kicking"]
     \/ /\ \A c \in nodes : ~Attached(c)
        /\ revocation' = [revocation EXCEPT ![d] = "done"]
        /\ UNCHANGED kicked
  /\ UNCHANGED <<enrolled, pc, dev, sock, tables, targets, carry, client>>

\* mutant: the request returns without closing what it found
KickForgets(d) ==
  /\ revocation[d] = "kicking"
  /\ revocation' = [revocation EXCEPT ![d] = "done"]
  /\ UNCHANGED <<enrolled, kicked, pc, dev, sock, tables, targets, carry, client>>

\* ... and closes it after releasing the lock
KickClose(d) ==
  /\ revocation[d] = "kicking"
  /\ sock' = [sock EXCEPT ![kicked[d]] = "closed"]
  /\ revocation' = [revocation EXCEPT ![d] = "done"]
  /\ UNCHANGED <<enrolled, kicked, pc, dev, tables, targets, carry, client>>

-----------------------------------------------------------------------------

Handler(c) ==
  \/ Register(c) \/ Welcome(c) \/ WelcomeFails(c) \/ AttachConn(c)
  \/ NotifyPeerJoined(c) \/ EnterDataLoop(c) \/ RelayWrite(c)
  \/ NotifyPeerLeft(c) \/ Finish(c)
  \/ \E t \in Conn : WritePeerJoin(c, t) \/ WritePeerLeave(c, t)

Environment(c) ==
  \/ Reject(c) \/ Unregister(c) \/ ClientLeaves(c)
  \/ \E d \in Device : Authenticate(c, d)
  \/ \E a \in Addr : RelayLookup(c, a)

Revoke(d) == RemoveDevice(d) \/ KickLookup(d) \/ KickClose(d)

Next ==
  \/ \E c \in Conn : Handler(c) \/ Environment(c)
  \/ \E d \in Device : Revoke(d)

Spec == Init /\ [][Next]_vars

(* A handler that can run does, and a revoke request runs to its end.  A   *)
(* connection that is no longer open delivers the finitely many frames it  *)
(* has buffered, then an error (strong fairness: relaying one of those     *)
(* frames disables Unregister for a moment).  Nothing is assumed of        *)
(* clients, but that they take what is written to them.                    *)
Fairness ==
  /\ \A c \in Conn : /\ WF_vars(Handler(c))
                     /\ SF_vars(sock[c] # "open" /\ Unregister(c))
  /\ \A d \in Device : WF_vars(KickLookup(d)) /\ WF_vars(KickClose(d))

FairSpec == Spec /\ Fairness

-----------------------------------------------------------------------------
(* Properties.                                                             *)

(* The two tables agree, and an entry is a node of the entry's own key     *)
(* whose handler stands between Register and Unregister - or failed to     *)
(* write its WELCOME.  Relay (ipTable) and the broadcasts (networks) use   *)
(* different tables that removeLocked guards separately.                   *)
Listed ==
  \A k \in Key :
    /\ networks[k[1]][k[2]] = ipTable[k]
    /\ ipTable[k] # NoConn =>
         /\ dev[ipTable[k]] # NoDevice
         /\ KeyOf(dev[ipTable[k]]) = k
         /\ pc[ipTable[k]] \in Live \cup {"failed"}

(* Accounts share one address space, yet no packet and no membership       *)
(* message ever goes from a connection of one account to a connection of   *)
(* another: not from a superseded node, nor from one already unregistered. *)
NetworkIsolation ==
  \A c, t \in Conn : (t \in targets[c] \/ t = carry[c]) =>
    /\ dev[c] # NoDevice /\ dev[t] # NoDevice
    /\ AccountOf[dev[c]] = AccountOf[dev[t]]

(* An entry leaves the tables only by the Unregister of the very handler   *)
(* that owns it, and is replaced only by a newer connection of the same    *)
(* device: the late Unregister of a superseded handler takes nothing away  *)
(* from the connection that superseded it.                                 *)
OwnerChange ==
  \A k \in Key : (ipTable[k] # NoConn /\ ipTable'[k] # ipTable[k]) =>
    \/ /\ ipTable'[k] = NoConn
       /\ pc[ipTable[k]] = "data" /\ pc'[ipTable[k]] = "leaving"
    \/ /\ ipTable'[k] # NoConn
       /\ dev[ipTable'[k]] = dev[ipTable[k]]
       /\ pc[ipTable'[k]] = "authed"

OnlyOwnerLeaves == [][OwnerChange]_vars

(* What the directory promises (module Presence): one connection per       *)
(* device, each connection listed at most once in its life, only for the   *)
(* device it authenticated as, and never again after it left or lost its   *)
(* place to a newer one.                                                   *)
Directory == INSTANCE Presence WITH
  current <- [d \in Device |-> ipTable[KeyOf(d)]],
  spent <- {c \in Conn : pc[c] \notin {"idle", "authed"}}

ImplementsPresence == Directory!Spec

\* no handler is between the steps that change what clients are told
Quiet == \A c \in Conn : pc[c] \in {"idle", "authed", "data", "failed", "done"}

\* the connection is its device's current one and its client has been welcomed
Current(c) ==
  /\ pc[c] = "data"
  /\ sock[c] = "open"
  /\ ipTable[KeyOf(dev[c])] = c
  /\ first[c] = "welcome"

(* The server takes back what it said: once no broadcast is under way,     *)
(* each address that a current connection was told of, by its WELCOME or a *)
(* PEER_JOIN, and not told the leave of since, has a handler in the data   *)
(* loop, or is that of a node whose WELCOME failed.  JOIN and LEAVE of one *)
(* handler reach a connection in order although they are written without   *)
(* the lock.  It says nothing of what the client's registry still holds    *)
(* from its earlier connections (see ViewFresh of module Egress).          *)
LeavesAnnounced ==
  Quiet => \A c \in Conn : Current(c) =>
    \A a \in told[c] : \E s \in Conn :
      /\ pc[s] \in {"data", "failed"}
      /\ KeyOf(dev[s]) = <<AccountOf[dev[c]], a>>

(* A connection the revoke request closed ends, and its node is in no      *)
(* table: the handler's own read fails and it unregisters itself.          *)
KickedGoesOffline ==
  \A d \in Device, c \in Conn :
    (revocation[d] = "done" /\ kicked[d] = c) ~>
      (pc[c] = "done" /\ \A k \in Key : ipTable[k] # c)

(* Every handler that lost its connection in the data loop ends, having    *)
(* told the peers.                                                         *)
LostConnectionEnds ==
  \A c \in Conn : (pc[c] = "data" /\ sock[c] # "open") ~> pc[c] = "done"

(* ListClients is documented as a snapshot of online nodes: no entry's     *)
(* handler has ended.                                                      *)
ListedAreOnline ==
  \A k \in Key : ipTable[k] # NoConn => pc[ipTable[k]] # "failed"

(* "Revoke a device: delete the record and take it offline, its rights end *)
(* at once": some time after the request has returned, no handler serves   *)
(* the device any more.                                                    *)
RevokedGoesOffline ==
  \A d \in Device :
    revocation[d] = "done" ~> \A c \in Conn : dev[c] = d => pc[c] \notin Live

(* The registry of a client is documented as the table of online nodes:    *)
(* once no broadcast is under way, it has every other node of the network  *)
(* whose handler is in its data loop.  On the first connection of a client *)
(* the registry is what that connection was told.                          *)
PeersComplete ==
  Quiet => \A c, s \in Conn :
    /\ Current(c)
    /\ \A k \in Conn : dev[k] = dev[c] => k = c
    /\ Current(s)
    /\ s # c
    /\ AccountOf[dev[c]] = AccountOf[dev[s]]
    => AddrOf[dev[s]] \in told[c]

(* The handshake returns the connection and its WELCOME: the first frame a *)
(* client gets after its hello is the answer to it.                        *)
WelcomeFirst == \A c \in Conn : first[c] # "other"
=============================================================================
