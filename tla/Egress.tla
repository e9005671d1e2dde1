------------------------------- MODULE Egress -------------------------------
(***************************************************************************)
(* Who may be used as an exit, from the administrator's switch to the      *)
(* packet: handleAdminEgress of internal/server/api.go, the Egress flag of *)
(* a node in hub.go, what WELCOME, PEER_JOIN and PEER_LEAVE tell the       *)
(* clients, their PeerRegistry, and the choice tunToServer makes from it.  *)
(*                                                                         *)
(* The devices are those of one account: a network is an account           *)
(* (server.go:152), so Relay's ACL test, which is about other accounts,    *)
(* never refuses.  A client reads its frames in order, so a frame takes    *)
(* effect when it is written; one written to a connection the client no    *)
(* longer uses is lost.  The registry lives as long as the client's        *)
(* process, over all its connections.                                      *)
(***************************************************************************)
CONSTANTS
  Device,    \* the devices of the account
  Conn,      \* connections, each with its handler
  DeviceOf,  \* the device that uses a connection
  Request,   \* goroutines of the admin API
  Switched,  \* the devices the administrator may be asked to switch
  Offers,    \* the devices configured with egress: true
  Via,       \* the devices the exit_device of a device's rule may mean
  Global,    \* the devices in global mode, with no exit_device
  HostOf,    \* host names, which need not be unique
  NoConn, NoDevice

ASSUME EgressAssumption ==
  /\ DeviceOf \in [Conn -> Device]
  /\ Offers \subseteq Device
  /\ Switched \subseteq Device
  /\ Via \in [Device -> SUBSET Device]
  /\ Global \subseteq Device \ Offers    \* Config.Validate
  /\ DOMAIN HostOf = Device
  /\ NoConn \notin Conn
  /\ NoDevice \notin Device

VARIABLES
  enabled,    \* account.Store: Device.EgressEnabled
  request,    \* per request that has changed the store: its device and value
  pc,         \* where the handler of a connection stands
  flag,       \* Node.Egress of a connection's node
  node,       \* Hub.ipTable, by device
  welcome,    \* the peers of the WELCOME a handler has to send
  say,        \* what its broadcast says of its device
  targets,    \* to whom it has still to be written
  at,         \* the connection a client uses
  running,    \* the clients that got their WELCOME
  peers,      \* PeerRegistry.byIP of a client
  out,        \* a client's captured packet, in tunToServer or on its way
  torn,       \* history: devices whose requests left store and node apart
  allowed,    \* history: devices the store has ever held as exits
  doubt       \* history: peers a client may have a wrong idea of

vars == <<enabled, request, pc, flag, node, welcome, say, targets, at, running,
          peers, out, torn, allowed, doubt>>

admin == <<enabled, request, torn, allowed>>
hub == <<pc, flag, node, welcome, say, targets>>
clients == <<at, running, peers>>

-----------------------------------------------------------------------------

\* the devices that look up exits: no other reads its registry
Consumer == Global \cup {d \in Device : Via[d] # {}}

Kind == {"absent", "plain", "exit"}     \* of a peer, as a client sees it

KindOf(egress) == IF egress THEN "exit" ELSE "plain"

\* a packet in hand waits for its exit to be resolved among `via`, or goes to
\* `to`; NoDevice is the destination itself, for a packet sent as it is
Hand == [step : {"none"}] \cup [step : {"via"}, via : SUBSET Device]
        \cup [step : {"send"}, to : Device \cup {NoDevice}]

NoPacket == [step |-> "none"]

\* a request has stored its switch and not yet told the hub
NoRequest == [of |-> NoDevice]

TypeOK ==
  /\ enabled \in [Device -> BOOLEAN]
  /\ request \in [Request -> [of : Device, on : BOOLEAN] \cup {NoRequest}]
  /\ pc \in [Conn -> {"idle", "hello", "registered", "welcomed",
                      "joining", "data", "removed", "done"}]
  /\ flag \in [Conn -> BOOLEAN]
  /\ node \in [Device -> Conn \cup {NoConn}]
  /\ welcome \in [Conn -> [Device -> Kind]]
  /\ say \in [Conn -> Kind]
  /\ targets \in [Conn -> SUBSET Conn]
  /\ at \in [Device -> Conn \cup {NoConn}]
  /\ running \subseteq Device
  /\ peers \in [Consumer -> [Device -> Kind]]
  /\ out \in [Consumer -> Hand]
  /\ torn \subseteq Device
  /\ allowed \subseteq Device
  /\ doubt \in [Consumer -> SUBSET Device]
  /\ \A d \in Device :
       /\ node[d] # NoConn => DeviceOf[node[d]] = d
       /\ at[d] # NoConn => DeviceOf[at[d]] = d
       /\ d \in running => at[d] # NoConn /\ pc[at[d]] \notin {"idle", "hello"}

Nobody == [d \in Device |-> "absent"]

Init ==
  /\ enabled = [d \in Device |-> FALSE]
  /\ request = [r \in Request |-> NoRequest]
  /\ pc = [c \in Conn |-> "idle"]
  /\ flag = [c \in Conn |-> FALSE]
  /\ node = [d \in Device |-> NoConn]
  /\ welcome = [c \in Conn |-> Nobody]
  /\ say = [c \in Conn |-> "absent"]
  /\ targets = [c \in Conn |-> {}]
  /\ at = [d \in Device |-> NoConn]
  /\ running = {}
  /\ peers = [d \in Consumer |-> Nobody]
  /\ out = [d \in Consumer |-> NoPacket]
  /\ torn = {}
  /\ allowed = {}
  /\ doubt = [d \in Consumer |-> {}]

-----------------------------------------------------------------------------
(* The administrator's switch: the store first, then the node.             *)

InFlight(d) == {r \in Request : request[r] # NoRequest /\ request[r].of = d}

\* Store.SetDeviceEgress, the first effect of the handler: memory changes
\* before the file is written, and keeps the change when that fails
Switch(r, d, b) ==
  /\ request[r] = NoRequest
  /\ enabled' = [enabled EXCEPT ![d] = b]
  /\ allowed' = IF b THEN allowed \cup {d} ELSE allowed
  /\ UNCHANGED <<hub, clients, out, doubt>>

SetDeviceEgress(r, d, b) ==
  /\ Switch(r, d, b)
  /\ request' = [request EXCEPT ![r] = [of |-> d, on |-> b]]
  /\ torn' = IF InFlight(d) = {} THEN torn \ {d} ELSE torn \cup {d}

\* handleAdminEgress answers with the error and leaves the node as it is
SetDeviceEgressFails(r, d, b) ==
  /\ Switch(r, d, b)
  /\ torn' = torn \cup {d}
  /\ UNCHANGED request

\* mutant: only a node whose handler has entered the data loop is switched
UpdateAttached(r) ==
  LET d == request[r].of IN
  /\ request[r] # NoRequest
  /\ request' = [request EXCEPT ![r] = NoRequest]
  /\ flag' = [c \in Conn |-> IF c = node[d] /\ pc[c] = "data" THEN request[r].on
                             ELSE flag[c]]
  /\ doubt' = [y \in Consumer |-> doubt[y] \cup {d}]
  /\ UNCHANGED <<enabled, torn, allowed, pc, node, welcome, say, targets,
                 clients, out>>

(* The node of the device, if it is online, whatever its client offered;   *)
(* nobody is told.                                                         *)
UpdateEgress(r) ==
  LET d == request[r].of IN
  /\ request[r] # NoRequest
  /\ request' = [request EXCEPT ![r] = NoRequest]
  /\ IF node[d] = NoConn
     THEN UNCHANGED <<flag, doubt>>
     ELSE /\ flag' = [flag EXCEPT ![node[d]] = request[r].on]
          /\ doubt' = [y \in Consumer |-> doubt[y] \cup {d}]
  /\ UNCHANGED <<enabled, torn, allowed, pc, node, welcome, say, targets,
                 clients, out>>

-----------------------------------------------------------------------------
(* A client's connections.                                                 *)

\* a slot is used again when nothing refers to its last connection
Unused(c) ==
  /\ pc[c] \in {"idle", "done"}
  /\ targets[c] = {}
  /\ node[DeviceOf[c]] # c
  /\ \A k \in Conn : c \notin targets[k]

Connect(c) ==
  LET d == DeviceOf[c] IN
  /\ at[d] = NoConn
  /\ Unused(c)
  /\ at' = [at EXCEPT ![d] = c]
  /\ pc' = [pc EXCEPT ![c] = "hello"]
  /\ UNCHANGED <<admin, flag, node, welcome, say, targets, running, peers, out,
                 doubt>>

\* mutant: the run goes on without its connection
HangupUnseen(d) ==
  /\ at' = [at EXCEPT ![d] = NoConn]
  /\ UNCHANGED running

Hangup(d) ==
  /\ at' = [at EXCEPT ![d] = NoConn]
  /\ running' = running \ {d}

(* A packet in tunToServer's hands is lost with the run or, when the       *)
(* goroutine outlives it (module Client), goes out on the next connection. *)
Disconnect(d) ==
  /\ at[d] # NoConn
  /\ Hangup(d)
  /\ out' \in {out, [y \in Consumer |-> IF y = d THEN NoPacket ELSE out[y]]}
  /\ UNCHANGED <<admin, hub, peers, doubt>>

-----------------------------------------------------------------------------
(* The handler: registration and what the others are told.                 *)

Goto(c, p) == pc' = [pc EXCEPT ![c] = p]

Uses(c) == at[DeviceOf[c]] = c

\* mutant: the client's offer is enough
GrantedAsOffered(d) == d \in Offers

\* the device record is the store's own: Register reads what it holds now
Granted(d) == d \in Offers /\ enabled[d]

\* the handlers of a device that have something to tell, now or later
Handlers(d) == {k \in Conn : /\ DeviceOf[k] = d
                             /\ \/ pc[k] \notin {"idle", "hello", "done"}
                                \/ targets[k] # {}}

(* The new node replaces an older one, whose handler goes on, and takes    *)
(* the switch as the store holds it now.  What a client knows of the       *)
(* device is in doubt if that handler has still to say that the device     *)
(* left; for the registering client are so the devices that left while it  *)
(* was away, and those whose PEER_JOIN is encoded and says an older switch *)
(* than WELCOME does.                                                      *)
Register(c) ==
  LET d == DeviceOf[c]
      live == Handlers(d) # {}
      Ghosts == {y \in Device : /\ d \in Consumer
                                /\ node[y] = NoConn /\ peers[d][y] # "absent"}
      Superseded == {y \in Device \ {d} : Handlers(y) \ {node[y]} # {}}
      Outdated == {y \in Device \ {d} : /\ node[y] # NoConn /\ pc[node[y]] = "joining"
                                        /\ say[node[y]] # KindOf(flag[node[y]])} IN
  /\ pc[c] = "hello"
  /\ flag' = [flag EXCEPT ![c] = Granted(d)]
  /\ node' = [node EXCEPT ![d] = c]
  /\ welcome' = [welcome EXCEPT ![c] =
                   [x \in Device |-> IF x = d \/ node[x] = NoConn THEN "absent"
                                     ELSE KindOf(flag[node[x]])]]
  /\ doubt' = [y \in Consumer |->
                 IF y # d THEN IF live THEN doubt[y] \cup {d} ELSE doubt[y] \ {d}
                 ELSE IF Uses(c) THEN Ghosts \cup Superseded \cup Outdated ELSE doubt[y]]
  /\ torn' = IF InFlight(d) = {} THEN torn \ {d} ELSE torn
  /\ Goto(c, "registered")
  /\ UNCHANGED <<enabled, request, allowed, say, targets, clients, out>>

\* mutant: an address that is known already is left as it is
UpsertNew(d, told) ==
  peers' = [y \in Consumer |-> IF y # d THEN peers[y] ELSE
              [z \in Device |-> IF told[z] = "absent" \/ peers[y][z] # "absent"
                                THEN peers[y][z] ELSE told[z]]]

\* UpsertMany: entries are added and replaced, none is removed
Upsert(d, told) ==
  peers' = [y \in Consumer |-> IF y # d THEN peers[y] ELSE
              [z \in Device |-> IF told[z] = "absent" THEN peers[y][z]
                                ELSE told[z]]]

Welcome(c) ==
  LET d == DeviceOf[c] IN
  /\ pc[c] = "registered"
  /\ Goto(c, "welcomed")
  /\ IF Uses(c)
     THEN /\ running' = running \cup {d}
          /\ Upsert(d, welcome[c])
     ELSE UNCHANGED <<running, peers>>
  /\ welcome' = [welcome EXCEPT ![c] = Nobody]
  /\ UNCHANGED <<admin, flag, node, say, targets, at, out, doubt>>

\* the early return of handleConn: the node stays in the table, and those
\* that were there before are never told of it
WelcomeFails(c) ==
  LET d == DeviceOf[c] IN
  /\ pc[c] = "registered"
  /\ ~Uses(c)
  /\ Goto(c, "done")
  /\ welcome' = [welcome EXCEPT ![c] = Nobody]
  /\ doubt' = IF node[d] = c THEN [y \in Consumer |-> doubt[y] \cup {d}] ELSE doubt
  /\ UNCHANGED <<admin, flag, node, say, targets, clients, out>>

\* broadcastCtrl: every node but those with the device's own address
Others(d) == {node[x] : x \in Device \ {d}} \ {NoConn}

Announce(c, kind) ==
  /\ targets' = [targets EXCEPT ![c] = Others(DeviceOf[c])]
  /\ say' = [say EXCEPT ![c] = IF Others(DeviceOf[c]) = {} THEN "absent" ELSE kind]

\* the node's switch is read without the lock, before the targets are collected
NotifyPeerJoined(c) ==
  /\ pc[c] = "welcomed"
  /\ say' = [say EXCEPT ![c] = KindOf(flag[c])]
  /\ Goto(c, "joining")
  /\ UNCHANGED <<admin, flag, node, welcome, targets, clients, out, doubt>>

BroadcastJoin(c) ==
  /\ pc[c] = "joining"
  /\ Announce(c, say[c])
  /\ Goto(c, "data")
  /\ UNCHANGED <<admin, flag, node, welcome, clients, out, doubt>>

Remove(c) ==
  LET d == DeviceOf[c] IN
  /\ pc[c] = "data"
  /\ targets[c] = {}
  /\ ~Uses(c)
  /\ node' = IF node[d] = c THEN [node EXCEPT ![d] = NoConn] ELSE node
  /\ Goto(c, "removed")
  /\ UNCHANGED <<admin, flag, welcome, say, targets, clients, out, doubt>>

NotifyPeerLeft(c) ==
  /\ pc[c] = "removed"
  /\ flag' = [flag EXCEPT ![c] = FALSE]
  /\ Announce(c, "absent")
  /\ Goto(c, "done")
  /\ UNCHANGED <<admin, node, welcome, clients, out, doubt>>

\* PeerRegistry.Remove
Forget(d, y) ==
  peers' = [z \in Consumer |-> IF z # d THEN peers[z]
                               ELSE [peers[z] EXCEPT ![y] = "absent"]]

\* a client that waits for its WELCOME gives up at any other frame
WriteTo(c, t) ==
  LET d == DeviceOf[t] IN
  /\ t \in targets[c]
  /\ targets' = [targets EXCEPT ![c] = @ \ {t}]
  /\ say' = [say EXCEPT ![c] = IF targets[c] = {t} THEN "absent" ELSE @]
  /\ IF Uses(t) /\ d \in running
     THEN /\ IF say[c] = "absent" THEN Forget(d, DeviceOf[c])
             ELSE Upsert(d, [Nobody EXCEPT ![DeviceOf[c]] = say[c]])
          /\ UNCHANGED <<at, running>>
     ELSE /\ UNCHANGED peers
          /\ IF Uses(t) THEN Hangup(d) ELSE UNCHANGED <<at, running>>
  /\ UNCHANGED <<admin, pc, flag, node, welcome, out, doubt>>

-----------------------------------------------------------------------------
(* A packet for an address outside of the network.                         *)

Hold(d, p) == out' = [out EXCEPT ![d] = p]

Exits(d) == {x \in Device : peers[d][x] = "exit"}

\* globalExit: the host name of some exit, if there is one
GlobalExit(d) == {{y \in Device : HostOf[y] = HostOf[x]} : x \in Exits(d)}

(* The routes of smart mode capture what a rule is about, those of global  *)
(* mode everything: the packet meets a rule, or the global exit, without   *)
(* which it is dropped at once.                                            *)
Match(d) ==
  /\ d \in running
  /\ out[d] = NoPacket
  /\ \/ Via[d] # {} /\ Hold(d, [step |-> "via", via |-> Via[d]])
     \/ d \in Global /\ \E v \in GlobalExit(d) : Hold(d, [step |-> "via", via |-> v])
  /\ UNCHANGED <<admin, hub, clients, doubt>>

\* resolveVia reads the registry anew; without an exit the packet is dropped
Resolve(d) ==
  /\ out[d].step = "via"
  /\ \/ \E x \in out[d].via \cap Exits(d) : Hold(d, [step |-> "send", to |-> x])
     \/ out[d].via \cap Exits(d) = {} /\ Hold(d, NoPacket)
  /\ UNCHANGED <<admin, hub, clients, doubt>>

\* the packet that Relay has next from `d` would reach the network stack of `x`
Serves(d, x) ==
  /\ d \in running
  /\ out[d] = [step |-> "send", to |-> x]
  /\ x \in Offers \cap running
  /\ node[x] = at[x]

(* sendData, and Relay by the handler: there is no route to an address     *)
(* outside, or to a device that is not online; a receiver that is no exit  *)
(* gives what was in the shell to its own TUN device.                      *)
Relay(d) ==
  /\ d \in running
  /\ out[d].step = "send"
  /\ pc[at[d]] = "data"
  /\ targets[at[d]] = {}
  /\ Hold(d, NoPacket)
  /\ UNCHANGED <<admin, hub, clients, doubt>>

-----------------------------------------------------------------------------

Administer(r) ==
  \/ \E d \in Switched, b \in BOOLEAN :
       SetDeviceEgress(r, d, b) \/ SetDeviceEgressFails(r, d, b)
  \/ UpdateEgress(r)

Handler(c) ==
  \/ Register(c) \/ Welcome(c) \/ WelcomeFails(c)
  \/ NotifyPeerJoined(c) \/ BroadcastJoin(c)
  \/ \E t \in Conn : WriteTo(c, t)
  \/ Remove(c) \/ NotifyPeerLeft(c)

Traffic(d) ==
  \/ Match(d) \/ Resolve(d) \/ Relay(d)

Next ==
  \/ \E r \in Request : Administer(r)
  \/ \E c \in Conn : Connect(c) \/ Handler(c)
  \/ \E d \in Device : Disconnect(d)
  \/ \E d \in Consumer : Traffic(d)

Spec == Init /\ [][Next]_vars

-----------------------------------------------------------------------------
(* Properties.                                                             *)

(* hub.go:144: the store has authority over the switch.  Register and      *)
(* handleAdminEgress may interleave as they like: when no request about a  *)
(* device is under way, the node of the device is an exit only if the      *)
(* store says so, and is one if the client also offered it - unless, since *)
(* the device last registered or a request about it last ran alone, two    *)
(* requests overlapped or the store could not be saved.                    *)
StoreDecides ==
  \A d \in Device :
    node[d] # NoConn /\ InFlight(d) = {} /\ d \notin torn =>
      /\ flag[node[d]] => enabled[d]
      /\ Granted(d) => flag[node[d]]

Settled(d) == \A c \in Conn : DeviceOf[c] = d =>
                /\ pc[c] \in {"idle", "hello", "data", "done"}
                /\ targets[c] = {}
                /\ (node[d] = c => pc[c] \in {"data", "done"})

Reachable(d) == d \in running /\ node[d] = at[d] /\ pc[at[d]] = "data"

(* peers.go:10, "the table of online nodes": what a connected client knows *)
(* of a device whose handlers have nothing left to say is what the hub     *)
(* knows, over reconnects of both and whatever order WELCOME, PEER_JOIN    *)
(* and PEER_LEAVE came in - unless one of four things made it doubtful     *)
(* since the client last registered: a switch of the online node (nobody   *)
(* is told, and a PEER_JOIN encoded before it may come after a WELCOME),   *)
(* a session superseded before its handler ended (its PEER_LEAVE comes     *)
(* late), a device that left while the client was away (the registry is    *)
(* not emptied), or one whose WELCOME failed (its node stays in the table  *)
(* and the clients already there are not told).                            *)
ViewFresh ==
  \A d \in Consumer : \A y \in Device \ {d} :
    Reachable(d) /\ Settled(y) /\ y \notin doubt[d] =>
      peers[d][y] = IF node[y] = NoConn THEN "absent" ELSE KindOf(flag[node[y]])

(* client.go:277 and hub.go:141-147: a captured packet leaves in a shell   *)
(* for a device that an administrator has allowed at some time, whatever   *)
(* its client offers.  It never takes the ordinary way and never goes to   *)
(* another device, over all that the node, WELCOME, PEER_JOIN and the      *)
(* registry make of the switch, and whenever the registry changes between  *)
(* the two looks at it.                                                    *)
OnlyAllowedExits ==
  \A d \in Consumer : out[d].step = "send" => out[d].to \in allowed

(* ipip.go:65-69 and hub.go:197: an exit is used only while it is          *)
(* authorised, and a switch takes effect at once, without a reconnect.     *)
(* Refuted: the consumers are not told, Relay passes packets to a node     *)
(* whatever its switch, and the exit's client goes on serving.             *)
RevokedExitUnused ==
  [][\A d \in Consumer, y \in Device :
       Relay(d) /\ Serves(d, y) /\ InFlight(y) = {} /\ y \notin torn =>
         enabled[y]]_vars

=============================================================================
