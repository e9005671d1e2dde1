------------------------------- MODULE Leases -------------------------------
(***************************************************************************)
(* LeaseStore (internal/account/lease.go): the virtual addresses of the    *)
(* devices, one map per network over the same subnet, and the file they    *)
(* are kept in.                                                            *)
(*                                                                         *)
(* Allocate holds the store's lock from the search to the save, so each of *)
(* its outcomes is one step.  A save writes the leases of all networks;    *)
(* when it fails the new lease stays in memory and the device is refused,  *)
(* and the file takes whatever the next save writes.                       *)
(***************************************************************************)
EXTENDS Naturals

CONSTANTS
  Network, Device,
  NetOf,      \* the network of a device's account
  Broadcast,  \* the subnet's last address; its first, the network's, is 0
  Probes,     \* after so many addresses a search gives up: 65536
  NoDevice

(* The searches of Allocate and recomputeNextLocked never get to give up   *)
(* in a subnet of at most Probes addresses, a /16.                         *)
ASSUME LeasesAssumption ==
  /\ NetOf \in [Device -> Network]
  /\ Broadcast \in Nat /\ Probes \in Nat
  /\ Broadcast < Probes
  /\ NoDevice \notin Device

VARIABLES
  leases,      \* netState.Leases: whose an address is
  next,        \* netState.Next
  file,        \* leases.json
  granted,     \* history: the <<device, address>> that Allocate returned
  saveFailed   \* history: whether a save ever failed

vars == <<leases, next, file, granted, saveFailed>>

-----------------------------------------------------------------------------

Address == 0..Broadcast

LeaseMap == [Network -> [Address -> Device \cup {NoDevice}]]

TypeOK ==
  /\ leases \in LeaseMap
  /\ next \in [Network -> 1..(Broadcast + 1)]
  /\ file \in LeaseMap
  /\ granted \subseteq Device \X Address
  /\ saveFailed \in BOOLEAN

Init ==
  /\ leases = [n \in Network |-> [ip \in Address |-> NoDevice]]
  /\ next = [n \in Network |-> 1]
  /\ file = leases
  /\ granted = {}
  /\ saveFailed = FALSE

-----------------------------------------------------------------------------
(* Allocate.                                                               *)

Leased(n, ip) == leases[n][ip] # NoDevice

\* mutant: looks for the device's lease in no network
NeverOwns(d) == FALSE

\* the device has a lease already
Owns(d) == \E ip \in Address : leases[NetOf[d]][ip] = d

\* mutant: broadcastAddr is not skipped
FreeWithBroadcast(n) == {ip \in Address : ip >= next[n] /\ ~Leased(n, ip)}

Free(n) == {ip \in Address : ip >= next[n] /\ ip # Broadcast /\ ~Leased(n, ip)}

\* where the search from Next ends
Found(n, ip) == ip \in Free(n) /\ \A other \in Free(n) : ip <= other

Reuse(d) ==
  \E ip \in Address :
    /\ leases[NetOf[d]][ip] = d
    /\ granted' = granted \cup {<<d, ip>>}
    /\ UNCHANGED <<leases, next, file, saveFailed>>

Take(d, ip) ==
  /\ ~Owns(d)
  /\ Found(NetOf[d], ip)
  /\ leases' = [leases EXCEPT ![NetOf[d]][ip] = d]
  /\ next' = [next EXCEPT ![NetOf[d]] = ip + 1]

\* mutant: returns the lease before the file has it
GrantUnsaved(d) ==
  \E ip \in Address :
    /\ Take(d, ip)
    /\ granted' = granted \cup {<<d, ip>>}
    /\ UNCHANGED <<file, saveFailed>>

Grant(d) ==
  \E ip \in Address :
    /\ Take(d, ip)
    /\ file' = leases'
    /\ granted' = granted \cup {<<d, ip>>}
    /\ UNCHANGED saveFailed

\* mutant: the lease is taken back, but not Next
SaveFailsTakesBack(d) ==
  \E ip \in Address :
    /\ ~Owns(d)
    /\ Found(NetOf[d], ip)
    /\ next' = [next EXCEPT ![NetOf[d]] = ip + 1]
    /\ saveFailed' = TRUE
    /\ UNCHANGED <<leases, file, granted>>

SaveFails(d) ==
  \E ip \in Address :
    /\ Take(d, ip)
    /\ saveFailed' = TRUE
    /\ UNCHANGED <<file, granted>>

\* mutant: the search goes on where the last one ended
ExhaustedGoesOn(d) ==
  /\ ~Owns(d)
  /\ Free(NetOf[d]) = {}
  /\ next' = [next EXCEPT ![NetOf[d]] = @ + 1]
  /\ UNCHANGED <<leases, file, granted, saveFailed>>

\* the search leaves the subnet
Exhausted(d) ==
  /\ ~Owns(d)
  /\ Free(NetOf[d]) = {}
  /\ next' = [next EXCEPT ![NetOf[d]] = Broadcast + 1]
  /\ UNCHANGED <<leases, file, granted, saveFailed>>

-----------------------------------------------------------------------------

\* recomputeNextLocked: the first address that is not leased
FirstFree(book, x) ==
  /\ x \in Address => book[x] = NoDevice
  /\ \A ip \in 1..(x - 1) : book[ip] # NoDevice

\* mutant: a file that cannot be read is taken for an empty one
ReopenEmpty ==
  /\ leases' = [n \in Network |-> [ip \in Address |-> NoDevice]]
  /\ next' = [n \in Network |-> 1]
  /\ UNCHANGED <<file, granted, saveFailed>>

\* the server ends, however it ends, and OpenLeases reads the file
Reopen ==
  /\ leases' = file
  /\ next' \in [Network -> 1..(Broadcast + 1)]
  /\ \A n \in Network : FirstFree(file[n], next'[n])
  /\ UNCHANGED <<file, granted, saveFailed>>

Next ==
  \/ \E d \in Device : Reuse(d) \/ Grant(d) \/ SaveFails(d) \/ Exhausted(d)
  \/ Reopen

Spec == Init /\ [][Next]_vars

-----------------------------------------------------------------------------
(* Properties.                                                             *)

(* A device holds at most one address, in its own network, in memory as in *)
(* the file, whatever saves failed and restarts came in between: else its  *)
(* next connection would be given either.                                  *)
OneAddress(book) ==
  \A n, m \in Network, ip, jp \in Address :
    (book[n][ip] # NoDevice /\ book[n][ip] = book[m][jp])
      => n = NetOf[book[n][ip]] /\ m = n /\ ip = jp

OneLease == OneAddress(leases) /\ OneAddress(file)

(* Neither the network's own nor the broadcast address is ever leased: the *)
(* latter only because Allocate skips it, wherever Next stands.            *)
HostsOnly ==
  \A n \in Network : ~Leased(n, 0) /\ ~Leased(n, Broadcast)

(* Allocate answers "exhausted" only when every host address is leased:    *)
(* failed saves and restarts leave no hole behind Next.                    *)
NoneLost ==
  \A n \in Network, ip \in Address \ {0, Broadcast} : ip < next[n] => Leased(n, ip)

(* A lease on disk is there for good: no save ever drops or reassigns it,  *)
(* from whatever was in memory.                                            *)
DurableStep ==
  \A n \in Network, ip \in Address :
    file[n][ip] # NoDevice => file'[n][ip] = file[n][ip]

FileDurable == [][DurableStep]_vars

(* While saves succeed, the address a device was given once is the only    *)
(* one it is ever given, over any number of restarts, and is given to no   *)
(* other device of its network.                                            *)
Settled ==
  \A g, h \in granted : NetOf[g[1]] = NetOf[h[1]] => (g[1] = h[1] <=> g[2] = h[2])

SettledWhileSaved == saveFailed \/ Settled

(* "Bound to account and device and persisted: does not drift when the     *)
(* server restarts" - whatever happens to the saves.                       *)
NoDrift == Settled
=============================================================================
