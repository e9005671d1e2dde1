# A verification project for orbit-net

orbit-net is an overlay network: clients open one connection each to a central
server (`orbitd`), which authenticates the device, gives it a virtual address in
its account's network, tells the network's members of each other, and relays
their IP packets, metering every byte against the account's daily quota.
This directory models the server, the client and the byte streams between them
in TLA+, model-checks them with TLC and proves every safety property of the
passing runs with TLAPS. `hub.go`, `server.go`, `quota.go`, `api.go`,
`rate.go` and `config.go` are in `internal/server`; `lease.go`, `usage.go`,
`store.go`, `mgmt.go` and `invite.go` in `internal/account`; `frame.go` in
`internal/protocol`; `client.go`, `peers.go`, `auth.go`, `ipip.go`,
`netstack.go` and `globalroute_*.go` in `internal/client`; `tun_*.go` in
`internal/tun`; `main.go` in `cmd/orbit-cli`.

## The system's parts

| Part | State | Operations | Talks to |
|---|---|---|---|
| Hub (`hub.go`) | `ipTable`, `networks`: the online nodes, twice; per node its writer, connection, egress flag, byte counters | Register, Unregister, NotifyPeerJoined, Relay, KickDevice, UpdateEgress, QuotaNotifyAccount, ListClients | leases, quota, usage under its own lock; writes frames to other connections after releasing it |
| Connection handler (`server.go`) | one goroutine per connection: handshake, WELCOME, data loop | handleConn, dataLoop, sysRW | store (VerifyDevice), hub, the client |
| Quota tracker (`quota.go`) | bytes of the day per account and per device's egress lane | admit, inc, roll-over, backfill | store for the tier; called by Relay |
| Usage ledger (`usage.go`) | buckets (account, device, exit, hour), a JSON file | Add, Totals, EgressLaneTotals, Save, OpenUsage | called by Relay, by saveLoop every 60 s, by the quota's backfill |
| Lease store (`lease.go`) | per network a map address -> lease and the next candidate, a JSON file | Allocate, OpenLeases | called by Register |
| Account store (`store.go`, `mgmt.go`) | accounts, devices, a JSON file | create, enrol, verify, rotate, rename, remove, tier, egress | called by the handshake and by the API |
| Invite book (`invite.go`) | open and used invites, a JSON file | Generate, Consume, Remove | called by registration |
| HTTP API (`api.go`, `public.go`) | none of its own | one handler per operation above | store, invites, hub, usage, rate limiter |
| Rate limiter (`rate.go`) | per key the start of its window and a count | Allow, prune | the handshake and the API |
| Client (`client.go`, `auth.go`, `main.go`) | connection, device, what the cleanup must undo, `closed` and `closeCh`, `writeMu` | Run, Close, cleanup, recvLoop, tunToServer, pingLoop, the reconnect loop, the signal handler | the server's frames, the operating system |
| Peer registry and exits (`peers.go`, `ipip.go`) | the peers by address, kept over reconnects | Upsert, UpsertMany, Remove, globalExit, resolveVia | written by recvLoop, read by tunToServer |
| Routes, network stack, TUN devices (`globalroute_*.go`, `netstack.go`, `tun_*.go`) | the host's routes, gVisor's stack, the device | apply and clean up, outputLoop and Close, Create, Configure, Read, Close | called by Run and cleanup |
| Frames (`frame.go`, `sysRW` of `server.go`) | none; the write locks of both ends | WriteFrame, ReadFrame | every writer and reader of a connection |

**How they interact.** Each connection's goroutine calls the hub; the hub's
tables are guarded by one mutex, but no frame is written while it is held: a
broadcast collects its writers, releases the lock, and writes; Relay looks the
destination up, releases the lock, asks the quota, writes, tells the quota and
tells the ledger, each under a lock of its own. The API's handlers change the
store and then the hub in two steps. Three stores are written to disk by a
rename, the leases and accounts at each change, the ledger once a minute.

**What is hard.** Everything that happens between two of those steps: a second
connection of the same device during the handshake or the end of the first, a
revocation during either, a write that fails between registration and WELCOME,
packets of several loops between the quota's question and its answer's
accounting, midnight in the same place, a restart between accounting and
save, a failed save of a new lease. On the client a run may fail after any step
of its set-up, a signal may come at any of them, and all runs share one
`Client`, so that a goroutine that outlives its run meets the next one. On the
wire a frame is two writes, and a peer that stops reading makes its writers
wait. `PROJECT.json` lists the hazards line by line.

**What makes each part correct.**

* Hub: its two tables agree; a node leaves only by its own handler's hand; no
  packet and no broadcast leaves the account; whoever was told of a node is told
  of its leave; what is kicked or lost goes offline.
* Metering: each forwarded byte is billed once; the quota never holds against
  an account what the ledger does not; the overrun of the limit is bounded; a
  restart does not grant the quota again, unless the leases never reached the
  disk.
* Leases: one address per device and one device per address; never the
  network's or the broadcast address; a lease on disk is there for good.
* Accounts: what a request was answered stays true whatever else runs, fails
  or restarts: a registered account and its invite, a revocation, a rotation;
  an account passes the limit of 16 devices by the requests that race at most.
* Frames: the reader of a connection sees whole frames; a peer that does not
  read holds nobody up for ever.
* Client: what a run took is given back on every path, its goroutines end with
  it, a run that is told to end does, and a signal ends the process.
* Exits: the node's switch is the store's, the clients' registries follow the
  hub, an exit is used while it is authorised, and without one a captured packet
  is dropped.

## Modules

| Module | Models |
|---|---|
| `Hub` | `hub.go`, `handleConn` and `dataLoop` of `server.go`, revocation of `api.go` |
| `Presence` | the abstract directory that `Hub` implements |
| `Metering` | Relay after its routing decision, `quota.go`, `usage.go`, `saveLoop`, tier switches, restarts |
| `Leases` | `lease.go` |
| `Accounts` | `store.go`, `mgmt.go`, `invite.go` and the handlers of `api.go` that call them |
| `Client` | the loop and the signal handler of `main.go`, `client.go`, the outcomes of `auth.go`, what set-up and cleanup do through `globalroute_*.go`, `netstack.go` and `tun_*.go` |
| `Frames` | `frame.go`, `sysRW` and `dataLoop` of `server.go`, broadcasts and relays of `hub.go` as writes, the client's writers and their deadlines |
| `Egress` | `handleAdminEgress` of `api.go`, `SetDeviceEgress` of `store.go`, `UpdateEgress` and the egress flag in `hub.go`, `peers.go`, the choice of an exit in `ipip.go` and `tunToServer` |
| `MCHub`, `MCMetering`, `MCLeases`, `MCAccounts`, `MCClient`, `MCFrames`, `MCEgress` | values of the constants for TLC |
| `Hub_proofs`, `Metering_proofs`, `Leases_proofs`, `Accounts_proofs`, `Client_proofs`, `Frames_proofs`, `Egress_proofs` | the theorems about each |

**Hub.** A connection's handler has a phase `pc[c]`; one action is one region
under `Hub.mu` or one frame written to one connection. A node is identified
with its connection. `ipTable` and `networks` are the code's two tables;
`targets` holds the writers a broadcast has collected and not yet written to;
`carry` the node a packet is being written to. `told` and `first` are history:
the addresses a connection was told of, by its WELCOME or a PEER_JOIN, and not
told the leave of since, and the first frame written to it after registration.
`told` is what the server has said on one connection and not what the client's
`PeerRegistry` holds: that lives across connections and `UpsertMany` only adds,
so a client that was away may go on listing what left meanwhile. Registries are
in `Egress`. `ClientLeaves` is the environment; a handler whose
connection is gone may go on reading frames that were buffered before.
A connection's address comes from the lease (`AddrOf`), which `Leases` shows
to be injective within a network; `HubAssumption` states exactly that.
Writing to a connection that the client left may succeed (it is buffered) or
be lost: for the recipient both are the same.

**Presence.** A device has at most one current connection, a connection is
listed at most once in its life, and never again after it left or was
superseded. `Hub!Directory` maps `current[d]` to `ipTable[KeyOf(d)]`.

**Metering.** A data loop takes one packet at a time through `Route`, `Admit`,
`Write` or `WriteFails`, `Inc`, `Add`: each is one lock's region in the code.
The two Egress flags are read without the lock, so `Route` reads each as either
value. A day is what `time.Now().Unix()/86400` yields; the ledger's hours are
folded into it. `Restart` ends the process anywhere - `Serve` saves but does not
wait for the data loops, so its last save is an ordinary `Save` before it - and
starts with the file. The backfill iterates the leases that were read from
`leases.json` (`quota.go:57`), so the leases are part of this module as two
sets, `leased` in memory and `leaseFile` on disk: only a leased device sends,
`AcquireFails` is a device whose lease could not be saved, which relays by the
lease in memory, and `Restart` begins at zero with whatever has no lease on
disk. `again` is history: how often on this day that happened to an account with
bytes in the ledger. A sum over buckets or packets (`Bytes`) is the number of
the single bytes it counts, a cardinality: that is the same number as a fold
yields, and can be reasoned about without induction.

**Leases.** `Allocate` holds the store's lock throughout, so each outcome is
one action: `Reuse`, `Grant`, `SaveFails`, `Exhausted`. A crash during the
save is, by the atomic rename, a crash before or after it: `Reopen`. A network
the code has not created yet is an empty map with `next = 1`. The searches'
limit of 65536 rounds is kept out of reach by `LeasesAssumption`; subnets
larger than a /16 are not covered.

**Accounts.** A request is a goroutine of the HTTP server; each action is one
region under the lock of the account store or of the invite book, with its
save. A save writes all of memory or, failing, nothing; memory keeps the change
and the request is answered with an error. `store` and `file`, `codes` and
`codesFile` are memory and disk of the two stores. A token is its number in
the device's life: 0 stands for a device that is not in the store, and
`minted` counts what was made, so that a rotation always brings a new one. A
client presents the latest token it was answered. `answered`, `registered` and
`revoked` are history: what the API has promised. Rotation is two steps since
the code obtains the record (`Store.Device`) before it takes the lock to change
it: a record removed meanwhile changes outside the store. The limit is likewise
checked one step before the device is added. `SaveOther` stands for the
operations that change other fields of a record and save. Ids and invite codes
are random and taken to be new; the rate limiter and the checks of a request's
form are left out.

**Client.** `main` is where the main goroutine stands in the loop, in `Run` or
in `cleanup`; `at[w][r]` where goroutine `w` of run `r` stands: off, waiting for
its next input, waiting for `writeMu`, writing. The fields of the one `Client`
that all runs share are `closed` (with `closeCh`: they change together), `conn`,
`dev` and `recorded` (what `routeCleanup` will remove); a goroutine reads them
at the step at which the code does, so a `tunToServer` of an earlier run finds
the present connection, or none, and then the process ends by a nil pointer:
`safeRun` recovers only the main goroutine. A slot is the name of a run and is
used again when nothing is left of it. Each step of the set-up may fail. A route
has an identity, `Route`. `keep` is one past the tunnel (server, keep-local)
over the old gateway; `theirs` is one that the client did not add, for the same
prefix through the same interface with another next hop or metric; the route
that captures traffic has the name of the run into whose device it leads.
`cfg.foreign` says which of them was there before: none, the very route the
client would add ("same"), or the other one ("beside"). On Linux a route that
exists counts as added ("File exists") and a failure deletes all the client
would have added; `ip route del` names no metric and takes the first that
matches. On Windows `New-NetRoute` fails for the very same route only, what was
not added is not recorded and nothing is undone, but `Remove-NetRoute` names
prefix and interface only: it takes `theirs` along (`Deleted`).

A Linux read that waits when its device is closed may be interrupted or not;
while it waits the interface stays (`Held`), with its capture route and, if
`tun_name` is configured, with its name (`NameBusy`; without a name the kernel
chooses a free one). On Windows the `done` channel ends it. `relay` stands for
the TCP flows of an exit: `ns.Close` (`Hangup`) waits for outputLoop and for
them, and while both goroutines of one wait for the real target, which have no
deadline, only the target ends them. Each flow closes both of its sides when one
of its goroutines ends, so one variable, for the flow that lasts longest, is
enough; flows touch nothing else and are followed from the cleanup on. UDP flows
end by themselves within their idle timeout, and a dial that is under way when
the stack closes is not counted by its `wg`: both are left out. `Join` is the
wait of three seconds: it passes over those goroutines only that no time would
end (`Stuck`). The back-off is a stutter, the server is `Peer`: it drops a
connection, stops reading it, or reads again.

**Frames.** Two byte streams per connection, `down` to the client and `up` to
its handler, of at most `Cap` pieces. A piece is who wrote it and whether it is
a header, its payload or a frame without one; what a reader makes of the pieces
is `AfterPiece`: a payload that is not the header's own writer's is "lost". The
client's writers - tunToServer, pingLoop, recvLoop for an echo and, on an exit,
the network stack's outputLoop - hold `writeMu` over both pieces, the server's
take the lock per piece, so no state of it is needed. A write waits while the
buffer is full; the client's data and echo writes then fail by their deadline (a
TLS connection fails for good then: `mute`), the server's and the client's pings
wait on. A handler reads, relays, answers, and, when no more comes, tells the
others before it closes (`Ends` is its return from a frame). `Freeze` is a host
that stops and does not come back.

**Egress.** A request stores the switch and then tells the hub, each under its
lock; when the store cannot be saved, memory has changed all the same and the
hub is not told (`SetDeviceEgressFails`). A handler reads the node's switch for
its PEER_JOIN without the lock (`NotifyPeerJoined`) and collects the recipients
under it later (`BroadcastJoin`), so that switches and registrations come in
between. Handlers register, welcome, announce and leave as in `Hub`, here with
what is said of the device: absent, a plain peer or an exit. A frame takes
effect when it is written, since a client reads its frames in order, and is lost
if the client no longer uses the connection. `peers` is the registry of a client
that looks exits up; a packet in its hands is matched, resolved and sent in
separate steps, with the registry changing between them. The devices are those
of one account: `server.go:152` makes an account a network, so the ACL of an
exit, which is about other accounts, never refuses anyone in `Relay`. Whose
packets a rule is about is the constant `Via`. `torn`, `allowed` and `doubt` are
history: devices whose requests overlapped or whose switch was not saved,
devices the store has ever held as exits, and the four ways a registry comes to
differ from the hub: a switch of the online node, of which nobody is told (a
PEER_JOIN encoded before it may even follow a WELCOME that has it), the late
PEER_LEAVE of a superseded session, a device that left while the client was
away, and a node whose WELCOME failed. Removal and addresses are not repeated
from `Hub` and `Leases`; the administrator switches only devices that offer to
be an exit.

## Runs

| Run | Instance | Shows |
|---|---|---|
| `MCHub` | 3 connections, 3 devices, 2 accounts that share 2 addresses, one device revocable, symmetric connections | `TypeOK`, `Listed`, `NetworkIsolation`, `LeavesAnnounced` |
| `MCHubLive` | 2 connections, 2 devices of one account, fairness, no symmetry | `OnlyOwnerLeaves`, `ImplementsPresence`, `KickedGoesOffline`, `LostConnectionEnds` |
| `MCMetering` | 2 loops, 2 devices, packets of size 1, limits 1 and 1, a limited and an unlimited tier, no loop takes a packet once 3 bytes are sent, 2 days, 1 restart, leases saved or not | `TypeOK`, `BilledOnce`, `QuotaWithinLedger`, `BilledWithinLimit`, `OverrunBound` |
| `MCLeases` | a subnet of 2 hosts, a network of 3 devices and one of 1, any number of restarts and failed saves | `TypeOK`, `OneLease`, `HostsOnly`, `NoneLost`, `SettledWhileSaved`, `FileDurable` |
| `MCAccounts` | 2 requests at once, 2 accounts, 3 devices, 1 invite, a limit of 1 device, 2 tokens per device, any number of restarts and failed saves; requests, accounts and devices symmetric | `TypeOK`, `RegisteredForGood`, `RevokedForGood`, `RotatedForGood`, `DeviceOverrun` |
| `MCClient` | 2 slots of runs, 3 machines that all take both kinds of routes: a Linux exit with a named device, a Linux client without a name beside a foreign route, a Windows client whose very route was there before; fairness | `TypeOK`, `GivenBack`, `ForeignKept`, `OnlyReadersSurvive`, `StopsWithinOneRun`, `ClosedRunReturns` |
| `MCFrames` | 2 connections, one of them an exit: 4 writers on its client, 3 on the other, buffers of 1 piece; fairness | `TypeOK`, `ClientFramesWhole`, `StallBounded` |
| `MCEgress` | an exit with 2 connections and a client in global mode that also has a rule, 2 requests at once whose saves may fail, any number of reconnects; connections and requests symmetric | `TypeOK`, `StoreDecides`, `ViewFresh`, `OnlyAllowedExits` |

Three connections are enough for the interleavings of the hub that need a
superseded session, its successor and a bystander; two addresses shared by two
accounts are enough for a packet to go to the wrong one. Two loops and limits of
one packet make every admission after the first a refusal, unless the check
races; the bound of three bytes is on what is sent when a packet is taken, so up
to four are billed: the limit and the overrun before a restart, and again after
one that found no lease. That bill reaches the bound of `BilledWithinLimit` with
its second allowance (without it the run fails) and four bytes cannot pass it:
the theorem is what says that they never would. On the second day of
`MCMetering` the bound of `BilledWithinLimit` (limit, overrun, one carried
packet per loop) is as large as the whole traffic, so that property bites on the
first day only; `QuotaWithinLedger` and `OverrunBound` watch midnight itself.
Two hosts and three devices exhaust a network. `MCMetering` has no deadlock
check because its traffic is bounded. In `MCAccounts` two requests race for the
one invite, for one record or for the limit. With a limit of 1 an account is at
its limit from registration on, and requests pass the check after its device was
revoked: by the administrator, or by a request of the device itself that was
authenticated before. Three devices then show an overrun of one and would show
one of two; limits above 1 add devices and no new order of steps, and 4 devices
with a limit of 2 are too many for a run of minutes.

The machines of `MCClient` differ in what bears upon the cleanup. A Windows exit
adds nothing to them: it differs from a Linux exit in the reader, which the
Windows client shows, and in how routes are taken back. Two slots let a run meet
what is left of the one before; a third would only add another goroutine of the
same kind. Buffers of one piece are full after each write, which is when writers
wait and interleave; two handlers that write to each other are the smallest
ring. One exit with two connections has a superseded session and its successor,
and one consumer both ways of looking an exit up; two requests overlap.

Four runs end in a counterexample to what a comment says:

* `RevokedGoesOffline` - a device revoked during its handshake, or with a
  superseded session, stays connected (`hub.go:185`). `KickedGoesOffline` says
  that whatever is kicked does go.
* `SignalStops` - a signal that comes between two runs closes nothing the next
  run would wait for (`main.go:88`, `client.go:67`); that run ends only when its
  connection does, and later signals are not heard. `StopsWithinOneRun` says
  that it is the last one.
* `WholeFrames` - two handlers that write to one connection interleave header
  and payload (`server.go:230`), and its client loses the frames' boundaries.
  `ClientFramesWhole` says that the other direction is safe.
* `RevokedExitUnused` - an exit that is revoked while online goes on serving
  those who know it (`hub.go:203`): the consumers are not told, Relay does not
  ask, the exit is not told either. `ViewFresh` and `StoreDecides` say what
  holds nevertheless.

Six more disagreements of the same kind are stated in the modules, each with
its .cfg beside it, as counterexamples to start by hand:

* `ListedAreOnline` (`tlc -config ListedAreOnline.cfg MCHub`) - a failed WELCOME
  leaves a ghost in the directory for good (`server.go:163`); `Listed` allows
  exactly this.
* `PeersComplete` (`MCHub`) - the late PEER_LEAVE of a superseded session makes
  the others forget a device that is online (`hub.go:249`); it is one of the
  exceptions of `ViewFresh`.
* `WelcomeFirst` (`MCHub`) - a broadcast may reach a client before its WELCOME,
  which the client's handshake takes for an error (`hub.go:155`).
* `HardLimit` (`MCMetering`) - concurrent loops pass the daily limit together
  (`hub.go:310`); `OverrunBound` says by how much at most.
* `NoDrift` (`MCLeases`) - after a failed save the retry is granted an address
  that is not on disk, and a restart gives it to another device
  (`lease.go:130`); `SettledWhileSaved` and `FileDurable` say what holds
  nevertheless.
* `OnlyAddedRemoved` (`MCClient`) - "restoring deletes what was added"
  (`globalroute_linux.go:64` and `:116`), but a route that was there before is
  recorded as added (`globalroute_linux.go:51`) or, by the roll-back, deleted
  without having been added at all; on Windows one with another next hop is
  deleted by its prefix (`globalroute_windows.go:88`). `ForeignKept` says what
  is left: the very same route, on Windows.

**Fairness.** `FairSpec` of `Hub` has weak fairness on each handler (goroutines
are scheduled, and a write returns) and on the two steps of a revocation, and
strong fairness on `Unregister` of a connection that is no longer open: its
reads deliver what was buffered, then fail, and relaying one buffered frame
disables `Unregister` for a moment. Nothing is assumed of clients except that
they take what is written to them; what a client that stops reading does to its
writers is the subject of `Frames`.

`FairSpec` of `Client` has weak fairness on the main goroutine and on the
goroutines of a run as far as nothing outside must happen first: a read of a
connection that is closed or lost ends, a read of a closed Windows device ends.
It is strong where a step is disabled now and then by what others do and Go's
runtime still guarantees it: `select` takes a closed `closeCh` although ticks
compete with it (`PingEnds`), `sync.Mutex` hands over to who waits longest
(`Lock` of outputLoop), a write to a peer that reads returns. Nothing is assumed
of the server, of packets to come, of signals, or of a real target: only
gVisor's abort of a flow that reads or writes the tunnel's side is fair.

`FairSpec` of `Frames` has weak fairness on each end's steps, which includes
that deadlines pass (for a client's writers together, since only the holder of
`writeMu` writes), and strong fairness on recvLoop's turn at `writeMu`. Nobody
need send, leave or freeze. `Egress` is checked for safety only.

`StallBounded` and `ClosedRunReturns` name their ways out: handlers that wait
for connections whose handlers wait in turn, all the way round (`Knot`), since
no idle deadline runs while nobody reads; and an exit's cleanup that waits for
its network stack (`Jammed`): for outputLoop, which waits for `writeMu` behind a
ping to a server that does not read - the connection is closed only after the
stack - or for a flow whose real target neither reads nor sends, which nothing
in the client ends (`netstack.go:246`). All are reachable in the models. In the
code only TCP can end them: its timeouts for a peer that does not answer any
more, and for one that is alive but does not read, nothing.

## Proofs

Every invariant and every action property of the passing runs, and the
refinement of `Presence`, is a theorem for all values of the constants that the
module's assumption admits. All proof modules follow the same argument: an
inductive invariant, shown to hold initially and to be kept by every action,
and the properties as consequences of it or of a step from it. Each inductive
invariant was first checked by TLC on the module's instance.

**`Hub_proofs`** assumes `HubAssumption` (the lease map is injective per
account). `Listed` is not inductive alone: that `Unregister` empties only its
own entry needs the types, and isolation needs that whoever is in `targets` or
`carry` was authenticated for the same account, which in turn rests on the
entries belonging to their keys. `ImplementsPresenceCorrect` is a refinement:
each step of the hub is a step of `Presence` or a stutter. `LeavesAnnounced`
speaks of quiet moments only; what is kept at every step is `Supported`: each
address a listed connection was told of is accounted for by some handler of that
address, which serves its device or has still to tell this very connection of
its leave. A handler's leave may pass a successor's join, and then it is the
successor that accounts for the address. It needs `Apart`: nobody announces its
own address to a connection of the same address.

**`Metering_proofs`** assumes `MeteringAssumption`: finitely many data loops, at
least one, finitely many devices, and a largest packet (the length field has 16
bits). Its first part is about `Bytes`: sums are natural numbers, of disjoint
sets they add up, they are monotonic and bounded, and a summand that grows grows
the sum. From these follow two facts that all the proofs use: what
`UsageStore.Add` adds to which sum (`AddBooks`), and what a step of a data loop
adds to the packets in flight of an account, a device, an egress lane
(`FlightStep`). The properties need three facts besides: the file is behind the
ledger and nothing is booked for a day to come (`Behind`); of what a limited
account is billed today or is about to be, the quota has counted all but what
came over midnight (`CountedAll`); and that with everything admitted stays
within the limit and the overrun, once more for each restart of the day without
a lease (`again`), and the carry-over (`AdmittedWithin`). Such a restart moves
what the ledger bills so far to the earlier allowances, of which each holds what
the quota had admitted. The check in `admit` gives the last one from
`CountedAll`, since when a loop asks, the others have a packet each at most in
flight that is not counted (`Ahead`, which is also the proof of `OverrunBound`).
At midnight the day's sum is empty, and what is in flight is what is carried
over.

**`Leases_proofs`** assumes `LeasesAssumption`. `FileDurable` needs that memory
includes the file (`Included`), since a save overwrites the file with memory;
`OneLease` must be proved of the file too, since a restart makes it memory;
`SettledWhileSaved` needs that the file is memory and contains what was granted
until a save fails (`Saved`). `TakeStep` collects what taking an address keeps,
for the two outcomes that take one. Proved for any subnet up to a /16, any
networks and devices.

**`Accounts_proofs`** assumes `AccountsAssumption`; the bound of the overrun
needs that finitely many requests run at once. That an answered registration,
revocation and rotation are for good needs to know what a request holds where it
stands (`Standing`): a registration has its account to itself, and the account
is in memory and on disk until it is rolled back, so no rollback reaches an
account that was answered. A device id that was not drawn has left no trace
(`Unborns`), so a later draw meets nothing. For `DeviceOverrun` a request that
passed the check holds a place: devices and held places of an account together
stay within the bound, and so does what a restart would restore (`Bounded`).

**`Client_proofs`** assumes `ClientAssumption` and nothing on the number of
slots. The invariant says whose connection and device are open in each phase of
`main` (`OneRun`), which goroutines can be about (`Living`), that `writeMu` has
one holder (`OneWriter`), that a route leads into a device only while the device
is up or a blocked reader holds it (`Led`), and of the route past the tunnel
that it is foreign, recorded, left behind by a failed network stack, or there in
place of a foreign one that was deleted for it (`Accounted`). For `ForeignKept`
that suffices: on Windows the very route that was there before is neither
recorded nor added, and what a deletion leaves (`DeletedLeaves`) has everything
but what matches a recorded route. `OnlyReadersSurvive` rests on what the wait
of three seconds passes over: a reader that Linux left in its read, and nothing
else.

**`Frames_proofs`** assumes `FramesAssumption`. `ClientFramesWhole` follows from
the mutual exclusion of a client's writers (`Exclusive`) and from the shape of
the stream it implies (`UpWhole`): each piece continues the one before, and a
header at the end has its payload still in the hands of its writer, unless the
connection cannot be written any more.

**`Egress_proofs`** assumes `EgressAssumption`. `StoreDecides` needs that
requests that do not overlap, and whose switches were saved, carry what the
store holds (`Ordered`); `OnlyAllowedExits` that whatever calls a device an exit
- flag, broadcast, WELCOME, registry - says so of one that was allowed
(`Authorised`). `ViewFresh` is about settled devices; what every step keeps is
`Views`: a client that broadcasts reach has been told, or a broadcast that will
tell it is under way, and no superseded handler has still something to say. A
broadcast to it may also find its WELCOME not yet read, and then it is the
WELCOME that counts (`Learns`).

Only model-checked: the liveness properties (`KickedGoesOffline`,
`LostConnectionEnds`, `ClosedRunReturns`, `StallBounded`), since the prover has
no liveness under fairness. That the ten counterexamples exist is, of its
nature, a matter for TLC.

## The plan

1. The composition of `Hub` with `Leases`, or a lemma that carries `OneLease`
   over to `HubAssumption`: what `Leases_proofs` shows of the lease map is what
   `Hub_proofs` assumes of `AddrOf`.
2. The safety part of the liveness arguments: that a kicked connection's handler
   never goes back to relaying, that a closed run's goroutines only move towards
   their end.
3. How the counters of a device's egress lane bound its bill for the day, as
   `BilledWithinLimit` does for the account.

## Not modelled

* The rate limiter (`rate.go`): one lock, two counters per key, sequential.
* The accept loop: it keeps no state, and its end is the end of the process.
* The composition of `Hub` with `Leases`, so that `AddrOf` is allocated and an
  account that replaces its devices exhausts its network (`store.go:183`).
* The reports (`EgressTotals`, `PerConsumer`, `ListClients`): they only read.
* The ring buffer of the Windows device (`tun_windows.go:53`): what a release
  after the end of its session does is below the level of these models.
* UDP flows of the network stack, which end within their idle timeout, and dials
  under way when the stack is closed, which its `wg` does not count
  (`netstack.go:103`); what gVisor does inside is external.
* Reading and generating configuration, the commands that set routes, printing
  and HTTP formatting (pure I/O), the headers built and parsed in `ipip.go` and
  `icmp.go` (stateless), log rotation, the sub-commands of `orbit-cli`.
