------------------------------- MODULE Client -------------------------------
(***************************************************************************)
(* The client: the loop of cmd/orbit-cli/main.go that calls Client.Run     *)
(* again and again, Run itself with its set-up and cleanup                 *)
(* (internal/client/client.go), and the goroutines of a run: recvLoop,     *)
(* tunToServer, pingLoop, and the network stack's outputLoop and relays.   *)
(*                                                                         *)
(* All runs share one Client: a goroutine reads its fields (conn, tunDev,  *)
(* closeCh) anew each time round its loop, so one that outlives its run    *)
(* acts on the next one.  One action is what one goroutine does between    *)
(* two points where it can block or where another one can see it.          *)
(***************************************************************************)
EXTENDS Naturals

CONSTANTS
  Slot,     \* names of the runs whose goroutines or device may still exist
  NoSlot,   \* a nil conn, no device
  Config    \* the configurations and machines the client may be started on

Worker == {"recv", "send", "ping", "out"}

\* "keep" is a route past the tunnel (server, keep-local), over the old gateway;
\* "theirs", which the client did not add, is for the same prefix through the
\* same interface, but has another next hop (Windows) or metric (Linux).  The
\* route that captures traffic has the name of the run into whose device it leads
Route == {"keep", "theirs"} \cup Slot

\* what was there before the client: no such route, the one it would add, or
\* the other one
Before == {"none", "same", "beside"}

ASSUME ClientAssumption ==
  /\ NoSlot \notin Slot
  /\ {"keep", "theirs"} \cap Slot = {}
  /\ Config \subseteq [os      : {"linux", "windows"},
                       ops     : SUBSET {"keep", "capture"},  \* what the mode wants
                       egress  : BOOLEAN,                     \* this host is an exit
                       foreign : Before,
                       named   : BOOLEAN]                     \* tun_name is given

VARIABLES
  cfg,      \* the configuration, constant
  sig,      \* the signal goroutine: none, pending, closed (Close), stopped
  main,     \* where the main goroutine stands
  run,      \* the present or last run
  late,     \* runs begun after stop was closed
  closed,   \* Client.closed; closeCh is closed exactly when it is set
  conn,     \* Client.conn, by the run that dialled it
  sock,     \* per run its connection; "stalled": the server does not read it
  dev,      \* Client.tunDev, by the run that created it
  tun,      \* per run its device
  at,       \* per goroutine and run where it stands
  reading,  \* per run the device its tunToServer reads from
  target,   \* the connection the holder of writeMu writes to
  relay,    \* a flow through the exit: none, "open", or "blocked" when both its
            \* goroutines wait for the real target
  routes,   \* the routes in the system
  recorded, \* what Client.routeCleanup will remove
  orphaned  \* a run ended with routes that it did not remove

vars == <<cfg, sig, main, run, late, closed, conn, sock, dev, tun, at, reading,
          target, relay, routes, recorded, orphaned>>

Phase == {"top", "dial", "create", "configure", "route", "bridge", "wait",
          "untun", "unstack", "join", "returned", "exited", "crashed"}

Foreign == CASE cfg.foreign = "none" -> {}
             [] cfg.foreign = "same" -> {"keep"}
             [] cfg.foreign = "beside" -> {"theirs"}

\* the goroutine that holds writeMu is the one that is writing
WriteMuFree == \A w \in Worker, r \in Slot : at[w][r] # "write"

TypeOK ==
  /\ cfg \in Config
  /\ sig \in {"none", "pending", "closed", "stopped"}
  /\ main \in Phase
  /\ run \in Slot \cup {NoSlot}
  /\ late \in 0..2
  /\ closed \in BOOLEAN
  /\ conn \in Slot \cup {NoSlot}
  /\ sock \in [Slot -> {"none", "open", "stalled", "lost", "closed"}]
  /\ dev \in Slot \cup {NoSlot}
  /\ tun \in [Slot -> {"none", "up", "closed"}]
  /\ at \in [Worker -> [Slot -> {"off", "next", "idle", "lock", "write"}]]
  /\ reading \in [Slot -> Slot \cup {NoSlot}]
  /\ target \in Slot \cup {NoSlot}
  /\ relay \in {"none", "open", "blocked"}
  /\ routes \subseteq Route
  /\ recorded \subseteq Route \ {"theirs"}
  /\ orphaned \in BOOLEAN
  /\ \A r \in Slot : reading[r] # NoSlot <=> at["send"][r] = "idle"
  /\ target = NoSlot <=> WriteMuFree

Init ==
  /\ cfg \in Config
  /\ sig = "none"
  /\ main = "top"
  /\ run = NoSlot
  /\ late = 0
  /\ closed = FALSE
  /\ conn = NoSlot
  /\ sock = [r \in Slot |-> "none"]
  /\ dev = NoSlot
  /\ tun = [r \in Slot |-> "none"]
  /\ at = [w \in Worker |-> [r \in Slot |-> "off"]]
  /\ reading = [r \in Slot |-> NoSlot]
  /\ target = NoSlot
  /\ relay = "none"
  /\ routes = Foreign
  /\ recorded = {}
  /\ orphaned = FALSE

-----------------------------------------------------------------------------
(* What the goroutines share.                                              *)

\* the process runs
Alive == main \notin {"exited", "crashed"}

Move(w, r, p) == at' = [at EXCEPT ![w][r] = p]

\* markClosed: the flag and the channel change together under closeMu
MarkClosed == closed' = TRUE

\* who sets a write deadline; recv does so for echo replies, not for PONG
Deadline(w) == w \in {"send", "out"}

\* a new run may take the name `r`: nothing of the run before is left of it
Unused(r) ==
  /\ \A w \in Worker : at[w][r] = "off"
  /\ \A s \in Slot : reading[s] # r
  /\ target # r

\* a blocked Read keeps the file open and with it the interface in the kernel
Held(d) == cfg.os = "linux" /\ \E s \in Slot : reading[s] = d

\* TUNSETIFF fails for the name of an interface that is there; without a name
\* the kernel chooses a free one
NameBusy == cfg.named /\ \E d \in Slot : Held(d) /\ tun[d] = "closed"

\* the route into a device goes when the interface does
Without(left, d) == IF Held(d) THEN left ELSE left \ {d}

CloseTun(d) ==
  /\ tun' = [tun EXCEPT ![d] = "closed"]
  /\ routes' = Without(routes, d)

\* a Read returns; the last one on a closed device lets the interface go
ReadReturns(r) ==
  /\ reading' = [reading EXCEPT ![r] = NoSlot]
  /\ routes' = IF \/ tun[reading[r]] # "closed"
                  \/ \E s \in Slot \ {r} : reading[s] = reading[r]
               THEN routes
               ELSE routes \ {reading[r]}

Hang(r) == sock' = [sock EXCEPT ![r] = "closed"]

goroutines == <<at, reading, target, relay>>
device == <<dev, tun>>
system == <<routes, recorded, orphaned>>
signal == <<cfg, sig>>

-----------------------------------------------------------------------------
(* The main goroutine: Run's set-up.                                       *)

Reset(r) ==
  /\ main = "top"
  /\ Unused(r)
  /\ main' = "dial"
  /\ run' = r
  /\ closed' = FALSE
  /\ conn' = NoSlot
  /\ sock' = [sock EXCEPT ![r] = "none"]
  /\ late' = IF sig = "stopped" THEN late + 1 ELSE late
  /\ UNCHANGED <<signal, device, goroutines, system>>

\* dialAndAuth: no connection, no answer in time, rejected, not a WELCOME
DialFails ==
  /\ main = "dial"
  /\ main' = "returned"
  /\ UNCHANGED <<signal, run, late, closed, conn, sock, device, goroutines, system>>

DialOK ==
  /\ main = "dial"
  /\ main' = "create"
  /\ conn' = run
  /\ sock' = [sock EXCEPT ![run] = "open"]
  /\ UNCHANGED <<signal, run, late, closed, device, goroutines, system>>

\* also: the WELCOME has no address or no network
CreateFails ==
  /\ main = "create"
  /\ main' = "returned"
  /\ Hang(run)
  /\ UNCHANGED <<signal, run, late, closed, conn, device, goroutines, system>>

CreateOK ==
  /\ main = "create"
  /\ ~NameBusy
  /\ main' = "configure"
  /\ dev' = run
  /\ tun' = [tun EXCEPT ![run] = "up"]
  /\ UNCHANGED <<signal, run, late, closed, conn, sock, goroutines, system>>

ConfigureFails ==
  /\ main = "configure"
  /\ main' = "returned"
  /\ CloseTun(run)
  /\ Hang(run)
  /\ UNCHANGED <<signal, run, late, closed, conn, dev, goroutines, recorded, orphaned>>

ConfigureOK ==
  /\ main = "configure"
  /\ main' = "route"
  /\ UNCHANGED <<signal, run, late, closed, conn, sock, device, goroutines, system>>

\* the routes that the mode asks for
Wanted == (cfg.ops \cap {"keep"}) \cup {r \in {run} : "capture" \in cfg.ops}

\* what may be left of `from` after the deletes of `gone`: for "keep" Windows
\* removes whatever has the prefix on the interface, and `ip route del`, which
\* names no metric, the first route that matches
Deleted(from, gone) ==
  LET matching == {k \in from \cap {"keep", "theirs"} : "keep" \in gone}
      removed == IF cfg.os = "windows" \/ matching = {} THEN {matching}
                 ELSE {{k} : k \in matching}
  IN {from \ (hit \cup (gone \cap Slot)) : hit \in removed}

\* mutant: New-NetRoute's failure is not looked at
TakeRoutesBlindly ==
  /\ main = "route"
  /\ main' = "bridge"
  /\ recorded' = Wanted
  /\ routes' = routes \cup Wanted
  /\ UNCHANGED <<signal, run, late, closed, conn, sock, device, goroutines, orphaned>>

\* `ip route add` succeeds for a route that exists ("File exists", also when it
\* captures for a device that is held), and all are recorded; New-NetRoute fails
\* for the very same route, and only those it added are
TakeRoutes ==
  /\ main = "route"
  /\ main' = "bridge"
  /\ \/ /\ cfg.os = "linux"
        /\ recorded' = Wanted
        /\ routes' = routes \cup {k \in Wanted : k = "keep" \/ routes \cap Slot = {}}
     \/ /\ cfg.os = "windows"
        /\ recorded' \in SUBSET (Wanted \ routes)
        /\ routes' = routes \cup recorded'
  /\ UNCHANGED <<signal, run, late, closed, conn, sock, device, goroutines, orphaned>>

\* mutant: no rollback; the routes added before the failing one stay
NotRolledBack == {routes \cup Wanted}

\* what may be left when the routes could not be taken: as before, if none was
\* tried yet (no default route read, no interface index found); Linux deletes
\* all it would have added when one fails, the one that failed included, and
\* Windows goes on without it
RolledBack ==
  {routes} \cup
  {left \in UNION {Deleted(routes \cup added, Wanted) : added \in SUBSET (Wanted \cap {"keep"})} :
     cfg.os = "linux"}

RoutesRefused ==
  /\ main = "route"
  /\ cfg.ops # {}
  /\ main' = "returned"
  /\ tun' = [tun EXCEPT ![run] = "closed"]
  /\ routes' \in {Without(left, run) : left \in RolledBack}
  /\ orphaned' = (orphaned /\ "keep" \in routes')
  /\ Hang(run)
  /\ UNCHANGED <<signal, run, late, closed, conn, dev, goroutines, recorded>>

\* NewNetStack failed: the device and the connection are closed, the routes
\* stay; routeCleanup still knows them
StackFails ==
  /\ main = "bridge"
  /\ cfg.egress
  /\ main' = "returned"
  /\ CloseTun(run)
  /\ Hang(run)
  /\ orphaned' = (orphaned \/ "keep" \in recorded)
  /\ UNCHANGED <<signal, run, late, closed, conn, dev, goroutines, recorded>>

\* the goroutines start
Bridge ==
  /\ main = "bridge"
  /\ main' = "wait"
  /\ at' = [w \in Worker |-> [at[w] EXCEPT ![run] =
              CASE w = "send" -> "next"
                [] w = "out" -> IF cfg.egress THEN "idle" ELSE "off"
                [] OTHER -> "idle"]]
  /\ UNCHANGED <<signal, run, late, closed, conn, sock, device, reading, target, relay, system>>

-----------------------------------------------------------------------------
(* The main goroutine: cleanup, and the loop's select.                     *)

Unroute ==
  /\ main = "wait"
  /\ closed
  /\ main' = "untun"
  /\ routes' \in Deleted(routes, recorded)
  /\ recorded' = {}
  /\ orphaned' = (orphaned /\ "keep" \in routes')
  /\ UNCHANGED <<signal, run, late, closed, conn, sock, device, goroutines>>

Untun ==
  /\ main = "untun"
  /\ main' = "unstack"
  /\ CloseTun(dev)
  /\ UNCHANGED <<signal, run, late, closed, conn, sock, dev, goroutines, recorded, orphaned>>

\* mutant: the connection is left to the goroutines that use it
NoHangup ==
  /\ main = "unstack"
  /\ at["out"][run] = "off"
  /\ relay = "none"
  /\ main' = "join"
  /\ UNCHANGED <<signal, run, late, closed, conn, sock, device, goroutines, system>>

\* ns.Close, which has cancelled outputLoop and aborted the flows, returns when
\* that and the relays have ended; then conn.Close
Hangup ==
  /\ main = "unstack"
  /\ at["out"][run] = "off"
  /\ relay = "none"
  /\ main' = "join"
  /\ Hang(conn)
  /\ UNCHANGED <<signal, run, late, closed, conn, device, goroutines, system>>

Counted == Worker \ {"out"}

\* a goroutine that does not end by itself however long one waits
Stuck(w, r) ==
  \/ w = "send" /\ at[w][r] = "idle" /\ cfg.os = "linux"
  \/ w = "recv" /\ at[w][r] = "idle" /\ sock[r] \in {"open", "stalled"}
  \/ at[w][r] = "write" /\ sock[target] = "stalled" /\ ~Deadline(w)
  \/ /\ at[w][r] = "lock"
     /\ \E v \in Worker, s \in Slot :
          at[v][s] = "write" /\ sock[target] = "stalled" /\ ~Deadline(v)

\* wg.Wait, or 3 s: long enough for whoever is not stuck
Join ==
  /\ main = "join"
  /\ \A w \in Counted, r \in Slot : at[w][r] = "off" \/ Stuck(w, r)
  /\ main' = "returned"
  /\ UNCHANGED <<signal, run, late, closed, conn, sock, device, goroutines, system>>

\* mutant: the loop looks at the error only
ReturnRetries ==
  /\ main = "returned"
  /\ main' = "top"
  /\ UNCHANGED <<signal, run, late, closed, conn, sock, device, goroutines, system>>

\* stop is looked at when Run has returned, and only then
Return ==
  /\ main = "returned"
  /\ main' = IF sig = "stopped" THEN "exited" ELSE "top"
  /\ UNCHANGED <<signal, run, late, closed, conn, sock, device, goroutines, system>>

MainNext ==
  \/ \E r \in Slot : Reset(r)
  \/ DialFails \/ DialOK \/ CreateFails \/ CreateOK
  \/ ConfigureFails \/ ConfigureOK \/ TakeRoutes \/ RoutesRefused
  \/ StackFails \/ Bridge
  \/ Unroute \/ Untun \/ Hangup \/ Join \/ Return

-----------------------------------------------------------------------------
(* The goroutines of a run.                                                *)

fixed == <<signal, run, late, conn, sock, device, relay, recorded, orphaned>>
unmoved == <<fixed, routes>>

Stands(w, r, p) == Alive /\ at[w][r] = p

\* a frame that wants an answer: PING, or an echo request for the exit
RecvAnswers(r) ==
  /\ Stands("recv", r, "idle")
  /\ sock[r] \in {"open", "stalled"}
  /\ Move("recv", r, "lock")
  /\ UNCHANGED <<unmoved, main, closed, reading, target>>

\* a packet whose tunDev.Write failed: recvLoop itself goes on
RecvTunFails(r) ==
  /\ Stands("recv", r, "idle")
  /\ sock[r] \in {"open", "stalled"}
  /\ MarkClosed
  /\ UNCHANGED <<unmoved, main, goroutines>>

RecvEnds(r) ==
  /\ Stands("recv", r, "idle")
  /\ sock[r] \in {"lost", "closed"}
  /\ MarkClosed
  /\ Move("recv", r, "off")
  /\ UNCHANGED <<unmoved, main, reading, target>>

\* the next Read, on the device Client.tunDev is now
SendReads(r) ==
  /\ Stands("send", r, "next")
  /\ tun[dev] = "up"
  /\ Move("send", r, "idle")
  /\ reading' = [reading EXCEPT ![r] = dev]
  /\ UNCHANGED <<unmoved, main, closed, target>>

\* a packet; it is for no IPv4 destination or its exit is offline, or sendData
\* refuses it, or it waits for writeMu
SendDrops(r) ==
  /\ Stands("send", r, "idle")
  /\ Move("send", r, "next")
  /\ ReadReturns(r)
  /\ UNCHANGED <<fixed, main, closed, target>>

SendPacket(r) ==
  /\ Stands("send", r, "idle")
  /\ Move("send", r, IF closed THEN "off" ELSE "lock")
  /\ ReadReturns(r)
  /\ UNCHANGED <<fixed, main, closed, target>>

\* Read fails on a closed device: at once if it is called then; a Read that
\* waits is told by Windows' done channel
SendEnds(r) ==
  /\ \/ Stands("send", r, "next") /\ tun[dev] # "up"
     \/ /\ Stands("send", r, "idle")
        /\ tun[reading[r]] = "closed"
        /\ cfg.os = "windows"
  /\ MarkClosed
  /\ Move("send", r, "off")
  /\ reading' = [reading EXCEPT ![r] = NoSlot]
  /\ UNCHANGED <<unmoved, main, target>>

\* Linux' blocking read(2) may be interrupted by the Close, or not
SendInterrupted(r) ==
  /\ Stands("send", r, "idle")
  /\ tun[reading[r]] = "closed"
  /\ cfg.os = "linux"
  /\ MarkClosed
  /\ Move("send", r, "off")
  /\ ReadReturns(r)
  /\ UNCHANGED <<fixed, main, target>>

PingTicks(r) ==
  /\ Stands("ping", r, "idle")
  /\ Move("ping", r, "lock")
  /\ UNCHANGED <<unmoved, main, closed, reading, target>>

PingEnds(r) ==
  /\ Stands("ping", r, "idle")
  /\ closed
  /\ Move("ping", r, "off")
  /\ UNCHANGED <<unmoved, main, closed, reading, target>>

OutPacket(r) ==
  /\ Stands("out", r, "idle")
  /\ ~closed
  /\ Move("out", r, "lock")
  /\ UNCHANGED <<unmoved, main, closed, reading, target>>

\* mutant: ns.Close waits without having cancelled outputLoop's context
OutGoesOn(r) == FALSE /\ UNCHANGED vars

\* ns.Close has cancelled its context
OutEnds(r) ==
  /\ Stands("out", r, "idle")
  /\ main = "unstack"
  /\ run = r
  /\ Move("out", r, "off")
  /\ UNCHANGED <<unmoved, main, closed, reading, target>>

\* writeMu is taken and Client.conn read: nil between the runs' connections
Lock(w, r) ==
  /\ Stands(w, r, "lock")
  /\ WriteMuFree
  /\ \/ /\ conn # NoSlot
        /\ Move(w, r, "write")
        /\ target' = conn
        /\ UNCHANGED main
     \/ /\ conn = NoSlot
        /\ main' = "crashed"
        /\ UNCHANGED <<at, target>>
  /\ UNCHANGED <<unmoved, closed, reading>>

WriteDone(w, r) ==
  /\ Stands(w, r, "write")
  /\ sock[target] = "open"
  /\ Move(w, r, IF w = "send" THEN "next" ELSE "idle")
  /\ target' = NoSlot
  /\ UNCHANGED <<unmoved, main, closed, reading>>

\* mutant: writeMu is not released on an error
WriteErrorKeepsMu(w, r) ==
  /\ Move(w, r, IF w = "send" THEN "off" ELSE "idle")
  /\ closed' = (closed \/ w = "send")
  /\ UNCHANGED <<unmoved, main, reading, target>>

\* only tunToServer ends the run for it
WriteError(w, r) ==
  /\ Move(w, r, IF w = "send" THEN "off" ELSE "idle")
  /\ closed' = (closed \/ w = "send")
  /\ target' = NoSlot
  /\ UNCHANGED <<unmoved, main, reading>>

WriteFails(w, r) ==
  /\ Stands(w, r, "write")
  /\ \/ sock[target] \in {"lost", "closed"}
     \/ sock[target] = "stalled" /\ Deadline(w)
  /\ WriteError(w, r)

\* the write deadline of an echo reply
EchoTimesOut(r) ==
  /\ Stands("recv", r, "write")
  /\ sock[target] = "stalled"
  /\ WriteError("recv", r)

WorkerNext(r) ==
  \/ RecvAnswers(r) \/ RecvTunFails(r) \/ RecvEnds(r)
  \/ SendReads(r) \/ SendDrops(r) \/ SendPacket(r) \/ SendEnds(r) \/ SendInterrupted(r)
  \/ PingTicks(r) \/ PingEnds(r) \/ OutPacket(r) \/ OutEnds(r)
  \/ EchoTimesOut(r)
  \/ \E w \in Worker : Lock(w, r) \/ WriteDone(w, r) \/ WriteFails(w, r)

-----------------------------------------------------------------------------
(* The flows through an exit.  A flow has two goroutines, one that reads   *)
(* the tunnel's side and writes to the real target, one that reads the     *)
(* target and writes to the tunnel's side, and each closes both sides when *)
(* it ends, which wakes the other.  So as soon as one waits for the        *)
(* tunnel's side, the end of that side ends both; while both wait for the  *)
(* target, only the target does.  `relay` stands for all flows, by the one *)
(* that would last longest.  They come and go from Bridge on, but touch    *)
(* nothing else here, so they are not followed before the cleanup.         *)

relayed == <<signal, main, run, late, closed, conn, sock, device, at, reading, target, system>>

\* a SYN from the tunnel, and the target answered the dial
RelayStarts ==
  /\ main = "untun"
  /\ cfg.egress
  /\ relay = "none"
  /\ relay' = "open"
  /\ UNCHANGED relayed

\* the target takes no more, and sends nothing
RelayBlocks ==
  /\ main = "untun"
  /\ relay = "open"
  /\ relay' = "blocked"
  /\ UNCHANGED relayed

RelayFrees ==
  /\ Alive
  /\ relay = "blocked"
  /\ relay' = "open"
  /\ UNCHANGED relayed

\* either side ended the flow or failed
RelayEnds ==
  /\ Alive
  /\ relay # "none"
  /\ relay' = "none"
  /\ UNCHANGED relayed

\* the closed stack aborts the tunnel's side
RelayAborted ==
  /\ main = "unstack"
  /\ relay = "open"
  /\ relay' = "none"
  /\ UNCHANGED relayed

RelayNext == RelayStarts \/ RelayBlocks \/ RelayFrees \/ RelayEnds \/ RelayAborted

-----------------------------------------------------------------------------
(* Signals, and the server's end of the connection.                        *)

unsignalled == <<cfg, main, run, late, conn, device, goroutines, system>>

\* the first signal; later ones find the channel full or nobody receiving
Signal ==
  /\ Alive
  /\ sig = "none"
  /\ sig' = "pending"
  /\ UNCHANGED <<unsignalled, closed, sock>>

SignalClose ==
  /\ Alive
  /\ sig = "pending"
  /\ sig' = "closed"
  /\ MarkClosed
  /\ UNCHANGED <<unsignalled, sock>>

SignalStop ==
  /\ Alive
  /\ sig = "closed"
  /\ sig' = "stopped"
  /\ UNCHANGED <<unsignalled, closed, sock>>

\* what the network and the server do to an established connection
Peer(r) ==
  /\ Alive
  /\ \/ sock[r] = "open" /\ sock' \in {[sock EXCEPT ![r] = "stalled"],
                                       [sock EXCEPT ![r] = "lost"]}
     \/ sock[r] = "stalled" /\ sock' \in {[sock EXCEPT ![r] = "open"],
                                          [sock EXCEPT ![r] = "lost"]}
  /\ UNCHANGED <<unsignalled, sig, closed>>

Next ==
  \/ MainNext
  \/ \E r \in Slot : WorkerNext(r) \/ Peer(r)
  \/ RelayNext
  \/ Signal \/ SignalClose \/ SignalStop

Spec == Init /\ [][Next]_vars

(* Goroutines are scheduled, and a call to the system returns unless it    *)
(* waits for a packet or for a server that does not read.  A goroutine     *)
(* that waits for writeMu gets it (sync.Mutex does not starve), and the    *)
(* select of pingLoop takes the closed channel some time although a tick   *)
(* may win now and then.  A server that stalls and reads on by turns gets  *)
(* the frame.  No signal, packet or loss is owed, and nothing of a real    *)
(* target.                                                                 *)
Fairness ==
  /\ WF_vars(MainNext)
  /\ WF_vars(SignalClose) /\ WF_vars(SignalStop) /\ WF_vars(RelayAborted)
  /\ \A r \in Slot :
       WF_vars(RecvEnds(r)) /\ WF_vars(SendReads(r) \/ SendEnds(r)) /\ WF_vars(OutEnds(r))
  /\ SF_vars(\E r \in Slot : PingEnds(r))
  /\ \A w \in Counted : WF_vars(\E r \in Slot : Lock(w, r))
  /\ SF_vars(\E r \in Slot : Lock("out", r))
  /\ SF_vars(\E w \in Worker, r \in Slot : WriteDone(w, r) \/ WriteFails(w, r))

FairSpec == Spec /\ Fairness

-----------------------------------------------------------------------------
(* Properties.                                                             *)

(* "cleanup must close the resources": whenever Run has returned, also     *)
(* from the middle of its set-up, no device and no connection of any run   *)
(* is open.  A route into a device is left only while a blocked reader     *)
(* holds the interface, and "keep" only if a failed network stack left it  *)
(* behind or Linux deleted the route that was there before in its place.   *)
GivenBack ==
  main \in {"returned", "top", "exited"} =>
    /\ \A r \in Slot : tun[r] # "up" /\ sock[r] \in {"none", "closed"}
    /\ \A d \in Slot \cap routes : Held(d)
    /\ "keep" \in routes => "keep" \in Foreign \/ orphaned \/ ~(Foreign \subseteq routes)

(* On Windows the very route that the client would add is not removed if   *)
(* it was there before: the add fails, and what was not added is not       *)
(* recorded.  No such thing holds of a route with another next hop, which  *)
(* the cleanup removes with the client's own, nor of Linux, where `File    *)
(* exists` counts as added and the roll-back deletes what it never added.  *)
ForeignKept ==
  cfg.os = "windows" /\ cfg.foreign = "same" => Foreign \subseteq routes

(* globalroute_linux.go:64 and :116 say that restoring deletes what was     *)
(* added and nothing else, so no route that was there before is lost.      *)
OnlyAddedRemoved == Foreign \subseteq routes

(* A loop that outlives the cleanup of its run is a tunToServer in a       *)
(* read that Linux did not interrupt: whatever the connection or the       *)
(* network stack did, all others have ended before the next run sets up.   *)
OnlyReadersSurvive ==
  main \notin {"wait", "untun", "unstack", "join", "crashed"} =>
    \A w \in Worker, r \in Slot :
      at[w][r] # "off" => w = "send" /\ cfg.os = "linux"

(* Once stop is closed at most one more run begins: one whose Run had not  *)
(* been entered, or was reset, when the signal came.                       *)
StopsWithinOneRun == late <= 1

\* the network stack waits for outputLoop, that for writeMu, and its holder
\* for a server that does not read: conn.Close, which would help, comes later;
\* or it waits for a flow whose real target neither reads nor sends
Jammed ==
  /\ main = "unstack"
  /\ \/ /\ at["out"][run] # "off"
        /\ \E w \in {"recv", "ping"}, r \in Slot :
             at[w][r] = "write" /\ sock[target] = "stalled"
     \/ relay = "blocked"

(* A run whose closeCh is closed, by whomever, comes to its end, unless it *)
(* is an exit's and a stalled server or a stalled target jams the network  *)
(* stack's Close.                                                          *)
ClosedRunReturns ==
  (main = "wait" /\ closed) ~> (main \in {"returned", "crashed"} \/ Jammed)

(* "in the signal handling, Close, then leave through the stop channel":   *)
(* a signal ends the process.                                              *)
SignalStops == (sig = "pending") ~> (main = "exited")
=============================================================================
