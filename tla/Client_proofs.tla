---------------------------- MODULE Client_proofs ----------------------------
(***************************************************************************)
(* That a run gives back what it took, that its goroutines end with it but *)
(* for a blocked reader, and that at most one run begins after the stop,   *)
(* for any number of names of runs and any configurations.                 *)
(***************************************************************************)
EXTENDS Client, TLAPS

\* a run's set-up, before its goroutines start
SetUp == {"dial", "create", "configure", "route", "bridge"}

\* the goroutines of a run may be about
Running == {"wait", "untun", "unstack", "join", "crashed"}

Dialled == {"create", "configure", "route", "bridge", "wait", "untun", "unstack"}
Tunnelled == {"configure", "route", "bridge", "wait", "untun"}

(* One run at a time: what is open is the present run's, and Client's      *)
(* fields are about it.                                                    *)
OneRun ==
  /\ main \notin {"top", "crashed"} => run \in Slot
  /\ main \in Dialled => conn = run
  /\ main \in Tunnelled => dev = run /\ tun[run] = "up"
  /\ main # "crashed" => \A r \in Slot :
       /\ sock[r] \in {"none", "closed"} \/ (r = run /\ main \in Dialled)
       /\ tun[r] # "up" \/ (r = run /\ main \in Tunnelled)

Stopped == late = 0 \/ (late = 1 /\ main # "top" /\ sig = "stopped")

OneWriter ==
  \A v, w \in Worker, r, s \in Slot :
    at[v][r] = "write" /\ at[w][s] = "write" => v = w /\ r = s

(* Which goroutines there are: those of the present run once it started    *)
(* them, outputLoop no longer than until the network stack was closed, and *)
(* of any run the tunToServer that Linux left in a read.                   *)
Living ==
  /\ main \in SetUp => \A w \in Worker : at[w][run] = "off"
  /\ \A r \in Slot : at["out"][r] # "off" => r = run /\ main \in Running \ {"join"}
  /\ \A w \in Worker, r \in Slot : at[w][r] # "off" =>
       /\ \/ w = "send" /\ cfg.os = "linux"
          \/ r = run /\ main \in Running
       /\ dev \in Slot

(* A route into a device is there as long as the device is up or a blocked *)
(* reader holds its interface; who reads, reads from a device.             *)
Led ==
  /\ \A d \in Slot \cap routes : tun[d] = "up" \/ Held(d)
  /\ \A s \in Slot : reading[s] # NoSlot => tun[reading[s]] # "none"

(* The route past the tunnel is foreign, recorded, left behind by a failed *)
(* network stack, or there in exchange for a foreign one; on Windows the   *)
(* very route that was there before is neither recorded nor removed.       *)
Excused == "keep" \in Foreign \/ orphaned \/ ~(Foreign \subseteq routes)

Accounted ==
  /\ "theirs" \in routes => "theirs" \in Foreign
  /\ "keep" \in routes => Excused \/ (main \in {"bridge", "wait"} /\ "keep" \in recorded)
                       \/ main = "crashed"
  /\ cfg.os = "windows" /\ cfg.foreign = "same" => "keep" \in routes \ recorded

IInv == TypeOK /\ OneRun /\ Stopped /\ OneWriter /\ Living /\ Led /\ Accounted

-----------------------------------------------------------------------------
(* The goroutines.                                                         *)

Standpoint == {"off", "next", "idle", "lock", "write"}

\* the part of TypeOK that is about the goroutines
Goroutines ==
  /\ at \in [Worker -> [Slot -> Standpoint]]
  /\ reading \in [Slot -> Slot \cup {NoSlot}]
  /\ target \in Slot \cup {NoSlot}
  /\ \A r \in Slot : reading[r] # NoSlot <=> at["send"][r] = "idle"
  /\ target = NoSlot <=> WriteMuFree
  /\ OneWriter

NothingStarts == \A w \in Worker, r \in Slot : at[w][r] = "off" => at'[w][r] = "off"

LEMMA MoveAt ==
  ASSUME Goroutines, NEW w \in Worker, NEW r \in Slot, NEW p \in Standpoint, Move(w, r, p)
  PROVE  /\ at' \in [Worker -> [Slot -> Standpoint]]
         /\ at'[w][r] = p
         /\ \A v \in Worker, s \in Slot : ~(v = w /\ s = r) => at'[v][s] = at[v][s]
  BY DEF Goroutines, Move

(* A goroutine other than tunToServer that does not begin or end a write.  *)
LEMMA OtherMoves ==
  ASSUME Goroutines, NEW w \in Worker \ {"send"}, NEW r \in Slot, at[w][r] = "idle",
         NEW p \in {"off", "lock"}, Move(w, r, p), UNCHANGED <<reading, target>>
  PROVE  Goroutines' /\ NothingStarts
  <1>1. /\ at' \in [Worker -> [Slot -> Standpoint]]
        /\ at'[w][r] = p
        /\ \A v \in Worker, s \in Slot : ~(v = w /\ s = r) => at'[v][s] = at[v][s]
    BY MoveAt DEF Standpoint
  <1>2. \A v \in Worker, s \in Slot : at'[v][s] = "write" <=> at[v][s] = "write"
    BY <1>1
  <1>3. \A s \in Slot : at'["send"][s] = at["send"][s]
    BY <1>1 DEF Worker
  <1>4. OneWriter' /\ (WriteMuFree' <=> WriteMuFree)
    BY <1>2 DEF Goroutines, OneWriter, WriteMuFree
  <1>5. NothingStarts
    BY <1>1 DEF NothingStarts
  <1> QED
    BY <1>1, <1>3, <1>4, <1>5 DEF Goroutines

(* tunToServer between two reads: it reads from no device.                 *)
LEMMA SendMoves ==
  ASSUME Goroutines, NEW r \in Slot, at["send"][r] \in {"next", "idle"},
         NEW p \in {"off", "next", "lock"}, Move("send", r, p),
         reading' = [reading EXCEPT ![r] = NoSlot], UNCHANGED target
  PROVE  Goroutines' /\ NothingStarts
  <1>1. /\ at' \in [Worker -> [Slot -> Standpoint]]
        /\ at'["send"][r] = p
        /\ \A v \in Worker, s \in Slot : ~(v = "send" /\ s = r) => at'[v][s] = at[v][s]
    BY MoveAt DEF Standpoint, Worker
  <1>2. \A v \in Worker, s \in Slot : at'[v][s] = "write" <=> at[v][s] = "write"
    BY <1>1
  <1>3. /\ reading' \in [Slot -> Slot \cup {NoSlot}]
        /\ \A s \in Slot : reading'[s] # NoSlot <=> at'["send"][s] = "idle"
    BY <1>1 DEF Goroutines, Worker
  <1> QED
    BY <1>1, <1>2, <1>3 DEF Goroutines, OneWriter, WriteMuFree, NothingStarts

(* A writer lets writeMu go, whether its write came to an end or failed.   *)
LEMMA WriteEnds ==
  ASSUME Goroutines, NEW w \in Worker, NEW r \in Slot, at[w][r] = "write",
         NEW p \in {"off", "next", "idle"}, w = "send" => p # "idle",
         Move(w, r, p), target' = NoSlot, UNCHANGED reading
  PROVE  Goroutines' /\ NothingStarts
  <1>1. /\ at' \in [Worker -> [Slot -> Standpoint]]
        /\ at'[w][r] = p
        /\ \A v \in Worker, s \in Slot : ~(v = w /\ s = r) => at'[v][s] = at[v][s]
    BY MoveAt DEF Standpoint
  <1>2. \A v \in Worker, s \in Slot : at'[v][s] # "write"
    BY <1>1 DEF Goroutines, OneWriter
  <1>3. \A s \in Slot : at'["send"][s] = "idle" <=> at["send"][s] = "idle"
    BY <1>1 DEF Worker
  <1> QED
    BY <1>1, <1>2, <1>3 DEF Goroutines, OneWriter, WriteMuFree, NothingStarts

(* A goroutine takes writeMu: none other is writing.                       *)
LEMMA WriteBegins ==
  ASSUME Goroutines, NEW w \in Worker, NEW r \in Slot, at[w][r] = "lock", WriteMuFree,
         Move(w, r, "write"), target' \in Slot, UNCHANGED reading
  PROVE  Goroutines' /\ NothingStarts
  <1>1. /\ at' \in [Worker -> [Slot -> Standpoint]]
        /\ at'[w][r] = "write"
        /\ \A v \in Worker, s \in Slot : ~(v = w /\ s = r) => at'[v][s] = at[v][s]
    BY MoveAt DEF Standpoint
  <1>2. \A v \in Worker, s \in Slot : at'[v][s] = "write" => v = w /\ s = r
    BY <1>1 DEF WriteMuFree
  <1>3. \A s \in Slot : at'["send"][s] = "idle" <=> at["send"][s] = "idle"
    BY <1>1 DEF Worker
  <1>4. target' # NoSlot
    BY ClientAssumption
  <1> QED
    BY <1>1, <1>2, <1>3, <1>4 DEF Goroutines, OneWriter, WriteMuFree, NothingStarts

(* What any step of a goroutine does: it moves goroutines that are there,  *)
(* may close the run or crash, lets an interface go that it held, and      *)
(* leaves the rest to the main goroutine.                                  *)
LEMMA WorkerStep ==
  ASSUME IInv, NEW r \in Slot, WorkerNext(r)
  PROVE  /\ Goroutines' /\ NothingStarts
         /\ Alive /\ main' \in {main, "crashed"}
         /\ closed' \in BOOLEAN
         /\ fixed' = fixed
  <1>1. Goroutines
    BY DEF IInv, TypeOK, Goroutines, Standpoint
  <1>2. {"recv", "send", "ping", "out"} = Worker
    BY DEF Worker
  <1>3. closed \in BOOLEAN /\ TRUE \in BOOLEAN
    BY DEF IInv, TypeOK
  <1>4. CASE RecvAnswers(r) \/ PingTicks(r) \/ OutPacket(r)
    BY <1>1, <1>2, <1>3, <1>4, OtherMoves DEF RecvAnswers, PingTicks, OutPacket, Stands, unmoved
  <1>5. CASE RecvEnds(r) \/ PingEnds(r) \/ OutEnds(r)
    BY <1>1, <1>2, <1>3, <1>5, OtherMoves DEF RecvEnds, PingEnds, OutEnds, Stands, MarkClosed, unmoved
  <1>6. CASE RecvTunFails(r)
    <2>1. UNCHANGED <<at, reading, target>>
      BY <1>6 DEF RecvTunFails, goroutines
    <2>2. Goroutines' /\ NothingStarts
      BY <1>1, <2>1 DEF Goroutines, OneWriter, WriteMuFree, NothingStarts
    <2> QED
      BY <1>3, <1>6, <2>2 DEF RecvTunFails, Stands, MarkClosed, unmoved
  <1>7. CASE SendReads(r)
    <2>1. /\ at["send"][r] = "next" /\ dev \in Slot /\ dev # NoSlot
          /\ reading' = [reading EXCEPT ![r] = dev] /\ UNCHANGED target
      BY <1>2, <1>7, ClientAssumption DEF SendReads, Stands, IInv, Living
    <2>2. /\ at' \in [Worker -> [Slot -> Standpoint]]
          /\ at'["send"][r] = "idle"
          /\ \A v \in Worker, s \in Slot : ~(v = "send" /\ s = r) => at'[v][s] = at[v][s]
      BY <1>1, <1>2, <1>7, MoveAt DEF SendReads, Standpoint
    <2>3. \A v \in Worker, s \in Slot : at'[v][s] = "write" <=> at[v][s] = "write"
      BY <2>1, <2>2
    <2>4. /\ reading' \in [Slot -> Slot \cup {NoSlot}]
          /\ \A s \in Slot : reading'[s] # NoSlot <=> at'["send"][s] = "idle"
      BY <1>1, <1>2, <2>1, <2>2 DEF Goroutines
    <2>5. Goroutines' /\ NothingStarts
      BY <1>1, <2>1, <2>2, <2>3, <2>4 DEF Goroutines, OneWriter, WriteMuFree, NothingStarts
    <2> QED
      BY <1>3, <1>7, <2>5 DEF SendReads, Stands, unmoved
  <1>8. CASE SendDrops(r)
    BY <1>1, <1>3, <1>8, SendMoves DEF SendDrops, ReadReturns, Stands
  <1>9. CASE SendPacket(r)
    BY <1>1, <1>3, <1>9, SendMoves DEF SendPacket, ReadReturns, Stands
  <1>10. CASE SendEnds(r) \/ SendInterrupted(r)
    BY <1>1, <1>3, <1>10, SendMoves DEF SendEnds, SendInterrupted, ReadReturns, Stands, MarkClosed, unmoved
  <1>11. ASSUME NEW w \in Worker, Lock(w, r)
         PROVE  /\ Goroutines' /\ NothingStarts
                /\ Alive /\ main' \in {main, "crashed"}
                /\ closed' \in BOOLEAN
                /\ fixed' = fixed
    <2>1. /\ at[w][r] = "lock" /\ WriteMuFree /\ Alive
          /\ UNCHANGED <<fixed, closed, reading>>
      BY <1>11 DEF Lock, Stands, unmoved
    <2>2. CASE conn # NoSlot /\ Move(w, r, "write") /\ target' = conn /\ UNCHANGED main
      <3>1. target' \in Slot
        BY <2>2 DEF IInv, TypeOK
      <3> QED
        BY <1>1, <1>3, <2>1, <2>2, <3>1, WriteBegins
    <2>3. CASE main' = "crashed" /\ UNCHANGED <<at, target>>
      <3>1. Goroutines' /\ NothingStarts
        BY <1>1, <2>1, <2>3 DEF Goroutines, OneWriter, WriteMuFree, NothingStarts
      <3> QED
        BY <1>3, <2>1, <2>3, <3>1
    <2> QED
      BY <1>11, <2>2, <2>3 DEF Lock
  <1>12. ASSUME NEW w \in Worker, WriteDone(w, r)
         PROVE  /\ Goroutines' /\ NothingStarts
                /\ Alive /\ main' \in {main, "crashed"}
                /\ closed' \in BOOLEAN
                /\ fixed' = fixed
    BY <1>1, <1>3, <1>12, WriteEnds DEF WriteDone, Stands, unmoved
  <1>13. ASSUME NEW w \in Worker, WriteError(w, r), Stands(w, r, "write")
         PROVE  /\ Goroutines' /\ NothingStarts
                /\ Alive /\ main' \in {main, "crashed"}
                /\ closed' \in BOOLEAN
                /\ fixed' = fixed
    <2>1. closed' \in BOOLEAN
      BY Zenon, <1>3, <1>13 DEF WriteError
    <2>2. Goroutines' /\ NothingStarts
      BY <1>1, <1>13, WriteEnds DEF WriteError, Stands
    <2> QED
      BY <1>13, <2>1, <2>2 DEF WriteError, Stands, unmoved
  <1>14. CASE EchoTimesOut(r) \/ \E w \in Worker : WriteFails(w, r)
    BY <1>2, <1>13, <1>14 DEF EchoTimesOut, WriteFails
  <1> QED
    BY <1>4, <1>5, <1>6, <1>7, <1>8, <1>9, <1>10, <1>11, <1>12, <1>14 DEF WorkerNext

(* What becomes of the routes meanwhile: one into a closed device may go,  *)
(* and none that is left has lost what holds it.                           *)
LEMMA WorkerRoutes ==
  ASSUME IInv, NEW r \in Slot, WorkerNext(r)
  PROVE  /\ routes' \subseteq routes /\ routes \ routes' \subseteq Slot
         /\ Led'
  <1>1. Led /\ TypeOK
    BY DEF IInv
  <1>2. UNCHANGED <<cfg, tun>>
    BY WorkerStep DEF fixed, signal, device
  <1>3. CASE UNCHANGED <<routes, reading>>
    BY <1>1, <1>2, <1>3 DEF Led, Held
  <1>4. CASE SendReads(r)
    <2>1. /\ reading[r] = NoSlot /\ reading' = [reading EXCEPT ![r] = dev]
          /\ UNCHANGED routes
      BY <1>1, <1>4 DEF SendReads, Stands, TypeOK, unmoved
    <2>2. /\ \A s \in Slot : reading[s] # NoSlot => reading'[s] = reading[s]
          /\ \A s \in Slot : reading'[s] = reading[s] \/ reading'[s] = dev
      BY <1>1, <2>1 DEF TypeOK
    <2>3. tun[dev] = "up"
      BY <1>4 DEF SendReads
    <2> QED
      BY <1>1, <1>2, <2>1, <2>2, <2>3, ClientAssumption DEF Led, Held
  <1>5. CASE SendEnds(r)
    <2>1. /\ reading' = [reading EXCEPT ![r] = NoSlot] /\ UNCHANGED routes
          /\ reading[r] = NoSlot \/ cfg.os = "windows"
      BY <1>1, <1>5 DEF SendEnds, Stands, TypeOK, unmoved
    <2>2. /\ cfg.os = "windows" \/ UNCHANGED reading
          /\ \A s \in Slot : reading'[s] = reading[s] \/ reading'[s] = NoSlot
      BY <1>1, <2>1 DEF TypeOK
    <2> QED
      BY <1>1, <1>2, <2>1, <2>2 DEF Led, Held
  <1>6. CASE SendDrops(r) \/ SendPacket(r) \/ SendInterrupted(r)
    <2>1. ReadReturns(r) /\ reading[r] \in Slot
      BY <1>1, <1>6 DEF SendDrops, SendPacket, SendInterrupted, Stands, TypeOK
    <2>2. reading'[r] = NoSlot /\ \A s \in Slot \ {r} : reading'[s] = reading[s]
      BY <1>1, <2>1 DEF ReadReturns, TypeOK
    <2>3. routes' \subseteq routes /\ routes \ routes' \subseteq {reading[r]}
      BY <2>1 DEF ReadReturns
    <2>4. ASSUME NEW d \in Slot \cap routes'
          PROVE  tun'[d] = "up" \/ Held(d)'
      <3>1. tun[d] = "up" \/ Held(d)
        BY <1>1, <2>3 DEF Led
      <3>2. CASE d # reading[r]
        BY <1>2, <2>2, <3>1, <3>2 DEF Held
      <3>3. CASE d = reading[r] /\ tun[d] = "closed"
        <4>1. PICK s \in Slot \ {r} : reading[s] = d
          BY <2>1, <3>3 DEF ReadReturns
        <4> QED
          BY <1>2, <2>2, <3>1, <3>3, <4>1 DEF Held
      <3>4. CASE d = reading[r] /\ tun[d] # "closed"
        <4>1. reading[r] # NoSlot
          BY <2>1, ClientAssumption
        <4>2. tun[d] \in {"none", "up", "closed"} /\ tun[d] # "none"
          BY <1>1, <2>1, <3>4, <4>1 DEF Led, TypeOK
        <4> QED
          BY <1>2, <3>4, <4>2
      <3> QED
        BY <3>2, <3>3, <3>4
    <2>5. \A s \in Slot : reading'[s] # NoSlot => tun'[reading'[s]] # "none"
      BY <1>1, <1>2, <2>2 DEF Led
    <2> QED
      BY <2>1, <2>3, <2>4, <2>5 DEF Led
  <1>7. WorkerNext(r) => \/ UNCHANGED <<routes, reading>> \/ SendReads(r) \/ SendEnds(r)
                         \/ SendDrops(r) \/ SendPacket(r) \/ SendInterrupted(r)
    BY DEF WorkerNext, RecvAnswers, RecvTunFails, RecvEnds, PingTicks, PingEnds, OutPacket,
           OutEnds, EchoTimesOut, WriteFails, WriteError, WriteDone, Lock, unmoved, goroutines
  <1> QED
    BY <1>3, <1>4, <1>5, <1>6, <1>7

LEMMA GoroutinesStay ==
  ASSUME Goroutines, UNCHANGED <<at, reading, target>>
  PROVE  Goroutines'
  BY DEF Goroutines, OneWriter, WriteMuFree

(* A run's goroutines start where none of its name was about.              *)
LEMMA BridgeStep ==
  ASSUME IInv, Bridge
  PROVE  /\ Goroutines'
         /\ run \in Slot
         /\ \A w \in Worker, r \in Slot : r # run => at'[w][r] = at[w][r]
         /\ ~cfg.egress => at'["out"][run] = "off"
  <1>1. Goroutines
    BY DEF IInv, TypeOK, Goroutines, Standpoint
  <1>2. /\ run \in Slot
        /\ \A w \in Worker : at[w][run] = "off"
        /\ UNCHANGED <<reading, target>>
    BY DEF Bridge, IInv, OneRun, Living, SetUp
  <1>3. /\ at' \in [Worker -> [Slot -> Standpoint]]
        /\ \A w \in Worker, r \in Slot : r # run => at'[w][r] = at[w][r]
        /\ \A w \in Worker : at'[w][run] \in {"next", "idle", "off"}
        /\ at'["send"][run] = "next"
        /\ ~cfg.egress => at'["out"][run] = "off"
    <2>1. at' = [w \in Worker |-> [at[w] EXCEPT ![run] =
                   CASE w = "send" -> "next"
                     [] w = "out" -> IF cfg.egress THEN "idle" ELSE "off"
                     [] OTHER -> "idle"]]
      BY DEF Bridge
    <2>2. \A w \in Worker : at'[w][run] = IF w = "send" THEN "next"
                              ELSE IF w = "out" THEN IF cfg.egress THEN "idle" ELSE "off"
                              ELSE "idle"
      BY <1>1, <1>2, <2>1 DEF Goroutines
    <2>3. \A w \in Worker, r \in Slot : r # run => at'[w][r] = at[w][r]
      BY <1>1, <2>1 DEF Goroutines
    <2>4. \A w \in Worker : at'[w] \in [Slot -> Standpoint]
      BY <1>1, <1>2, <2>1 DEF Goroutines, Standpoint
    <2> QED
      BY <2>1, <2>2, <2>3, <2>4 DEF Worker
  <1>4. \A w \in Worker, r \in Slot : at'[w][r] = "write" <=> at[w][r] = "write"
    BY <1>2, <1>3
  <1>5. OneWriter' /\ (WriteMuFree' <=> WriteMuFree)
    BY <1>1, <1>4 DEF Goroutines, OneWriter, WriteMuFree
  <1>6. \A r \in Slot : reading'[r] # NoSlot <=> at'["send"][r] = "idle"
    BY <1>1, <1>2, <1>3 DEF Goroutines, Worker
  <1> QED
    BY <1>1, <1>2, <1>3, <1>5, <1>6 DEF Goroutines

MainOthers ==
  \/ \E r \in Slot : Reset(r)
  \/ DialFails \/ DialOK \/ CreateFails \/ CreateOK
  \/ ConfigureFails \/ ConfigureOK \/ TakeRoutes \/ RoutesRefused
  \/ StackFails
  \/ Unroute \/ Untun \/ Hangup \/ Join \/ Return

\* the main goroutine leaves the others to themselves, but where it starts them
LEMMA MainAlone ==
  ASSUME MainOthers
  PROVE  UNCHANGED goroutines
  BY DEF MainOthers, Reset, DialFails, DialOK, CreateFails, CreateOK, ConfigureFails, ConfigureOK,
         TakeRoutes, RoutesRefused, StackFails, Unroute, Untun, Hangup, Join, Return

Outside == Signal \/ SignalClose \/ SignalStop \/ \E r \in Slot : Peer(r)

LEMMA NextCases ==
  ASSUME [Next]_vars
  PROVE  \/ MainOthers
         \/ Bridge
         \/ \E r \in Slot : WorkerNext(r)
         \/ RelayNext
         \/ Outside
         \/ UNCHANGED vars
  BY DEF Next, MainNext, MainOthers, Outside

\* the flows through the exit are nobody's concern but ns.Close's
LEMMA RelayStep ==
  ASSUME RelayNext
  PROVE  /\ UNCHANGED <<cfg, sig, main, run, late, closed, conn, sock, dev, tun, at, reading,
                        target, routes, recorded, orphaned>>
         /\ relay' \in {"none", "open", "blocked"}
  BY DEF RelayNext, RelayStarts, RelayBlocks, RelayFrees, RelayEnds, RelayAborted, relayed,
         signal, device, system

LEMMA GoroutinesNext ==
  ASSUME IInv, [Next]_vars
  PROVE  Goroutines'
  <1>1. Goroutines
    BY DEF IInv, TypeOK, Goroutines, Standpoint
  <1>2. CASE MainOthers
    BY <1>1, <1>2, MainAlone, GoroutinesStay DEF goroutines
  <1>3. CASE Outside
    BY <1>1, <1>3, GoroutinesStay
    DEF Outside, Signal, SignalClose, SignalStop, Peer, unsignalled, goroutines
  <1>4. CASE UNCHANGED vars
    BY <1>1, <1>4, GoroutinesStay DEF vars
  <1>5. CASE RelayNext
    BY <1>1, <1>5, RelayStep, GoroutinesStay
  <1> QED
    BY <1>2, <1>3, <1>4, <1>5, BridgeStep, WorkerStep, NextCases

-----------------------------------------------------------------------------
(* Type correctness.                                                       *)

(* The part of TypeOK that is not about the goroutines.                    *)
Plain ==
  /\ cfg \in Config
  /\ sig \in {"none", "pending", "closed", "stopped"}
  /\ main \in Phase
  /\ run \in Slot \cup {NoSlot}
  /\ late \in 0..2
  /\ closed \in BOOLEAN
  /\ conn \in Slot \cup {NoSlot}
  /\ sock \in [Slot -> {"none", "open", "stalled", "lost", "closed"}]
  /\ dev \in Slot \cup {NoSlot}
  /\ tun \in [Slot -> {"none", "up", "closed"}]
  /\ relay \in {"none", "open", "blocked"}
  /\ routes \subseteq Route
  /\ recorded \subseteq Route \ {"theirs"}
  /\ orphaned \in BOOLEAN

(* What a delete may leave: no more than there was; "keep" only in         *)
(* exchange for the other route, on Linux; and nothing but those two and   *)
(* the routes into the devices named goes.                                 *)
LEMMA DeletedLeaves ==
  ASSUME NEW from, NEW gone, NEW left \in Deleted(from, gone)
  PROVE  /\ left \subseteq from
         /\ "keep" \in gone /\ "keep" \in left => "theirs" \in from /\ "theirs" \notin left
         /\ "keep" \notin gone => from \ left \subseteq gone \cap Slot
  <1> DEFINE matching == {k \in from \cap {"keep", "theirs"} : "keep" \in gone}
  <1>1. PICK hit \in IF cfg.os = "windows" \/ matching = {} THEN {matching}
                     ELSE {{k} : k \in matching} :
          left = from \ (hit \cup (gone \cap Slot))
    BY DEF Deleted
  <1>2. hit \subseteq matching
    BY <1>1
  <1>3. ASSUME "keep" \in gone, "keep" \in left
        PROVE  "theirs" \in from /\ "theirs" \notin left
    <2>1. "keep" \in matching /\ "keep" \notin hit
      BY <1>1, <1>3
    <2>2. PICK k \in matching : hit = {k}
      BY <1>1, <2>1
    <2>3. k = "theirs"
      BY <2>1, <2>2
    <2> QED
      BY <1>1, <2>2, <2>3
  <1>4. "keep" \notin gone => hit = {}
    BY <1>2
  <1> QED
    BY <1>1, <1>3, <1>4

(* What a roll-back may leave: as before, or on Linux after the deletes.   *)
LEMMA RolledBackLeaves ==
  ASSUME NEW left \in RolledBack, left # routes
  PROVE  /\ cfg.os = "linux"
         /\ \E added \in SUBSET (Wanted \cap {"keep"}) : left \in Deleted(routes \cup added, Wanted)
  BY DEF RolledBack

(* Closing a device takes away no more than the route into it.             *)
LEMMA WithoutLeaves ==
  ASSUME NEW left, NEW d
  PROVE  /\ Without(left, d) \subseteq left
         /\ left \ Without(left, d) \subseteq {d}
         /\ ~Held(d) => d \notin Without(left, d)
  BY DEF Without

LEMMA MainType ==
  ASSUME IInv, MainOthers \/ Bridge
  PROVE  Plain'
  <1>1. Plain /\ late \in {0, 1} /\ (main = "top" => late = 0)
    BY DEF IInv, TypeOK, Plain, Stopped
  <1>2. CASE \E r \in Slot : Reset(r)
    <2>1. PICK r \in Slot : Reset(r)
      BY <1>2
    <2>2. closed' \in BOOLEAN
      BY Zenon, <2>1 DEF Reset
    <2>3. late' \in 0..2
      BY <1>1, <2>1 DEF Reset
    <2>4. UNCHANGED <<cfg, sig, dev, tun, relay, routes, recorded, orphaned>>
      BY <2>1 DEF Reset, signal, device, system, goroutines
    <2>5. main' = "dial" /\ run' = r /\ conn' = NoSlot /\ sock' = [sock EXCEPT ![r] = "none"]
      BY <2>1 DEF Reset
    <2> QED
      BY <1>1, <2>2, <2>3, <2>4, <2>5 DEF Plain, Phase
  <1>3. CASE DialFails \/ DialOK \/ CreateFails \/ CreateOK
    BY <1>1, <1>3
    DEF Plain, Phase, DialFails, DialOK, CreateFails, CreateOK, Hang, signal, device, system, goroutines
  <1>4. CASE ConfigureFails \/ ConfigureOK
    BY <1>1, <1>4, WithoutLeaves
    DEF Plain, Phase, ConfigureFails, ConfigureOK, CloseTun, Hang, signal, device, system, goroutines
  <1>5. CASE TakeRoutes
    <2>1. Wanted \subseteq Route \ {"theirs"}
      BY <1>1, <1>5, ClientAssumption DEF IInv, OneRun, TakeRoutes, Wanted, Route
    <2> QED
      BY <1>1, <1>5, <2>1 DEF Plain, Phase, TakeRoutes, signal, device, goroutines
  <1>6. CASE RoutesRefused
    <2>1. orphaned' \in BOOLEAN
      BY Zenon, <1>6 DEF RoutesRefused
    <2>2. PICK left \in RolledBack : routes' = Without(left, run)
      BY <1>6 DEF RoutesRefused
    <2>3. left \subseteq Route
      <3>1. CASE left = routes
        BY <1>1, <3>1 DEF Plain
      <3>2. CASE left # routes
        <4>1. PICK added \in SUBSET (Wanted \cap {"keep"}) : left \in Deleted(routes \cup added, Wanted)
          BY <3>2, RolledBackLeaves
        <4>2. left \subseteq routes \cup added
          BY <4>1, DeletedLeaves
        <4> QED
          BY <1>1, <4>2 DEF Plain, Route
      <3> QED
        BY <3>1, <3>2
    <2>4. routes' \subseteq Route
      BY <2>2, <2>3, WithoutLeaves
    <2> QED
      BY <1>1, <1>6, <2>1, <2>4 DEF Plain, Phase, RoutesRefused, Hang, signal, goroutines
  <1>7. CASE StackFails
    <2>1. orphaned' \in BOOLEAN
      BY Zenon, <1>7 DEF StackFails
    <2> QED
      BY <1>1, <1>7, <2>1, WithoutLeaves DEF Plain, Phase, StackFails, CloseTun, Hang, signal, goroutines
  <1>8. CASE Unroute
    <2>1. orphaned' \in BOOLEAN
      BY Zenon, <1>8 DEF Unroute
    <2> QED
      BY <1>1, <1>8, <2>1, DeletedLeaves DEF Plain, Phase, Unroute, signal, device, goroutines
  <1>9. CASE Untun \/ Hangup
    BY <1>1, <1>9, WithoutLeaves DEF Plain, Phase, Untun, Hangup, CloseTun, Hang, signal, device, system, goroutines
  <1>10. CASE Join \/ Return \/ Bridge
    BY <1>1, <1>10 DEF Plain, Phase, Join, Return, Bridge, signal, device, system, goroutines
  <1> QED
    BY <1>2, <1>3, <1>4, <1>5, <1>6, <1>7, <1>8, <1>9, <1>10 DEF MainOthers

LEMMA TypeNext ==
  ASSUME IInv, [Next]_vars
  PROVE  TypeOK'
  <1>1. Plain
    BY DEF IInv, TypeOK, Plain
  <1>2. ASSUME MainOthers \/ Bridge
        PROVE  Plain'
    BY <1>2, MainType
  <1>3. ASSUME NEW r \in Slot, WorkerNext(r)
        PROVE  Plain'
    BY <1>1, <1>3, WorkerStep, WorkerRoutes DEF fixed, signal, device, Plain, Phase
  <1>4. ASSUME Outside
        PROVE  Plain'
    BY <1>1, <1>4
    DEF Outside, Signal, SignalClose, SignalStop, MarkClosed, Peer, unsignalled, device, goroutines, system, Plain
  <1>5. ASSUME UNCHANGED vars
        PROVE  Plain'
    BY <1>1, <1>5 DEF vars, Plain
  <1>6. ASSUME RelayNext
        PROVE  Plain'
    BY <1>1, <1>6, RelayStep DEF Plain
  <1>7. Plain'
    BY <1>2, <1>3, <1>4, <1>5, <1>6, NextCases
  <1> QED
    BY <1>7, GoroutinesNext DEF Plain, Goroutines, Standpoint, TypeOK

-----------------------------------------------------------------------------
(* One run at a time.                                                      *)

LEMMA OneRunNext ==
  ASSUME IInv, [Next]_vars
  PROVE  OneRun'
  <1> USE DEF OneRun, Dialled, Tunnelled
  <1>1. OneRun /\ TypeOK
    BY DEF IInv
  <1>2. CASE \E r \in Slot : Reset(r)
    BY <1>1, <1>2 DEF Reset, device, TypeOK
  <1>3. CASE DialFails \/ DialOK
    BY <1>1, <1>3 DEF DialFails, DialOK, device, TypeOK
  <1>4. CASE CreateFails \/ CreateOK
    BY <1>1, <1>4 DEF CreateFails, CreateOK, Hang, device, TypeOK
  <1>5. CASE ConfigureFails \/ ConfigureOK
    BY <1>1, <1>5 DEF ConfigureFails, ConfigureOK, Hang, CloseTun, device, TypeOK
  <1>6. CASE TakeRoutes \/ RoutesRefused
    BY <1>1, <1>6 DEF TakeRoutes, RoutesRefused, Hang, device, TypeOK
  <1>7. CASE StackFails \/ Bridge
    BY <1>1, <1>7 DEF StackFails, Bridge, Hang, CloseTun, device, TypeOK
  <1>8. CASE Unroute \/ Untun
    BY <1>1, <1>8 DEF Unroute, Untun, CloseTun, device, TypeOK
  <1>9. CASE Hangup \/ Join \/ Return
    BY <1>1, <1>9 DEF Hangup, Join, Return, Hang, device, TypeOK
  <1>10. CASE \E r \in Slot : WorkerNext(r)
    <2>1. UNCHANGED <<run, conn, sock, dev, tun>> /\ Alive /\ main' \in {main, "crashed"}
      BY <1>10, WorkerStep DEF fixed, device
    <2> QED
      BY <1>1, <2>1 DEF Alive
  <1>11. CASE Outside
    <2>1. CASE Signal \/ SignalClose \/ SignalStop
      BY <1>1, <2>1 DEF Signal, SignalClose, SignalStop, unsignalled, device
    <2>2. CASE \E r \in Slot : Peer(r)
      <3>1. PICK r \in Slot : Peer(r)
        BY <2>2
      <3>2. /\ sock[r] \in {"open", "stalled"} /\ Alive
            /\ \A s \in Slot \ {r} : sock'[s] = sock[s]
            /\ UNCHANGED <<main, run, conn, dev, tun>>
        BY <1>1, <3>1 DEF Peer, unsignalled, device, TypeOK
      <3>3. r = run /\ main \in Dialled
        BY <1>1, <3>2 DEF Alive
      <3> QED
        BY <1>1, <3>2, <3>3
    <2> QED
      BY <1>11, <2>1, <2>2 DEF Outside
  <1>12. CASE UNCHANGED vars \/ RelayNext
    BY <1>1, <1>12, RelayStep DEF vars
  <1> QED
    BY <1>2, <1>3, <1>4, <1>5, <1>6, <1>7, <1>8, <1>9, <1>10, <1>11, <1>12, NextCases
    DEF MainOthers

(* A run that begins after the stop is the last one: Return exits.         *)
LEMMA StoppedNext ==
  ASSUME IInv, [Next]_vars
  PROVE  Stopped'
  <1>1. Stopped /\ TypeOK
    BY DEF IInv
  <1>2. CASE \E r \in Slot : Reset(r)
    BY <1>1, <1>2 DEF Reset, signal, Stopped
  <1>3. CASE Return
    BY <1>1, <1>3 DEF Return, signal, Stopped
  <1>4. CASE DialFails \/ DialOK \/ CreateFails \/ CreateOK \/ ConfigureFails \/ ConfigureOK
    BY <1>1, <1>4 DEF DialFails, DialOK, CreateFails, CreateOK, ConfigureFails, ConfigureOK,
                      signal, Stopped
  <1>5. CASE TakeRoutes \/ RoutesRefused \/ StackFails \/ Bridge \/ Unroute \/ Untun \/ Hangup \/ Join
    BY <1>1, <1>5 DEF TakeRoutes, RoutesRefused, StackFails, Bridge, Unroute, Untun, Hangup, Join,
                      signal, Stopped
  <1>6. CASE \E r \in Slot : WorkerNext(r)
    BY <1>1, <1>6, WorkerStep DEF fixed, signal, Stopped
  <1>7. CASE Outside
    BY <1>1, <1>7 DEF Outside, Signal, SignalClose, SignalStop, Peer, unsignalled, Stopped
  <1>8. CASE UNCHANGED vars \/ RelayNext
    BY <1>1, <1>8, RelayStep DEF vars, Stopped
  <1> QED
    BY <1>2, <1>3, <1>4, <1>5, <1>6, <1>7, <1>8, NextCases DEF MainOthers

-----------------------------------------------------------------------------
(* The goroutines that live.                                               *)

(* At the end of the join all connections are closed: nobody is stuck in a *)
(* write or for writeMu, and none of those counted is left but a reader.   *)
LEMMA JoinEnds ==
  ASSUME IInv, Join
  PROVE  \A w \in Worker, r \in Slot : at[w][r] # "off" => w = "send" /\ cfg.os = "linux"
  <1> SUFFICES ASSUME NEW w \in Worker, NEW r \in Slot, at[w][r] # "off"
               PROVE  w = "send" /\ cfg.os = "linux"
    OBVIOUS
  <1>1. main = "join" /\ (w \in Counted => Stuck(w, r))
    BY DEF Join
  <1>2. w # "out"
    BY <1>1 DEF IInv, Living, Running, Worker
  <1>3. \A s \in Slot : sock[s] \in {"none", "closed"}
    BY <1>1 DEF IInv, OneRun, Dialled
  <1>4. ASSUME NEW v \in Worker, NEW s \in Slot, at[v][s] = "write"
        PROVE  sock[target] # "stalled"
    <2>1. target \in Slot
      BY <1>4 DEF IInv, TypeOK, WriteMuFree
    <2> QED
      BY <1>3, <2>1
  <1>5. Stuck(w, r)
    BY <1>1, <1>2 DEF Counted
  <1> QED
    BY <1>3, <1>4, <1>5 DEF Stuck

LEMMA LivingNext ==
  ASSUME IInv, [Next]_vars
  PROVE  Living'
  <1> USE DEF Running, SetUp
  <1>1. Living /\ OneRun /\ TypeOK
    BY DEF IInv
  <1>2. {"recv", "send", "ping", "out"} = Worker
    BY DEF Worker
  <1>3. CASE \E r \in Slot : Reset(r)
    <2>1. PICK r \in Slot : Reset(r)
      BY <1>3
    <2>2. /\ main = "top" /\ main' = "dial" /\ run' = r
          /\ \A w \in Worker : at[w][r] = "off"
          /\ UNCHANGED <<cfg, dev, at>>
      BY <2>1 DEF Reset, Unused, signal, device, goroutines
    <2> QED
      BY <1>1, <1>2, <2>2 DEF Living
  <1>4. CASE DialFails \/ DialOK \/ CreateFails \/ CreateOK \/ ConfigureFails \/ ConfigureOK
    <2>1. /\ main \in SetUp /\ main' \in SetUp \cup {"returned"}
          /\ UNCHANGED <<cfg, run, at>>
          /\ dev' = dev \/ dev' \in Slot
      BY <1>1, <1>4 DEF DialFails, DialOK, CreateFails, CreateOK, ConfigureFails, ConfigureOK,
                        signal, device, goroutines, OneRun
    <2> QED
      BY <1>1, <1>2, <2>1 DEF Living
  <1>5. CASE TakeRoutes \/ RoutesRefused \/ StackFails
    <2>1. /\ main \in SetUp /\ main' \in SetUp \cup {"returned"}
          /\ UNCHANGED <<cfg, run, dev, at>>
      BY <1>5 DEF TakeRoutes, RoutesRefused, StackFails, signal, device, goroutines
    <2> QED
      BY <1>1, <1>2, <2>1 DEF Living
  <1>6. CASE Bridge
    <2>1. /\ main = "bridge" /\ main' = "wait" /\ run \in Slot /\ dev = run
          /\ UNCHANGED <<cfg, run, dev>>
      BY <1>1, <1>6 DEF Bridge, signal, device, OneRun, Tunnelled
    <2>2. \A w \in Worker, r \in Slot : r # run => at'[w][r] = at[w][r]
      BY <1>6, BridgeStep
    <2> QED
      BY <1>1, <1>2, <2>1, <2>2 DEF Living
  <1>7. CASE Unroute \/ Untun \/ Hangup
    <2>1. /\ main \in Running \ {"join", "crashed"} /\ main' \in Running
          /\ main' = "join" => at["out"][run] = "off"
          /\ UNCHANGED <<cfg, run, dev, at>>
      BY <1>7 DEF Unroute, Untun, Hangup, signal, device, goroutines
    <2> QED
      BY <1>1, <1>2, <2>1 DEF Living
  <1>8. CASE Join
    <2>1. /\ main' = "returned" /\ UNCHANGED <<cfg, run, dev, at>>
      BY <1>8 DEF Join, signal, device, goroutines
    <2> QED
      BY <1>1, <1>2, <1>8, <2>1, JoinEnds DEF Living
  <1>9. CASE Return
    <2>1. /\ main = "returned" /\ main' \in {"top", "exited"} /\ UNCHANGED <<cfg, run, dev, at>>
      BY <1>9 DEF Return, signal, device, goroutines
    <2> QED
      BY <1>1, <1>2, <2>1 DEF Living
  <1>10. CASE \E r \in Slot : WorkerNext(r)
    <2>1. /\ \A w \in Worker, r \in Slot : at'[w][r] # "off" => at[w][r] # "off"
          /\ Alive /\ main' \in {main, "crashed"}
          /\ UNCHANGED <<cfg, run, dev>>
      BY <1>10, WorkerStep DEF NothingStarts, fixed, signal, device
    <2>2. main' \in SetUp => \A w \in Worker : at'[w][run] = "off"
      <3>1. main' \in SetUp => run \in Slot /\ \A w \in Worker : at[w][run] = "off"
        BY <1>1, <2>1 DEF OneRun, Living
      <3> QED
        BY <2>1, <3>1
    <2>3. \A r \in Slot : at'["out"][r] # "off" => r = run /\ main' \in Running \ {"join"}
      BY <1>1, <1>2, <2>1 DEF Living
    <2>4. \A w \in Worker, r \in Slot : at'[w][r] # "off" =>
            /\ (w = "send" /\ cfg.os = "linux") \/ (r = run /\ main' \in Running)
            /\ dev \in Slot
      BY <1>1, <2>1 DEF Living
    <2> QED
      BY <2>1, <2>2, <2>3, <2>4 DEF Living
  <1>11. CASE Outside \/ UNCHANGED vars \/ RelayNext
    <2>1. UNCHANGED <<cfg, main, run, dev, at>>
      BY <1>11, RelayStep DEF Outside, Signal, SignalClose, SignalStop, Peer, unsignalled, device,
                   goroutines, vars
    <2> QED
      BY <1>1, <2>1 DEF Living
  <1> QED
    BY <1>3, <1>4, <1>5, <1>6, <1>7, <1>8, <1>9, <1>10, <1>11, NextCases DEF MainOthers

-----------------------------------------------------------------------------
(* The routes.                                                             *)

LEMMA LedNext ==
  ASSUME IInv, [Next]_vars
  PROVE  Led'
  <1>1. Led /\ OneRun /\ TypeOK
    BY DEF IInv
  <1>2. ASSUME NEW d, UNCHANGED <<cfg, reading>>
        PROVE  Held(d)' <=> Held(d)
    BY <1>2 DEF Held
  <1>3. CASE \/ \E r \in Slot : Reset(r)
             \/ DialFails \/ DialOK \/ CreateFails \/ CreateOK \/ ConfigureOK
             \/ Bridge \/ Hangup \/ Join \/ Return
    <2>1. /\ UNCHANGED <<cfg, reading, routes>>
          /\ UNCHANGED tun \/ \E r \in Slot : tun' = [tun EXCEPT ![r] = "up"]
      BY <1>1, <1>3 DEF Reset, DialFails, DialOK, CreateFails, CreateOK, ConfigureOK, Bridge,
                        Hangup, Join, Return, signal, system, goroutines, device, OneRun
    <2>2. \A d \in Slot : tun'[d] = tun[d] \/ tun'[d] = "up"
      BY <1>1, <2>1 DEF TypeOK
    <2> QED
      BY <1>1, <1>2, <2>1, <2>2 DEF Led, TypeOK
  <1>4. ASSUME NEW d \in Slot, NEW left, left \cap Slot \subseteq routes \cup {d},
               tun' = [tun EXCEPT ![d] = "closed"], routes' = Without(left, d),
               UNCHANGED <<cfg, reading>>
        PROVE  Led'
    <2>1. \A e \in Slot \ {d} : tun'[e] = tun[e]
      BY <1>1, <1>4 DEF TypeOK
    <2>2. tun'[d] = "closed"
      BY <1>1, <1>4 DEF TypeOK
    <2>3. \A e \in Slot \cap routes' : e # d => e \in routes
      BY <1>4, WithoutLeaves
    <2>4. d \in routes' => Held(d)
      BY <1>4, WithoutLeaves
    <2> QED
      BY <1>1, <1>2, <1>4, <2>1, <2>2, <2>3, <2>4 DEF Led, TypeOK
  <1>5. CASE ConfigureFails \/ StackFails \/ Untun
    <2>1. \E d \in Slot : CloseTun(d) /\ UNCHANGED <<cfg, reading>>
      BY <1>1, <1>5 DEF ConfigureFails, StackFails, Untun, OneRun, Tunnelled, signal, goroutines
    <2> QED
      BY <1>4, <2>1 DEF CloseTun
  <1>6. CASE TakeRoutes
    <2>1. /\ tun[run] = "up" /\ UNCHANGED <<cfg, reading, tun>>
          /\ routes' \subseteq routes \cup Wanted
      BY <1>1, <1>6 DEF TakeRoutes, OneRun, Tunnelled, signal, goroutines, device
    <2>2. Slot \cap Wanted \subseteq {run}
      BY ClientAssumption DEF Wanted
    <2> QED
      BY <1>1, <1>2, <2>1, <2>2 DEF Led
  <1>7. CASE RoutesRefused
    <2>1. PICK left \in RolledBack : routes' = Without(left, run)
      BY <1>7 DEF RoutesRefused
    <2>2. /\ run \in Slot /\ tun' = [tun EXCEPT ![run] = "closed"] /\ UNCHANGED <<cfg, reading>>
      BY <1>1, <1>7 DEF RoutesRefused, OneRun, signal, goroutines
    <2>3. left \cap Slot \subseteq routes
      <3>1. CASE left # routes
        <4>1. PICK added \in SUBSET (Wanted \cap {"keep"}) : left \in Deleted(routes \cup added, Wanted)
          BY <3>1, RolledBackLeaves
        <4> QED
          BY <4>1, DeletedLeaves, ClientAssumption
      <3> QED
        BY <3>1
    <2> QED
      BY <1>4, <2>1, <2>2, <2>3
  <1>8. CASE Unroute
    <2>1. UNCHANGED <<cfg, reading, tun>> /\ routes' \subseteq routes
      BY <1>8, DeletedLeaves DEF Unroute, signal, goroutines, device
    <2> QED
      BY <1>1, <1>2, <2>1 DEF Led
  <1>9. CASE Outside \/ UNCHANGED vars \/ RelayNext
    <2>1. UNCHANGED <<cfg, reading, tun, routes>>
      BY <1>9, RelayStep DEF Outside, Signal, SignalClose, SignalStop, Peer, unsignalled, device,
                   goroutines, system, vars
    <2> QED
      BY <1>1, <1>2, <2>1 DEF Led
  <1> QED
    BY <1>3, <1>5, <1>6, <1>7, <1>8, <1>9, WorkerRoutes, NextCases DEF MainOthers

LEMMA AccountedNext ==
  ASSUME IInv, [Next]_vars
  PROVE  Accounted'
  <1> USE DEF Accounted, Excused, Foreign
  <1>1. /\ Accounted
        /\ cfg.os \in {"linux", "windows"} /\ cfg.foreign \in {"none", "same", "beside"}
        /\ {"keep", "theirs"} \cap Slot = {}
    BY ClientAssumption DEF IInv, TypeOK, Before
  <1>2. ASSUME UNCHANGED <<cfg, recorded, orphaned>>,
               routes' \subseteq routes, routes \ routes' \subseteq Slot,
               \/ main' \in {main, "crashed"}
               \/ main \notin {"bridge", "wait", "crashed"}
               \/ main = "bridge" /\ main' = "wait"
        PROVE  Accounted'
    <2>1. \A k \in {"keep", "theirs"} : k \in routes' <=> k \in routes
      BY <1>1, <1>2
    <2>2. Foreign \subseteq routes' <=> Foreign \subseteq routes
      BY <1>1, <2>1
    <2> QED
      BY <1>1, <1>2, <2>1, <2>2
  <1>3. CASE \/ \E r \in Slot : Reset(r)
             \/ DialFails \/ DialOK \/ CreateFails \/ CreateOK \/ ConfigureOK
             \/ Bridge \/ Hangup \/ Join \/ Return
    <2>1. /\ UNCHANGED <<cfg, routes, recorded, orphaned>>
          /\ main \notin {"bridge", "wait", "crashed"} \/ (main = "bridge" /\ main' = "wait")
      BY <1>3 DEF Reset, DialFails, DialOK, CreateFails, CreateOK, ConfigureOK, Bridge, Hangup,
                  Join, Return, signal, system
    <2> QED
      BY <1>2, <2>1
  <1>4. CASE ConfigureFails \/ Untun
    <2>1. \E d \in Slot : /\ routes' = Without(routes, d)
                          /\ UNCHANGED <<cfg, recorded, orphaned>>
                          /\ main \notin {"bridge", "wait", "crashed"}
      BY <1>4 DEF ConfigureFails, Untun, CloseTun, signal, IInv, OneRun, Tunnelled
    <2> QED
      BY <1>2, <2>1, WithoutLeaves
  <1>5. CASE TakeRoutes
    <2>1. /\ main = "route" /\ main' = "bridge" /\ UNCHANGED <<cfg, orphaned>>
          /\ routes \subseteq routes' /\ routes' \subseteq routes \cup recorded'
          /\ recorded' \subseteq Wanted
          /\ cfg.os = "windows" => recorded' \cap routes = {}
      BY <1>1, <1>5 DEF TakeRoutes, signal
    <2>2. "theirs" \notin Wanted
      BY <1>1, <1>5, ClientAssumption DEF Wanted, IInv, OneRun, TakeRoutes
    <2> QED
      BY <1>1, <2>1, <2>2
  <1>6. CASE RoutesRefused
    <2>1. PICK left \in RolledBack : routes' = Without(left, run)
      BY <1>6 DEF RoutesRefused
    <2>2. /\ main = "route" /\ main' = "returned" /\ run \in Slot
          /\ UNCHANGED <<cfg, recorded>>
          /\ "keep" \in routes' => (orphaned' <=> orphaned)
      BY <1>6 DEF RoutesRefused, signal, IInv, OneRun
    <2>3. \A k \in {"keep", "theirs"} : k \in routes' <=> k \in left
      BY <1>1, <2>1, <2>2, WithoutLeaves
    <2>4. CASE left = routes
      BY <1>1, <2>2, <2>3, <2>4
    <2>5. CASE left # routes
      <3>1. PICK added \in SUBSET (Wanted \cap {"keep"}) : left \in Deleted(routes \cup added, Wanted)
        BY <2>5, RolledBackLeaves
      <3>2. cfg.os = "linux"
        BY <2>5, RolledBackLeaves
      <3>3. /\ left \subseteq routes \cup added
            /\ "keep" \in Wanted /\ "keep" \in left => "theirs" \in routes /\ "theirs" \notin left
            /\ "keep" \notin Wanted => (routes \cup added) \ left \subseteq Slot
        BY <3>1, DeletedLeaves
      <3> QED
        BY <1>1, <2>2, <2>3, <3>1, <3>2, <3>3
    <2> QED
      BY <2>4, <2>5
  <1>7. CASE StackFails
    <2>1. /\ main = "bridge" /\ main' = "returned" /\ run \in Slot
          /\ routes' = Without(routes, run) /\ UNCHANGED <<cfg, recorded>>
          /\ orphaned \/ "keep" \in recorded => orphaned'
      BY <1>7 DEF StackFails, CloseTun, signal, IInv, OneRun
    <2>2. \A k \in {"keep", "theirs"} : k \in routes' <=> k \in routes
      BY <1>1, <2>1, WithoutLeaves
    <2> QED
      BY <1>1, <2>1, <2>2
  <1>8. CASE Unroute
    <2>1. /\ main = "wait" /\ main' = "untun" /\ UNCHANGED cfg /\ recorded' = {}
          /\ routes' \in Deleted(routes, recorded)
          /\ "keep" \in routes' => (orphaned' <=> orphaned)
      BY <1>8 DEF Unroute, signal
    <2>2. /\ routes' \subseteq routes
          /\ "keep" \in recorded /\ "keep" \in routes' => "theirs" \in routes /\ "theirs" \notin routes'
          /\ "keep" \notin recorded => routes \ routes' \subseteq Slot
      BY <2>1, DeletedLeaves
    <2> QED
      BY <1>1, <2>1, <2>2
  <1>9. CASE \E r \in Slot : WorkerNext(r)
    <2>1. /\ UNCHANGED <<cfg, recorded, orphaned>> /\ main' \in {main, "crashed"}
          /\ routes' \subseteq routes /\ routes \ routes' \subseteq Slot
      BY <1>9, WorkerStep, WorkerRoutes DEF fixed, signal
    <2> QED
      BY <1>2, <2>1
  <1>10. CASE Outside \/ UNCHANGED vars \/ RelayNext
    <2>1. UNCHANGED <<cfg, main, routes, recorded, orphaned>>
      BY <1>10, RelayStep DEF Outside, Signal, SignalClose, SignalStop, Peer, unsignalled, system, vars
    <2> QED
      BY <1>2, <2>1
  <1> QED
    BY <1>3, <1>4, <1>5, <1>6, <1>7, <1>8, <1>9, <1>10, NextCases DEF MainOthers

-----------------------------------------------------------------------------

(* The inductive invariant of a client and its runs.                       *)
THEOREM ClientInvariant == Spec => []IInv
  <1>1. Init => IInv
    <2> SUFFICES ASSUME Init PROVE IInv
      OBVIOUS
    <2>1. closed \in BOOLEAN /\ orphaned \in BOOLEAN
      BY Zenon DEF Init
    <2>2. TypeOK
      BY <2>1, ClientAssumption DEF Init, TypeOK, Phase, Foreign, Before, Route, WriteMuFree, Worker
    <2>3. OneRun /\ Stopped /\ OneWriter
      BY DEF Init, OneRun, Dialled, Tunnelled, Stopped, OneWriter
    <2>4. Living
      BY DEF Init, Living, SetUp, Worker
    <2>5. Accounted
      BY <2>2, ClientAssumption DEF Init, TypeOK, Accounted, Excused, Foreign, Before
    <2>6. Led
      BY <2>2, ClientAssumption DEF Init, TypeOK, Led, Foreign, Before
    <2> QED
      BY <2>2, <2>3, <2>4, <2>5, <2>6 DEF IInv
  <1>2. IInv /\ [Next]_vars => IInv'
    <2> SUFFICES ASSUME IInv, [Next]_vars PROVE IInv'
      OBVIOUS
    <2>1. OneWriter'
      BY GoroutinesNext DEF Goroutines
    <2> QED
      BY <2>1, TypeNext, OneRunNext, StoppedNext, LivingNext, LedNext, AccountedNext DEF IInv
  <1> QED
    BY <1>1, <1>2, PTL DEF Spec

(* The fields of the client, its goroutines and the system's resources     *)
(* keep their types; writeMu has a holder exactly when one writes.         *)
THEOREM TypeCorrect == Spec => []TypeOK
  <1>1. IInv => TypeOK
    BY DEF IInv
  <1> QED
    BY ClientInvariant, <1>1, PTL

(* When Run has returned, wherever it ended, it left nothing behind.       *)
THEOREM GivenBackCorrect == Spec => []GivenBack
  <1>1. IInv => GivenBack
    BY DEF IInv, OneRun, Dialled, Tunnelled, Led, Accounted, Excused, GivenBack
  <1> QED
    BY ClientInvariant, <1>1, PTL

(* Windows clients never remove the very route they would add, if it was   *)
(* there before.                                                           *)
THEOREM ForeignKeptCorrect == Spec => []ForeignKept
  <1>1. IInv => ForeignKept
    BY DEF IInv, Accounted, Foreign, ForeignKept
  <1> QED
    BY ClientInvariant, <1>1, PTL

(* Only a reader that Linux did not interrupt outlives its run.            *)
THEOREM OnlyReadersSurviveCorrect == Spec => []OnlyReadersSurvive
  <1>1. IInv => OnlyReadersSurvive
    BY DEF IInv, Living, Running, OnlyReadersSurvive
  <1> QED
    BY ClientInvariant, <1>1, PTL

(* After the stop at most one run begins.                                  *)
THEOREM StopsWithinOneRunCorrect == Spec => []StopsWithinOneRun
  <1>1. IInv => StopsWithinOneRun
    BY DEF IInv, Stopped, StopsWithinOneRun
  <1> QED
    BY ClientInvariant, <1>1, PTL
=============================================================================
