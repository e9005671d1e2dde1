------------------------------- MODULE Frames -------------------------------
(***************************************************************************)
(* The control connections as byte streams, both ways: WriteFrame and      *)
(* ReadFrame of internal/protocol/frame.go under the writers of both ends. *)
(*                                                                         *)
(* A frame is two writes, its header and its payload.  The client's        *)
(* writers hold writeMu over both; the server's (sysRW) take the lock for  *)
(* each write.  The client's data and echo writes have a deadline, its     *)
(* pings and all writes of the server have none, so a peer that does not   *)
(* read makes its writers wait.  The handler of a connection reads it with *)
(* an idle deadline, and closes it after it has told the others.           *)
(*                                                                         *)
(* One action is one Write or one read of a piece.  A piece is who wrote   *)
(* it and whether it is a header with a payload to come, that payload, or  *)
(* a frame without one.                                                    *)
(***************************************************************************)
EXTENDS Naturals, Sequences

CONSTANTS
  Conn,    \* the connections of one network; each has a client and a handler
  Exit,    \* those whose client is an exit, which answers echo requests
  NoConn,  \* no connection
  Cap      \* pieces the buffers of a connection hold each way

ASSUME FramesAssumption ==
  /\ Conn \cap {NoConn, "none", "lost"} = {}
  /\ Exit \subseteq Conn
  /\ Cap \in Nat \ {0}

\* the goroutines of a client that write: tunToServer, pingLoop, recvLoop for an
\* echo, and the outputLoop of an exit's network stack
Writer == {"send", "ping", "recv", "out"}

VARIABLES
  client,  \* up, frozen (its host stopped), mute (its TLS side cannot write
           \* any more), gone (it closed the connection)
  cw,      \* per client and goroutine: idle, lock, head, body
  cr,      \* what a client's recvLoop has read: see Parsed
  down,    \* the pieces on their way to a client
  up,      \* the pieces on their way to its handler
  hr,      \* what a handler has read
  at,      \* a handler: read, head, body (it writes), gone
  kind,    \* what it writes: data, pong, leave
  to,      \* the connection it writes to
  todo     \* the connections a broadcast has still to write to

vars == <<client, cw, cr, down, up, hr, at, kind, to, todo>>

clients == <<client, cw, cr>>
streams == <<down, up>>
handlers == <<hr, at, kind, to, todo>>

Piece(S) == [by : S, part : {"head", "body", "whole"}]

(* A reader is between frames ("none"), has a header and waits for the     *)
(* payload of its writer, or took something else for the payload ("lost"): *)
(* from then on it takes payloads for headers and headers for payloads.    *)
Parsed(S) == S \cup {"none", "lost"}

TypeOK ==
  /\ client \in [Conn -> {"up", "frozen", "mute", "gone"}]
  /\ cw \in [Conn -> [Writer -> {"idle", "lock", "head", "body"}]]
  /\ cr \in [Conn -> Parsed(Conn)]
  /\ down \in [Conn -> Seq(Piece(Conn))]
  /\ up \in [Conn -> Seq(Piece(Writer))]
  /\ hr \in [Conn -> Parsed(Writer)]
  /\ at \in [Conn -> {"read", "head", "body", "gone"}]
  /\ kind \in [Conn -> {"data", "pong", "leave"}]
  /\ to \in [Conn -> Conn \cup {NoConn}]
  /\ todo \in [Conn -> SUBSET Conn]
  /\ \A c \in Conn :
       /\ Len(down[c]) <= Cap /\ Len(up[c]) <= Cap
       /\ to[c] # NoConn <=> at[c] \in {"head", "body"}
       /\ to[c] \notin todo[c]

Init ==
  /\ client = [c \in Conn |-> "up"]
  /\ cw = [c \in Conn |-> [w \in Writer |-> "idle"]]
  /\ cr = [c \in Conn |-> "none"]
  /\ down = [c \in Conn |-> <<>>]
  /\ up = [c \in Conn |-> <<>>]
  /\ hr = [c \in Conn |-> "none"]
  /\ at = [c \in Conn |-> "read"]
  /\ kind = [c \in Conn |-> "data"]
  /\ to = [c \in Conn |-> NoConn]
  /\ todo = [c \in Conn |-> {}]

(* ReadFrame on the next piece `p`, after what was parsed before.          *)
AfterPiece(before, p) ==
  CASE before = "none" /\ p.part = "whole" -> "none"
    [] before = "none" /\ p.part = "head" -> p.by
    [] before = p.by /\ p.part = "body" -> "none"
    [] OTHER -> "lost"

\* the piece completes a frame with a payload
Completes(before, p) == before = p.by /\ p.part = "body"

Room(stream) == Len(stream) < Cap

-----------------------------------------------------------------------------
(* The client's writers.                                                   *)

Runs(c) == client[c] \in {"up", "mute"}

MoveW(c, w, p) == cw' = [cw EXCEPT ![c][w] = p]

\* mutant: the lock is held for one write, as on the server
WriteMuFreeForOne(c) == \A v \in Writer : cw[c][v] # "head"

WriteMuFree(c) == \A v \in Writer : cw[c][v] \notin {"head", "body"}

\* writeMu is taken, for a packet from the device or the network stack or a tick,
\* or by recvLoop, which does nothing else meanwhile
Locks(c, w) ==
  /\ Runs(c)
  /\ w = "out" => c \in Exit
  /\ cw[c][w] = IF w = "recv" THEN "lock" ELSE "idle"
  /\ WriteMuFree(c)
  /\ MoveW(c, w, "head")
  /\ UNCHANGED <<client, cr, streams, handlers>>

\* a ping has no payload
ClientWrites(c, w) ==
  /\ client[c] = "up"
  /\ cw[c][w] \in {"head", "body"}
  /\ Room(up[c])
  /\ up' = [up EXCEPT ![c] = Append(@, [by |-> w,
              part |-> IF w = "ping" THEN "whole" ELSE cw[c][w]])]
  /\ MoveW(c, w, IF w # "ping" /\ cw[c][w] = "head" THEN "body" ELSE "idle")
  /\ UNCHANGED <<client, cr, down, handlers>>

\* the client process does nothing any more: it closed the connection, or its
\* host stopped; what its goroutines were about does not matter
Stops(c, how) ==
  /\ client' = [client EXCEPT ![c] = how]
  /\ cw' = [cw EXCEPT ![c] = [w \in Writer |-> "idle"]]
  /\ cr' = [cr EXCEPT ![c] = "none"]

\* tunToServer ends the run on an error, the others ignore it; TLS returns
\* the error of a deadline to every later write
WriteError(c, w) ==
  IF w = "send" THEN Stops(c, "gone")
  ELSE /\ client' = [client EXCEPT ![c] = "mute"]
       /\ MoveW(c, w, "idle")
       /\ UNCHANGED cr

ClientWriteFails(c, w) ==
  /\ client[c] = "mute"
  /\ cw[c][w] \in {"head", "body"}
  /\ WriteError(c, w)
  /\ UNCHANGED <<streams, handlers>>

\* the write deadline of data and echo frames
ClientTimesOut(c, w) ==
  /\ client[c] = "up"
  /\ w # "ping"
  /\ cw[c][w] \in {"head", "body"}
  /\ ~Room(up[c])
  /\ WriteError(c, w)
  /\ UNCHANGED <<streams, handlers>>

-----------------------------------------------------------------------------
(* The client's recvLoop, and its end.                                     *)

\* an echo request is answered before the next frame is read
ClientReads(c) ==
  /\ Runs(c)
  /\ cw[c]["recv"] = "idle"
  /\ down[c] # <<>>
  /\ LET p == Head(down[c]) IN
     /\ cr' = [cr EXCEPT ![c] = AfterPiece(@, p)]
     /\ \/ UNCHANGED cw
        \/ c \in Exit /\ Completes(cr[c], p) /\ MoveW(c, "recv", "lock")
  /\ down' = [down EXCEPT ![c] = Tail(@)]
  /\ UNCHANGED <<client, up, handlers>>

\* it stops, reads garbage, or is told to end: the connection is closed
ClientLeaves(c) ==
  /\ Runs(c)
  /\ Stops(c, "gone")
  /\ UNCHANGED <<streams, handlers>>

\* its host stops and does not come back
Freeze(c) ==
  /\ Runs(c)
  /\ Stops(c, "frozen")
  /\ UNCHANGED <<streams, handlers>>

-----------------------------------------------------------------------------
(* The handler of a connection: dataLoop.                                  *)

\* it begins to write a frame of kind `k` to `d`
Sends(h, k, d, rest) ==
  /\ at' = [at EXCEPT ![h] = "head"]
  /\ kind' = [kind EXCEPT ![h] = k]
  /\ to' = [to EXCEPT ![h] = d]
  /\ todo' = [todo EXCEPT ![h] = rest]

\* the nodes of the network but one
Others(h) == {c \in Conn \ {h} : at[c] # "gone" /\ kind[c] # "leave"}

\* DATA is relayed or has no destination, PING answered
HandlerReads(h) ==
  /\ at[h] = "read"
  /\ up[h] # <<>>
  /\ LET p == Head(up[h]) IN
     /\ hr' = [hr EXCEPT ![h] = AfterPiece(@, p)]
     /\ IF Completes(hr[h], p)
        THEN \/ \E d \in Others(h) : Sends(h, "data", d, {})
             \/ UNCHANGED <<at, kind, to, todo>>
        ELSE IF hr[h] = "none" /\ p.part = "whole"
             THEN Sends(h, "pong", h, {})
             ELSE UNCHANGED <<at, kind, to, todo>>
  /\ up' = [up EXCEPT ![h] = Tail(@)]
  /\ UNCHANGED <<clients, down>>

\* back to reading, or out after the leave; what it wrote last is forgotten
Ends(h) ==
  IF kind[h] = "leave"
  THEN at' = [at EXCEPT ![h] = "gone"] /\ UNCHANGED kind
  ELSE at' = [at EXCEPT ![h] = "read"] /\ kind' = [kind EXCEPT ![h] = "data"]

\* mutant: the target of the last frame stays
ProceedsFromThere(h) ==
  /\ todo[h] = {}
  /\ Ends(h)
  /\ UNCHANGED <<to, todo>>

\* what the handler turns to when its frame is written, or could not be
Proceeds(h) ==
  \/ \E d \in todo[h] : Sends(h, kind[h], d, todo[h] \ {d})
  \/ /\ todo[h] = {}
     /\ Ends(h)
     /\ to' = [to EXCEPT ![h] = NoConn]
     /\ UNCHANGED todo

\* the connection takes a write: a client that is gone loses it
Takes(d) == at[d] # "gone" /\ (Room(down[d]) \/ client[d] = "gone")

HandlerWrites(h) ==
  /\ at[h] \in {"head", "body"}
  /\ Takes(to[h])
  /\ down' = [down EXCEPT ![to[h]] =
       IF client[to[h]] = "gone" THEN @
       ELSE Append(@, [by |-> h,
              part |-> IF kind[h] = "pong" THEN "whole" ELSE at[h]])]
  /\ IF at[h] = "head" /\ kind[h] # "pong"
     THEN at' = [at EXCEPT ![h] = "body"] /\ UNCHANGED <<kind, to, todo>>
     ELSE Proceeds(h)
  /\ UNCHANGED <<clients, up, hr>>

\* the connection was closed under the write
HandlerWriteFails(h) ==
  /\ at[h] \in {"head", "body"}
  /\ at[to[h]] = "gone"
  /\ Proceeds(h)
  /\ UNCHANGED <<clients, streams, hr>>

\* mutant: dataLoop reads without a deadline
SilentIfGone(h) == client[h] = "gone"

\* no more will come: the client closed, or nothing came for the idle time
\* (a client that runs and can write sends pings)
Silent(h) == client[h] \in {"gone", "frozen", "mute"}

\* ReadFrame fails; Unregister tells the others before the connection closes
HandlerEnds(h) ==
  /\ at[h] = "read"
  /\ up[h] = <<>>
  /\ Silent(h)
  /\ \/ \E d \in Others(h) : Sends(h, "leave", d, Others(h) \ {d})
     \/ /\ Others(h) = {}
        /\ at' = [at EXCEPT ![h] = "gone"]
        /\ kind' = [kind EXCEPT ![h] = "leave"]
        /\ UNCHANGED <<to, todo>>
  /\ UNCHANGED <<clients, streams, hr>>

Next ==
  \/ \E c \in Conn, w \in Writer :
       Locks(c, w) \/ ClientWrites(c, w)
       \/ ClientWriteFails(c, w) \/ ClientTimesOut(c, w)
  \/ \E c \in Conn : ClientReads(c) \/ ClientLeaves(c) \/ Freeze(c)
  \/ \E h \in Conn :
       HandlerReads(h) \/ HandlerWrites(h) \/ HandlerWriteFails(h) \/ HandlerEnds(h)

Spec == Init /\ [][Next]_vars

(* Both ends are scheduled while they run; deadlines pass; sync.Mutex does *)
(* not starve, and only the holder of writeMu writes.  Nobody need send,   *)
(* leave or freeze.                                                        *)
Fairness ==
  /\ \A c \in Conn :
       /\ WF_vars(ClientReads(c))
       /\ SF_vars(Locks(c, "recv"))
       /\ WF_vars(\E w \in Writer :
                    ClientWrites(c, w) \/ ClientWriteFails(c, w) \/ ClientTimesOut(c, w))
  /\ \A h \in Conn :
       WF_vars(HandlerReads(h) \/ HandlerWrites(h) \/ HandlerWriteFails(h) \/ HandlerEnds(h))

FairSpec == Spec /\ Fairness

-----------------------------------------------------------------------------
(* Properties.                                                             *)

(* What the server reads from a client is whole frames, whichever of the   *)
(* client's goroutines write and whichever deadline passes.                *)
ClientFramesWhole == \A c \in Conn : hr[c] # "lost"

(* sysRW is documented as a thread-safe wrapper for several writers: what  *)
(* a client reads is whole frames.                                         *)
WholeFrames == \A c \in Conn : cr[c] # "lost"

\* handler `h` is in a Write to `d` that waits for its client to read
WaitsFor(h, d) ==
  /\ at[h] \in {"head", "body"}
  /\ to[h] = d
  /\ at[d] # "gone"
  /\ ~Takes(d)

\* handlers that wait for connections whose handlers are among them: none of
\* them reads, so no idle deadline passes
Knot ==
  \E S \in SUBSET Conn \ {{}} : \A h \in S : \E d \in S : WaitsFor(h, d)

(* A handler does not wait for ever: the client it writes to reads on, or  *)
(* the idle deadline of that connection passes and its handler closes it - *)
(* unless that handler waits itself, and so on round to one of them.       *)
Waits(h) == WaitsFor(h, to[h])

StallBounded == \A h \in Conn : Waits(h) ~> (~Waits(h) \/ Knot)
=============================================================================
