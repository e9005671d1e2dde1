---------------------------- MODULE Frames_proofs ----------------------------
(***************************************************************************)
(* That the client's lock over a frame keeps its frames whole, for any     *)
(* number of connections and any size of their buffers.                    *)
(***************************************************************************)
EXTENDS Frames, TLAPS

\* what a reader of whole frames has parsed after a piece
After(p) == IF p.part = "head" THEN p.by ELSE "none"

\* and before piece `i` of a stream, having parsed `start` before the stream
Before(start, stream, i) == IF i = 1 THEN start ELSE After(stream[i - 1])

\* piece `p` continues what was parsed before
Continues(before, p) ==
  IF before = "none" THEN p.part # "body" ELSE p.part = "body" /\ p.by = before

\* writeMu: one goroutine of a client is in a frame; a ping has no payload
Exclusive ==
  \A c \in Conn, v, w \in Writer :
    /\ cw[c][v] \in {"head", "body"} /\ cw[c][w] \in {"head", "body"} => v = w
    /\ cw[c]["ping"] # "body"

(* The stream to a handler is whole frames, the last one perhaps without   *)
(* its payload: then, while the client can write, its writer has the       *)
(* payload yet to write, and no one else has.                              *)
Whole(c) ==
  /\ hr[c] # "lost"
  /\ \A i \in 1..Len(up[c]) : Continues(Before(hr[c], up[c], i), up[c][i])
  /\ client[c] = "up" =>
       \A w \in Writer : cw[c][w] = "body" <=> Before(hr[c], up[c], Len(up[c]) + 1) = w

UpWhole == \A c \in Conn : Whole(c)

IInv == TypeOK /\ Exclusive /\ UpWhole

-----------------------------------------------------------------------------
(* Sequences and pieces.                                                   *)

LEMMA AppendAt ==
  ASSUME NEW S, NEW s \in Seq(S), NEW e \in S
  PROVE  /\ Append(s, e) \in Seq(S)
         /\ Len(Append(s, e)) = Len(s) + 1
         /\ Append(s, e)[Len(s) + 1] = e
         /\ \A i \in 1..Len(s) : Append(s, e)[i] = s[i]
  OBVIOUS

LEMMA TailAt ==
  ASSUME NEW S, NEW s \in Seq(S), s # <<>>
  PROVE  /\ Head(s) = s[1] /\ Head(s) \in S
         /\ Len(s) \in Nat \ {0}
         /\ Tail(s) \in Seq(S)
         /\ Len(Tail(s)) = Len(s) - 1
         /\ \A i \in 1..(Len(s) - 1) : Tail(s)[i] = s[i + 1]
  OBVIOUS

LEMMA AfterPieceType ==
  ASSUME NEW S, NEW before \in Parsed(S), NEW p \in Piece(S)
  PROVE  AfterPiece(before, p) \in Parsed(S)
  <1>1. p.by \in S
    BY DEF Piece
  <1>2. AfterPiece(before, p) \in {"none", "lost", p.by}
    BY DEF AfterPiece
  <1> QED
    BY <1>1, <1>2 DEF Parsed

(* Reading a piece that continues what was parsed loses nothing.           *)
LEMMA AfterPieceContinues ==
  ASSUME NEW before, NEW p \in Piece(Writer), before # "lost", Continues(before, p)
  PROVE  AfterPiece(before, p) = After(p) /\ After(p) # "lost"
  <1>1. p.part \in {"head", "body", "whole"} /\ p.by \in Writer
    BY DEF Piece
  <1>2. After(p) # "lost" /\ p.by # "none"
    BY <1>1 DEF After, Writer
  <1>3. CASE before = "none"
    <2>1. CASE p.part = "whole"
      BY <1>2, <1>3, <2>1 DEF AfterPiece, After
    <2>2. CASE p.part = "head"
      BY <1>2, <1>3, <2>2 DEF AfterPiece, After
    <2> QED
      BY <1>1, <1>3, <2>1, <2>2 DEF Continues
  <1>4. CASE before # "none"
    BY <1>1, <1>2, <1>4 DEF Continues, AfterPiece, After
  <1> QED
    BY <1>2, <1>3, <1>4

-----------------------------------------------------------------------------
(* Type correctness.                                                       *)

LEMMA SendsType ==
  ASSUME TypeOK, NEW h \in Conn, NEW k \in {"data", "pong", "leave"}, NEW d \in Conn,
         NEW rest \in SUBSET Conn, d \notin rest, Sends(h, k, d, rest)
  PROVE  /\ at' \in [Conn -> {"read", "head", "body", "gone"}]
         /\ kind' \in [Conn -> {"data", "pong", "leave"}]
         /\ to' \in [Conn -> Conn \cup {NoConn}]
         /\ todo' \in [Conn -> SUBSET Conn]
         /\ \A c \in Conn : /\ to'[c] # NoConn <=> at'[c] \in {"head", "body"}
                            /\ to'[c] \notin todo'[c]
  BY FramesAssumption DEF TypeOK, Sends

LEMMA ProceedsType ==
  ASSUME TypeOK, NEW h \in Conn, Proceeds(h)
  PROVE  /\ at' \in [Conn -> {"read", "head", "body", "gone"}]
         /\ kind' \in [Conn -> {"data", "pong", "leave"}]
         /\ to' \in [Conn -> Conn \cup {NoConn}]
         /\ todo' \in [Conn -> SUBSET Conn]
         /\ \A c \in Conn : /\ to'[c] # NoConn <=> at'[c] \in {"head", "body"}
                            /\ to'[c] \notin todo'[c]
  <1>1. CASE \E d \in todo[h] : Sends(h, kind[h], d, todo[h] \ {d})
    <2>1. PICK d \in todo[h] : Sends(h, kind[h], d, todo[h] \ {d})
      BY <1>1
    <2>2. /\ kind[h] \in {"data", "pong", "leave"}
          /\ d \in Conn /\ todo[h] \ {d} \in SUBSET Conn /\ d \notin todo[h] \ {d}
      BY DEF TypeOK
    <2> QED
      BY <2>1, <2>2, SendsType
  <1>2. CASE Ends(h) /\ to' = [to EXCEPT ![h] = NoConn] /\ UNCHANGED todo
    <2>1. /\ at' \in [Conn -> {"read", "head", "body", "gone"}]
          /\ kind' \in [Conn -> {"data", "pong", "leave"}]
          /\ at'[h] \notin {"head", "body"}
          /\ \A c \in Conn \ {h} : at'[c] = at[c]
      <3>1. /\ at \in [Conn -> {"read", "head", "body", "gone"}]
            /\ kind \in [Conn -> {"data", "pong", "leave"}]
        BY DEF TypeOK
      <3>2. CASE kind[h] = "leave"
        BY <1>2, <3>1, <3>2 DEF Ends
      <3>3. CASE kind[h] # "leave"
        BY <1>2, <3>1, <3>3 DEF Ends
      <3> QED
        BY <3>2, <3>3
    <2>2. /\ to \in [Conn -> Conn \cup {NoConn}] /\ todo \in [Conn -> SUBSET Conn]
          /\ \A c \in Conn : /\ to[c] # NoConn <=> at[c] \in {"head", "body"}
                             /\ to[c] \notin todo[c]
      BY DEF TypeOK
    <2>3. /\ to' \in [Conn -> Conn \cup {NoConn}] /\ todo' \in [Conn -> SUBSET Conn]
          /\ to'[h] = NoConn /\ \A c \in Conn \ {h} : to'[c] = to[c]
      BY <1>2, <2>2
    <2>4. NoConn \notin todo[h]
      BY <2>2, FramesAssumption
    <2>5. ASSUME NEW c \in Conn
          PROVE  (to'[c] # NoConn <=> at'[c] \in {"head", "body"}) /\ to'[c] \notin todo'[c]
      <3>1. CASE c = h
        BY <1>2, <2>1, <2>3, <2>4, <3>1
      <3>2. CASE c # h
        BY <1>2, <2>1, <2>2, <2>3, <3>2
      <3> QED
        BY <3>1, <3>2
    <2> QED
      BY <2>1, <2>3, <2>5
  <1> QED
    BY <1>1, <1>2 DEF Proceeds

LEMMA TypeNext ==
  ASSUME TypeOK, [Next]_vars
  PROVE  TypeOK'
  <1> USE DEF TypeOK
  <1>1. CASE UNCHANGED vars
    BY <1>1 DEF vars
  <1>2. ASSUME NEW c \in Conn, NEW w \in Writer, NEW p \in {"idle", "lock", "head", "body"},
               MoveW(c, w, p)
        PROVE  cw' \in [Conn -> [Writer -> {"idle", "lock", "head", "body"}]]
    BY <1>2 DEF MoveW
  <1>3. ASSUME NEW c \in Conn, NEW w \in Writer, Locks(c, w)
        PROVE  TypeOK'
    BY <1>2, <1>3 DEF Locks, streams, handlers
  <1>4. ASSUME NEW c \in Conn, NEW w \in Writer, ClientWrites(c, w)
        PROVE  TypeOK'
    <2> DEFINE e == [by |-> w, part |-> IF w = "ping" THEN "whole" ELSE cw[c][w]]
    <2>1. e \in Piece(Writer) /\ up[c] \in Seq(Piece(Writer)) /\ Len(up[c]) < Cap
      BY <1>4 DEF ClientWrites, Room, Piece
    <2>2. up' = [up EXCEPT ![c] = Append(up[c], e)]
      BY <1>4 DEF ClientWrites
    <2>3. /\ Append(up[c], e) \in Seq(Piece(Writer)) /\ Len(Append(up[c], e)) <= Cap
      <3> HIDE DEF e
      <3> QED
        BY <2>1, FramesAssumption, AppendAt
    <2> HIDE DEF e
    <2>4. up' \in [Conn -> Seq(Piece(Writer))] /\ \A d \in Conn : Len(up'[d]) <= Cap
      BY <2>2, <2>3
    <2> QED
      BY <1>2, <1>4, <2>4 DEF ClientWrites, handlers
  <1>5. ASSUME NEW c \in Conn, NEW how \in {"gone", "frozen"}, Stops(c, how),
               UNCHANGED <<streams, handlers>>
        PROVE  TypeOK'
    BY <1>5 DEF Stops, streams, handlers, Parsed
  <1>6. ASSUME NEW c \in Conn, NEW w \in Writer, WriteError(c, w),
               UNCHANGED <<streams, handlers>>
        PROVE  TypeOK'
    BY <1>2, <1>5, <1>6 DEF WriteError, streams, handlers
  <1>7. ASSUME NEW c \in Conn, NEW w \in Writer, ClientWriteFails(c, w) \/ ClientTimesOut(c, w)
        PROVE  TypeOK'
    BY <1>6, <1>7 DEF ClientWriteFails, ClientTimesOut
  <1>8. ASSUME NEW c \in Conn, ClientLeaves(c) \/ Freeze(c)
        PROVE  TypeOK'
    BY <1>5, <1>8 DEF ClientLeaves, Freeze
  <1>9. ASSUME NEW c \in Conn, ClientReads(c)
        PROVE  TypeOK'
    <2>1. /\ down[c] \in Seq(Piece(Conn)) /\ down[c] # <<>>
          /\ cr' = [cr EXCEPT ![c] = AfterPiece(cr[c], Head(down[c]))]
          /\ down' = [down EXCEPT ![c] = Tail(down[c])]
          /\ UNCHANGED <<client, up, handlers>>
      BY <1>9 DEF ClientReads
    <2>2. /\ Head(down[c]) \in Piece(Conn) /\ Tail(down[c]) \in Seq(Piece(Conn))
          /\ Len(Tail(down[c])) <= Cap
      BY <2>1, TailAt, FramesAssumption
    <2>3. cr' \in [Conn -> Parsed(Conn)]
      BY <2>1, <2>2, AfterPieceType
    <2>4. cw' \in [Conn -> [Writer -> {"idle", "lock", "head", "body"}]]
      BY <1>2, <1>9 DEF ClientReads, Writer
    <2>5. /\ down' \in [Conn -> Seq(Piece(Conn))] /\ \A d \in Conn : Len(down'[d]) <= Cap
      BY <2>1, <2>2
    <2> QED
      BY <2>1, <2>3, <2>4, <2>5 DEF handlers
  <1>10. ASSUME NEW h \in Conn, HandlerReads(h)
         PROVE  TypeOK'
    <2>1. /\ up[h] \in Seq(Piece(Writer)) /\ up[h] # <<>>
          /\ hr' = [hr EXCEPT ![h] = AfterPiece(hr[h], Head(up[h]))]
          /\ up' = [up EXCEPT ![h] = Tail(up[h])]
          /\ UNCHANGED <<client, cw, cr, down>>
      BY <1>10 DEF HandlerReads, clients
    <2>2. /\ Head(up[h]) \in Piece(Writer) /\ Tail(up[h]) \in Seq(Piece(Writer))
          /\ Len(Tail(up[h])) <= Cap
      BY <2>1, TailAt, FramesAssumption
    <2>3. hr' \in [Conn -> Parsed(Writer)]
      BY <2>1, <2>2, AfterPieceType
    <2>4. up' \in [Conn -> Seq(Piece(Writer))] /\ \A d \in Conn : Len(up'[d]) <= Cap
      BY <2>1, <2>2
    <2>5. \/ \E d \in Others(h) : Sends(h, "data", d, {})
          \/ Sends(h, "pong", h, {})
          \/ UNCHANGED <<at, kind, to, todo>>
      BY <1>10 DEF HandlerReads
    <2>6. /\ at' \in [Conn -> {"read", "head", "body", "gone"}]
          /\ kind' \in [Conn -> {"data", "pong", "leave"}]
          /\ to' \in [Conn -> Conn \cup {NoConn}]
          /\ todo' \in [Conn -> SUBSET Conn]
          /\ \A c \in Conn : /\ to'[c] # NoConn <=> at'[c] \in {"head", "body"}
                             /\ to'[c] \notin todo'[c]
      <3> HIDE DEF TypeOK
      <3>0. {} \in SUBSET Conn /\ \A d \in Conn : d \notin {}
        OBVIOUS
      <3>1. CASE \E d \in Others(h) : Sends(h, "data", d, {})
        <4>1. PICK d \in Conn : Sends(h, "data", d, {})
          BY <3>1 DEF Others
        <4> QED
          BY <3>0, <4>1, SendsType
      <3>2. CASE Sends(h, "pong", h, {})
        BY <3>0, <3>2, SendsType
      <3>3. CASE UNCHANGED <<at, kind, to, todo>>
        BY <3>3 DEF TypeOK
      <3> QED
        BY <2>5, <3>1, <3>2, <3>3
    <2> QED
      BY <2>1, <2>3, <2>4, <2>6
  <1>11. ASSUME NEW h \in Conn, HandlerWrites(h)
         PROVE  TypeOK'
    <2> DEFINE e == [by |-> h, part |-> IF kind[h] = "pong" THEN "whole" ELSE at[h]]
    <2>1. /\ at[h] \in {"head", "body"} /\ to[h] \in Conn
          /\ Room(down[to[h]]) \/ client[to[h]] = "gone"
          /\ UNCHANGED <<client, cw, cr, up, hr>>
      BY <1>11 DEF HandlerWrites, Takes, clients
    <2>2. e \in Piece(Conn)
      BY <2>1 DEF Piece
    <2>3. down' = [down EXCEPT ![to[h]] =
                     IF client[to[h]] = "gone" THEN down[to[h]] ELSE Append(down[to[h]], e)]
      BY <1>11 DEF HandlerWrites
    <2> HIDE DEF e
    <2>4. Room(down[to[h]]) => /\ Append(down[to[h]], e) \in Seq(Piece(Conn))
                               /\ Len(Append(down[to[h]], e)) <= Cap
      BY <2>1, <2>2, AppendAt, FramesAssumption DEF Room
    <2>5. down' \in [Conn -> Seq(Piece(Conn))] /\ \A d \in Conn : Len(down'[d]) <= Cap
      BY <2>1, <2>3, <2>4
    <2>6. /\ at' \in [Conn -> {"read", "head", "body", "gone"}]
          /\ kind' \in [Conn -> {"data", "pong", "leave"}]
          /\ to' \in [Conn -> Conn \cup {NoConn}]
          /\ todo' \in [Conn -> SUBSET Conn]
          /\ \A c \in Conn : /\ to'[c] # NoConn <=> at'[c] \in {"head", "body"}
                             /\ to'[c] \notin todo'[c]
      <3>1. CASE at[h] = "head" /\ kind[h] # "pong"
        BY <1>11, <3>1 DEF HandlerWrites
      <3>2. CASE ~(at[h] = "head" /\ kind[h] # "pong")
        BY <1>11, <3>2, ProceedsType DEF HandlerWrites
      <3> QED
        BY <3>1, <3>2
    <2> QED
      BY <2>1, <2>5, <2>6
  <1>12. ASSUME NEW h \in Conn, HandlerWriteFails(h)
         PROVE  TypeOK'
    BY <1>12, ProceedsType DEF HandlerWriteFails, clients, streams
  <1>13. ASSUME NEW h \in Conn, HandlerEnds(h)
         PROVE  TypeOK'
    <2>1. CASE \E d \in Others(h) : Sends(h, "leave", d, Others(h) \ {d})
      <3>1. PICK d \in Conn : Sends(h, "leave", d, Others(h) \ {d})
        BY <2>1 DEF Others
      <3>2. Others(h) \ {d} \in SUBSET Conn /\ d \notin Others(h) \ {d}
        BY DEF Others
      <3> QED
        BY <1>13, <3>1, <3>2, SendsType DEF HandlerEnds, clients, streams
    <2>2. CASE ~\E d \in Others(h) : Sends(h, "leave", d, Others(h) \ {d})
      BY <1>13, <2>2, ZenonT(60) DEF HandlerEnds, clients, streams
    <2> QED
      BY <2>1, <2>2
  <1> QED
    BY <1>1, <1>3, <1>4, <1>7, <1>8, <1>9, <1>10, <1>11, <1>12, <1>13 DEF Next

-----------------------------------------------------------------------------
(* The lock of a client's writers.                                         *)

LEMMA MoveAt ==
  ASSUME TypeOK, NEW c \in Conn, NEW w \in Writer, NEW p, MoveW(c, w, p)
  PROVE  /\ cw'[c][w] = p
         /\ \A v \in Writer \ {w} : cw'[c][v] = cw[c][v]
         /\ \A d \in Conn \ {c} : cw'[d] = cw[d]
  BY DEF TypeOK, MoveW

(* A goroutine enters a frame only when the lock is free, and leaves it    *)
(* when the frame is written or failed.                                    *)
LEMMA ExclusiveNext ==
  ASSUME TypeOK, Exclusive, [Next]_vars
  PROVE  Exclusive'
  <1>1. CASE UNCHANGED cw
    BY <1>1 DEF Exclusive
  <1>2. ASSUME NEW c \in Conn, NEW w \in Writer, Locks(c, w)
        PROVE  Exclusive'
    <2>1. \A v \in Writer : cw[c][v] \notin {"head", "body"}
      BY <1>2 DEF Locks, WriteMuFree
    <2>2. /\ cw'[c][w] = "head"
          /\ \A v \in Writer \ {w} : cw'[c][v] = cw[c][v]
          /\ \A d \in Conn \ {c} : cw'[d] = cw[d]
      BY <1>2, MoveAt DEF Locks
    <2> QED
      BY <2>1, <2>2 DEF Exclusive, Writer
  <1>3. ASSUME NEW c \in Conn, NEW w \in Writer, NEW p, MoveW(c, w, p), w = "ping" => p # "body",
               p \in {"head", "body"} => cw[c][w] \in {"head", "body"}
        PROVE  Exclusive'
    <2>1. /\ cw'[c][w] = p
          /\ \A v \in Writer \ {w} : cw'[c][v] = cw[c][v]
          /\ \A d \in Conn \ {c} : cw'[d] = cw[d]
      BY <1>3, MoveAt
    <2>2. \A v \in Writer : cw'[c][v] \in {"head", "body"} => cw[c][v] \in {"head", "body"}
      BY <1>3, <2>1
    <2> QED
      BY <1>3, <2>1, <2>2 DEF Exclusive, Writer
  <1>4. ASSUME NEW c \in Conn, NEW how, Stops(c, how)
        PROVE  Exclusive'
    BY <1>4 DEF Stops, Exclusive, TypeOK, Writer
  <1>5. ASSUME NEW c \in Conn, NEW w \in Writer, ClientWrites(c, w)
        PROVE  Exclusive'
    BY <1>3, <1>5 DEF ClientWrites
  <1>6. ASSUME NEW c \in Conn, NEW w \in Writer, ClientWriteFails(c, w) \/ ClientTimesOut(c, w)
        PROVE  Exclusive'
    BY <1>3, <1>4, <1>6 DEF ClientWriteFails, ClientTimesOut, WriteError
  <1>7. ASSUME NEW c \in Conn, ClientReads(c)
        PROVE  Exclusive'
    BY <1>1, <1>3, <1>7 DEF ClientReads, Writer
  <1>8. ASSUME NEW c \in Conn, ClientLeaves(c) \/ Freeze(c)
        PROVE  Exclusive'
    BY <1>4, <1>8 DEF ClientLeaves, Freeze
  <1>9. ASSUME NEW h \in Conn, \/ HandlerReads(h) \/ HandlerWrites(h)
                               \/ HandlerWriteFails(h) \/ HandlerEnds(h)
        PROVE  UNCHANGED cw
    BY <1>9 DEF HandlerReads, HandlerWrites, HandlerWriteFails, HandlerEnds, clients
  <1>10. CASE UNCHANGED vars
    BY <1>1, <1>10 DEF vars
  <1> QED
    BY <1>1, <1>2, <1>5, <1>6, <1>7, <1>8, <1>9, <1>10 DEF Next

-----------------------------------------------------------------------------
(* The stream to a handler.                                                *)

\* what the others do, and a client that cannot write any more, changes nothing
LEMMA WholeStays ==
  ASSUME NEW c \in Conn, Whole(c), up'[c] = up[c], hr'[c] = hr[c],
         client'[c] = "up" =>
           /\ client[c] = "up"
           /\ \A w \in Writer : cw'[c][w] = "body" <=> cw[c][w] = "body"
  PROVE  Whole(c)'
  BY DEF Whole, Before

(* The write of a piece: the lock's holder finds the stream where its own  *)
(* last piece left it, and a header only behind a whole frame.             *)
LEMMA WholeWrites ==
  ASSUME TypeOK, Exclusive, NEW c \in Conn, Whole(c), NEW w \in Writer, ClientWrites(c, w)
  PROVE  Whole(c)'
  <1> DEFINE e == [by |-> w, part |-> IF w = "ping" THEN "whole" ELSE cw[c][w]]
  <1>1. /\ client[c] = "up" /\ cw[c][w] \in {"head", "body"}
        /\ up[c] \in Seq(Piece(Writer)) /\ Len(up[c]) \in Nat
        /\ up'[c] = Append(up[c], e) /\ hr' = hr
        /\ MoveW(c, w, IF w # "ping" /\ cw[c][w] = "head" THEN "body" ELSE "idle")
    BY DEF ClientWrites, handlers, TypeOK
  <1>2. e \in Piece(Writer)
    BY <1>1 DEF Piece
  <1>3. e.by = w /\ e.part = IF w = "ping" THEN "whole" ELSE cw[c][w]
    OBVIOUS
  <1> HIDE DEF e
  <1>4. /\ Len(up'[c]) = Len(up[c]) + 1
        /\ up'[c][Len(up[c]) + 1] = e
        /\ \A i \in 1..Len(up[c]) : up'[c][i] = up[c][i]
    BY <1>1, <1>2, AppendAt
  <1>5. /\ \A i \in 1..(Len(up[c]) + 1) : Before(hr'[c], up'[c], i) = Before(hr[c], up[c], i)
        /\ Before(hr'[c], up'[c], Len(up[c]) + 2) = After(e)
    BY <1>1, <1>4 DEF Before
  <1>6. \A v \in Writer \ {w} : cw[c][v] \notin {"head", "body"}
    BY <1>1 DEF Exclusive
  <1>7. Continues(Before(hr[c], up[c], Len(up[c]) + 1), e)
    <2>1. CASE cw[c][w] = "body"
      <3>1. w # "ping" /\ Before(hr[c], up[c], Len(up[c]) + 1) = w /\ w # "none"
        BY <1>1, <2>1 DEF Exclusive, Whole, Writer
      <3> QED
        BY <1>3, <2>1, <3>1 DEF Continues
    <2>2. CASE cw[c][w] = "head"
      <3>1. \A v \in Writer : Before(hr[c], up[c], Len(up[c]) + 1) # v
        BY <1>1, <1>6, <2>2 DEF Whole
      <3>2. Before(hr[c], up[c], Len(up[c]) + 1) \in Writer \cup {"none"}
        <4>1. CASE Len(up[c]) = 0
          BY <1>1, <4>1 DEF Before, Whole, TypeOK, Parsed
        <4>2. CASE Len(up[c]) # 0
          <5>1. up[c][Len(up[c])] \in Piece(Writer)
            BY <1>1, <4>2
          <5> QED
            BY <1>1, <4>2, <5>1 DEF Before, After, Piece
        <4> QED
          BY <4>1, <4>2
      <3> QED
        BY <1>3, <2>2, <3>1, <3>2 DEF Continues
    <2> QED
      BY <1>1, <2>1, <2>2
  <1>8. \A i \in 1..Len(up'[c]) : Continues(Before(hr'[c], up'[c], i), up'[c][i])
    BY <1>1, <1>4, <1>5, <1>7 DEF Whole
  <1>9. \A v \in Writer : cw'[c][v] = "body" <=> After(e) = v
    <2>1. /\ cw'[c][w] = IF w # "ping" /\ cw[c][w] = "head" THEN "body" ELSE "idle"
          /\ \A v \in Writer \ {w} : cw'[c][v] # "body"
      BY <1>1, <1>6, MoveAt
    <2> QED
      BY <1>1, <1>3, <2>1 DEF After, Writer
  <1>10. Before(hr'[c], up'[c], Len(up[c]) + 2) = After(e) /\ Len(up'[c]) + 1 = Len(up[c]) + 2
    BY <1>1, <1>4, <1>5
  <1> QED
    BY <1>1, <1>4, <1>8, <1>9, <1>10 DEF Whole, Continues

(* The read of a piece: it continues what was parsed, and the rest then    *)
(* continues what is parsed now.                                           *)
LEMMA WholeReads ==
  ASSUME TypeOK, NEW c \in Conn, Whole(c), HandlerReads(c)
  PROVE  Whole(c)'
  <1>1. /\ up[c] \in Seq(Piece(Writer)) /\ up[c] # <<>>
        /\ hr'[c] = AfterPiece(hr[c], Head(up[c]))
        /\ up'[c] = Tail(up[c])
        /\ UNCHANGED <<client, cw>>
    BY DEF HandlerReads, clients, TypeOK
  <1>2. /\ Len(up[c]) \in Nat \ {0}
        /\ Head(up[c]) = up[c][1] /\ Head(up[c]) \in Piece(Writer)
        /\ Len(up'[c]) = Len(up[c]) - 1
        /\ \A i \in 1..(Len(up[c]) - 1) : up'[c][i] = up[c][i + 1]
    BY <1>1, TailAt
  <1>3. hr[c] # "lost" /\ Continues(hr[c], up[c][1])
    BY <1>2 DEF Whole, Before
  <1>4. hr'[c] = After(up[c][1]) /\ hr'[c] # "lost"
    BY <1>1, <1>2, <1>3, AfterPieceContinues
  <1>5. \A i \in 1..Len(up[c]) : Before(hr'[c], up'[c], i) = Before(hr[c], up[c], i + 1)
    <2> SUFFICES ASSUME NEW i \in 1..Len(up[c])
                 PROVE  Before(hr'[c], up'[c], i) = Before(hr[c], up[c], i + 1)
      OBVIOUS
    <2>1. CASE i = 1
      BY <1>2, <1>4, <2>1 DEF Before
    <2>2. CASE i # 1
      <3>1. up'[c][i - 1] = up[c][i]
        BY <1>2, <2>2
      <3> QED
        BY <1>2, <2>2, <3>1 DEF Before, After
    <2> QED
      BY <2>1, <2>2
  <1>6. \A i \in 1..Len(up'[c]) : Continues(Before(hr'[c], up'[c], i), up'[c][i])
    <2> SUFFICES ASSUME NEW i \in 1..Len(up'[c])
                 PROVE  Continues(Before(hr'[c], up'[c], i), up'[c][i])
      OBVIOUS
    <2>1. /\ i \in 1..Len(up[c]) /\ i + 1 \in 1..Len(up[c])
          /\ up'[c][i] = up[c][i + 1]
      BY <1>2
    <2> QED
      BY <1>5, <2>1 DEF Whole
  <1>7. Before(hr'[c], up'[c], Len(up'[c]) + 1) = Before(hr[c], up[c], Len(up[c]) + 1)
    BY <1>2, <1>5
  <1> QED
    BY <1>1, <1>4, <1>6, <1>7 DEF Whole, Continues

LEMMA UpWholeNext ==
  ASSUME TypeOK, Exclusive, UpWhole, [Next]_vars
  PROVE  UpWhole'
  <1> SUFFICES ASSUME NEW c \in Conn
               PROVE  Whole(c)'
    BY DEF UpWhole
  <1>1. Whole(c)
    BY DEF UpWhole
  <1>2. CASE UNCHANGED <<client, cw, up, hr>>
    BY <1>1, <1>2, WholeStays
  <1>3. ASSUME NEW d \in Conn, NEW w \in Writer, Locks(d, w)
        PROVE  Whole(c)'
    <2>1. cw[d][w] # "body" /\ cw'[d][w] = "head"
      BY <1>3, MoveAt DEF Locks
    <2>2. \A v \in Writer : cw'[c][v] = "body" <=> cw[c][v] = "body"
      BY <1>3, <2>1, MoveAt DEF Locks
    <2> QED
      BY <1>1, <1>3, <2>2, WholeStays DEF Locks, streams, handlers
  <1>4. ASSUME NEW d \in Conn, NEW w \in Writer, ClientWrites(d, w)
        PROVE  Whole(c)'
    <2>1. CASE d = c
      BY <1>1, <1>4, <2>1, WholeWrites
    <2>2. CASE d # c
      <3>1. /\ up'[c] = up[c] /\ hr'[c] = hr[c] /\ client' = client
            /\ \A v \in Writer : cw'[c][v] = cw[c][v]
        BY <1>4, <2>2, MoveAt DEF ClientWrites, handlers, TypeOK
      <3> QED
        BY <1>1, <3>1, WholeStays
    <2> QED
      BY <2>1, <2>2
  <1>5. ASSUME NEW d \in Conn, NEW how \in {"gone", "frozen"}, Stops(d, how), UNCHANGED <<up, hr>>
        PROVE  Whole(c)'
    <2>1. client'[c] = "up" => client[c] = "up" /\ \A v \in Writer : cw'[c][v] = cw[c][v]
      BY <1>5 DEF Stops, TypeOK
    <2> QED
      BY <1>1, <1>5, <2>1, WholeStays
  <1>6. ASSUME NEW d \in Conn, NEW w \in Writer, ClientWriteFails(d, w) \/ ClientTimesOut(d, w)
        PROVE  Whole(c)'
    <2>1. WriteError(d, w) /\ UNCHANGED <<up, hr>>
      BY <1>6 DEF ClientWriteFails, ClientTimesOut, streams, handlers
    <2>2. CASE w = "send"
      BY <1>5, <2>1, <2>2 DEF WriteError
    <2>3. CASE w # "send"
      <3>1. client'[c] = "up" => client[c] = "up" /\ \A v \in Writer : cw'[c][v] = cw[c][v]
        BY <2>1, <2>3, MoveAt, ZenonT(60) DEF WriteError, TypeOK
      <3> QED
        BY <1>1, <2>1, <3>1, WholeStays
    <2> QED
      BY <2>2, <2>3
  <1>7. ASSUME NEW d \in Conn, ClientReads(d)
        PROVE  Whole(c)'
    <2>1. UNCHANGED <<client, up, hr>>
      BY <1>7 DEF ClientReads, handlers
    <2>2. \A v \in Writer : cw'[c][v] = "body" <=> cw[c][v] = "body"
      <3>1. CASE UNCHANGED cw
        BY <3>1
      <3>2. CASE MoveW(d, "recv", "lock")
        <4>1. cw[d]["recv"] = "idle" /\ cw'[d]["recv"] = "lock" /\ "recv" \in Writer
          BY <1>7, <3>2, MoveAt DEF ClientReads, Writer
        <4> QED
          BY <3>2, <4>1, MoveAt
      <3> QED
        BY <1>7, <3>1, <3>2 DEF ClientReads
    <2> QED
      BY <1>1, <2>1, <2>2, WholeStays
  <1>8. ASSUME NEW d \in Conn, ClientLeaves(d) \/ Freeze(d)
        PROVE  Whole(c)'
    BY <1>5, <1>8 DEF ClientLeaves, Freeze, streams, handlers
  <1>9. ASSUME NEW h \in Conn, HandlerReads(h)
        PROVE  Whole(c)'
    <2>1. CASE h = c
      BY <1>1, <1>9, <2>1, WholeReads
    <2>2. CASE h # c
      <3>1. up'[c] = up[c] /\ hr'[c] = hr[c] /\ UNCHANGED <<client, cw>>
        BY <1>9, <2>2 DEF HandlerReads, clients, TypeOK
      <3> QED
        BY <1>1, <3>1, WholeStays
    <2> QED
      BY <2>1, <2>2
  <1>10. ASSUME NEW h \in Conn, HandlerWrites(h) \/ HandlerWriteFails(h) \/ HandlerEnds(h)
         PROVE  UNCHANGED <<client, cw, up, hr>>
    BY <1>10 DEF HandlerWrites, HandlerWriteFails, HandlerEnds, clients, streams
  <1>11. CASE UNCHANGED vars
    BY <1>2, <1>11 DEF vars
  <1> QED
    BY <1>2, <1>3, <1>4, <1>6, <1>7, <1>8, <1>9, <1>10, <1>11 DEF Next

-----------------------------------------------------------------------------

(* The inductive invariant: one goroutine in a frame, and a stream of      *)
(* whole frames up to the one it is in.                                    *)
THEOREM FramesInvariant == Spec => []IInv
  <1>1. Init => IInv
    <2> SUFFICES ASSUME Init PROVE IInv
      OBVIOUS
    <2>1. TypeOK
      BY FramesAssumption DEF Init, TypeOK, Parsed
    <2>2. Exclusive
      BY DEF Init, Exclusive, Writer
    <2>3. UpWhole
      <3>1. ASSUME NEW c \in Conn
            PROVE  /\ hr[c] = "none" /\ up[c] = <<>> /\ Len(up[c]) = 0
                   /\ \A w \in Writer : cw[c][w] = "idle" /\ w # "none"
        BY DEF Init, Writer
      <3>2. ASSUME NEW c \in Conn
            PROVE  Before(hr[c], up[c], Len(up[c]) + 1) = "none"
        BY <3>1 DEF Before
      <3>3. ASSUME NEW c \in Conn
            PROVE  1..Len(up[c]) = {}
        BY <3>1
      <3>4. ASSUME NEW c \in Conn
            PROVE  Whole(c)
        BY <3>1, <3>2, <3>3 DEF Whole
      <3> QED
        BY <3>4 DEF UpWhole
    <2> QED
      BY <2>1, <2>2, <2>3 DEF IInv
  <1>2. IInv /\ [Next]_vars => IInv'
    BY TypeNext, ExclusiveNext, UpWholeNext DEF IInv
  <1> QED
    BY <1>1, <1>2, PTL DEF Spec

(* The streams, the goroutines and the handlers keep their types, and no   *)
(* buffer takes more than it holds.                                        *)
THEOREM TypeCorrect == Spec => []TypeOK
  <1>1. IInv => TypeOK
    BY DEF IInv
  <1> QED
    BY FramesInvariant, <1>1, PTL

(* The server reads whole frames, whichever of the client's goroutines     *)
(* write, and whichever write fails after the header went out.             *)
THEOREM ClientFramesCorrect == Spec => []ClientFramesWhole
  <1>1. IInv => ClientFramesWhole
    BY DEF IInv, UpWhole, Whole, ClientFramesWhole
  <1> QED
    BY FramesInvariant, <1>1, PTL
=============================================================================
