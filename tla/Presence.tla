------------------------------ MODULE Presence ------------------------------
(***************************************************************************)
(* What Hub promises of its directory, without handlers, locks, tables or  *)
(* frames: each device is reachable over at most one connection; a         *)
(* connection gets one chance to become that of one device, and once it    *)
(* was superseded, has left or was refused it never comes back.            *)
(***************************************************************************)
CONSTANTS Conn, Device, NoConn

VARIABLES
  current,    \* the connection a device is reachable over
  spent       \* connections that had their chance

Init ==
  /\ current = [d \in Device |-> NoConn]
  /\ spent = {}

\* the newest connection of a device wins
Enter(d, c) ==
  /\ c \notin spent
  /\ current' = [current EXCEPT ![d] = c]
  /\ spent' = spent \cup {c}

Refuse(c) ==
  /\ c \notin spent
  /\ spent' = spent \cup {c}
  /\ UNCHANGED current

\* nobody but its current connection takes a device offline
Leave(d) ==
  /\ current[d] # NoConn
  /\ current' = [current EXCEPT ![d] = NoConn]
  /\ UNCHANGED spent

Next ==
  \/ \E c \in Conn : Refuse(c) \/ \E d \in Device : Enter(d, c)
  \/ \E d \in Device : Leave(d)

Spec == Init /\ [][Next]_<<current, spent>>
=============================================================================
