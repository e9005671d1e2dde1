---------------------------- MODULE Leases_proofs ----------------------------
(***************************************************************************)
(* That the lease store keeps its promises for every subnet, every set of  *)
(* networks and devices, and any number of failed saves and restarts.      *)
(***************************************************************************)
EXTENDS Leases, TLAPS

\* what was ever saved is in memory: a save writes all of memory
Included ==
  \A n \in Network, ip \in Address :
    file[n][ip] # NoDevice => leases[n][ip] = file[n][ip]

\* the hosts of a book of leases
Hosted(book) == \A n \in Network : book[n][0] = NoDevice /\ book[n][Broadcast] = NoDevice

\* while saves succeed the file is memory, and holds what was granted
Saved ==
  saveFailed \/ /\ file = leases
                /\ \A g \in granted : leases[NetOf[g[1]]][g[2]] = g[1]

IInv ==
  /\ TypeOK
  /\ OneLease
  /\ Hosted(leases) /\ Hosted(file)
  /\ Included
  /\ NoneLost
  /\ Saved

LEMMA InitIInv == Init => IInv
  <1> SUFFICES ASSUME Init PROVE IInv
    OBVIOUS
  <1>1. saveFailed \in BOOLEAN
    BY Zenon DEF Init
  <1>2. TypeOK
    BY LeasesAssumption, <1>1 DEF Init, Address, TypeOK, LeaseMap
  <1>3. OneLease /\ Hosted(leases) /\ Hosted(file) /\ Included /\ NoneLost
    BY LeasesAssumption DEF Init, Address, OneLease, OneAddress, Hosted, Included, NoneLost, Leased
  <1>4. Saved
    BY Zenon DEF Init, Saved
  <1> QED
    BY <1>2, <1>3, <1>4 DEF IInv

(* Taking an address keeps every part of the invariant that speaks of      *)
(* memory alone.                                                           *)
LEMMA TakeStep ==
  ASSUME TypeOK, OneAddress(leases), Hosted(leases), NoneLost,
         NEW d \in Device, NEW a \in Address, Take(d, a)
  PROVE  /\ leases' \in LeaseMap
         /\ next' \in [Network -> 1..(Broadcast + 1)]
         /\ OneAddress(leases)'
         /\ Hosted(leases)'
         /\ NoneLost'
         /\ \A k \in Network, jp \in Address :
              leases[k][jp] # NoDevice => leases'[k][jp] = leases[k][jp]
  <1>1. /\ NetOf[d] \in Network
        /\ a \in 0..Broadcast /\ a >= next[NetOf[d]] /\ a # Broadcast
        /\ leases[NetOf[d]][a] = NoDevice
        /\ \A other \in Free(NetOf[d]) : a <= other
    BY LeasesAssumption DEF Address, Take, Found, Free, Leased, TypeOK
  <1>2. /\ leases \in LeaseMap
        /\ leases' = [leases EXCEPT ![NetOf[d]][a] = d]
        /\ next' = [next EXCEPT ![NetOf[d]] = a + 1]
        /\ next \in [Network -> 1..(Broadcast + 1)]
        /\ d # NoDevice
    BY LeasesAssumption DEF Address, Take, TypeOK
  <1>3. \A m \in Network, jp \in Address :
          leases'[m][jp] = IF m = NetOf[d] /\ jp = a THEN d ELSE leases[m][jp]
    BY <1>1, <1>2 DEF LeaseMap
  <1>4. leases' \in LeaseMap
    BY <1>1, <1>2 DEF LeaseMap
  <1>5. next' \in [Network -> 1..(Broadcast + 1)]
    BY LeasesAssumption, <1>1, <1>2 DEF Address
  <1>6. OneAddress(leases)'
    <2>1. \A jp \in Address : leases[NetOf[d]][jp] # d
      BY DEF Take, Owns
    <2>2. \A m \in Network, jp \in Address : leases[m][jp] # d
      BY <2>1, <1>2 DEF OneAddress
    <2> SUFFICES ASSUME NEW m1 \in Network, NEW m2 \in Network,
                        NEW j1 \in Address, NEW j2 \in Address,
                        leases'[m1][j1] # NoDevice, leases'[m1][j1] = leases'[m2][j2]
                 PROVE  m1 = NetOf[leases'[m1][j1]] /\ m2 = m1 /\ j1 = j2
      BY DEF OneAddress
    <2>3. CASE m1 = NetOf[d] /\ j1 = a
      BY <2>2, <2>3, <1>3
    <2>4. CASE ~(m1 = NetOf[d] /\ j1 = a)
      <3>1. leases'[m1][j1] = leases[m1][j1] /\ leases[m1][j1] # d
        BY <2>2, <2>4, <1>3
      <3>2. leases'[m2][j2] = leases[m2][j2]
        BY <3>1, <1>3
      <3>3. leases[m1][j1] # NoDevice /\ leases[m1][j1] = leases[m2][j2]
        BY <3>1, <3>2
      <3>4. m1 = NetOf[leases[m1][j1]] /\ m2 = m1 /\ j1 = j2
        BY <3>3 DEF OneAddress
      <3> QED
        BY <3>1, <3>4
    <2> QED
      BY <2>3, <2>4
  <1>7. Hosted(leases)'
    <2>1. a # 0
      BY LeasesAssumption, <1>1, <1>2 DEF Address
    <2> QED
      BY LeasesAssumption, <2>1, <1>1, <1>3 DEF Address, Hosted
  <1>8. NoneLost'
    <2> SUFFICES ASSUME NEW m \in Network, NEW jp \in Address \ {0, Broadcast}, jp < next'[m]
                 PROVE  leases'[m][jp] # NoDevice
      BY DEF NoneLost, Leased
    <2>1. CASE m # NetOf[d]
      BY <2>1, <1>2, <1>3 DEF NoneLost, Leased
    <2>2. CASE m = NetOf[d] /\ jp = a
      BY <2>2, <1>2, <1>3
    <2>3. CASE m = NetOf[d] /\ jp # a
      <3>1. jp < a
        BY LeasesAssumption, <2>3, <1>1, <1>2 DEF Address
      <3>2. jp < next[NetOf[d]] \/ Leased(NetOf[d], jp)
        BY LeasesAssumption, <3>1, <1>1, <1>2, <2>3 DEF Address, Free
      <3> QED
        BY <3>2, <2>3, <1>3 DEF NoneLost, Leased
    <2> QED
      BY <2>1, <2>2, <2>3
  <1>9. \A m \in Network, jp \in Address :
          leases[m][jp] # NoDevice => leases'[m][jp] = leases[m][jp]
    BY <1>1, <1>3
  <1> QED
    BY <1>4, <1>5, <1>6, <1>7, <1>8, <1>9

-----------------------------------------------------------------------------
(* One lemma for each outcome of Allocate, and for a restart.              *)

LEMMA ReuseStep ==
  ASSUME IInv, NEW d \in Device, Reuse(d)
  PROVE  IInv' /\ DurableStep
  <1>1. PICK a \in Address : /\ leases[NetOf[d]][a] = d
                             /\ granted' = granted \cup {<<d, a>>}
                             /\ UNCHANGED <<leases, next, file, saveFailed>>
    BY DEF Reuse
  <1>2. TypeOK'
    BY <1>1 DEF IInv, TypeOK
  <1>3. OneLease' /\ Hosted(leases)' /\ Hosted(file)' /\ Included' /\ NoneLost'
    BY <1>1 DEF IInv, OneLease, OneAddress, Hosted, Included, NoneLost, Leased
  <1>4. Saved'
    <2>1. ASSUME NEW g \in granted', \A h \in granted : leases[NetOf[h[1]]][h[2]] = h[1]
          PROVE  leases[NetOf[g[1]]][g[2]] = g[1]
      BY <2>1, <1>1
    <2> QED
      BY <2>1, <1>1 DEF IInv, Saved
  <1>5. DurableStep
    BY <1>1 DEF DurableStep
  <1> QED
    BY <1>2, <1>3, <1>4, <1>5 DEF IInv

LEMMA GrantStep ==
  ASSUME IInv, NEW d \in Device, Grant(d)
  PROVE  IInv' /\ DurableStep
  <1>1. PICK a \in Address : /\ Take(d, a)
                             /\ file' = leases'
                             /\ granted' = granted \cup {<<d, a>>}
                             /\ UNCHANGED saveFailed
    BY DEF Grant
  <1>2. /\ leases' \in LeaseMap
        /\ next' \in [Network -> 1..(Broadcast + 1)]
        /\ OneAddress(leases)' /\ Hosted(leases)' /\ NoneLost'
        /\ \A k \in Network, jp \in Address :
             leases[k][jp] # NoDevice => leases'[k][jp] = leases[k][jp]
    BY <1>1, TakeStep DEF IInv, OneLease
  <1>3. TypeOK'
    <2>1. granted' \subseteq Device \X Address
      BY <1>1 DEF IInv, TypeOK
    <2>2. saveFailed' \in BOOLEAN
      BY <1>1 DEF IInv, TypeOK
    <2> QED
      BY <2>1, <2>2, <1>1, <1>2 DEF TypeOK
  <1>4. OneLease' /\ Hosted(leases)' /\ Hosted(file)' /\ Included'
    BY <1>1, <1>2 DEF OneLease, OneAddress, Hosted, Included
  <1>5. Saved'
    <2>1. leases'[NetOf[d]][a] = d
      BY <1>1, LeasesAssumption DEF Take, IInv, TypeOK, LeaseMap
    <2>2. ASSUME NEW g \in granted', \A h \in granted : leases[NetOf[h[1]]][h[2]] = h[1]
          PROVE  leases'[NetOf[g[1]]][g[2]] = g[1]
      <3>1. CASE g = <<d, a>>
        BY <3>1, <2>1
      <3>2. CASE g \in granted
        <4>1. g[1] \in Device /\ g[2] \in Address /\ leases[NetOf[g[1]]][g[2]] = g[1]
          BY <3>2, <2>2 DEF IInv, TypeOK
        <4> QED
          BY <4>1, <1>2, LeasesAssumption
      <3> QED
        BY <3>1, <3>2, <1>1
    <2> QED
      BY <2>2, <1>1 DEF IInv, Saved
  <1>6. DurableStep
    BY <1>1, <1>2 DEF DurableStep, IInv, Included
  <1> QED
    BY <1>2, <1>3, <1>4, <1>5, <1>6 DEF IInv

LEMMA SaveFailsStep ==
  ASSUME IInv, NEW d \in Device, SaveFails(d)
  PROVE  IInv' /\ DurableStep
  <1>1. PICK a \in Address : /\ Take(d, a)
                             /\ saveFailed' = TRUE
                             /\ UNCHANGED <<file, granted>>
    BY DEF SaveFails
  <1>2. /\ leases' \in LeaseMap
        /\ next' \in [Network -> 1..(Broadcast + 1)]
        /\ OneAddress(leases)' /\ Hosted(leases)' /\ NoneLost'
        /\ \A k \in Network, jp \in Address :
             leases[k][jp] # NoDevice => leases'[k][jp] = leases[k][jp]
    BY <1>1, TakeStep DEF IInv, OneLease
  <1>3. saveFailed' \in BOOLEAN
    BY Zenon, <1>1
  <1>4. TypeOK'
    BY <1>1, <1>2, <1>3 DEF IInv, TypeOK
  <1>5. OneLease' /\ Hosted(file)' /\ Included'
    BY <1>1, <1>2 DEF IInv, OneLease, OneAddress, Hosted, Included
  <1>6. Saved' /\ DurableStep
    BY <1>1 DEF Saved, DurableStep
  <1> QED
    BY <1>2, <1>4, <1>5, <1>6 DEF IInv

LEMMA ExhaustedStep ==
  ASSUME IInv, NEW d \in Device, Exhausted(d)
  PROVE  IInv' /\ DurableStep
  <1>1. /\ Free(NetOf[d]) = {}
        /\ next' = [next EXCEPT ![NetOf[d]] = Broadcast + 1]
        /\ UNCHANGED <<leases, file, granted, saveFailed>>
    BY DEF Exhausted
  <1>2. TypeOK'
    BY <1>1, LeasesAssumption DEF IInv, TypeOK
  <1>3. NoneLost'
    <2> SUFFICES ASSUME NEW m \in Network, NEW jp \in Address \ {0, Broadcast}, jp < next'[m]
                 PROVE  leases[m][jp] # NoDevice
      BY <1>1 DEF NoneLost, Leased
    <2>1. CASE jp < next[m]
      BY <2>1 DEF IInv, NoneLost, Leased
    <2>2. CASE ~(jp < next[m])
      <3>1. m = NetOf[d] /\ jp >= next[m]
        BY <2>2, <1>1, LeasesAssumption DEF IInv, TypeOK, Address
      <3> QED
        BY <3>1, <1>1 DEF Free, Leased
    <2> QED
      BY <2>1, <2>2
  <1>4. OneLease' /\ Hosted(leases)' /\ Hosted(file)' /\ Included' /\ Saved'
    BY <1>1 DEF IInv, OneLease, OneAddress, Hosted, Included, Saved
  <1>5. DurableStep
    BY <1>1 DEF DurableStep
  <1> QED
    BY <1>2, <1>3, <1>4, <1>5 DEF IInv

LEMMA ReopenStep ==
  ASSUME IInv, Reopen
  PROVE  IInv' /\ DurableStep
  <1>1. /\ leases' = file
        /\ next' \in [Network -> 1..(Broadcast + 1)]
        /\ \A k \in Network : FirstFree(file[k], next'[k])
        /\ UNCHANGED <<file, granted, saveFailed>>
    BY DEF Reopen
  <1>2. TypeOK'
    BY <1>1 DEF IInv, TypeOK
  <1>3. OneLease' /\ Hosted(leases)' /\ Hosted(file)' /\ Included' /\ Saved'
    BY <1>1 DEF IInv, OneLease, OneAddress, Hosted, Included, Saved
  <1>4. NoneLost'
    <2> SUFFICES ASSUME NEW m \in Network, NEW jp \in Address \ {0, Broadcast}, jp < next'[m]
                 PROVE  file[m][jp] # NoDevice
      BY <1>1 DEF NoneLost, Leased
    <2>1. jp \in 1..(next'[m] - 1)
      BY <1>1, LeasesAssumption DEF Address
    <2> QED
      BY <2>1, <1>1 DEF FirstFree
  <1>5. DurableStep
    BY <1>1 DEF DurableStep
  <1> QED
    BY <1>2, <1>3, <1>4, <1>5 DEF IInv

LEMMA NextIInv ==
  ASSUME IInv, [Next]_vars
  PROVE  IInv' /\ (DurableStep \/ UNCHANGED vars)
  <1>1. CASE Next
    BY <1>1, ReuseStep, GrantStep, SaveFailsStep, ExhaustedStep, ReopenStep DEF Next
  <1>2. CASE UNCHANGED vars
    <2>1. UNCHANGED <<leases, next, file, granted, saveFailed>>
      BY <1>2 DEF vars
    <2>2. TypeOK' /\ OneLease' /\ Hosted(leases)' /\ Hosted(file)'
      BY <2>1 DEF IInv, TypeOK, OneLease, OneAddress, Hosted
    <2>3. Included' /\ NoneLost' /\ Saved'
      BY <2>1 DEF IInv, Included, NoneLost, Leased, Saved
    <2> QED
      BY <2>2, <2>3, <1>2 DEF IInv
  <1> QED
    BY <1>1, <1>2

-----------------------------------------------------------------------------

(* The inductive invariant: memory and file are injective lease maps over  *)
(* hosts, memory includes the file, and nothing behind Next is free.       *)
THEOREM LeasesInvariant == Spec => []IInv
  <1>1. IInv /\ [Next]_vars => IInv'
    BY NextIInv
  <1> QED
    BY InitIInv, <1>1, PTL DEF Spec

(* The store's tables keep their types in every reachable state.           *)
THEOREM TypeCorrect == Spec => []TypeOK
  <1>1. IInv => TypeOK
    BY DEF IInv
  <1> QED
    BY LeasesInvariant, <1>1, PTL

(* No device ever holds two addresses, nor one of another network.         *)
THEOREM OneLeaseCorrect == Spec => []OneLease
  <1>1. IInv => OneLease
    BY DEF IInv
  <1> QED
    BY LeasesInvariant, <1>1, PTL

(* Network and broadcast address are never leased.                         *)
THEOREM HostsOnlyCorrect == Spec => []HostsOnly
  <1>1. IInv => HostsOnly
    BY DEF IInv, Hosted, HostsOnly, Leased
  <1> QED
    BY LeasesInvariant, <1>1, PTL

(* A network is exhausted only when all its host addresses are leased.     *)
THEOREM NoneLostCorrect == Spec => []NoneLost
  <1>1. IInv => NoneLost
    BY DEF IInv
  <1> QED
    BY LeasesInvariant, <1>1, PTL

(* While saves succeed, a device is given one address for good.            *)
THEOREM SettledCorrect == Spec => []SettledWhileSaved
  <1>1. IInv => SettledWhileSaved
    <2> SUFFICES ASSUME IInv, ~saveFailed, NEW g \in granted, NEW h \in granted,
                        NetOf[g[1]] = NetOf[h[1]]
                 PROVE  g[1] = h[1] <=> g[2] = h[2]
      BY DEF SettledWhileSaved, Settled
    <2>1. /\ leases[NetOf[g[1]]][g[2]] = g[1] /\ leases[NetOf[h[1]]][h[2]] = h[1]
          /\ g[1] \in Device /\ h[1] \in Device /\ g[2] \in Address /\ h[2] \in Address
      BY DEF IInv, Saved, TypeOK
    <2>2. ASSUME g[1] = h[1] PROVE g[2] = h[2]
      BY <2>1, <2>2, LeasesAssumption DEF IInv, OneLease, OneAddress
    <2>3. ASSUME g[2] = h[2] PROVE g[1] = h[1]
      BY <2>1, <2>3
    <2> QED
      BY <2>2, <2>3
  <1> QED
    BY LeasesInvariant, <1>1, PTL

(* No save drops or reassigns a lease that is on disk.                     *)
THEOREM FileDurableCorrect == Spec => FileDurable
  <1>1. IInv /\ [Next]_vars => [DurableStep]_vars
    BY NextIInv
  <1> QED
    BY LeasesInvariant, <1>1, PTL DEF Spec, FileDurable
=============================================================================
