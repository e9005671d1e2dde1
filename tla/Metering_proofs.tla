--------------------------- MODULE Metering_proofs ---------------------------
(***************************************************************************)
(* That every byte is billed once, that the quota holds nothing against an *)
(* account that the ledger does not bill, and how far an account can pass  *)
(* its limit: for any data loops, packets, limits, days and restarts.      *)
(***************************************************************************)
EXTENDS Metering, FiniteSetTheorems, TLAPS

\* a data loop that is not idle has a packet in hand
Carrying == \A l \in Loop : pc[l] # "idle" => pkt[l] \in Packet

(* The file is behind the ledger, and nothing is booked or counted for a   *)
(* day to come.                                                            *)
Behind ==
  /\ \A b \in Bucket : file[b] <= ledger[b]
  /\ \A b \in Bucket : b[3] > today => ledger[b] = 0
  /\ qday <= today

Limited(a) == a \notin switched /\ BytesPerDay[tier[a]] > 0

\* what one start of the server lets the account have, and earlier ones let
Allowance(a) == BytesPerDay[tier[a]] + Slack
Earlier(a) == again[a] * Allowance(a)

(* Of what the ledger bills a limited account today, or is about to, the   *)
(* quota has counted all but what was carried over midnight and what was   *)
(* forwarded before a restart that did not find it.                        *)
CountedAll ==
  \A a \in Account : Limited(a) =>
    Totals(ledger, a, today) + InFlight(OfAccount(At({"counted"}), a))
      <= Rolled(acctBy)[a] + Earlier(a) + Carried

(* ... and that, with all that was admitted, stays within the bound.       *)
AdmittedWithin ==
  \A a \in Account : Limited(a) =>
    Totals(ledger, a, today) + InFlight(OfAccount(At({"admitted", "written", "counted"}), a))
      <= Earlier(a) + Allowance(a) + Carried

IInv ==
  /\ TypeOK /\ Carrying /\ Behind
  /\ BilledOnce /\ QuotaWithinLedger /\ CountedAll /\ AdmittedWithin

\* a device gets its lease
Leasing == \E d \in Device : Acquire(d) \/ AcquireFails(d)

-----------------------------------------------------------------------------
(* Sums.                                                                   *)

\* the single bytes that `f` counts over S
Amount(f, S) == UNION {{x} \X (1..f[x]) : x \in S}

LEMMA AmountIs ==
  ASSUME NEW f, NEW S
  PROVE  /\ Bytes(f, S) = Cardinality(Amount(f, S))
         /\ \A p : p \in Amount(f, S) <=> \E x \in S : \E i \in 1..f[x] : p = <<x, i>>
  BY DEF Bytes, Amount

LEMMA BytesNat ==
  ASSUME NEW S, IsFiniteSet(S), NEW f, \A x \in S : f[x] \in Nat
  PROVE  IsFiniteSet(Amount(f, S)) /\ Bytes(f, S) \in Nat
  <1> DEFINE T == {{x} \X (1..f[x]) : x \in S}
             g == [x \in S |-> {x} \X (1..f[x])]
  <1>1. g \in Surjection(S, T)
    BY DEF Surjection
  <1>2. IsFiniteSet(T)
    BY <1>1, FS_Surjection
  <1>3. \A x \in S : IsFiniteSet({x} \X (1..f[x]))
    <2>1. ASSUME NEW x \in S PROVE IsFiniteSet({x} \X (1..f[x]))
      <3>1. 1 \in Int /\ f[x] \in Int
        OBVIOUS
      <3>2. IsFiniteSet({x}) /\ IsFiniteSet(1..f[x])
        BY <3>1, FS_Singleton, FS_Interval
      <3> QED
        BY <3>2, FS_Product
    <2> QED
      BY <2>1
  <1>4. IsFiniteSet(UNION T)
    BY <1>2, <1>3, FS_UNION
  <1> QED
    BY <1>4, FS_CardinalityType DEF Amount, Bytes

LEMMA BytesSame ==
  ASSUME NEW S, NEW f, NEW g, \A x \in S : f[x] = g[x]
  PROVE  Bytes(f, S) = Bytes(g, S)
  <1>1. Amount(f, S) = Amount(g, S)
    BY AmountIs
  <1> QED
    BY <1>1, AmountIs

LEMMA BytesEmpty == ASSUME NEW f PROVE Bytes(f, {}) = 0
  <1>1. Amount(f, {}) = {}
    BY AmountIs
  <1> QED
    BY <1>1, AmountIs, FS_EmptySet

LEMMA BytesOne ==
  ASSUME NEW f, NEW x, f[x] \in Nat
  PROVE  Bytes(f, {x}) = f[x]
  <1>1. Amount(f, {x}) = {x} \X (1..f[x])
    BY DEF Amount
  <1>2. IsFiniteSet({x}) /\ Cardinality({x}) = 1
    BY FS_Singleton
  <1>3. IsFiniteSet(1..f[x]) /\ Cardinality(1..f[x]) = f[x]
    BY FS_Interval
  <1>4. Cardinality({x} \X (1..f[x])) = Cardinality({x}) * Cardinality(1..f[x])
    BY <1>2, <1>3, FS_Product
  <1>5. Cardinality({x} \X (1..f[x])) = f[x]
    BY <1>2, <1>3, <1>4
  <1> QED
    BY <1>1, <1>5, AmountIs

LEMMA BytesUnion ==
  ASSUME NEW S, NEW T, IsFiniteSet(S), IsFiniteSet(T), S \cap T = {},
         NEW f, \A x \in S \cup T : f[x] \in Nat
  PROVE  Bytes(f, S \cup T) = Bytes(f, S) + Bytes(f, T)
  <1>1. Amount(f, S \cup T) = Amount(f, S) \cup Amount(f, T)
    BY AmountIs
  <1>2. Amount(f, S) \cap Amount(f, T) = {}
    BY AmountIs
  <1>3. /\ IsFiniteSet(Amount(f, S)) /\ Bytes(f, S) \in Nat
        /\ IsFiniteSet(Amount(f, T)) /\ Bytes(f, T) \in Nat
    BY BytesNat
  <1>4. Cardinality(Amount(f, S) \cap Amount(f, T)) = 0
    BY <1>2, FS_EmptySet
  <1>5. Cardinality(Amount(f, S) \cup Amount(f, T)) = Bytes(f, S) + Bytes(f, T) - 0
    BY <1>3, <1>4, FS_Union, AmountIs
  <1>6. Bytes(f, S \cup T) = Bytes(f, S) + Bytes(f, T) - 0
    BY <1>1, <1>5, AmountIs
  <1> QED
    BY <1>3, <1>6

LEMMA BytesMore ==
  ASSUME NEW T, IsFiniteSet(T), NEW S \in SUBSET T,
         NEW f, NEW g, \A x \in T : g[x] \in Nat,
         \A x \in S : f[x] \in Nat /\ f[x] <= g[x]
  PROVE  Bytes(f, S) <= Bytes(g, T)
  <1>1. Amount(f, S) \subseteq Amount(g, T)
    <2>1. ASSUME NEW x \in S, NEW i \in 1..f[x] PROVE i \in 1..g[x]
      BY <2>1
    <2> QED
      BY <2>1, AmountIs
  <1> QED
    BY <1>1, BytesNat, FS_Subset, AmountIs

LEMMA BytesBound ==
  ASSUME NEW S, IsFiniteSet(S), NEW f, NEW m \in Nat,
         \A x \in S : f[x] \in Nat /\ f[x] <= m
  PROVE  Bytes(f, S) <= Cardinality(S) * m
  <1>1. Amount(f, S) \subseteq S \X (1..m)
    <2>1. ASSUME NEW x \in S, NEW i \in 1..f[x] PROVE <<x, i>> \in S \X (1..m)
      BY <2>1
    <2> QED
      BY <2>1, AmountIs
  <1>2. IsFiniteSet(1..m) /\ Cardinality(1..m) = m
    BY FS_Interval
  <1>3. IsFiniteSet(S \X (1..m)) /\ Cardinality(S \X (1..m)) = Cardinality(S) * m
    BY <1>2, FS_Product
  <1> QED
    BY <1>1, <1>3, FS_Subset, AmountIs

(* A summand more, and a summand that grows.                               *)
LEMMA BytesJoin ==
  ASSUME NEW S, IsFiniteSet(S), NEW y, y \notin S, NEW f, f[y] \in Nat,
         \A x \in S : f[x] \in Nat
  PROVE  Bytes(f, S \cup {y}) = Bytes(f, S) + f[y]
  <1>1. IsFiniteSet({y}) /\ S \cap {y} = {} /\ \A x \in S \cup {y} : f[x] \in Nat
    BY FS_Singleton
  <1>2. Bytes(f, S \cup {y}) = Bytes(f, S) + Bytes(f, {y})
    BY <1>1, BytesUnion
  <1>3. Bytes(f, {y}) = f[y]
    BY BytesOne
  <1> QED
    BY <1>2, <1>3

LEMMA BytesGrow ==
  ASSUME NEW S, IsFiniteSet(S), NEW y \in S, NEW n \in Nat, NEW f, NEW g,
         \A x \in S : f[x] \in Nat /\ g[x] = IF x = y THEN f[x] + n ELSE f[x]
  PROVE  Bytes(g, S) = Bytes(f, S) + n
  <1> DEFINE R == S \ {y}
  <1>1. IsFiniteSet(R) /\ y \notin R /\ S = R \cup {y}
    BY FS_Subset
  <1>2. /\ \A x \in R : f[x] \in Nat /\ g[x] \in Nat /\ g[x] = f[x]
        /\ f[y] \in Nat /\ g[y] \in Nat /\ g[y] = f[y] + n
    OBVIOUS
  <1> HIDE DEF R
  <1>3. Bytes(f, R \cup {y}) = Bytes(f, R) + f[y]
    BY <1>1, <1>2, BytesJoin
  <1>4. Bytes(g, R \cup {y}) = Bytes(g, R) + g[y]
    BY <1>1, <1>2, BytesJoin
  <1>5. Bytes(g, R) = Bytes(f, R) /\ Bytes(f, R) \in Nat
    BY <1>1, <1>2, BytesSame, BytesNat
  <1> QED
    BY <1>1, <1>2, <1>3, <1>4, <1>5

-----------------------------------------------------------------------------
(* The ledger and the packets in flight.                                   *)

LEMMA BucketsFinite == \A S \in SUBSET Bucket : IsFiniteSet(S)
  <1> DEFINE Pair == (Device \cup {NoDevice}) \X (0..MaxDay)
             g == [p \in Device \X Pair |-> <<p[1], p[2][1], p[2][2]>>]
  <1>1. IsFiniteSet(Device \cup {NoDevice})
    BY MeteringAssumption, FS_AddElement
  <1>2. IsFiniteSet(0..MaxDay)
    BY MeteringAssumption, FS_Interval
  <1>3. IsFiniteSet(Device \X Pair)
    BY <1>1, <1>2, MeteringAssumption, FS_Product
  <1>4. g \in Surjection(Device \X Pair, Bucket)
    <2>1. g \in [Device \X Pair -> Bucket]
      BY DEF Bucket
    <2>2. ASSUME NEW b \in Bucket PROVE \E p \in Device \X Pair : g[p] = b
      <3>1. <<b[1], <<b[2], b[3]>>>> \in Device \X Pair
        BY DEF Bucket
      <3>2. g[<<b[1], <<b[2], b[3]>>>>] = b
        BY <3>1 DEF Bucket
      <3> QED
        BY <3>1, <3>2
    <2> QED
      BY <2>1, <2>2 DEF Surjection
  <1>5. IsFiniteSet(Bucket)
    BY <1>3, <1>4, FS_Surjection
  <1> QED
    BY <1>5, FS_Subset

LEMMA BookNat ==
  ASSUME NEW book \in [Bucket -> Nat], NEW S \in SUBSET Bucket
  PROVE  Bytes(book, S) \in Nat
  BY BucketsFinite, BytesNat

\* the buckets of a device
Of(d) == {b \in Bucket : b[1] = d}

LEMMA SumsNat ==
  ASSUME NEW book \in [Bucket -> Nat], NEW day
  PROVE  /\ \A a : Totals(book, a, day) \in Nat
         /\ \A d : EgressLaneTotals(book, d, day) \in Nat
         /\ \A d : Bytes(book, Of(d)) \in Nat
  BY BookNat DEF Totals, EgressLaneTotals, Of

LEMMA Largest == Max(Size) \in Nat /\ \A n \in Size : n \in Nat /\ n <= Max(Size)
  <1>1. PICK m \in Size : \A n \in Size : m >= n
    BY MeteringAssumption
  <1>2. Max(Size) \in Size /\ \A n \in Size : Max(Size) >= n
    BY <1>1 DEF Max
  <1> QED
    BY <1>2, MeteringAssumption

(* The bytes of the packets `p` that the data loops W hold, with and       *)
(* without that of `l`.                                                    *)
Load(p, W) == Bytes([m \in W |-> p[m].size], W)

LEMMA LoadWithout ==
  ASSUME NEW W, IsFiniteSet(W), NEW l, NEW p, \A m \in W : p[m].size \in Nat
  PROVE  /\ Load(p, W) \in Nat /\ Load(p, W \ {l}) \in Nat
         /\ Load(p, W) = Load(p, W \ {l}) + (IF l \in W THEN p[l].size ELSE 0)
  <1> DEFINE f == [m \in W |-> p[m].size]
             V == W \ {l}
             g == [m \in V |-> p[m].size]
  <1>1. /\ IsFiniteSet(V) /\ l \notin V
        /\ l \in W => V \cup {l} = W
        /\ l \notin W => V = W
    BY FS_Subset
  <1>2. /\ \A m \in W : f[m] \in Nat /\ f[m] = p[m].size
        /\ \A m \in V : g[m] \in Nat /\ f[m] = g[m]
    OBVIOUS
  <1>3. Load(p, W) = Bytes(f, W) /\ Load(p, V) = Bytes(g, V)
    BY DEF Load
  <1> HIDE DEF f, g, V
  <1>4. Bytes(f, W) \in Nat /\ Bytes(g, V) \in Nat
    BY <1>1, <1>2, BytesNat
  <1>5. CASE l \in W
    <2>1. f[l] \in Nat /\ f[l] = p[l].size
      BY <1>2, <1>5
    <2>2. Bytes(f, V \cup {l}) = Bytes(f, V) + f[l]
      <3>1. \A m \in V : f[m] \in Nat
        BY <1>2
      <3> QED
        BY <1>1, <2>1, <3>1, BytesJoin
    <2>3. Bytes(f, V) = Bytes(g, V)
      BY <1>2, BytesSame
    <2>4. Bytes(f, W) = Bytes(g, V) + p[l].size
      BY <1>1, <1>5, <2>1, <2>2, <2>3
    <2> QED
      BY <1>3, <1>4, <1>5, <2>4 DEF V
  <1>6. CASE l \notin W
    <2>1. Bytes(f, W) = Bytes(g, V)
      BY <1>1, <1>2, <1>6, BytesSame
    <2> QED
      BY <1>3, <1>4, <1>6, <2>1 DEF V
  <1> QED
    BY <1>5, <1>6

LEMMA LoadJoin ==
  ASSUME NEW W \in SUBSET Loop, NEW X \in SUBSET Loop, W \cap X = {}, NEW p,
         \A m \in W \cup X : p[m].size \in Nat
  PROVE  Load(p, W \cup X) = Load(p, W) + Load(p, X)
  <1> DEFINE f == [m \in W \cup X |-> p[m].size]
             g == [m \in W |-> p[m].size]
             h == [m \in X |-> p[m].size]
  <1>1. /\ \A m \in W \cup X : f[m] \in Nat
        /\ \A m \in W : f[m] = g[m]
        /\ \A m \in X : f[m] = h[m]
    OBVIOUS
  <1>2. Load(p, W \cup X) = Bytes(f, W \cup X) /\ Load(p, W) = Bytes(g, W) /\ Load(p, X) = Bytes(h, X)
    BY DEF Load
  <1>3. IsFiniteSet(W) /\ IsFiniteSet(X)
    BY MeteringAssumption, FS_Subset
  <1> HIDE DEF f, g, h
  <1>4. Bytes(f, W \cup X) = Bytes(f, W) + Bytes(f, X)
    BY <1>1, <1>3, BytesUnion
  <1>5. Bytes(f, W) = Bytes(g, W) /\ Bytes(f, X) = Bytes(h, X)
    BY <1>1, BytesSame
  <1> QED
    BY <1>2, <1>4, <1>5

LEMMA LoadBound ==
  ASSUME NEW W \in SUBSET Loop, NEW p, \A m \in W : p[m].size \in Size
  PROVE  Load(p, W) \in Nat /\ Load(p, W) <= Cardinality(W) * Max(Size)
  <1> DEFINE f == [m \in W |-> p[m].size]
  <1>1. \A m \in W : f[m] \in Nat /\ f[m] <= Max(Size)
    BY Largest
  <1>2. IsFiniteSet(W) /\ Max(Size) \in Nat
    BY MeteringAssumption, FS_Subset, Largest
  <1>3. Load(p, W) = Bytes(f, W)
    BY DEF Load
  <1> HIDE DEF f
  <1> QED
    BY <1>1, <1>2, <1>3, BytesBound, BytesNat

LEMMA LoadNothing == \A p : Load(p, {}) = 0
  BY BytesEmpty DEF Load

-----------------------------------------------------------------------------
(* Types, and what a data loop carries.                                    *)

LEMMA PacketIs ==
  ASSUME NEW p \in Packet
  PROVE  /\ p.payer \in Device /\ AccountOf[p.payer] \in Account
         /\ p.exit \in Device \cup {NoDevice}
         /\ p.size \in Size /\ p.size \in Nat /\ p.size <= Max(Size)
  BY MeteringAssumption, Largest DEF Packet

LEMMA RolledType ==
  ASSUME TypeOK
  PROVE  /\ Rolled(acctBy) \in [Account -> Nat]
         /\ Rolled(egressBy) \in [Device -> Nat]
  BY DEF TypeOK, Rolled

LEMMA TypeNext ==
  ASSUME TypeOK, Carrying, [Next]_vars
  PROVE  TypeOK'
  <1> USE DEF TypeOK
  <1>1. ASSUME NEW l \in Loop, NEW f \in Flow, NEW n \in Size, Route(l, f, n)
        PROVE  TypeOK'
    <2>1. PICK srcEgress \in BOOLEAN, dstEgress \in BOOLEAN :
            LET who == Attributed(f, srcEgress, dstEgress) IN
            pkt' = [pkt EXCEPT ![l] = [payer |-> who.payer, exit |-> who.exit, size |-> n]]
      BY <1>1 DEF Route
    <2>2. /\ Attributed(f, srcEgress, dstEgress).payer \in Device
          /\ Attributed(f, srcEgress, dstEgress).exit \in Device \cup {NoDevice}
      BY MeteringAssumption DEF Attributed
    <2>3. pkt' \in [Loop -> Packet \cup {NoPacket}]
      BY <2>1, <2>2 DEF Packet
    <2> QED
      BY <1>1, <2>3 DEF Route, quota, leases, history
  <1>2. ASSUME NEW l \in Loop, Admit(l) PROVE TypeOK'
    BY <1>2, RolledType DEF Admit, Goto, Return, leases, history
  <1>3. ASSUME NEW l \in Loop, Write(l) PROVE TypeOK'
    <2>1. pkt[l] \in Packet
      BY <1>3 DEF Write, Carrying
    <2> QED
      BY <1>3, <2>1, PacketIs DEF Write, Goto, quota, leases, history
  <1>4. ASSUME NEW l \in Loop, WriteFails(l) PROVE TypeOK'
    BY <1>4 DEF WriteFails, Return, quota, leases, history
  <1>5. ASSUME NEW l \in Loop, Inc(l) PROVE TypeOK'
    <2>1. pkt[l] \in Packet
      BY <1>5 DEF Inc, Carrying
    <2>2. PICK n \in Nat : n = IF BytesPerDay[tier[Payer(l)]] = 0 /\ EgressBytesPerDay[tier[Payer(l)]] = 0
                              THEN 0 ELSE pkt[l].size
      BY <2>1, PacketIs
    <2>3. acctBy' = [Rolled(acctBy) EXCEPT ![Payer(l)] = @ + n]
      BY <1>5, <2>2 DEF Inc
    <2>4. egressBy' = [Rolled(egressBy) EXCEPT ![pkt[l].payer] = @ + IF pkt[l].exit = NoDevice THEN 0 ELSE n]
      BY <1>5, <2>2 DEF Inc
    <2>5. acctBy' \in [Account -> Nat] /\ egressBy' \in [Device -> Nat]
      BY <2>1, <2>3, <2>4, RolledType, PacketIs DEF Payer
    <2> QED
      BY <1>5, <2>5 DEF Inc, Goto, leases, history
  <1>6. ASSUME NEW l \in Loop, Add(l) PROVE TypeOK'
    <2>1. pkt[l] \in Packet
      BY <1>6 DEF Add, Carrying
    <2>2. <<pkt[l].payer, pkt[l].exit, today>> \in Bucket
      BY <2>1, PacketIs DEF Bucket
    <2>3. PICK k \in Bucket, n \in Nat : ledger' = [ledger EXCEPT ![k] = @ + n]
      BY <1>6, <2>1, <2>2, PacketIs DEF Add
    <2>4. ledger' \in [Bucket -> Nat]
      BY <2>3
    <2> QED
      BY <1>6, <2>4 DEF Add, Return, quota, leases, history
  <1>7. ASSUME NEW a \in Account, NEW t \in Tier, SetTier(a, t) PROVE TypeOK'
    BY <1>7 DEF SetTier, quota, leases
  <1>8. CASE Save
    BY <1>8 DEF Save, quota, leases, history
  <1>9. CASE Midnight
    BY <1>9, MeteringAssumption DEF Midnight, quota, leases
  <1>10. CASE Restart
    <2>1. acctBy' \in [Account -> Nat] /\ egressBy' \in [Device -> Nat]
      BY <1>10, SumsNat DEF Restart, Reopened
    <2>2. again' \in [Account -> Nat]
      BY <1>10 DEF Restart, Reopened
    <2> QED
      BY <1>10, <2>1, <2>2, MeteringAssumption DEF Restart, Reopened
  <1>11. CASE Leasing
    BY <1>11 DEF Leasing, Acquire, AcquireFails, quota, history
  <1>12. CASE UNCHANGED vars
    BY <1>12 DEF vars, quota, leases, history
  <1> QED
    BY <1>1, <1>2, <1>3, <1>4, <1>5, <1>6, <1>7, <1>8, <1>9, <1>10, <1>11, <1>12
    DEF Next, Leasing

LEMMA CarryingNext ==
  ASSUME TypeOK, Carrying, [Next]_vars
  PROVE  Carrying'
  <1> USE DEF TypeOK, Carrying
  <1>1. ASSUME NEW l \in Loop, NEW f \in Flow, NEW n \in Size, Route(l, f, n)
        PROVE  Carrying'
    <2>1. PICK srcEgress \in BOOLEAN, dstEgress \in BOOLEAN :
            LET who == Attributed(f, srcEgress, dstEgress) IN
            pkt' = [pkt EXCEPT ![l] = [payer |-> who.payer, exit |-> who.exit, size |-> n]]
      BY <1>1 DEF Route
    <2>2. /\ Attributed(f, srcEgress, dstEgress).payer \in Device
          /\ Attributed(f, srcEgress, dstEgress).exit \in Device \cup {NoDevice}
      BY MeteringAssumption DEF Attributed
    <2>3. pkt'[l] \in Packet /\ \A m \in Loop \ {l} : pkt'[m] = pkt[m] /\ pc'[m] = pc[m]
      BY <1>1, <2>1, <2>2 DEF Packet, Route
    <2> QED
      BY <2>3
  <1>2. ASSUME NEW l \in Loop, Admit(l) PROVE Carrying'
    BY <1>2 DEF Admit, Goto, Return
  <1>3. ASSUME NEW l \in Loop, Write(l) \/ WriteFails(l) \/ Inc(l) \/ Add(l) PROVE Carrying'
    BY <1>3 DEF Write, WriteFails, Inc, Add, Goto, Return
  <1>4. CASE \/ \E a \in Account, t \in Tier : SetTier(a, t)
             \/ Leasing \/ Save \/ Midnight \/ UNCHANGED vars
    BY <1>4 DEF SetTier, Leasing, Acquire, AcquireFails, Save, Midnight, vars
  <1>5. CASE Restart
    BY <1>5 DEF Restart, Reopened
  <1> QED
    BY <1>1, <1>2, <1>3, <1>4, <1>5 DEF Next, Leasing

LEMMA BehindNext ==
  ASSUME TypeOK, Carrying, Behind, [Next]_vars
  PROVE  Behind'
  <1> USE DEF TypeOK, Behind
  <1>1. CASE UNCHANGED <<today, ledger, file>> /\ (qday' = qday \/ qday' = today)
    BY <1>1
  <1>2. ASSUME NEW l \in Loop, Add(l) PROVE Behind'
    <2>1. pkt[l] \in Packet
      BY <1>2 DEF Add, Carrying
    <2>2. PICK k \in Bucket, n \in Nat : k[3] = today /\ ledger' = [ledger EXCEPT ![k] = @ + n]
      <3>1. <<pkt[l].payer, pkt[l].exit, today>> \in Bucket
        BY <2>1, PacketIs DEF Bucket
      <3> QED
        BY <1>2, <2>1, <3>1, PacketIs DEF Add
    <2>3. UNCHANGED <<today, file, qday>>
      BY <1>2 DEF Add, quota
    <2> QED
      BY <2>2, <2>3
  <1>3. CASE Save
    BY <1>3 DEF Save, quota
  <1>4. CASE Midnight
    <2>1. \A b \in Bucket : b[3] \in Nat
      BY DEF Bucket
    <2> QED
      BY <1>4, <2>1, MeteringAssumption DEF Midnight, quota
  <1>5. CASE Restart
    <2>1. \A b \in Bucket : b[3] > today => file[b] = 0
      OBVIOUS
    <2> QED
      BY <1>5, <2>1 DEF Restart, Reopened
  <1>6. ASSUME NEW l \in Loop, NEW f \in Flow, NEW n \in Size, Route(l, f, n)
        PROVE  UNCHANGED <<today, ledger, file, qday>>
    BY <1>6 DEF Route, quota
  <1>7. ASSUME NEW l \in Loop, Admit(l) \/ Inc(l) \/ Write(l) \/ WriteFails(l)
        PROVE  UNCHANGED <<today, ledger, file>> /\ (qday' = qday \/ qday' = today)
    BY <1>7 DEF Admit, Inc, Write, WriteFails, quota
  <1>8. ASSUME NEW a \in Account, NEW t \in Tier, SetTier(a, t)
        PROVE  UNCHANGED <<today, ledger, file, qday>>
    BY <1>8 DEF SetTier, quota
  <1>9. CASE Leasing \/ UNCHANGED vars
    BY <1>1, <1>9 DEF Leasing, Acquire, AcquireFails, vars, quota
  <1> QED
    BY <1>1, <1>2, <1>3, <1>4, <1>5, <1>6, <1>7, <1>8, <1>9 DEF Next, Leasing

-----------------------------------------------------------------------------
(* The packets in flight, per payer: how a step changes them.              *)

(* A step of one data loop: its packet leaves the sums it was in, and      *)
(* enters those it now belongs to.                                         *)
LEMMA FlightStep ==
  ASSUME Carrying, Carrying', NEW l \in Loop, NEW P, "idle" \notin P,
         \A m \in Loop \ {l} : pc'[m] = pc[m] /\ pkt'[m] = pkt[m]
  PROVE  /\ \A a : /\ InFlight(OfAccount(At(P), a)) \in Nat
                   /\ InFlight(OfAccount(At(P), a))' \in Nat
                   /\ InFlight(OfAccount(At(P), a))'
                        + (IF pc[l] \in P /\ Payer(l) = a THEN pkt[l].size ELSE 0)
                      = InFlight(OfAccount(At(P), a))
                        + (IF pc'[l] \in P /\ Payer(l)' = a THEN pkt'[l].size ELSE 0)
         /\ \A d : /\ InFlight(OfDevice(At(P), d)) \in Nat
                   /\ InFlight(OfDevice(At(P), d))' \in Nat
                   /\ InFlight(OfDevice(At(P), d))'
                        + (IF pc[l] \in P /\ pkt[l].payer = d THEN pkt[l].size ELSE 0)
                      = InFlight(OfDevice(At(P), d))
                        + (IF pc'[l] \in P /\ pkt'[l].payer = d THEN pkt'[l].size ELSE 0)
         /\ \A d : /\ InFlight(OfLane(At(P), d)) \in Nat
                   /\ InFlight(OfLane(At(P), d))' \in Nat
                   /\ InFlight(OfLane(At(P), d))'
                        + (IF pc[l] \in P /\ pkt[l].payer = d /\ pkt[l].exit # NoDevice
                           THEN pkt[l].size ELSE 0)
                      = InFlight(OfLane(At(P), d))
                        + (IF pc'[l] \in P /\ pkt'[l].payer = d /\ pkt'[l].exit # NoDevice
                           THEN pkt'[l].size ELSE 0)
  <1>1. /\ \A m \in Loop : pc[m] \in P => pkt[m].size \in Nat
        /\ \A m \in Loop : pc'[m] \in P => pkt'[m].size \in Nat
    BY PacketIs DEF Carrying
  <1>2. ASSUME NEW W \in SUBSET Loop, NEW X \in SUBSET Loop,
               \A m \in W : pc[m] \in P, \A m \in X : pc'[m] \in P, W \ {l} = X \ {l}
        PROVE  /\ Load(pkt, W) \in Nat /\ Load(pkt', X) \in Nat
               /\ Load(pkt', X) + (IF l \in W THEN pkt[l].size ELSE 0)
                    = Load(pkt, W) + (IF l \in X THEN pkt'[l].size ELSE 0)
    <2>1. /\ \A m \in W : pkt[m].size \in Nat
          /\ \A m \in X : pkt'[m].size \in Nat
          /\ \A m \in W \ {l} : pkt'[m] = pkt[m]
      BY <1>1, <1>2
    <2>2. IsFiniteSet(W) /\ IsFiniteSet(X)
      BY MeteringAssumption, FS_Subset
    <2>3. /\ Load(pkt, W) \in Nat /\ Load(pkt, W \ {l}) \in Nat
          /\ Load(pkt, W) = Load(pkt, W \ {l}) + (IF l \in W THEN pkt[l].size ELSE 0)
      BY <2>1, <2>2, LoadWithout
    <2>4. /\ Load(pkt', X) \in Nat
          /\ Load(pkt', X) = Load(pkt', X \ {l}) + (IF l \in X THEN pkt'[l].size ELSE 0)
      BY <2>1, <2>2, LoadWithout
    <2>5. Load(pkt', X \ {l}) = Load(pkt, W \ {l})
      <3>1. [m \in X \ {l} |-> pkt'[m].size] = [m \in W \ {l} |-> pkt[m].size]
        BY <1>2, <2>1
      <3> QED
        BY <1>2, <3>1 DEF Load
    <2>6. /\ IF l \in W THEN pkt[l].size \in Nat ELSE TRUE
          /\ IF l \in X THEN pkt'[l].size \in Nat ELSE TRUE
      BY <2>1
    <2> QED
      BY <2>3, <2>4, <2>5, <2>6
  <1>3. ASSUME NEW a
        PROVE  /\ InFlight(OfAccount(At(P), a)) \in Nat
               /\ InFlight(OfAccount(At(P), a))' \in Nat
               /\ InFlight(OfAccount(At(P), a))'
                    + (IF pc[l] \in P /\ Payer(l) = a THEN pkt[l].size ELSE 0)
                  = InFlight(OfAccount(At(P), a))
                    + (IF pc'[l] \in P /\ Payer(l)' = a THEN pkt'[l].size ELSE 0)
    <2> DEFINE W == {m \in {k \in Loop : pc[k] \in P} : AccountOf[pkt[m].payer] = a}
               X == {m \in {k \in Loop : pc'[k] \in P} : AccountOf[pkt'[m].payer] = a}
    <2>1. /\ Load(pkt, W) \in Nat /\ Load(pkt', X) \in Nat
          /\ Load(pkt', X) + (IF l \in W THEN pkt[l].size ELSE 0)
               = Load(pkt, W) + (IF l \in X THEN pkt'[l].size ELSE 0)
      <3>1. /\ W \in SUBSET Loop /\ X \in SUBSET Loop
            /\ \A m \in W : pc[m] \in P
            /\ \A m \in X : pc'[m] \in P
            /\ W \ {l} = X \ {l}
        OBVIOUS
      <3> HIDE DEF W, X
      <3> QED
        BY <1>2, <3>1
    <2>2. InFlight(OfAccount(At(P), a)) = Load(pkt, W)
      BY DEF InFlight, OfAccount, At, Payer, Load
    <2>3. InFlight(OfAccount(At(P), a))' = Load(pkt', X)
      BY DEF InFlight, OfAccount, At, Payer, Load
    <2>4. /\ l \in W <=> pc[l] \in P /\ Payer(l) = a
          /\ l \in X <=> pc'[l] \in P /\ Payer(l)' = a
      BY DEF Payer
    <2> HIDE DEF W, X
    <2> QED
      BY <2>1, <2>2, <2>3, <2>4
  <1>4. ASSUME NEW d
        PROVE  /\ InFlight(OfDevice(At(P), d)) \in Nat
               /\ InFlight(OfDevice(At(P), d))' \in Nat
               /\ InFlight(OfDevice(At(P), d))'
                    + (IF pc[l] \in P /\ pkt[l].payer = d THEN pkt[l].size ELSE 0)
                  = InFlight(OfDevice(At(P), d))
                    + (IF pc'[l] \in P /\ pkt'[l].payer = d THEN pkt'[l].size ELSE 0)
    <2> DEFINE W == {m \in {k \in Loop : pc[k] \in P} : pkt[m].payer = d}
               X == {m \in {k \in Loop : pc'[k] \in P} : pkt'[m].payer = d}
    <2>1. /\ Load(pkt, W) \in Nat /\ Load(pkt', X) \in Nat
          /\ Load(pkt', X) + (IF l \in W THEN pkt[l].size ELSE 0)
               = Load(pkt, W) + (IF l \in X THEN pkt'[l].size ELSE 0)
      <3>1. /\ W \in SUBSET Loop /\ X \in SUBSET Loop
            /\ \A m \in W : pc[m] \in P
            /\ \A m \in X : pc'[m] \in P
            /\ W \ {l} = X \ {l}
        OBVIOUS
      <3> HIDE DEF W, X
      <3> QED
        BY <1>2, <3>1
    <2>2. InFlight(OfDevice(At(P), d)) = Load(pkt, W)
      BY DEF InFlight, OfDevice, At, Load
    <2>3. InFlight(OfDevice(At(P), d))' = Load(pkt', X)
      BY DEF InFlight, OfDevice, At, Load
    <2>4. /\ l \in W <=> pc[l] \in P /\ pkt[l].payer = d
          /\ l \in X <=> pc'[l] \in P /\ pkt'[l].payer = d
      OBVIOUS
    <2> HIDE DEF W, X
    <2> QED
      BY <2>1, <2>2, <2>3, <2>4
  <1>5. ASSUME NEW d
        PROVE  /\ InFlight(OfLane(At(P), d)) \in Nat
               /\ InFlight(OfLane(At(P), d))' \in Nat
               /\ InFlight(OfLane(At(P), d))'
                    + (IF pc[l] \in P /\ pkt[l].payer = d /\ pkt[l].exit # NoDevice
                       THEN pkt[l].size ELSE 0)
                  = InFlight(OfLane(At(P), d))
                    + (IF pc'[l] \in P /\ pkt'[l].payer = d /\ pkt'[l].exit # NoDevice
                       THEN pkt'[l].size ELSE 0)
    <2> DEFINE W == {m \in {k \in Loop : pc[k] \in P} : pkt[m].payer = d /\ pkt[m].exit # NoDevice}
               X == {m \in {k \in Loop : pc'[k] \in P} : pkt'[m].payer = d /\ pkt'[m].exit # NoDevice}
    <2>1. /\ Load(pkt, W) \in Nat /\ Load(pkt', X) \in Nat
          /\ Load(pkt', X) + (IF l \in W THEN pkt[l].size ELSE 0)
               = Load(pkt, W) + (IF l \in X THEN pkt'[l].size ELSE 0)
      <3>1. /\ W \in SUBSET Loop /\ X \in SUBSET Loop
            /\ \A m \in W : pc[m] \in P
            /\ \A m \in X : pc'[m] \in P
            /\ W \ {l} = X \ {l}
        OBVIOUS
      <3> HIDE DEF W, X
      <3> QED
        BY <1>2, <3>1
    <2>2. InFlight(OfLane(At(P), d)) = Load(pkt, W)
      BY DEF InFlight, OfLane, At, Load
    <2>3. InFlight(OfLane(At(P), d))' = Load(pkt', X)
      BY DEF InFlight, OfLane, At, Load
    <2>4. /\ l \in W <=> pc[l] \in P /\ pkt[l].payer = d /\ pkt[l].exit # NoDevice
          /\ l \in X <=> pc'[l] \in P /\ pkt'[l].payer = d /\ pkt'[l].exit # NoDevice
      OBVIOUS
    <2> HIDE DEF W, X
    <2> QED
      BY <2>1, <2>2, <2>3, <2>4
  <1> QED
    BY <1>3, <1>4, <1>5

(* A step of no data loop leaves them alone, a restart drops them all, and *)
(* they are never more than a packet of each loop.                         *)
LEMMA FlightSame ==
  ASSUME UNCHANGED <<pc, pkt>>, NEW P
  PROVE  /\ \A a : InFlight(OfAccount(At(P), a))' = InFlight(OfAccount(At(P), a))
         /\ \A d : InFlight(OfDevice(At(P), d))' = InFlight(OfDevice(At(P), d))
         /\ \A d : InFlight(OfLane(At(P), d))' = InFlight(OfLane(At(P), d))
  BY DEF InFlight, OfAccount, OfDevice, OfLane, At, Payer

LEMMA FlightDropped ==
  ASSUME Restart, NEW P, "idle" \notin P
  PROVE  /\ \A a : InFlight(OfAccount(At(P), a))' = 0
         /\ \A d : InFlight(OfDevice(At(P), d))' = 0
         /\ \A d : InFlight(OfLane(At(P), d))' = 0
  <1>1. At(P)' = {}
    BY DEF At, Restart, Reopened
  <1>2. \A loops : loops = {} => Load(pkt', loops) = 0
    BY LoadNothing
  <1> QED
    BY <1>1, <1>2 DEF InFlight, OfAccount, OfDevice, OfLane, Load

LEMMA FlightBound ==
  ASSUME Carrying, NEW P, "idle" \notin P
  PROVE  /\ \A a : /\ InFlight(OfAccount(At(P), a)) \in Nat
                   /\ InFlight(OfAccount(At(P), a)) <= Cardinality(Loop) * Max(Size)
         /\ \A d : InFlight(OfDevice(At(P), d)) \in Nat
         /\ \A d : InFlight(OfLane(At(P), d)) \in Nat
  <1>1. ASSUME NEW W \in SUBSET At(P)
        PROVE  /\ InFlight(W) \in Nat
               /\ InFlight(W) <= Cardinality(Loop) * Max(Size)
    <2>1. W \in SUBSET Loop /\ \A m \in W : pkt[m].size \in Size
      BY PacketIs DEF At, Carrying
    <2>2. InFlight(W) = Load(pkt, W)
      BY DEF InFlight, Load
    <2>3. Load(pkt, W) \in Nat /\ Load(pkt, W) <= Cardinality(W) * Max(Size)
      BY <2>1, LoadBound
    <2>4. /\ Cardinality(W) \in Nat /\ Cardinality(Loop) \in Nat
          /\ Cardinality(W) <= Cardinality(Loop)
      BY <2>1, MeteringAssumption, FS_Subset, FS_CardinalityType
    <2>5. Cardinality(W) * Max(Size) <= Cardinality(Loop) * Max(Size)
      <3>1. ASSUME NEW i \in Nat, NEW j \in Nat, NEW n \in Nat, i <= j
            PROVE  i * n <= j * n
        BY <3>1
      <3> QED
        BY <2>4, <3>1, Largest
    <2>6. Cardinality(W) * Max(Size) \in Nat /\ Cardinality(Loop) * Max(Size) \in Nat
      BY <2>4, Largest
    <2> QED
      BY <2>2, <2>3, <2>5, <2>6
  <1>2. /\ \A a : OfAccount(At(P), a) \in SUBSET At(P)
        /\ \A d : OfDevice(At(P), d) \in SUBSET At(P)
        /\ \A d : OfLane(At(P), d) \in SUBSET At(P)
    BY DEF OfAccount, OfDevice, OfLane
  <1> QED
    BY <1>1, <1>2

-----------------------------------------------------------------------------
(* What the actions do to the sums.                                        *)

(* UsageStore.Add books the packet for its payer, and only there.          *)
LEMMA AddBooks ==
  ASSUME TypeOK, Carrying, NEW l \in Loop, Add(l)
  PROVE  /\ \A a : Totals(ledger, a, today)' =
                     Totals(ledger, a, today) + (IF Payer(l) = a THEN pkt[l].size ELSE 0)
         /\ \A d : EgressLaneTotals(ledger, d, today)' =
                     EgressLaneTotals(ledger, d, today)
                       + (IF pkt[l].payer = d /\ pkt[l].exit # NoDevice THEN pkt[l].size ELSE 0)
         /\ \A d : Bytes(ledger, Of(d))' =
                     Bytes(ledger, Of(d)) + (IF pkt[l].payer = d THEN pkt[l].size ELSE 0)
  <1>1. pkt[l] \in Packet /\ today' = today
    BY DEF Add, Carrying
  <1>2. PICK k : k = <<pkt[l].payer, pkt[l].exit, today>>
    OBVIOUS
  <1>3. k \in Bucket /\ k[1] = pkt[l].payer /\ k[2] = pkt[l].exit /\ k[3] = today
    BY <1>1, <1>2, PacketIs DEF Bucket, TypeOK
  <1>4. PICK n \in Nat : n = pkt[l].size
    BY <1>1, PacketIs
  <1>5. ledger' = [ledger EXCEPT ![k] = @ + n] /\ ledger \in [Bucket -> Nat]
    BY <1>2, <1>4 DEF Add, TypeOK
  <1>6. ASSUME NEW S \in SUBSET Bucket
        PROVE  Bytes(ledger', S) = Bytes(ledger, S) + (IF k \in S THEN n ELSE 0)
    <2>1. CASE k \in S
      <3>1. \A b \in S : ledger[b] \in Nat /\ ledger'[b] = IF b = k THEN ledger[b] + n ELSE ledger[b]
        BY <1>5
      <3>2. IsFiniteSet(S)
        BY BucketsFinite
      <3>3. Bytes(ledger', S) = Bytes(ledger, S) + n
        BY <2>1, <3>1, <3>2, BytesGrow
      <3> QED
        BY <2>1, <3>3
    <2>2. CASE k \notin S
      <3>1. \A b \in S : ledger'[b] = ledger[b]
        BY <1>5, <2>2
      <3>2. Bytes(ledger', S) = Bytes(ledger, S) /\ Bytes(ledger, S) \in Nat
        BY <1>5, <3>1, BytesSame, BookNat
      <3> QED
        BY <2>2, <3>2
    <2> QED
      BY <2>1, <2>2
  <1>7. ASSUME NEW a
        PROVE  Totals(ledger, a, today)' =
                 Totals(ledger, a, today) + (IF Payer(l) = a THEN pkt[l].size ELSE 0)
    <2> DEFINE S == {b \in Bucket : AccountOf[b[1]] = a /\ b[3] = today}
    <2>1. k \in S <=> Payer(l) = a
      BY <1>3 DEF Payer
    <2>2. Totals(ledger, a, today)' = Bytes(ledger', S) /\ Totals(ledger, a, today) = Bytes(ledger, S)
      BY <1>1 DEF Totals
    <2>3. Bytes(ledger', S) = Bytes(ledger, S) + (IF k \in S THEN n ELSE 0)
      BY <1>6
    <2> HIDE DEF S
    <2> QED
      BY <1>4, <2>1, <2>2, <2>3
  <1>8. ASSUME NEW d
        PROVE  EgressLaneTotals(ledger, d, today)' =
                 EgressLaneTotals(ledger, d, today)
                   + (IF pkt[l].payer = d /\ pkt[l].exit # NoDevice THEN pkt[l].size ELSE 0)
    <2> DEFINE S == {b \in Bucket : b[1] = d /\ b[2] # NoDevice /\ b[3] = today}
    <2>1. k \in S <=> pkt[l].payer = d /\ pkt[l].exit # NoDevice
      BY <1>3
    <2>2. /\ EgressLaneTotals(ledger, d, today)' = Bytes(ledger', S)
          /\ EgressLaneTotals(ledger, d, today) = Bytes(ledger, S)
      BY <1>1 DEF EgressLaneTotals
    <2>3. Bytes(ledger', S) = Bytes(ledger, S) + (IF k \in S THEN n ELSE 0)
      BY <1>6
    <2> HIDE DEF S
    <2> QED
      BY <1>4, <2>1, <2>2, <2>3
  <1>9. ASSUME NEW d
        PROVE  Bytes(ledger, Of(d))' =
                 Bytes(ledger, Of(d)) + (IF pkt[l].payer = d THEN pkt[l].size ELSE 0)
    <2>1. k \in Of(d) <=> pkt[l].payer = d
      BY <1>3 DEF Of
    <2>2. Bytes(ledger, Of(d))' = Bytes(ledger', Of(d))
      BY DEF Of
    <2>3. Bytes(ledger', Of(d)) = Bytes(ledger, Of(d)) + (IF k \in Of(d) THEN n ELSE 0)
      BY <1>6 DEF Of
    <2> QED
      BY <1>4, <2>1, <2>2, <2>3
  <1> QED
    BY <1>7, <1>8, <1>9

(* What the file lacks a restart loses.                                    *)
LEMMA FileWithin ==
  ASSUME TypeOK, Behind
  PROVE  /\ \A a : Totals(file, a, today) <= Totals(ledger, a, today)
         /\ \A d : Bytes(file, Of(d)) <= Bytes(ledger, Of(d))
  <1>1. ASSUME NEW S \in SUBSET Bucket PROVE Bytes(file, S) <= Bytes(ledger, S)
    <2>1. IsFiniteSet(S) /\ S \in SUBSET S
      BY BucketsFinite
    <2>2. /\ \A b \in S : ledger[b] \in Nat
          /\ \A b \in S : file[b] \in Nat /\ file[b] <= ledger[b]
      BY DEF TypeOK, Behind
    <2> QED
      BY <2>1, <2>2, BytesMore
  <1> QED
    BY <1>1 DEF Totals, Of

(* Nothing is booked for tomorrow.                                         *)
LEMMA TomorrowEmpty ==
  ASSUME TypeOK, Behind, Midnight
  PROVE  \A a : Totals(ledger, a, today)' = 0
  <1>1. ASSUME NEW a PROVE Totals(ledger, a, today + 1) = 0
    <2> DEFINE S == {b \in Bucket : AccountOf[b[1]] = a /\ b[3] = today + 1}
    <2>1. \A b \in S : ledger[b] = 0
      BY DEF Behind, TypeOK
    <2>2. IsFiniteSet(S)
      BY BucketsFinite
    <2>3. Totals(ledger, a, today + 1) = Bytes(ledger, S)
      BY DEF Totals
    <2> HIDE DEF S
    <2>4. Amount(ledger, S) = {}
      BY <2>1, AmountIs
    <2> QED
      BY <2>3, <2>4, AmountIs, FS_EmptySet
  <1> QED
    BY <1>1 DEF Midnight, quota

(* A data loop's step moves no other loop, and only Add books anything.    *)
LEMMA LoopMoves ==
  ASSUME TypeOK, NEW l \in Loop,
         \/ \E f \in Flow, n \in Size : Route(l, f, n)
         \/ Admit(l) \/ Write(l) \/ WriteFails(l) \/ Inc(l) \/ Add(l)
  PROVE  /\ \A m \in Loop \ {l} : pc'[m] = pc[m] /\ pkt'[m] = pkt[m]
         /\ UNCHANGED <<today, tier, file, switched, restarts, again>>
  BY DEF TypeOK, Route, Admit, Write, WriteFails, Inc, Add, Goto, Return, history

LEMMA Phases ==
  ASSUME TypeOK, NEW l \in Loop
  PROVE  /\ \A f \in Flow, n \in Size : Route(l, f, n) => pc[l] = "idle" /\ pc'[l] = "routed"
         /\ Admit(l) => /\ pc[l] = "routed"
                        /\ \/ pc'[l] = "idle"
                           \/ Admissible(l) /\ pc'[l] = "admitted" /\ pkt' = pkt
         /\ Write(l) => pc[l] = "admitted" /\ pc'[l] = "written" /\ pkt' = pkt
         /\ WriteFails(l) => pc[l] = "admitted" /\ pc'[l] = "idle"
         /\ Inc(l) => pc[l] = "written" /\ pc'[l] = "counted" /\ pkt' = pkt
         /\ Add(l) => pc[l] = "counted" /\ pc'[l] = "idle"
  <1>1. \A f \in Flow, n \in Size : Route(l, f, n) => pc[l] = "idle" /\ pc'[l] = "routed"
    BY DEF Route, TypeOK
  <1>2. ASSUME Admit(l)
        PROVE  /\ pc[l] = "routed"
               /\ \/ pc'[l] = "idle"
                  \/ Admissible(l) /\ pc'[l] = "admitted" /\ pkt' = pkt
    <2>1. CASE Admissible(l)
      BY <1>2, <2>1 DEF Admit, Goto, TypeOK
    <2>2. CASE ~Admissible(l)
      BY <1>2, <2>2 DEF Admit, Return, TypeOK
    <2> QED
      BY <2>1, <2>2
  <1>3. Write(l) => pc[l] = "admitted" /\ pc'[l] = "written" /\ pkt' = pkt
    BY DEF Write, Goto, TypeOK
  <1>4. WriteFails(l) => pc[l] = "admitted" /\ pc'[l] = "idle"
    BY DEF WriteFails, Return, TypeOK
  <1>5. Inc(l) => pc[l] = "written" /\ pc'[l] = "counted" /\ pkt' = pkt
    BY DEF Inc, Goto, TypeOK
  <1>6. Add(l) => pc[l] = "counted" /\ pc'[l] = "idle"
    BY DEF Add, Return, TypeOK
  <1> QED
    BY <1>1, <1>2, <1>3, <1>4, <1>5, <1>6

LEMMA SumsSame ==
  ASSUME UNCHANGED <<today, ledger>>
  PROVE  /\ \A a : Totals(ledger, a, today)' = Totals(ledger, a, today)
         /\ \A d : EgressLaneTotals(ledger, d, today)' = EgressLaneTotals(ledger, d, today)
  BY DEF Totals, EgressLaneTotals

-----------------------------------------------------------------------------
(* Each byte is billed at most once.                                       *)

LEMMA BilledNext ==
  ASSUME TypeOK, TypeOK', Carrying, Carrying', Behind, BilledOnce, [Next]_vars
  PROVE  BilledOnce'
  <1> DEFINE P == {"written", "counted"}
  <1>1. ASSUME NEW d \in Device
        PROVE  /\ Bytes(ledger, Of(d)) \in Nat /\ InFlight(OfDevice(At(P), d)) \in Nat
               /\ Bytes(ledger, Of(d))' \in Nat
               /\ sent[d] \in Nat /\ sent'[d] \in Nat /\ restarts \in Nat
               /\ Bytes(ledger, Of(d)) + InFlight(OfDevice(At(P), d)) <= sent[d]
               /\ restarts = 0 => Bytes(ledger, Of(d)) + InFlight(OfDevice(At(P), d)) = sent[d]
    <2>1. Bytes(ledger, Of(d)) \in Nat /\ Bytes(ledger', Of(d)) \in Nat
      BY SumsNat DEF TypeOK
    <2>2. Bytes(ledger, Of(d))' = Bytes(ledger', Of(d))
      BY DEF Of
    <2>3. InFlight(OfDevice(At(P), d)) \in Nat
      BY FlightBound
    <2>5. sent[d] \in Nat /\ sent'[d] \in Nat /\ restarts \in Nat
      BY MeteringAssumption DEF TypeOK
    <2>6. /\ Bytes(ledger, Of(d)) + InFlight(OfDevice(At(P), d)) <= sent[d]
          /\ restarts = 0 => Bytes(ledger, Of(d)) + InFlight(OfDevice(At(P), d)) = sent[d]
      BY DEF BilledOnce, Of
    <2> QED
      BY <2>1, <2>2, <2>3, <2>5, <2>6
  <1>2. SUFFICES ASSUME NEW d \in Device
                 PROVE  /\ Bytes(ledger, Of(d))' + InFlight(OfDevice(At(P), d))' <= sent'[d]
                        /\ restarts' = 0 =>
                             Bytes(ledger, Of(d))' + InFlight(OfDevice(At(P), d))' = sent'[d]
    BY DEF BilledOnce, Of
  <1> DEFINE Still == Bytes(ledger, Of(d))' = Bytes(ledger, Of(d))
  <1>3. ledger' = ledger => Still
    BY DEF Of
  <1> HIDE DEF Still
  <1>4. ASSUME NEW l \in Loop,
               \/ \E f \in Flow, n \in Size : Route(l, f, n)
               \/ Admit(l) \/ Write(l) \/ WriteFails(l) \/ Inc(l) \/ Add(l)
        PROVE  /\ restarts' = restarts /\ InFlight(OfDevice(At(P), d))' \in Nat
               /\ InFlight(OfDevice(At(P), d))'
                    + (IF pc[l] \in P /\ pkt[l].payer = d THEN pkt[l].size ELSE 0)
                  = InFlight(OfDevice(At(P), d))
                    + (IF pc'[l] \in P /\ pkt'[l].payer = d THEN pkt'[l].size ELSE 0)
    BY <1>4, LoopMoves, FlightStep
  <1>5. ASSUME NEW l \in Loop, NEW f \in Flow, NEW n \in Size, Route(l, f, n)
        PROVE  Still /\ UNCHANGED <<sent, restarts, InFlight(OfDevice(At(P), d))>>
    <2>1. pc[l] = "idle" /\ pc'[l] = "routed" /\ UNCHANGED <<ledger, sent>>
      BY <1>5 DEF Route, TypeOK
    <2> QED
      BY <1>1, <1>3, <1>4, <1>5, <2>1
  <1>6. ASSUME NEW l \in Loop, Admit(l) \/ WriteFails(l) \/ Inc(l)
        PROVE  Still /\ UNCHANGED <<sent, restarts, InFlight(OfDevice(At(P), d))>>
    <2>1. UNCHANGED <<ledger, sent>>
      BY <1>6 DEF Admit, WriteFails, Inc
    <2>2. \/ pc[l] \notin P /\ pc'[l] \notin P
          \/ pc[l] \in P /\ pc'[l] \in P /\ pkt' = pkt
      BY <1>6, Phases
    <2>3. pc[l] \in P => pkt[l].size \in Nat
      BY PacketIs DEF Carrying
    <2> QED
      BY <1>1, <1>3, <1>4, <1>6, <2>1, <2>2, <2>3
  <1>7. ASSUME NEW l \in Loop, Write(l)
        PROVE  /\ Still /\ restarts' = restarts /\ pkt[l].size \in Nat
               /\ InFlight(OfDevice(At(P), d))' \in Nat
               /\ sent'[d] = sent[d] + (IF pkt[l].payer = d THEN pkt[l].size ELSE 0)
               /\ InFlight(OfDevice(At(P), d))' =
                    InFlight(OfDevice(At(P), d)) + (IF pkt[l].payer = d THEN pkt[l].size ELSE 0)
    <2>1. pkt[l] \in Packet /\ UNCHANGED <<ledger, pkt>> /\ pc[l] = "admitted" /\ pc'[l] = "written"
      BY <1>7 DEF Write, Goto, Carrying, TypeOK
    <2>2. sent'[d] = sent[d] + (IF pkt[l].payer = d THEN pkt[l].size ELSE 0)
      BY <1>1, <1>7, <2>1, PacketIs DEF Write, TypeOK
    <2> QED
      BY <1>1, <1>3, <1>4, <1>7, <2>1, <2>2, PacketIs
  <1>8. ASSUME NEW l \in Loop, Add(l)
        PROVE  /\ UNCHANGED <<sent, restarts>> /\ pkt[l].size \in Nat
               /\ InFlight(OfDevice(At(P), d))' \in Nat
               /\ Bytes(ledger, Of(d))' =
                    Bytes(ledger, Of(d)) + (IF pkt[l].payer = d THEN pkt[l].size ELSE 0)
               /\ InFlight(OfDevice(At(P), d))' + (IF pkt[l].payer = d THEN pkt[l].size ELSE 0)
                    = InFlight(OfDevice(At(P), d))
    <2>1. pkt[l] \in Packet /\ UNCHANGED sent /\ pc[l] = "counted" /\ pc'[l] = "idle"
      BY <1>8 DEF Add, Return, Carrying, TypeOK
    <2>2. Bytes(ledger, Of(d))' =
            Bytes(ledger, Of(d)) + (IF pkt[l].payer = d THEN pkt[l].size ELSE 0)
      BY <1>8, AddBooks
    <2> QED
      BY <1>1, <1>4, <1>8, <2>1, <2>2, PacketIs
  <1>9. CASE \/ \E a \in Account, t \in Tier : SetTier(a, t)
             \/ Leasing \/ Save \/ Midnight \/ UNCHANGED vars
    <2>1. UNCHANGED <<ledger, sent, restarts, pc, pkt>>
      BY <1>9 DEF SetTier, Leasing, Acquire, AcquireFails, Save, Midnight, vars, history
    <2>2. InFlight(OfDevice(At(P), d))' = InFlight(OfDevice(At(P), d))
      BY <2>1, FlightSame
    <2> QED
      BY <1>1, <1>3, <2>1, <2>2 DEF Still
  <1>10. CASE Restart
    <2>1. InFlight(OfDevice(At(P), d))' = 0
      BY <1>10, FlightDropped
    <2>2. Bytes(ledger, Of(d))' = Bytes(file, Of(d)) /\ Bytes(file, Of(d)) <= Bytes(ledger, Of(d))
      BY <1>10, FileWithin DEF Restart, Reopened, Of
    <2>3. restarts' # 0 /\ sent' = sent
      BY <1>1, <1>10 DEF Restart, Reopened
    <2> QED
      BY <1>1, <2>1, <2>2, <2>3
  <1> HIDE DEF P
  <1>11. ASSUME NEW l \in Loop,
                \/ \E f \in Flow, n \in Size : Route(l, f, n)
                \/ Admit(l) \/ Write(l) \/ WriteFails(l) \/ Inc(l) \/ Add(l)
         PROVE  /\ Bytes(ledger, Of(d))' + InFlight(OfDevice(At(P), d))' <= sent'[d]
                /\ restarts' = 0 =>
                     Bytes(ledger, Of(d))' + InFlight(OfDevice(At(P), d))' = sent'[d]
    <2>1. CASE Still /\ UNCHANGED <<sent, restarts, InFlight(OfDevice(At(P), d))>>
      BY <1>1, <2>1 DEF Still
    <2>2. CASE Write(l)
      BY <1>1, <1>7, <2>2 DEF Still
    <2>3. CASE Add(l)
      BY <1>1, <1>8, <2>3
    <2> QED
      BY <1>5, <1>6, <1>11, <2>1, <2>2, <2>3
  <1> QED
    BY <1>9, <1>10, <1>11 DEF Next, Leasing

-----------------------------------------------------------------------------
(* The quota and the ledger keep step.                                     *)

(* What a step of a data loop adds to what the ledger bills an account, or *)
(* is about to, and what it adds to the account's counter.                 *)
LEMMA AccountSums ==
  ASSUME TypeOK, TypeOK', Carrying, Carrying', NEW a \in Account, NEW l \in Loop,
         \/ \E f \in Flow, n \in Size : Route(l, f, n)
         \/ Admit(l) \/ Write(l) \/ WriteFails(l) \/ Inc(l) \/ Add(l)
  PROVE  /\ Totals(ledger, a, today)' \in Nat
         /\ InFlight(OfAccount(At({"counted"}), a))' \in Nat
         /\ \E x, y \in Nat :
              /\ y <= x /\ (BytesPerDay[tier[a]] > 0 => y = x)
              /\ Totals(ledger, a, today)' + InFlight(OfAccount(At({"counted"}), a))'
                   = Totals(ledger, a, today) + InFlight(OfAccount(At({"counted"}), a)) + x
              /\ Rolled(acctBy)'[a] = Rolled(acctBy)[a] + y
  <1> DEFINE P == {"counted"}
             Moved(x, y) ==
               /\ Totals(ledger, a, today)' + InFlight(OfAccount(At(P), a))'
                    = Totals(ledger, a, today) + InFlight(OfAccount(At(P), a)) + x
               /\ Rolled(acctBy)'[a] = Rolled(acctBy)[a] + y
             Allowed(x, y) == y <= x /\ (BytesPerDay[tier[a]] > 0 => y = x)
  <1>1. /\ InFlight(OfAccount(At(P), a)) \in Nat
        /\ InFlight(OfAccount(At(P), a))' \in Nat
        /\ InFlight(OfAccount(At(P), a))'
             + (IF pc[l] \in P /\ Payer(l) = a THEN pkt[l].size ELSE 0)
           = InFlight(OfAccount(At(P), a))
             + (IF pc'[l] \in P /\ Payer(l)' = a THEN pkt'[l].size ELSE 0)
    BY LoopMoves, FlightStep
  <1>2. today' = today
    BY LoopMoves
  <1>3. Totals(ledger, a, today) \in Nat /\ Totals(ledger', a, today) \in Nat
    BY SumsNat DEF TypeOK
  <1>4. Totals(ledger, a, today)' = Totals(ledger', a, today)
    BY <1>2 DEF Totals
  <1>5. Rolled(acctBy)[a] \in Nat
    BY RolledType
  <1>6. pc[l] # "idle" => /\ pkt[l].size \in Nat
                          /\ Payer(l) \in Account
    BY PacketIs DEF Carrying, Payer
  <1> HIDE DEF P
  <1>7. ASSUME NEW f \in Flow, NEW n \in Size, Route(l, f, n)
        PROVE  /\ InFlight(OfAccount(At(P), a))' = InFlight(OfAccount(At(P), a))
               /\ UNCHANGED <<ledger, qday, acctBy>>
    <2>1. pc[l] \notin P /\ pc'[l] \notin P
      BY <1>7, Phases DEF P
    <2> QED
      BY <1>1, <1>7, <2>1 DEF Route, quota
  <1>8. ASSUME Write(l) \/ WriteFails(l)
        PROVE  /\ InFlight(OfAccount(At(P), a))' = InFlight(OfAccount(At(P), a))
               /\ UNCHANGED <<ledger, qday, acctBy>>
    <2>1. pc[l] \notin P /\ pc'[l] \notin P
      BY <1>8, Phases DEF P
    <2>2. UNCHANGED <<ledger, qday, acctBy>>
      BY <1>8 DEF Write, WriteFails, quota
    <2> QED
      BY <1>1, <2>1, <2>2
  <1>9. ASSUME UNCHANGED <<ledger, qday, acctBy>>,
               InFlight(OfAccount(At(P), a))' = InFlight(OfAccount(At(P), a))
        PROVE  Moved(0, 0)
    <2>1. Rolled(acctBy)' = Rolled(acctBy)
      BY <1>2, <1>9 DEF Rolled
    <2> QED
      BY <1>1, <1>3, <1>4, <1>5, <1>9, <2>1
  <1>10. ASSUME Admit(l)
         PROVE  Moved(0, 0)
    <2>1. pc[l] \notin P /\ pc'[l] \notin P
      BY <1>10, Phases DEF P
    <2>2. Rolled(acctBy)' = Rolled(acctBy) /\ ledger' = ledger
      BY <1>2, <1>10 DEF Admit, Rolled
    <2> QED
      BY <1>1, <1>3, <1>4, <1>5, <2>1, <2>2
  <1>11. ASSUME Add(l)
         PROVE  Moved(0, 0)
    <2>1. pc[l] \in P /\ pc'[l] \notin P /\ pc[l] # "idle"
      BY <1>11, Phases DEF P
    <2>2. Rolled(acctBy)' = Rolled(acctBy)
      BY <1>2, <1>11 DEF Add, Rolled, quota
    <2>3. Totals(ledger, a, today)' =
            Totals(ledger, a, today) + (IF Payer(l) = a THEN pkt[l].size ELSE 0)
      BY <1>11, AddBooks
    <2> QED
      BY <1>1, <1>3, <1>4, <1>5, <1>6, <2>1, <2>2, <2>3
  <1>12. ASSUME Inc(l)
         PROVE  \E x, y \in Nat : Allowed(x, y) /\ Moved(x, y)
    <2>1. pc[l] \notin P /\ pc'[l] \in P /\ pc[l] # "idle" /\ pkt' = pkt
      BY <1>12, Phases DEF P
    <2>2. Payer(l)' = Payer(l) /\ ledger' = ledger
      BY <1>12, <2>1 DEF Payer, Inc
    <2>3. PICK n \in Nat : n = IF BytesPerDay[tier[Payer(l)]] = 0 /\ EgressBytesPerDay[tier[Payer(l)]] = 0
                              THEN 0 ELSE pkt[l].size
      BY <1>6, <2>1
    <2>4. acctBy' = [Rolled(acctBy) EXCEPT ![Payer(l)] = @ + n] /\ qday' = today
      BY <1>12, <2>3 DEF Inc
    <2>5. Rolled(acctBy)' = [Rolled(acctBy) EXCEPT ![Payer(l)] = @ + n]
      BY <1>2, <2>4 DEF Rolled
    <2>6. CASE Payer(l) = a
      <3>1. n <= pkt[l].size /\ (BytesPerDay[tier[a]] > 0 => n = pkt[l].size)
        BY <1>6, <2>1, <2>3, <2>6
      <3>2. Rolled(acctBy)'[a] = Rolled(acctBy)[a] + n
        BY <2>5, <2>6, RolledType
      <3>3. Totals(ledger, a, today)' + InFlight(OfAccount(At(P), a))'
              = Totals(ledger, a, today) + InFlight(OfAccount(At(P), a)) + pkt[l].size
        BY <1>1, <1>3, <1>4, <1>6, <2>1, <2>2, <2>6
      <3> QED
        BY <1>6, <2>1, <3>1, <3>2, <3>3
    <2>7. CASE Payer(l) # a
      <3>1. Rolled(acctBy)'[a] = Rolled(acctBy)[a] + 0
        BY <1>5, <2>5, <2>7, RolledType
      <3>2. Totals(ledger, a, today)' + InFlight(OfAccount(At(P), a))'
              = Totals(ledger, a, today) + InFlight(OfAccount(At(P), a)) + 0
        BY <1>1, <1>3, <1>4, <2>1, <2>2, <2>7
      <3> QED
        BY <3>1, <3>2
    <2> QED
      BY <2>6, <2>7
  <1>13. \E x, y \in Nat : Allowed(x, y) /\ Moved(x, y)
    <2>1. Allowed(0, 0)
      OBVIOUS
    <2> HIDE DEF Allowed, Moved
    <2> QED
      BY <1>7, <1>8, <1>9, <1>10, <1>11, <1>12, <2>1
  <1> QED
    BY <1>1, <1>3, <1>4, <1>13 DEF P

(* The same of a device's egress lane.                                     *)
LEMMA LaneSums ==
  ASSUME TypeOK, TypeOK', Carrying, Carrying', NEW d \in Device, NEW l \in Loop,
         \/ \E f \in Flow, n \in Size : Route(l, f, n)
         \/ Admit(l) \/ Write(l) \/ WriteFails(l) \/ Inc(l) \/ Add(l)
  PROVE  /\ EgressLaneTotals(ledger, d, today)' \in Nat
         /\ InFlight(OfLane(At({"counted"}), d))' \in Nat
         /\ \E x, y \in Nat :
              /\ y <= x
              /\ EgressLaneTotals(ledger, d, today)' + InFlight(OfLane(At({"counted"}), d))'
                   = EgressLaneTotals(ledger, d, today) + InFlight(OfLane(At({"counted"}), d)) + x
              /\ Rolled(egressBy)'[d] = Rolled(egressBy)[d] + y
  <1> DEFINE P == {"counted"}
             Moved(x, y) ==
               /\ EgressLaneTotals(ledger, d, today)' + InFlight(OfLane(At(P), d))'
                    = EgressLaneTotals(ledger, d, today) + InFlight(OfLane(At(P), d)) + x
               /\ Rolled(egressBy)'[d] = Rolled(egressBy)[d] + y
             Allowed(x, y) == y <= x
  <1>1. /\ InFlight(OfLane(At(P), d)) \in Nat
        /\ InFlight(OfLane(At(P), d))' \in Nat
        /\ InFlight(OfLane(At(P), d))'
             + (IF pc[l] \in P /\ pkt[l].payer = d /\ pkt[l].exit # NoDevice THEN pkt[l].size ELSE 0)
           = InFlight(OfLane(At(P), d))
             + (IF pc'[l] \in P /\ pkt'[l].payer = d /\ pkt'[l].exit # NoDevice THEN pkt'[l].size ELSE 0)
    BY LoopMoves, FlightStep
  <1>2. today' = today
    BY LoopMoves
  <1>3. EgressLaneTotals(ledger, d, today) \in Nat /\ EgressLaneTotals(ledger', d, today) \in Nat
    BY SumsNat DEF TypeOK
  <1>4. EgressLaneTotals(ledger, d, today)' = EgressLaneTotals(ledger', d, today)
    BY <1>2 DEF EgressLaneTotals
  <1>5. Rolled(egressBy)[d] \in Nat
    BY RolledType
  <1>6. pc[l] # "idle" => /\ pkt[l].size \in Nat
                          /\ pkt[l].payer \in Device
    BY PacketIs DEF Carrying
  <1> HIDE DEF P
  <1>7. ASSUME NEW f \in Flow, NEW n \in Size, Route(l, f, n)
        PROVE  /\ InFlight(OfLane(At(P), d))' = InFlight(OfLane(At(P), d))
               /\ UNCHANGED <<ledger, qday, egressBy>>
    <2>1. pc[l] \notin P /\ pc'[l] \notin P
      BY <1>7, Phases DEF P
    <2> QED
      BY <1>1, <1>7, <2>1 DEF Route, quota
  <1>8. ASSUME Write(l) \/ WriteFails(l)
        PROVE  /\ InFlight(OfLane(At(P), d))' = InFlight(OfLane(At(P), d))
               /\ UNCHANGED <<ledger, qday, egressBy>>
    <2>1. pc[l] \notin P /\ pc'[l] \notin P
      BY <1>8, Phases DEF P
    <2>2. UNCHANGED <<ledger, qday, egressBy>>
      BY <1>8 DEF Write, WriteFails, quota
    <2> QED
      BY <1>1, <2>1, <2>2
  <1>9. ASSUME UNCHANGED <<ledger, qday, egressBy>>,
               InFlight(OfLane(At(P), d))' = InFlight(OfLane(At(P), d))
        PROVE  Moved(0, 0)
    <2>1. Rolled(egressBy)' = Rolled(egressBy)
      BY <1>2, <1>9 DEF Rolled
    <2> QED
      BY <1>1, <1>3, <1>4, <1>5, <1>9, <2>1
  <1>10. ASSUME Admit(l)
         PROVE  Moved(0, 0)
    <2>1. pc[l] \notin P /\ pc'[l] \notin P
      BY <1>10, Phases DEF P
    <2>2. Rolled(egressBy)' = Rolled(egressBy) /\ ledger' = ledger
      BY <1>2, <1>10 DEF Admit, Rolled
    <2> QED
      BY <1>1, <1>3, <1>4, <1>5, <2>1, <2>2
  <1>11. ASSUME Add(l)
         PROVE  Moved(0, 0)
    <2>1. pc[l] \in P /\ pc'[l] \notin P /\ pc[l] # "idle"
      BY <1>11, Phases DEF P
    <2>2. Rolled(egressBy)' = Rolled(egressBy)
      BY <1>2, <1>11 DEF Add, Rolled, quota
    <2>3. EgressLaneTotals(ledger, d, today)' =
            EgressLaneTotals(ledger, d, today)
              + (IF pkt[l].payer = d /\ pkt[l].exit # NoDevice THEN pkt[l].size ELSE 0)
      BY <1>11, AddBooks
    <2> QED
      BY <1>1, <1>3, <1>4, <1>5, <1>6, <2>1, <2>2, <2>3
  <1>12. ASSUME Inc(l)
         PROVE  \E x, y \in Nat : Allowed(x, y) /\ Moved(x, y)
    <2>1. pc[l] \notin P /\ pc'[l] \in P /\ pc[l] # "idle" /\ pkt' = pkt
      BY <1>12, Phases DEF P
    <2>2. ledger' = ledger
      BY <1>12 DEF Inc
    <2>3. PICK n \in Nat : n = IF BytesPerDay[tier[Payer(l)]] = 0 /\ EgressBytesPerDay[tier[Payer(l)]] = 0
                              THEN 0 ELSE pkt[l].size
      BY <1>6, <2>1
    <2>4. PICK m \in Nat : m = IF pkt[l].exit = NoDevice THEN 0 ELSE n
      OBVIOUS
    <2>5. egressBy' = [Rolled(egressBy) EXCEPT ![pkt[l].payer] = @ + m] /\ qday' = today
      BY <1>12, <2>3, <2>4 DEF Inc
    <2>6. Rolled(egressBy)' = [Rolled(egressBy) EXCEPT ![pkt[l].payer] = @ + m]
      BY <1>2, <2>5 DEF Rolled
    <2>7. CASE pkt[l].payer = d /\ pkt[l].exit # NoDevice
      <3>1. m <= pkt[l].size
        BY <1>6, <2>1, <2>3, <2>4
      <3>2. Rolled(egressBy)'[d] = Rolled(egressBy)[d] + m
        BY <2>6, <2>7, RolledType
      <3>3. EgressLaneTotals(ledger, d, today)' + InFlight(OfLane(At(P), d))'
              = EgressLaneTotals(ledger, d, today) + InFlight(OfLane(At(P), d)) + pkt[l].size
        BY <1>1, <1>3, <1>4, <1>6, <2>1, <2>2, <2>7
      <3> QED
        BY <1>6, <2>1, <3>1, <3>2, <3>3
    <2>8. CASE pkt[l].payer # d \/ pkt[l].exit = NoDevice
      <3>1. Rolled(egressBy)'[d] = Rolled(egressBy)[d] + 0
        <4>1. CASE pkt[l].payer # d
          BY <1>5, <2>6, <4>1, RolledType
        <4>2. CASE pkt[l].payer = d
          BY <1>5, <2>4, <2>6, <2>8, <4>2, RolledType
        <4> QED
          BY <4>1, <4>2
      <3>2. EgressLaneTotals(ledger, d, today)' + InFlight(OfLane(At(P), d))'
              = EgressLaneTotals(ledger, d, today) + InFlight(OfLane(At(P), d)) + 0
        BY <1>1, <1>3, <1>4, <2>1, <2>2, <2>8
      <3> QED
        BY <3>1, <3>2
    <2> QED
      BY <2>7, <2>8
  <1>13. \E x, y \in Nat : Allowed(x, y) /\ Moved(x, y)
    <2>1. Allowed(0, 0)
      OBVIOUS
    <2> HIDE DEF Allowed, Moved
    <2> QED
      BY <1>7, <1>8, <1>9, <1>10, <1>11, <1>12, <2>1
  <1> QED
    BY <1>1, <1>3, <1>4, <1>13 DEF P

LEMMA QuotaNext ==
  ASSUME TypeOK, TypeOK', Carrying, Carrying', Behind, QuotaWithinLedger, [Next]_vars
  PROVE  QuotaWithinLedger'
  <1> DEFINE Held ==
        /\ \A a \in Account :
             Rolled(acctBy)[a] <= Totals(ledger, a, today) + InFlight(OfAccount(At({"counted"}), a))
        /\ \A d \in Device :
             Rolled(egressBy)[d]
               <= EgressLaneTotals(ledger, d, today) + InFlight(OfLane(At({"counted"}), d))
  <1>1. ASSUME NEW a \in Account
        PROVE  /\ Rolled(acctBy)[a] \in Nat
               /\ Totals(ledger, a, today) \in Nat
               /\ InFlight(OfAccount(At({"counted"}), a)) \in Nat
               /\ Rolled(acctBy)[a]
                    <= Totals(ledger, a, today) + InFlight(OfAccount(At({"counted"}), a))
    <2>1. Totals(ledger, a, today) \in Nat /\ InFlight(OfAccount(At({"counted"}), a)) \in Nat
      BY SumsNat, FlightBound DEF TypeOK
    <2>2. CASE qday = today
      BY <2>1, <2>2, RolledType DEF QuotaWithinLedger, Rolled
    <2>3. CASE qday # today
      BY <2>1, <2>3 DEF Rolled, TypeOK
    <2> QED
      BY <2>1, <2>2, <2>3, RolledType
  <1>2. ASSUME NEW d \in Device
        PROVE  /\ Rolled(egressBy)[d] \in Nat
               /\ EgressLaneTotals(ledger, d, today) \in Nat
               /\ InFlight(OfLane(At({"counted"}), d)) \in Nat
               /\ Rolled(egressBy)[d]
                    <= EgressLaneTotals(ledger, d, today) + InFlight(OfLane(At({"counted"}), d))
    <2>1. /\ EgressLaneTotals(ledger, d, today) \in Nat
          /\ InFlight(OfLane(At({"counted"}), d)) \in Nat
      BY SumsNat, FlightBound DEF TypeOK
    <2>2. CASE qday = today
      BY <2>1, <2>2, RolledType DEF QuotaWithinLedger, Rolled
    <2>3. CASE qday # today
      BY <2>1, <2>3 DEF Rolled, TypeOK
    <2> QED
      BY <2>1, <2>2, <2>3, RolledType
  <1>3. Held' => QuotaWithinLedger'
    BY DEF QuotaWithinLedger, Rolled
  <1>4. ASSUME NEW l \in Loop,
               \/ \E f \in Flow, n \in Size : Route(l, f, n)
               \/ Admit(l) \/ Write(l) \/ WriteFails(l) \/ Inc(l) \/ Add(l)
        PROVE  Held'
    <2>1. ASSUME NEW a \in Account
          PROVE  Rolled(acctBy)'[a]
                   <= Totals(ledger, a, today)' + InFlight(OfAccount(At({"counted"}), a))'
      BY <1>1, <1>4, AccountSums
    <2>2. ASSUME NEW d \in Device
          PROVE  Rolled(egressBy)'[d]
                   <= EgressLaneTotals(ledger, d, today)' + InFlight(OfLane(At({"counted"}), d))'
      BY <1>2, <1>4, LaneSums
    <2> QED
      BY <2>1, <2>2
  <1>5. CASE \/ \E a \in Account, t \in Tier : SetTier(a, t)
             \/ Leasing \/ Save \/ UNCHANGED vars
    <2>1. UNCHANGED <<today, qday, acctBy, egressBy, ledger, pc, pkt>>
      BY <1>5 DEF SetTier, Leasing, Acquire, AcquireFails, Save, vars, quota
    <2>2. /\ Rolled(acctBy)' = Rolled(acctBy)
          /\ Rolled(egressBy)' = Rolled(egressBy)
      BY <2>1 DEF Rolled
    <2>3. Held'
      BY <1>1, <1>2, <2>1, <2>2, SumsSame, FlightSame
    <2> QED
      BY <1>3, <2>3
  <1>6. CASE Midnight
    BY <1>6 DEF Midnight, quota, Behind, QuotaWithinLedger, TypeOK
  <1>7. CASE Restart
    <2>1. /\ \A a \in Account : Totals(ledger, a, today)' \in Nat
          /\ \A d \in Device : EgressLaneTotals(ledger, d, today)' \in Nat
      BY SumsNat DEF TypeOK
    <2>2. /\ \A a \in Account : acctBy'[a] \in {0, Totals(ledger, a, today)'}
          /\ \A d \in Device : egressBy'[d] \in {0, EgressLaneTotals(ledger, d, today)'}
      BY <1>7 DEF Restart, Reopened, Totals, EgressLaneTotals
    <2>3. /\ \A a \in Account : InFlight(OfAccount(At({"counted"}), a))' = 0
          /\ \A d \in Device : InFlight(OfLane(At({"counted"}), d))' = 0
      BY <1>7, FlightDropped
    <2> QED
      BY <2>1, <2>2, <2>3 DEF QuotaWithinLedger
  <1> HIDE DEF Held
  <1> QED
    BY <1>3, <1>4, <1>5, <1>6, <1>7 DEF Next, Leasing

-----------------------------------------------------------------------------
(* How far an account passes its limit.                                    *)

\* an account counts as limited until its tier is switched
LEMMA LimitedStays ==
  ASSUME TypeOK, [Next]_vars, NEW a \in Account, Limited(a)'
  PROVE  Limited(a) /\ tier'[a] = tier[a]
  <1>1. ASSUME NEW l \in Loop,
               \/ \E f \in Flow, n \in Size : Route(l, f, n)
               \/ Admit(l) \/ Write(l) \/ WriteFails(l) \/ Inc(l) \/ Add(l)
        PROVE  UNCHANGED <<tier, switched>>
    BY <1>1, LoopMoves
  <1>2. ASSUME NEW b \in Account, NEW t \in Tier, SetTier(b, t)
        PROVE  Limited(a) /\ tier'[a] = tier[a]
    BY <1>2 DEF SetTier, Limited, TypeOK
  <1>3. CASE Leasing \/ Save \/ Midnight \/ Restart \/ UNCHANGED vars
    BY <1>3 DEF Leasing, Acquire, AcquireFails, Save, Midnight, Restart, Reopened, vars,
                history, Limited
  <1> QED
    BY <1>1, <1>2, <1>3 DEF Next, Leasing, Limited

LEMMA Bounds ==
  /\ Cardinality(Loop) \in Nat /\ Cardinality(Loop) >= 1
  /\ Slack \in Nat /\ Cardinality(Loop) * Max(Size) \in Nat /\ Carried \in Nat
  <1>1. Cardinality(Loop) \in Nat /\ Cardinality(Loop) # 0
    BY MeteringAssumption, FS_CardinalityType, FS_EmptySet
  <1>2. ASSUME NEW i \in Nat, NEW j \in Nat PROVE i * j \in Nat
    OBVIOUS
  <1>3. Cardinality(Loop) - 1 \in Nat
    BY <1>1
  <1> QED
    BY <1>1, <1>2, <1>3, Largest DEF Slack, Carried

LEMMA Allowed ==
  ASSUME TypeOK, NEW a \in Account
  PROVE  Allowance(a) \in Nat /\ Earlier(a) \in Nat
  <1>1. Allowance(a) \in Nat
    BY MeteringAssumption, Bounds DEF TypeOK, Allowance
  <1>2. ASSUME NEW i \in Nat, NEW j \in Nat PROVE i * j \in Nat
    OBVIOUS
  <1>3. again[a] \in Nat
    BY DEF TypeOK
  <1> QED
    BY <1>1, <1>2, <1>3 DEF Earlier

LEMMA EarlierNext ==
  ASSUME TypeOK, TypeOK', [Next]_vars, NEW a \in Account, Limited(a)'
  PROVE  /\ Allowance(a)' = Allowance(a) /\ Earlier(a)' \in Nat
         /\ again'[a] = again[a] => Earlier(a)' = Earlier(a)
         /\ again'[a] = again[a] + 1 => Earlier(a)' = Earlier(a) + Allowance(a)
  <1>1. Allowance(a)' = Allowance(a)
    BY LimitedStays DEF Allowance
  <1>2. again[a] \in Nat /\ again'[a] \in Nat
    BY DEF TypeOK
  <1>3. ASSUME NEW i \in Nat, NEW j \in Nat PROVE i * j \in Nat /\ (i + 1) * j = i * j + j
    OBVIOUS
  <1> QED
    BY <1>1, <1>2, <1>3, Allowed DEF Earlier

LEMMA CountedNext ==
  ASSUME TypeOK, TypeOK', Carrying, Carrying', Behind, CountedAll, AdmittedWithin, [Next]_vars
  PROVE  CountedAll'
  <1> SUFFICES ASSUME NEW a \in Account, Limited(a)'
               PROVE  Totals(ledger, a, today)' + InFlight(OfAccount(At({"counted"}), a))'
                        <= Rolled(acctBy)'[a] + Earlier(a)' + Carried'
    BY DEF CountedAll
  <1>1. /\ Limited(a) /\ BytesPerDay[tier[a]] > 0
        /\ Earlier(a) \in Nat /\ Earlier(a)' \in Nat /\ Allowance(a) \in Nat
        /\ again'[a] = again[a] => Earlier(a)' = Earlier(a)
        /\ again'[a] = again[a] + 1 => Earlier(a)' = Earlier(a) + Allowance(a)
    BY LimitedStays, Allowed, EarlierNext DEF Limited
  <1>2. /\ Rolled(acctBy)[a] \in Nat
        /\ Totals(ledger, a, today) \in Nat
        /\ InFlight(OfAccount(At({"counted"}), a)) \in Nat
        /\ Carried \in Nat
        /\ Totals(ledger, a, today) + InFlight(OfAccount(At({"counted"}), a))
             <= Rolled(acctBy)[a] + Earlier(a) + Carried
    BY <1>1, SumsNat, FlightBound, RolledType, Bounds DEF TypeOK, CountedAll
  <1>3. ASSUME NEW l \in Loop,
               \/ \E f \in Flow, n \in Size : Route(l, f, n)
               \/ Admit(l) \/ Write(l) \/ WriteFails(l) \/ Inc(l) \/ Add(l)
        PROVE  Totals(ledger, a, today)' + InFlight(OfAccount(At({"counted"}), a))'
                 <= Rolled(acctBy)'[a] + Earlier(a)' + Carried'
    <2>1. Carried' = Carried /\ again' = again
      BY <1>3, LoopMoves DEF Carried
    <2>2. PICK x \in Nat, y \in Nat :
            /\ y = x
            /\ Totals(ledger, a, today)' + InFlight(OfAccount(At({"counted"}), a))'
                 = Totals(ledger, a, today) + InFlight(OfAccount(At({"counted"}), a)) + x
            /\ Rolled(acctBy)'[a] = Rolled(acctBy)[a] + y
      BY <1>1, <1>3, AccountSums
    <2> QED
      BY <1>1, <1>2, <2>1, <2>2
  <1>4. CASE \/ \E b \in Account, t \in Tier : SetTier(b, t)
             \/ Leasing \/ Save \/ UNCHANGED vars
    <2>1. UNCHANGED <<today, qday, acctBy, ledger, pc, pkt, again>>
      BY <1>4 DEF SetTier, Leasing, Acquire, AcquireFails, Save, vars, quota, history
    <2>2. Rolled(acctBy)' = Rolled(acctBy) /\ Carried' = Carried
      BY <2>1 DEF Rolled, Carried
    <2> QED
      BY <1>1, <1>2, <2>1, <2>2, SumsSame, FlightSame
  <1>5. CASE Midnight
    <2>1. Totals(ledger, a, today)' = 0
      BY <1>5, TomorrowEmpty
    <2>2. UNCHANGED <<pc, pkt>> /\ today' # 0
      BY <1>5 DEF Midnight, TypeOK
    <2>3. /\ InFlight(OfAccount(At({"counted"}), a))' = InFlight(OfAccount(At({"counted"}), a))
          /\ InFlight(OfAccount(At({"counted"}), a)) <= Cardinality(Loop) * Max(Size)
      BY <2>2, FlightSame, FlightBound
    <2>4. Carried' = Cardinality(Loop) * Max(Size)
      BY <2>2 DEF Carried
    <2>5. Rolled(acctBy)'[a] \in Nat
      BY DEF Rolled, TypeOK
    <2> QED
      BY <1>1, <1>2, <2>1, <2>3, <2>4, <2>5, Bounds
  <1>6. CASE Restart
    <2>1. Totals(ledger, a, today)' = Totals(file, a, today) /\ Carried' = Carried
      BY <1>6 DEF Restart, Reopened, Totals, Carried
    <2>2. InFlight(OfAccount(At({"counted"}), a))' = 0
      BY <1>6, FlightDropped
    <2>3. /\ Rolled(acctBy)'[a] \in Nat
          /\ Totals(file, a, today) \in Nat
          /\ Totals(file, a, today) <= Totals(ledger, a, today)
      BY FileWithin, SumsNat DEF Rolled, TypeOK
    <2>4. CASE \E d \in leaseFile : AccountOf[d] = a
      <3>1. Rolled(acctBy)'[a] = Totals(file, a, today) /\ again'[a] = again[a]
        BY <1>6, <2>4 DEF Restart, Reopened, Rolled
      <3> QED
        BY <1>1, <1>2, <2>1, <2>2, <2>3, <3>1
    <2>5. CASE Totals(file, a, today) = 0
      <3>1. again'[a] = again[a]
        BY <1>6, <2>5 DEF Restart, Reopened
      <3> QED
        BY <1>1, <1>2, <2>1, <2>2, <2>3, <2>5, <3>1
    <2>6. CASE Totals(file, a, today) # 0 /\ ~\E d \in leaseFile : AccountOf[d] = a
      <3>1. again'[a] = again[a] + 1
        BY <1>6, <2>3, <2>6 DEF Restart, Reopened
      <3>2. Totals(ledger, a, today) + InFlight(OfAccount(At({"admitted", "written", "counted"}), a))
              <= Earlier(a) + Allowance(a) + Carried
        BY <1>1 DEF AdmittedWithin
      <3>3. InFlight(OfAccount(At({"admitted", "written", "counted"}), a)) \in Nat
        BY FlightBound
      <3> QED
        BY <1>1, <1>2, <2>1, <2>2, <2>3, <3>1, <3>2, <3>3
    <2> QED
      BY <2>4, <2>5, <2>6
  <1> QED
    BY <1>3, <1>4, <1>5, <1>6 DEF Next, Leasing

(* When a loop asks admit, the others have at most a packet each in flight *)
(* that the counters do not show yet.                                      *)
LEMMA Ahead ==
  ASSUME TypeOK, Carrying, NEW l \in Loop, pc[l] = "routed"
  PROVE  /\ \A a : /\ InFlight(OfAccount(At({"admitted", "written"}), a)) \in Nat
                   /\ InFlight(OfAccount(At({"admitted", "written"}), a)) <= Slack
         /\ \A d : /\ InFlight(OfLane(At({"admitted", "written"}), d)) \in Nat
                   /\ InFlight(OfLane(At({"admitted", "written"}), d)) <= Slack
  <1>1. ASSUME NEW W \in SUBSET At({"admitted", "written"})
        PROVE  InFlight(W) \in Nat /\ InFlight(W) <= Slack
    <2>1. /\ W \in SUBSET Loop /\ W \in SUBSET (Loop \ {l})
          /\ \A m \in W : pkt[m].size \in Size
      BY PacketIs DEF At, Carrying
    <2>2. InFlight(W) = Load(pkt, W)
      BY DEF InFlight, Load
    <2>3. Load(pkt, W) \in Nat /\ Load(pkt, W) <= Cardinality(W) * Max(Size)
      BY <2>1, LoadBound
    <2>4. IsFiniteSet(Loop \ {l}) /\ Cardinality(Loop \ {l}) = Cardinality(Loop) - 1
      BY MeteringAssumption, FS_RemoveElement
    <2>5. Cardinality(W) \in Nat /\ Cardinality(W) <= Cardinality(Loop) - 1
      BY <2>1, <2>4, FS_Subset, FS_CardinalityType
    <2>6. Cardinality(W) * Max(Size) <= Slack
      <3>1. ASSUME NEW i \in Nat, NEW j \in Nat, NEW n \in Nat, i <= j
            PROVE  i * n <= j * n
        BY <3>1
      <3>2. Cardinality(Loop) - 1 \in Nat
        BY Bounds
      <3> QED
        BY <2>5, <3>1, <3>2, Largest DEF Slack
    <2>7. Cardinality(W) * Max(Size) \in Nat /\ Slack \in Nat
      BY <2>5, Largest, Bounds
    <2> QED
      BY <2>2, <2>3, <2>6, <2>7
  <1>2. /\ \A a : OfAccount(At({"admitted", "written"}), a) \in SUBSET At({"admitted", "written"})
        /\ \A d : OfLane(At({"admitted", "written"}), d) \in SUBSET At({"admitted", "written"})
    BY DEF OfAccount, OfLane
  <1> QED
    BY <1>1, <1>2

\* what is counted and what is ahead of it make up what was admitted
LEMMA AheadAndCounted ==
  ASSUME Carrying, NEW a
  PROVE  InFlight(OfAccount(At({"admitted", "written", "counted"}), a))
           = InFlight(OfAccount(At({"admitted", "written"}), a))
             + InFlight(OfAccount(At({"counted"}), a))
  <1> DEFINE W == OfAccount(At({"admitted", "written"}), a)
             X == OfAccount(At({"counted"}), a)
  <1>1. /\ W \in SUBSET Loop /\ X \in SUBSET Loop /\ W \cap X = {}
        /\ OfAccount(At({"admitted", "written", "counted"}), a) = W \cup X
    BY DEF OfAccount, At
  <1>2. \A m \in W \cup X : pkt[m].size \in Nat
    BY PacketIs DEF OfAccount, At, Carrying
  <1> HIDE DEF W, X
  <1>3. Load(pkt, W \cup X) = Load(pkt, W) + Load(pkt, X)
    BY <1>1, <1>2, LoadJoin
  <1>4. InFlight(W \cup X) = InFlight(W) + InFlight(X)
    BY <1>3 DEF InFlight, Load
  <1> QED
    BY <1>1, <1>4 DEF W, X

LEMMA AdmittedNext ==
  ASSUME TypeOK, TypeOK', Carrying, Carrying', Behind, CountedAll, AdmittedWithin, [Next]_vars
  PROVE  AdmittedWithin'
  <1> DEFINE P == {"admitted", "written", "counted"}
  <1> SUFFICES ASSUME NEW a \in Account, Limited(a)'
               PROVE  Totals(ledger, a, today)' + InFlight(OfAccount(At(P), a))'
                        <= Earlier(a)' + Allowance(a)' + Carried'
    BY DEF AdmittedWithin
  <1>1. /\ Limited(a) /\ tier[a] \in Tier
        /\ Earlier(a) \in Nat /\ Earlier(a)' \in Nat
        /\ Allowance(a) \in Nat /\ Allowance(a)' = Allowance(a)
        /\ again'[a] = again[a] => Earlier(a)' = Earlier(a)
        /\ again'[a] = again[a] + 1 => Earlier(a)' = Earlier(a) + Allowance(a)
    BY LimitedStays, Allowed, EarlierNext DEF TypeOK
  <1>2. /\ Totals(ledger, a, today) \in Nat
        /\ InFlight(OfAccount(At(P), a)) \in Nat
        /\ Carried \in Nat /\ Slack \in Nat
        /\ Totals(ledger, a, today) + InFlight(OfAccount(At(P), a)) <= Earlier(a) + Allowance(a) + Carried
    BY <1>1, SumsNat, FlightBound, Bounds DEF TypeOK, AdmittedWithin
  <1>3. ASSUME NEW l \in Loop,
               \/ \E f \in Flow, n \in Size : Route(l, f, n)
               \/ Admit(l) \/ Write(l) \/ WriteFails(l) \/ Inc(l) \/ Add(l)
        PROVE  /\ Carried' = Carried /\ again' = again
               /\ InFlight(OfAccount(At(P), a))' \in Nat
               /\ InFlight(OfAccount(At(P), a))'
                    + (IF pc[l] \in P /\ Payer(l) = a THEN pkt[l].size ELSE 0)
                  = InFlight(OfAccount(At(P), a))
                    + (IF pc'[l] \in P /\ Payer(l)' = a THEN pkt'[l].size ELSE 0)
    BY <1>3, LoopMoves, FlightStep DEF Carried
  <1>4. ASSUME NEW l \in Loop PROVE pc[l] # "idle" => pkt[l].size \in Nat
    BY PacketIs DEF Carrying
  <1> HIDE DEF P
  <1>5. ASSUME NEW l \in Loop, NEW f \in Flow, NEW n \in Size, Route(l, f, n)
        PROVE  Totals(ledger, a, today)' + InFlight(OfAccount(At(P), a))'
                 <= Earlier(a)' + Allowance(a)' + Carried'
    <2>1. pc[l] \notin P /\ pc'[l] \notin P
      BY <1>5, Phases DEF P
    <2>2. Totals(ledger, a, today)' = Totals(ledger, a, today)
      BY <1>5, SumsSame DEF Route
    <2> QED
      BY <1>1, <1>2, <1>3, <1>5, <2>1, <2>2
  <1>6. ASSUME NEW l \in Loop, Admit(l)
        PROVE  Totals(ledger, a, today)' + InFlight(OfAccount(At(P), a))'
                 <= Earlier(a)' + Allowance(a)' + Carried'
    <2>1. pc[l] = "routed" /\ pc[l] \notin P /\ pc[l] # "idle"
      BY <1>6, Phases DEF P
    <2>2. Totals(ledger, a, today)' = Totals(ledger, a, today)
      BY <1>6, SumsSame DEF Admit
    <2>3. CASE pc'[l] \in P /\ Payer(l)' = a
      <3>1. Admissible(l) /\ pkt' = pkt
        BY <1>6, <2>3, Phases DEF P
      <3>2. Payer(l) = a
        BY <2>3, <3>1 DEF Payer
      <3>3. Rolled(acctBy)[a] + pkt[l].size <= BytesPerDay[tier[a]]
        BY <1>1, <3>1, <3>2, MeteringAssumption DEF Admissible, Within, Limited
      <3>4. Totals(ledger, a, today) + InFlight(OfAccount(At({"counted"}), a))
              <= Rolled(acctBy)[a] + Earlier(a) + Carried
        BY <1>1 DEF CountedAll
      <3>5. InFlight(OfAccount(At(P), a))
              = InFlight(OfAccount(At({"admitted", "written"}), a))
                + InFlight(OfAccount(At({"counted"}), a))
        BY AheadAndCounted DEF P
      <3>6. /\ InFlight(OfAccount(At({"admitted", "written"}), a)) \in Nat
            /\ InFlight(OfAccount(At({"admitted", "written"}), a)) <= Slack
            /\ InFlight(OfAccount(At({"counted"}), a)) \in Nat
        BY <2>1, Ahead, FlightBound
      <3>7. /\ Rolled(acctBy)[a] \in Nat /\ pkt[l].size \in Nat
            /\ BytesPerDay[tier[a]] \in Nat /\ Allowance(a) = BytesPerDay[tier[a]] + Slack
        BY <1>1, <1>4, <2>1, RolledType, MeteringAssumption DEF Allowance
      <3>8. InFlight(OfAccount(At(P), a))' = InFlight(OfAccount(At(P), a)) + pkt[l].size
        BY <1>2, <1>3, <1>6, <2>1, <2>3, <3>1, <3>7
      <3>9. Carried' = Carried /\ again' = again
        BY <1>3, <1>6
      <3> QED
        BY <1>1, <1>2, <2>2, <3>3, <3>4, <3>5, <3>6, <3>7, <3>8, <3>9
    <2>4. CASE ~(pc'[l] \in P /\ Payer(l)' = a)
      BY <1>1, <1>2, <1>3, <1>6, <2>1, <2>2, <2>4
    <2> QED
      BY <2>3, <2>4
  <1>7. ASSUME NEW l \in Loop, Write(l) \/ Inc(l)
        PROVE  Totals(ledger, a, today)' + InFlight(OfAccount(At(P), a))'
                 <= Earlier(a)' + Allowance(a)' + Carried'
    <2>1. pc[l] \in P /\ pc'[l] \in P /\ pc[l] # "idle" /\ pkt' = pkt
      BY <1>7, Phases DEF P
    <2>2. Payer(l)' = Payer(l)
      BY <2>1 DEF Payer
    <2>3. UNCHANGED <<today, ledger>>
      BY <1>7 DEF Write, Inc
    <2>4. Totals(ledger, a, today)' = Totals(ledger, a, today)
      BY <2>3, SumsSame
    <2>5. InFlight(OfAccount(At(P), a))' = InFlight(OfAccount(At(P), a))
      BY <1>2, <1>3, <1>4, <1>7, <2>1, <2>2
    <2> QED
      BY <1>1, <1>2, <1>3, <1>7, <2>4, <2>5
  <1>8. ASSUME NEW l \in Loop, WriteFails(l)
        PROVE  Totals(ledger, a, today)' + InFlight(OfAccount(At(P), a))'
                 <= Earlier(a)' + Allowance(a)' + Carried'
    <2>1. pc[l] \in P /\ pc'[l] \notin P /\ pc[l] # "idle"
      BY <1>8, Phases DEF P
    <2>2. Totals(ledger, a, today)' = Totals(ledger, a, today)
      BY <1>8, SumsSame DEF WriteFails
    <2> QED
      BY <1>1, <1>2, <1>3, <1>4, <1>8, <2>1, <2>2
  <1>9. ASSUME NEW l \in Loop, Add(l)
        PROVE  Totals(ledger, a, today)' + InFlight(OfAccount(At(P), a))'
                 <= Earlier(a)' + Allowance(a)' + Carried'
    <2>1. pc[l] \in P /\ pc'[l] \notin P /\ pc[l] # "idle"
      BY <1>9, Phases DEF P
    <2>2. Totals(ledger, a, today)' =
            Totals(ledger, a, today) + (IF Payer(l) = a THEN pkt[l].size ELSE 0)
      BY <1>9, AddBooks
    <2> QED
      BY <1>1, <1>2, <1>3, <1>4, <1>9, <2>1, <2>2
  <1>10. CASE \/ \E b \in Account, t \in Tier : SetTier(b, t)
              \/ Leasing \/ Save \/ UNCHANGED vars
    <2>1. UNCHANGED <<today, ledger, pc, pkt, again>>
      BY <1>10 DEF SetTier, Leasing, Acquire, AcquireFails, Save, vars, history
    <2>2. Carried' = Carried
      BY <2>1 DEF Carried
    <2> QED
      BY <1>1, <1>2, <2>1, <2>2, SumsSame, FlightSame
  <1>11. CASE Midnight
    <2>1. Totals(ledger, a, today)' = 0
      BY <1>11, TomorrowEmpty
    <2>2. UNCHANGED <<pc, pkt>> /\ today' # 0
      BY <1>11 DEF Midnight, TypeOK
    <2>3. /\ InFlight(OfAccount(At(P), a))' = InFlight(OfAccount(At(P), a))
          /\ InFlight(OfAccount(At(P), a)) <= Cardinality(Loop) * Max(Size)
      BY <2>2, FlightSame, FlightBound DEF P
    <2>4. Carried' = Cardinality(Loop) * Max(Size)
      BY <2>2 DEF Carried
    <2> QED
      BY <1>1, <1>2, <2>1, <2>3, <2>4, Bounds
  <1>12. CASE Restart
    <2>1. Totals(ledger, a, today)' = Totals(file, a, today)
      BY <1>12 DEF Restart, Reopened, Totals
    <2>2. Totals(file, a, today) <= Totals(ledger, a, today) /\ Totals(file, a, today) \in Nat
      BY FileWithin, SumsNat DEF TypeOK
    <2>3. InFlight(OfAccount(At(P), a))' = 0
      BY <1>12, FlightDropped DEF P
    <2>4. Carried' = Carried /\ again[a] \in Nat /\ again'[a] \in {again[a], again[a] + 1}
      BY <1>12 DEF Restart, Reopened, Carried, TypeOK
    <2> QED
      BY <1>1, <1>2, <2>1, <2>2, <2>3, <2>4
  <1> QED
    BY <1>5, <1>6, <1>7, <1>8, <1>9, <1>10, <1>11, <1>12 DEF Next, Leasing

-----------------------------------------------------------------------------
(* The theorems.                                                           *)

LEMMA IInvInit == Init => IInv
  <1> SUFFICES ASSUME Init PROVE IInv
    OBVIOUS
  <1>1. TypeOK
    BY MeteringAssumption DEF Init, TypeOK
  <1>2. Carrying /\ Behind
    BY DEF Init, Carrying, Behind, Bucket
  <1>3. ASSUME NEW S \in SUBSET Bucket PROVE Bytes(ledger, S) = 0
    <2>1. \A b \in S : ledger[b] = 0
      BY DEF Init
    <2>2. Amount(ledger, S) = {}
      BY <2>1, AmountIs
    <2> QED
      BY <2>2, AmountIs, FS_EmptySet
  <1>4. /\ \A a : Totals(ledger, a, today) = 0
        /\ \A d : EgressLaneTotals(ledger, d, today) = 0
        /\ \A d : Bytes(ledger, {b \in Bucket : b[1] = d}) = 0
    BY <1>3 DEF Totals, EgressLaneTotals
  <1>5. ASSUME NEW P, "idle" \notin P
        PROVE  /\ \A a : InFlight(OfAccount(At(P), a)) = 0
               /\ \A d : InFlight(OfDevice(At(P), d)) = 0
               /\ \A d : InFlight(OfLane(At(P), d)) = 0
    <2>1. At(P) = {}
      BY <1>5 DEF At, Init
    <2>2. \A loops : loops = {} => Load(pkt, loops) = 0
      BY LoadNothing
    <2> QED
      BY <2>1, <2>2 DEF InFlight, OfAccount, OfDevice, OfLane, Load
  <1>6. BilledOnce
    <2>1. \A d \in Device : sent[d] = 0
      BY DEF Init
    <2> QED
      BY <1>4, <1>5, <2>1 DEF BilledOnce
  <1>7. QuotaWithinLedger
    <2>1. /\ \A a \in Account : acctBy[a] = 0
          /\ \A d \in Device : egressBy[d] = 0
      BY DEF Init
    <2> QED
      BY <1>4, <1>5, <2>1 DEF QuotaWithinLedger
  <1>8. \A a \in Account : Allowance(a) \in Nat /\ Earlier(a) \in Nat
    BY <1>1, Allowed
  <1>9. CountedAll
    <2>1. \A a \in Account : Rolled(acctBy)[a] = 0
      BY DEF Init, Rolled
    <2> QED
      BY <1>4, <1>5, <1>8, <2>1, Bounds DEF CountedAll
  <1>10. AdmittedWithin
    BY <1>4, <1>5, <1>8, Bounds DEF AdmittedWithin
  <1> QED
    BY <1>1, <1>2, <1>6, <1>7, <1>9, <1>10 DEF IInv

LEMMA IInvNext == IInv /\ [Next]_vars => IInv'
  <1> SUFFICES ASSUME IInv, [Next]_vars PROVE IInv'
    OBVIOUS
  <1>1. /\ TypeOK /\ Carrying /\ Behind
        /\ BilledOnce /\ QuotaWithinLedger /\ CountedAll /\ AdmittedWithin
    BY DEF IInv
  <1>2. TypeOK' /\ Carrying' /\ Behind'
    BY <1>1, TypeNext, CarryingNext, BehindNext
  <1>3. BilledOnce' /\ QuotaWithinLedger' /\ CountedAll' /\ AdmittedWithin'
    BY <1>1, <1>2, BilledNext, QuotaNext, CountedNext, AdmittedNext
  <1> QED
    BY <1>2, <1>3 DEF IInv

(* The inductive invariant of the accounting: of what every forwarded byte *)
(* is on its way to, in the quota, the ledger and its file, whatever data  *)
(* loops, saves, midnights, tier switches and restarts come between.       *)
THEOREM MeteringInvariant == Spec => []IInv
  BY IInvInit, IInvNext, PTL DEF Spec

(* Every variable of hub.go, quota.go and usage.go keeps its type; no      *)
(* counter gets negative.                                                  *)
THEOREM TypeCorrect == Spec => []TypeOK
  BY MeteringInvariant, PTL DEF IInv

(* The ledger never bills a byte twice, and while the server is not        *)
(* restarted loses none that Relay forwarded.                              *)
THEOREM BilledOnceCorrect == Spec => []BilledOnce
  <1>1. IInv => BilledOnce
    BY DEF IInv
  <1> QED
    BY <1>1, MeteringInvariant, PTL

(* quotaTrk holds nothing against an account that UsageStore does not      *)
(* bill for the day, or is about to.                                       *)
THEOREM QuotaWithinLedgerCorrect == Spec => []QuotaWithinLedger
  <1>1. IInv => QuotaWithinLedger
    BY DEF IInv
  <1> QED
    BY <1>1, MeteringInvariant, PTL

(* The day's bill of an account that stays on a limited tier is within one *)
(* allowance - the limit and a packet of each other data loop - and a      *)
(* packet of each loop that was carried over midnight; each restart that   *)
(* finds bytes of the account billed but no lease of it in leases.json     *)
(* gives one allowance more.                                               *)
THEOREM BilledWithinLimitCorrect == Spec => []BilledWithinLimit
  <1>1. IInv => BilledWithinLimit
    <2> SUFFICES ASSUME IInv, NEW a \in Account \ switched, BytesPerDay[tier[a]] > 0
                 PROVE  Totals(ledger, a, today)
                          <= (1 + again[a]) * (BytesPerDay[tier[a]] + Slack) + Carried
      BY DEF BilledWithinLimit
    <2>1. Totals(ledger, a, today) + InFlight(OfAccount(At({"admitted", "written", "counted"}), a))
            <= Earlier(a) + Allowance(a) + Carried
      BY DEF IInv, AdmittedWithin, Limited
    <2>2. /\ Totals(ledger, a, today) \in Nat
          /\ InFlight(OfAccount(At({"admitted", "written", "counted"}), a)) \in Nat
      BY SumsNat, FlightBound DEF IInv, TypeOK
    <2>3. Earlier(a) \in Nat /\ Allowance(a) \in Nat /\ Carried \in Nat
      BY Allowed, Bounds DEF IInv
    <2>4. (1 + again[a]) * Allowance(a) = Earlier(a) + Allowance(a)
      <3>1. again[a] \in Nat
        BY DEF IInv, TypeOK
      <3>2. ASSUME NEW i \in Nat, NEW j \in Nat PROVE (1 + i) * j = i * j + j
        OBVIOUS
      <3> QED
        BY <2>3, <3>1, <3>2 DEF Earlier
    <2>5. Totals(ledger, a, today) <= (1 + again[a]) * Allowance(a) + Carried
      BY <2>1, <2>2, <2>3, <2>4
    <2> QED
      BY <2>5 DEF Allowance
  <1> QED
    BY <1>1, MeteringInvariant, PTL

\* only admit lets a packet pass, and it is the loop's own
LEMMA OnlyAdmit ==
  ASSUME TypeOK, Next, NEW l \in Loop, pc[l] = "routed", pc'[l] = "admitted"
  PROVE  Admit(l) /\ Admissible(l)
  <1>1. ASSUME NEW m \in Loop,
               \/ \E f \in Flow, n \in Size : Route(m, f, n)
               \/ Admit(m) \/ Write(m) \/ WriteFails(m) \/ Inc(m) \/ Add(m)
        PROVE  Admit(l) /\ Admissible(l)
    <2>1. m = l
      BY <1>1, LoopMoves
    <2> QED
      BY <1>1, <2>1, Phases
  <1>2. ~\E a \in Account, t \in Tier : SetTier(a, t)
    BY DEF SetTier
  <1>3. ~(Leasing \/ Save \/ Midnight \/ Restart)
    BY DEF Leasing, Acquire, AcquireFails, Save, Midnight, Restart, Reopened
  <1> QED
    BY <1>1, <1>2, <1>3 DEF Next, Leasing

(* quotaTrk.admit reserves nothing, and still no admission takes what is   *)
(* counted or admitted past the limit by more than a packet of each other  *)
(* data loop, in the account's and in the egress lane.                     *)
THEOREM OverrunCorrect == Spec => OverrunBound
  <1>1. ASSUME IInv, Next, NEW l \in Loop, pc[l] = "routed", pc'[l] = "admitted"
        PROVE  LET t == tier[Payer(l)]
                   ahead == At({"admitted", "written"}) IN
               /\ BytesPerDay[t] > 0 =>
                    acctBy'[Payer(l)] + pkt[l].size + InFlight(OfAccount(ahead, Payer(l)))
                      <= BytesPerDay[t] + Slack
               /\ (pkt[l].exit # NoDevice /\ EgressBytesPerDay[t] > 0) =>
                    egressBy'[pkt[l].payer] + pkt[l].size + InFlight(OfLane(ahead, pkt[l].payer))
                      <= EgressBytesPerDay[t] + Slack
    <2>1. TypeOK /\ Carrying
      BY <1>1 DEF IInv
    <2>2. Admit(l) /\ Admissible(l)
      BY <1>1, <2>1, OnlyAdmit
    <2>3. pkt[l].size \in Nat /\ pkt[l].payer \in Device /\ Payer(l) \in Account
      BY <1>1, <2>1, PacketIs DEF Carrying, Payer
    <2>4. tier[Payer(l)] \in Tier
      BY <2>1, <2>3 DEF TypeOK
    <2>5. BytesPerDay[tier[Payer(l)]] \in Nat /\ EgressBytesPerDay[tier[Payer(l)]] \in Nat
      BY <2>4, MeteringAssumption
    <2>6. acctBy' = Rolled(acctBy) /\ egressBy' = Rolled(egressBy)
      BY <2>2 DEF Admit
    <2>7. acctBy'[Payer(l)] \in Nat /\ egressBy'[pkt[l].payer] \in Nat
      BY <2>1, <2>3, <2>6, RolledType
    <2>8. /\ BytesPerDay[tier[Payer(l)]] > 0 =>
               acctBy'[Payer(l)] + pkt[l].size <= BytesPerDay[tier[Payer(l)]]
          /\ (pkt[l].exit # NoDevice /\ EgressBytesPerDay[tier[Payer(l)]] > 0) =>
               egressBy'[pkt[l].payer] + pkt[l].size <= EgressBytesPerDay[tier[Payer(l)]]
      BY <2>2, <2>5, <2>6 DEF Admissible, Within
    <2>9. /\ InFlight(OfAccount(At({"admitted", "written"}), Payer(l))) \in Nat
          /\ InFlight(OfAccount(At({"admitted", "written"}), Payer(l))) <= Slack
          /\ InFlight(OfLane(At({"admitted", "written"}), pkt[l].payer)) \in Nat
          /\ InFlight(OfLane(At({"admitted", "written"}), pkt[l].payer)) <= Slack
          /\ Slack \in Nat
      BY <1>1, <2>1, Ahead, Bounds
    <2> QED
      BY <2>3, <2>5, <2>7, <2>8, <2>9
  <1>2. IInv /\ [Next]_vars =>
          [\A l \in Loop : (pc[l] = "routed" /\ pc'[l] = "admitted") =>
             LET t == tier[Payer(l)]
                 ahead == At({"admitted", "written"}) IN
             /\ BytesPerDay[t] > 0 =>
                  acctBy'[Payer(l)] + pkt[l].size + InFlight(OfAccount(ahead, Payer(l)))
                    <= BytesPerDay[t] + Slack
             /\ (pkt[l].exit # NoDevice /\ EgressBytesPerDay[t] > 0) =>
                  egressBy'[pkt[l].payer] + pkt[l].size + InFlight(OfLane(ahead, pkt[l].payer))
                    <= EgressBytesPerDay[t] + Slack]_vars
    BY <1>1
  <1> QED
    BY <1>2, MeteringInvariant, PTL DEF Spec, OverrunBound
=============================================================================
