------------------------------ MODULE Metering ------------------------------
(***************************************************************************)
(* The daily quota and the ledger it is billed from: Hub.Relay after its   *)
(* routing decision (internal/server/hub.go), quotaTrk                     *)
(* (internal/server/quota.go), UsageStore with its periodic save           *)
(* (internal/account/usage.go, saveLoop of server.go), tier switches       *)
(* (api.go), midnight and restarts of the server. Of the leases only which *)
(* devices have one, in memory and on disk: a restart counts by them.      *)
(*                                                                         *)
(* Relay asks quotaTrk, writes the packet, tells quotaTrk and tells the    *)
(* ledger in four steps under three different locks; every data loop does  *)
(* so on its own.                                                          *)
(***************************************************************************)
EXTENDS Naturals, FiniteSetsExt

CONSTANTS
  Loop,               \* data loops, one packet in flight each
  Device, Account, AccountOf,
  Tier,               \* billing tiers; one no table lists has the default quota
  BytesPerDay,        \* the tiers' daily limit, 0 = unlimited
  EgressBytesPerDay,  \* the tiers' daily limit of the egress lane
  Size,               \* packet lengths
  NoDevice,           \* Bucket.EgressDeviceID = ""
  NoPacket,           \* the loop waits for its client
  StartTier,          \* the tiers of the accounts at first
  Flow,               \* bound: the kinds of packets sent
  MaxDay,             \* bound: the last day
  MaxSent,            \* bound: bytes forwarded, over all devices
  MaxRestarts         \* bound: restarts of the server

ASSUME MeteringAssumption ==
  /\ IsFiniteSet(Loop) /\ Loop # {} /\ IsFiniteSet(Device)
  /\ AccountOf \in [Device -> Account]
  /\ BytesPerDay \in [Tier -> Nat]
  /\ EgressBytesPerDay \in [Tier -> Nat]
  /\ Size \subseteq Nat \ {0}
  /\ \E n \in Size : \A m \in Size : m <= n    \* the length field is 16 bits wide
  /\ Flow \subseteq [src : Device, dst : Device, proxied : BOOLEAN]
  /\ NoDevice \notin Device
  /\ StartTier \in [Account -> Tier]
  /\ MaxDay \in Nat /\ MaxSent \in Nat /\ MaxRestarts \in Nat

VARIABLES
  today,      \* the day of time.Now()
  tier,       \* account.Account.Tier
  qday,       \* quotaTrk.day
  acctBy,     \* quotaTrk.acctBy: bytes of an account
  egressBy,   \* quotaTrk.egressBy: egress bytes of a consumer device
  ledger,     \* UsageStore.buckets; the hours of a day are one bucket
  file,       \* usage.json
  leased,     \* the devices with a lease in LeaseStore.nets
  leaseFile,  \* those with one in leases.json
  pc,         \* where a data loop stands in Relay
  pkt,        \* its packet
  sent,       \* history: bytes forwarded, by the device they are billed to
  switched,   \* history: the accounts whose tier was ever switched
  restarts,   \* history: how often the server was restarted
  again       \* history: how often it began an account's day at zero again

quota == <<qday, acctBy, egressBy>>
leases == <<leased, leaseFile>>
history == <<switched, restarts, again>>
vars == <<today, tier, quota, ledger, file, leases, pc, pkt, sent, history>>

-----------------------------------------------------------------------------

Bucket == Device \X (Device \cup {NoDevice}) \X (0..MaxDay)

\* who pays for a packet, through which exit it went, and its length
Packet == [payer : Device, exit : Device \cup {NoDevice}, size : Size]

TypeOK ==
  /\ today \in 0..MaxDay
  /\ tier \in [Account -> Tier]
  /\ qday \in 0..MaxDay
  /\ acctBy \in [Account -> Nat]
  /\ egressBy \in [Device -> Nat]
  /\ ledger \in [Bucket -> Nat]
  /\ file \in [Bucket -> Nat]
  /\ pc \in [Loop -> {"idle", "routed", "admitted", "written", "counted"}]
  /\ pkt \in [Loop -> Packet \cup {NoPacket}]
  /\ sent \in [Device -> Nat]
  /\ switched \subseteq Account
  /\ restarts \in 0..MaxRestarts
  /\ leaseFile \subseteq leased /\ leased \subseteq Device
  /\ again \in [Account -> Nat]

(* The sum of `f` over S, as the number of the single bytes it counts: a   *)
(* cardinality, unlike a fold, can be reasoned about without induction.    *)
Bytes(f, S) == Cardinality(UNION {{x} \X (1..f[x]) : x \in S})

\* UsageStore.Totals: the account's buckets of one day
Totals(book, a, day) == Bytes(book, {b \in Bucket : AccountOf[b[1]] = a /\ b[3] = day})

\* UsageStore.EgressLaneTotals: what the device consumed through exits
EgressLaneTotals(book, d, day) ==
  Bytes(book, {b \in Bucket : b[1] = d /\ b[2] # NoDevice /\ b[3] = day})

Init ==
  /\ today = 0
  /\ tier = StartTier
  /\ qday = 0
  /\ acctBy = [a \in Account |-> 0]
  /\ egressBy = [d \in Device |-> 0]
  /\ ledger = [b \in Bucket |-> 0]
  /\ file = ledger
  /\ pc = [l \in Loop |-> "idle"]
  /\ pkt = [l \in Loop |-> NoPacket]
  /\ sent = [d \in Device |-> 0]
  /\ switched = {}
  /\ restarts = 0
  /\ leased = {} /\ leaseFile = {}
  /\ again = [a \in Account |-> 0]

-----------------------------------------------------------------------------
(* Leases.                                                                 *)

\* Allocate for a device without a lease; Hub.Register asks before it lists
Acquire(d) ==
  /\ d \notin leased
  /\ leased' = leased \cup {d}
  /\ leaseFile' = leased'
  /\ UNCHANGED <<today, tier, quota, ledger, file, pc, pkt, sent, history>>

(* Its save fails: the device is refused, and at its next attempt reuses   *)
(* the lease that only memory has.                                         *)
AcquireFails(d) ==
  /\ d \notin leased
  /\ leased' = leased \cup {d}
  /\ UNCHANGED <<today, tier, quota, ledger, file, leaseFile, pc, pkt, sent, history>>

-----------------------------------------------------------------------------
(* Relay.                                                                  *)

Goto(l, p) == pc' = [pc EXCEPT ![l] = p] /\ UNCHANGED pkt

Return(l) ==
  /\ pc' = [pc EXCEPT ![l] = "idle"]
  /\ pkt' = [pkt EXCEPT ![l] = NoPacket]

Sent == Bytes(sent, Device)

(* Who pays: an encapsulated packet to an exit is the sender's egress, one *)
(* from an exit back is the receiver's; anything else is the sender's.     *)
Attributed(f, srcEgress, dstEgress) ==
  IF ~dstEgress /\ srcEgress /\ f.proxied THEN [payer |-> f.dst, exit |-> f.src]
  ELSE [payer |-> f.src, exit |-> IF dstEgress /\ f.proxied THEN f.dst ELSE NoDevice]

(* The two Egress flags are read after Hub.mu is released, while           *)
(* UpdateEgress may write them: each is read as either value.              *)
Route(l, f, n) ==
  /\ pc[l] = "idle"
  /\ Sent < MaxSent
  /\ AccountOf[f.src] = AccountOf[f.dst]
  /\ {f.src, f.dst} \subseteq leased
  /\ \E srcEgress, dstEgress \in BOOLEAN :
       LET who == Attributed(f, srcEgress, dstEgress) IN
       pkt' = [pkt EXCEPT ![l] = [payer |-> who.payer, exit |-> who.exit, size |-> n]]
  /\ pc' = [pc EXCEPT ![l] = "routed"]
  /\ UNCHANGED <<today, tier, quota, ledger, file, leases, sent, history>>

\* mutant: the counters of yesterday go on
NeverRolled(by) == by

\* rolloverLocked: what a counter stands at once the day is right
Rolled(by) == IF qday = today THEN by ELSE [x \in DOMAIN by |-> 0]

Payer(l) == AccountOf[pkt[l].payer]

\* mutant: refuses only once the limit is passed
WithinBefore(used, n, limit) == limit = 0 \/ used <= limit

Within(used, n, limit) == limit = 0 \/ used + n <= limit

Admissible(l) ==
  LET p == pkt[l]
      t == tier[Payer(l)] IN
  /\ Within(Rolled(acctBy)[Payer(l)], p.size, BytesPerDay[t])
  /\ p.exit # NoDevice => Within(Rolled(egressBy)[p.payer], p.size, EgressBytesPerDay[t])

\* admit reads the counters; nothing is reserved for the packet
Admit(l) ==
  /\ pc[l] = "routed"
  /\ IF Admissible(l) THEN Goto(l, "admitted") ELSE Return(l)
  /\ qday' = today
  /\ acctBy' = Rolled(acctBy)
  /\ egressBy' = Rolled(egressBy)
  /\ UNCHANGED <<today, tier, ledger, file, leases, sent, history>>

Write(l) ==
  /\ pc[l] = "admitted"
  /\ Goto(l, "written")
  /\ sent' = [sent EXCEPT ![pkt[l].payer] = @ + pkt[l].size]
  /\ UNCHANGED <<today, tier, quota, ledger, file, leases, history>>

\* mutant: gives back what admit never took
RefundOnFailure(l) ==
  /\ pc[l] = "admitted"
  /\ Return(l)
  /\ acctBy' = [acctBy EXCEPT ![Payer(l)] = @ - pkt[l].size]
  /\ UNCHANGED <<today, tier, qday, egressBy, ledger, file, leases, sent, history>>

\* a failed write of header or payload ends Relay before any accounting
WriteFails(l) ==
  /\ pc[l] = "admitted"
  /\ Return(l)
  /\ UNCHANGED <<today, tier, quota, ledger, file, leases, sent, history>>

\* inc counts nothing for an account that is unlimited at the moment
Inc(l) ==
  LET p == pkt[l]
      t == tier[Payer(l)]
      n == IF BytesPerDay[t] = 0 /\ EgressBytesPerDay[t] = 0 THEN 0 ELSE p.size IN
  /\ pc[l] = "written"
  /\ Goto(l, "counted")
  /\ qday' = today
  /\ acctBy' = [Rolled(acctBy) EXCEPT ![Payer(l)] = @ + n]
  /\ egressBy' = [Rolled(egressBy) EXCEPT ![p.payer] = @ + IF p.exit = NoDevice THEN 0 ELSE n]
  /\ UNCHANGED <<today, tier, ledger, file, leases, sent, history>>

\* mutant: books a packet as received and as sent
AddBoth(l) ==
  LET p == pkt[l] IN
  /\ pc[l] = "counted"
  /\ Return(l)
  /\ ledger' = [ledger EXCEPT ![<<p.payer, p.exit, today>>] = @ + 2 * p.size]
  /\ UNCHANGED <<today, tier, quota, file, leases, sent, history>>

\* UsageStore.Add, with its own reading of the clock
Add(l) ==
  LET p == pkt[l] IN
  /\ pc[l] = "counted"
  /\ Return(l)
  /\ ledger' = [ledger EXCEPT ![<<p.payer, p.exit, today>>] = @ + p.size]
  /\ UNCHANGED <<today, tier, quota, file, leases, sent, history>>

-----------------------------------------------------------------------------
(* Everything else that happens to the counters.                           *)

SetTier(a, t) ==
  /\ t # tier[a]
  /\ tier' = [tier EXCEPT ![a] = t]
  /\ switched' = switched \cup {a}
  /\ UNCHANGED <<today, quota, ledger, file, leases, pc, pkt, sent, restarts, again>>

\* saveLoop's tick, or the last save of Serve; the rename makes it atomic
Save ==
  /\ file' = ledger
  /\ UNCHANGED <<today, tier, quota, ledger, leases, pc, pkt, sent, history>>

Midnight ==
  /\ today < MaxDay
  /\ today' = today + 1
  /\ again' = [a \in Account |-> 0]
  /\ UNCHANGED <<tier, quota, ledger, file, leases, pc, pkt, sent, switched, restarts>>

(* The process ends - Serve does not wait for the data loops - and starts  *)
(* again: OpenLeases and OpenUsage read the files, and newQuotaTrk starts  *)
(* with the counters `by` and `egress`.                                    *)
Reopened(by, egress) ==
  /\ restarts < MaxRestarts
  /\ restarts' = restarts + 1
  /\ ledger' = file
  /\ leased' = leaseFile
  /\ qday' = today
  /\ acctBy' = by
  /\ egressBy' = egress
  /\ pc' = [l \in Loop |-> "idle"]
  /\ pkt' = [l \in Loop |-> NoPacket]
  /\ again' = [a \in Account |->
       IF Totals(file, a, today) > 0 /\ \A d \in leaseFile : AccountOf[d] # a
       THEN again[a] + 1 ELSE again[a]]
  /\ UNCHANGED <<today, tier, file, leaseFile, sent, switched>>

\* mutant: the counters start at zero
RestartFresh == Reopened([a \in Account |-> 0], [d \in Device |-> 0])

(* newQuotaTrk fills the counters lease by lease of leases.json: what it   *)
(* has no lease for begins at zero whatever the ledger bills.              *)
Restart ==
  Reopened(
    [a \in Account |-> IF \E d \in leaseFile : AccountOf[d] = a
                       THEN Totals(file, a, today) ELSE 0],
    [d \in Device |-> IF d \in leaseFile THEN EgressLaneTotals(file, d, today) ELSE 0])

Next ==
  \/ \E l \in Loop :
       \/ \E f \in Flow, n \in Size : Route(l, f, n)
       \/ Admit(l) \/ Write(l) \/ WriteFails(l) \/ Inc(l) \/ Add(l)
  \/ \E d \in Device : Acquire(d) \/ AcquireFails(d)
  \/ \E a \in Account, t \in Tier : SetTier(a, t)
  \/ Save \/ Midnight \/ Restart

Spec == Init /\ [][Next]_vars

-----------------------------------------------------------------------------
(* Properties.                                                             *)

\* the data loops that stand in one of `phases`, and their packets' bytes
At(phases) == {l \in Loop : pc[l] \in phases}

InFlight(loops) == Bytes([l \in loops |-> pkt[l].size], loops)

\* the loops with a packet that an account, a device, its egress lane pays for
OfAccount(loops, a) == {l \in loops : Payer(l) = a}
OfDevice(loops, d) == {l \in loops : pkt[l].payer = d}
OfLane(loops, d) == {l \in loops : pkt[l].payer = d /\ pkt[l].exit # NoDevice}

(* Each forwarded byte is billed at most once, to the device it is         *)
(* attributed to, and exactly once while the server is not restarted:      *)
(* nothing is booked twice however loops, saves and midnights interleave,  *)
(* and a restart loses bytes but never invents any.                        *)
BilledOnce ==
  \A d \in Device :
    LET billed == Bytes(ledger, {b \in Bucket : b[1] = d})
        pending == InFlight(OfDevice(At({"written", "counted"}), d)) IN
    /\ billed + pending <= sent[d]
    /\ restarts = 0 => billed + pending = sent[d]

(* The quota never holds against an account, or a device's egress lane, a  *)
(* byte the ledger does not bill for the same day (or is about to): not    *)
(* one of yesterday, and not one counted before a restart lost it.         *)
QuotaWithinLedger ==
  qday = today =>
    /\ \A a \in Account :
         acctBy[a] <= Totals(ledger, a, today) + InFlight(OfAccount(At({"counted"}), a))
    /\ \A d \in Device :
         egressBy[d] <= EgressLaneTotals(ledger, d, today) + InFlight(OfLane(At({"counted"}), d))

\* the most the other data loops can have in flight past their admit
Slack == (Cardinality(Loop) - 1) * Max(Size)

(* How far check-then-act lets an account pass its limit: when a packet is *)
(* admitted, what is counted and what is admitted but not yet counted stay *)
(* within the limit and one packet of each other data loop, in both lanes. *)
OverrunBound ==
  [][\A l \in Loop : (pc[l] = "routed" /\ pc'[l] = "admitted") =>
       LET t == tier[Payer(l)]
           ahead == At({"admitted", "written"}) IN
       /\ BytesPerDay[t] > 0 =>
            acctBy'[Payer(l)] + pkt[l].size + InFlight(OfAccount(ahead, Payer(l)))
              <= BytesPerDay[t] + Slack
       /\ (pkt[l].exit # NoDevice /\ EgressBytesPerDay[t] > 0) =>
            egressBy'[pkt[l].payer] + pkt[l].size + InFlight(OfLane(ahead, pkt[l].payer))
              <= EgressBytesPerDay[t] + Slack]_vars

\* each loop may hold a packet counted before midnight and booked after
Carried == IF today = 0 THEN 0 ELSE Cardinality(Loop) * Max(Size)

(* What the ledger bills an account that stays on a limited tier for a     *)
(* day is within one allowance - its limit and the overrun above - and     *)
(* what was carried over from the day before, restarts included: the       *)
(* counters go on from the ledger's file. One allowance more comes with    *)
(* each restart of the day that finds bytes of the account in the ledger   *)
(* but no lease of its devices on disk, because their saves failed.        *)
BilledWithinLimit ==
  \A a \in Account \ switched :
    BytesPerDay[tier[a]] > 0 =>
      Totals(ledger, a, today) <= (1 + again[a]) * (BytesPerDay[tier[a]] + Slack) + Carried

(* "Hard limit: over it, sending is refused": no account on one limited    *)
(* tier has more counted for the day than its limit.                       *)
HardLimit ==
  \A a \in Account \ switched :
    BytesPerDay[tier[a]] > 0 => acctBy[a] <= BytesPerDay[tier[a]]
=============================================================================
