----------------------------- MODULE MCMetering -----------------------------
(* Values of Metering's constants: one account of two devices, a limited   *)
(* and an unlimited tier, and encapsulated packets between the two, which  *)
(* the Egress flags attribute to either lane and to either device.         *)
EXTENDS Metering, TLC

CONSTANTS l1, l2, d1, d2, acc, free, unlimited

MCAccountOf == (d1 :> acc) @@ (d2 :> acc)
MCBytesPerDay == (free :> 1) @@ (unlimited :> 0)
MCEgressBytesPerDay == (free :> 1) @@ (unlimited :> 0)
MCStartTier == (acc :> free)
MCFlow == {[src |-> d1, dst |-> d2, proxied |-> TRUE]}

Symmetry == Permutations(Loop)
=============================================================================
