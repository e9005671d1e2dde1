----------------------------- MODULE MCEgress ------------------------------
(* Values of Egress' constants: an exit and a client in global mode that   *)
(* has a rule.                                                             *)
EXTENDS Egress, TLC

CONSTANTS x, g, x1, x2, g1, r1, r2

MCDeviceOf == (x1 :> x) @@ (x2 :> x) @@ (g1 :> g)
MCVia == (x :> {}) @@ (g :> {x})
MCHostOf == (x :> "a") @@ (g :> "b")
Symmetry == Permutations({x1, x2}) \cup Permutations({r1, r2})
=============================================================================
