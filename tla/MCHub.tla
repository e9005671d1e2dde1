------------------------------- MODULE MCHub -------------------------------
(* Values of Hub's constants: two devices of one account, and a device of  *)
(* another account that holds the same virtual address as the first.       *)
EXTENDS Hub, TLC

CONSTANTS c1, c2, c3, d1, d2, d3, acc1, acc2, ip1, ip2

MCAccountOf == (d1 :> acc1) @@ (d2 :> acc1) @@ (d3 :> acc2)
MCAddrOf == (d1 :> ip1) @@ (d2 :> ip2) @@ (d3 :> ip1)

\* the runs with two devices leave the other account out
MCAccountOf2 == (d1 :> acc1) @@ (d2 :> acc1)
MCAddrOf2 == (d1 :> ip1) @@ (d2 :> ip2)

Symmetry == Permutations(Conn)
=============================================================================
