------------------------------ MODULE MCLeases ------------------------------
(* Values of Leases' constants: a subnet of two hosts, a network of three  *)
(* devices, which exhausts it, and one of a single device.                 *)
EXTENDS Leases, TLC

CONSTANTS d1, d2, d3, d4, n1, n2

MCNetOf == (d1 :> n1) @@ (d2 :> n1) @@ (d3 :> n1) @@ (d4 :> n2)
=============================================================================
