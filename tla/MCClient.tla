----------------------------- MODULE MCClient ------------------------------
(* Values of Client's constants: machines that differ in what bears upon  *)
(* the cleanup: system, exit or not, the routes, what was there before,   *)
(* and whether the device has a given name.                               *)
EXTENDS Client

CONSTANTS r1, r2

Machine(os, ops, egress, foreign, named) ==
  [os |-> os, ops |-> ops, egress |-> egress, foreign |-> foreign, named |-> named]

Both == {"keep", "capture"}

MCConfig == {
  Machine("linux", Both, TRUE, "none", TRUE),
  Machine("linux", Both, FALSE, "beside", FALSE),
  Machine("windows", Both, FALSE, "same", TRUE)}

\* what "only the added ones are removed" is about
MCConfigBeside == {
  Machine("linux", Both, FALSE, "same", TRUE),
  Machine("windows", Both, FALSE, "beside", TRUE)}

\* one machine, without an exit, for the fate of a signal
MCConfigPlain == {Machine("windows", {}, FALSE, "none", TRUE)}
=============================================================================
