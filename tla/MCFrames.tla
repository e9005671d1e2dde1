----------------------------- MODULE MCFrames ------------------------------
(* Values of Frames' constants: two clients of one network.                *)
EXTENDS Frames

CONSTANTS a, b
=============================================================================
