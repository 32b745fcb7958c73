------------------------- MODULE MCMachineImageUpload -------------------------
(* Two workers and four parts: the channel of two can be full. *)
EXTENDS MachineImageUpload

CONSTANTS w1, w2
=============================================================================
