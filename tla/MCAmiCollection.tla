--------------------------- MODULE MCAmiCollection ---------------------------
(* Two goroutines that merge and one that adds, with a reader. *)
EXTENDS AmiCollection, TLC

CONSTANTS g1, g2, g3, r1, a1, a2, a3, a4

Merges == g1 :> <<a1, a2>> @@ g2 :> <<a3>> @@ g3 :> <<a4>>
=============================================================================
