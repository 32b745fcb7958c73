----------------------------- MODULE MCKmsDriver -----------------------------
(* Two entries of one region, whose copies go to the same destination.     *)
EXTENDS KmsDriver, TLC

CONSTANTS p1, p2, c1, c2, east, west

Sources == p1 :> east @@ p2 :> east @@ c1 :> east @@ c2 :> east
Targets == p1 :> east @@ p2 :> east @@ c1 :> west @@ c2 :> west
=============================================================================
