----------------------- MODULE MCStandardRegionDrivers -----------------------
(* No account, one, and two accounts to share with. *)
EXTENDS StandardRegionDrivers

CONSTANTS a1, a2

Lists == {<<>>, <<a1>>, <<a1, a2>>}
=============================================================================
