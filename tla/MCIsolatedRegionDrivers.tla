----------------------- MODULE MCIsolatedRegionDrivers -----------------------
(* The isolated region's publisher passes no accounts on. *)
EXTENDS IsolatedRegionDrivers

Lists == {<<>>}
=============================================================================
