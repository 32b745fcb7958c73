------------------------- MODULE StemcellPublication -------------------------
(***************************************************************************)
(* What a run of the light stemcell builder promises, without publishers,  *)
(* goroutines or collections: AMIs come into being one by one, a copy      *)
(* after its source, and either the run fails or, once all of them exist,  *)
(* a catalog naming one AMI of each region is published, as a whole.       *)
(***************************************************************************)
CONSTANTS
  Amis,       \* the AMIs the configuration asks for
  RegionOf,   \* the region of each
  SourceOf    \* the AMI it is copied from; a source AMI is its own

Regions == {RegionOf[a] : a \in Amis}

VARIABLES
  built,      \* the AMIs that exist
  outcome,    \* "pending", "published" or "failed"
  catalog     \* the published mapping from regions to AMIs

Init ==
  /\ built = {}
  /\ outcome = "pending"
  /\ catalog = [r \in {} |-> {}]

Build ==
  /\ outcome = "pending"
  /\ \E a \in Amis :
       /\ SourceOf[a] \in built \cup {a}
       /\ built' = built \cup {a}
  /\ UNCHANGED <<outcome, catalog>>

Publish ==
  /\ outcome = "pending"
  /\ built = Amis
  /\ outcome' = "published"
  /\ catalog' \in {f \in [Regions -> Amis] : \A r \in Regions : RegionOf[f[r]] = r}
  /\ UNCHANGED built

Fail ==
  /\ outcome = "pending"
  /\ outcome' = "failed"
  /\ UNCHANGED <<built, catalog>>

Next == Build \/ Publish \/ Fail

Spec == Init /\ [][Next]_<<built, outcome, catalog>>
=============================================================================
