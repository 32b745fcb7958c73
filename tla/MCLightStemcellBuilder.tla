----------------------- MODULE MCLightStemcellBuilder -----------------------
(* Instances of LightStemcellBuilder for TLC. *)
EXTENDS LightStemcellBuilderInvariant, TLC

CONSTANTS p1, p2, q1, c1, c2

(* Every region is named once. *)
DistinctHome == p1 :> "us-east-1" @@ q1 :> "cn-north-1"
OneHome == p1 :> "us-east-1"
CopyOwner == c1 :> p1 @@ c2 :> p1
DistinctDest == c1 :> "us-west-1" @@ c2 :> "us-west-2"

(* Both destinations of one entry are the home of another, beside an       *)
(* isolated region: validate accepts it.                                   *)
CollidingHome == p1 :> "us-east-1" @@ p2 :> "us-west-1" @@ q1 :> "cn-north-1"
CollidingDest == c1 :> "us-west-1" @@ c2 :> "us-west-1"
=============================================================================
