------------------------------ MODULE Publisher ------------------------------
(***************************************************************************)
(* What the two publishers of publisher/ have in common: one Publish()     *)
(* call per entry of the configuration's ami_regions, run by a goroutine   *)
(* of main.go.  Each call uploads a machine image, turns it into a         *)
(* snapshot and the snapshot into an AMI, and deletes the image again when *)
(* it returns, by a deferred call.  StandardRegionPublisher and            *)
(* IsolatedRegionPublisher add the steps that are their own.               *)
(*                                                                         *)
(* A call of a driver is one step with every outcome the driver has: it    *)
(* succeeds, it fails and nothing is left behind, or it fails after AWS    *)
(* did the work, so that what it created stays without anybody holding a   *)
(* handle to it.  The driver modules open that step.                       *)
(***************************************************************************)
EXTENDS Naturals, Sequences, FiniteSets

CONSTANTS
  Standard,   \* the ami_regions entries published by a StandardRegionPublisher
  Isolated,   \* those published by an IsolatedRegionPublisher
  Home,       \* the region an entry names
  Malformed   \* may AWS leave out what a driver indexes or dereferences?

Publishers == Standard \cup Isolated

(* config.AmiRegion.IsolatedRegion is a function of the region's name, so   *)
(* no region is both; validate refuses an empty ami_regions.               *)
ASSUME PublishersAssumption ==
  /\ Publishers # {}
  /\ Standard \cap Isolated = {}
  /\ DOMAIN Home = Publishers
  /\ \A p \in Standard, q \in Isolated : Home[p] # Home[q]
  /\ Malformed \in BOOLEAN

VARIABLES
  pc,         \* where the Publish() call of each entry is
  err,        \* the error it returns, or that a panic unwinds it
  image,      \* the machine image it keeps in S3
  amis,       \* the collection.Ami it builds
  registered  \* the AMIs AWS has registered, by the names of their makers

publisherVars == <<pc, err, image, amis, registered>>

Stages == {"image", "alias", "volume", "snapshot", "ami", "copying",
           "cleanup", "returned"}

(* AMIs are named after whoever has them made: the entry for the source    *)
(* AMI, the copy goroutine for a copy.                                     *)
SourceAmi(p) == [id |-> p, region |-> Home[p], virt |-> "hvm"]

PublisherInit ==
  /\ pc = [p \in Publishers |-> "image"]
  /\ err = [p \in Publishers |-> "nil"]
  /\ image = [p \in Publishers |-> "none"]
  /\ amis = [p \in Publishers |-> <<>>]
  /\ registered = {}

(* Leaving the body of Publish(): the deferred calls come next. *)
Leave(p, e) ==
  /\ pc' = [pc EXCEPT ![p] = "cleanup"]
  /\ err' = [err EXCEPT ![p] = e]

Proceed(p, stage) ==
  /\ pc' = [pc EXCEPT ![p] = stage]
  /\ UNCHANGED err

(* The delete is deferred only after a successful create: an image that    *)
(* was uploaded by a create that then failed (no URL could be presigned)   *)
(* is abandoned.                                                           *)
CreateMachineImage(p, next) ==
  /\ pc[p] = "image"
  /\ \/ /\ image' = [image EXCEPT ![p] = "live"]
        /\ Proceed(p, next)
     \/ /\ \E left \in {"none", "abandoned"} :
             image' = [image EXCEPT ![p] = left]
        /\ pc' = [pc EXCEPT ![p] = "returned"]
        /\ err' = [err EXCEPT ![p] = "error"]
  /\ UNCHANGED <<amis, registered>>

(* A stage of which only success or failure matters to the publisher. *)
CallDriver(p, stage, next) ==
  /\ pc[p] = stage
  /\ Proceed(p, next) \/ Leave(p, "error")
  /\ UNCHANGED <<image, amis, registered>>

(* A nil pointer or an empty list that a driver indexes unwinds the        *)
(* publisher's goroutine; its deferred calls still run.                    *)
PanicAt(p, stage) ==
  /\ Malformed
  /\ pc[p] = stage
  /\ Leave(p, "panic")
  /\ UNCHANGED <<image, amis, registered>>

(* RegisterImage may have been called when the create fails. *)
FailCreateAmi(p) ==
  /\ pc[p] = "ami"
  /\ Leave(p, "error")
  /\ \E made \in {{}, {p}} : registered' = registered \cup made
  /\ UNCHANGED <<image, amis>>

RegisterSourceAmi(p) ==
  /\ pc[p] = "ami"
  /\ registered' = registered \cup {p}
  /\ amis' = [amis EXCEPT ![p] = Append(@, SourceAmi(p))]
  /\ UNCHANGED image

(* The deferred delete; a failure of it is only logged. *)
DeleteMachineImage(p) ==
  /\ pc[p] = "cleanup"
  /\ \E left \in {"deleted", "kept"} : image' = [image EXCEPT ![p] = left]
  /\ pc' = [pc EXCEPT ![p] = "returned"]
  /\ UNCHANGED <<err, amis, registered>>
=============================================================================
