----------------------- MODULE IsolatedRegionPublisher -----------------------
(***************************************************************************)
(* publisher/isolated_region.go: in an isolated region the machine image   *)
(* is first imported into a volume, the snapshot is taken of the volume,   *)
(* and nothing is copied anywhere.  Both the volume and the image are      *)
(* deleted by deferred calls, the volume first.                            *)
(***************************************************************************)
EXTENDS Publisher

VARIABLE volume   \* the volume each entry keeps in EC2

VolumeInit == volume = [p \in Isolated |-> "none"]

(* A create that fails after the import, or panics, may leave a volume     *)
(* that nobody holds.                                                      *)
CreateVolume(p) ==
  /\ pc[p] = "volume"
  /\ \/ /\ volume' = [volume EXCEPT ![p] = "live"]
        /\ Proceed(p, "snapshot")
     \/ /\ \E left \in {"none", "abandoned"} :
             volume' = [volume EXCEPT ![p] = left]
        /\ Leave(p, "error") \/ (Malformed /\ Leave(p, "panic"))
  /\ UNCHANGED <<image, amis, registered>>

CreateIsolatedSnapshot(p) ==
  /\ CallDriver(p, "snapshot", "ami") \/ PanicAt(p, "snapshot")
  /\ UNCHANGED volume

CreateIsolatedAmi(p) ==
  /\ RegisterSourceAmi(p)
  /\ Leave(p, "nil")
  /\ UNCHANGED volume

DeleteVolume(p) ==
  /\ pc[p] = "cleanup"
  /\ volume[p] = "live"
  /\ \E left \in {"deleted", "kept"} : volume' = [volume EXCEPT ![p] = left]
  /\ UNCHANGED publisherVars

(* Deferred calls run last in, first out. *)
VolumeReleased(p) == volume[p] # "live"

DeleteImageAfterVolume(p) ==
  /\ VolumeReleased(p)
  /\ DeleteMachineImage(p)
  /\ UNCHANGED volume

IsolatedStep(p) ==
  \/ CreateMachineImage(p, "volume") /\ UNCHANGED volume
  \/ CreateVolume(p)
  \/ CreateIsolatedSnapshot(p)
  \/ FailCreateAmi(p) /\ UNCHANGED volume
  \/ CreateIsolatedAmi(p)
  \/ DeleteVolume(p)
  \/ DeleteImageAfterVolume(p)
=============================================================================
