------------------------ MODULE IsolatedRegionDrivers ------------------------
(***************************************************************************)
(* The drivers of an isolated region as publisher/isolated_region.go calls *)
(* them, with EC2 and S3 at work at the same time: the machine image and   *)
(* its manifest, the volume that driver/create_volume_driver.go imports,   *)
(* the snapshot that snapshot_from_volume_driver.go takes of it, the AMI,  *)
(* and the deferred deletions of volume (delete_volume_driver.go) and      *)
(* machine image.                                                          *)
(***************************************************************************)
EXTENDS DriverRequest

VARIABLES
  imagePc, objects, urls, expired, nextUrl, created, deleted,
  pc,               \* where the drivers of volume and snapshot are
  attempts,         \* the polls of the conversion task that are over
  handle,           \* what the volume driver returned
  result,           \* what the snapshot driver returned
  volumeDeleted,    \* what the deferred deletion of the volume returned
  task,             \* the conversion task, as EC2 sees it
  volume,           \* the volume it makes
  snapshot,         \* the snapshot of the volume
  snapshotGrants,   \* who may make volumes of the snapshot
  amiPc, amiNext, amiResult, ami, amiGrants

imageVars == <<imagePc, objects, urls, expired, nextUrl, created, deleted>>
callVars == <<pc, attempts, handle, result, volumeDeleted>>
volumeVars == <<callVars, task, volume, snapshot>>
amiVars == <<amiPc, amiNext, amiResult, ami, amiGrants>>
vars == <<config, imageVars, volumeVars, snapshotGrants, amiVars>>

Image == INSTANCE MachineImageDrivers WITH
  Kind <- "isolated", pc <- imagePc, next <- nextUrl

Ami == INSTANCE CreateAmiDriver WITH
  pc <- amiPc, next <- amiNext, result <- amiResult, image <- ami, imageGrants <- amiGrants

(* NewIsolatedRegionPublisher passes neither accounts nor encryption on.   *)
Init ==
  /\ config \in Configs /\ config.shared = <<>> /\ ~config.encrypted
  /\ Image!Init /\ Ami!Init
  /\ pc = "zone"
  /\ attempts = 0
  /\ handle = "none" /\ result = "none" /\ volumeDeleted = "none"
  /\ task = "none" /\ volume = "none" /\ snapshot = "none"
  /\ snapshotGrants = {}

(* What EC2 does by itself: a task is completed or cancelled, a volume     *)
(* becomes available or breaks, a snapshot is finished or fails.           *)
Convert ==
  /\ task = "active"
  /\ \/ task' = "completed" /\ volume' = "creating"
     \/ task' = "cancelled" /\ UNCHANGED volume
  /\ UNCHANGED <<callVars, snapshot, snapshotGrants>>

SettleVolume ==
  /\ volume = "creating"
  /\ volume' \in {"available", "broken"}
  /\ UNCHANGED <<callVars, task, snapshot, snapshotGrants>>

SettleSnapshot ==
  /\ snapshot = "pending"
  /\ snapshot' \in {"completed", "failed"}
  /\ UNCHANGED <<callVars, task, volume, snapshotGrants>>

-----------------------------------------------------------------------------
(* SDKCreateVolumeDriver.Create() *)

Goto(step) == pc' = step /\ UNCHANGED <<attempts, handle, result, volumeDeleted>>

NoVolume(r) ==
  pc' = "returned" /\ handle' = r /\ UNCHANGED <<attempts, result, volumeDeleted>>

NothingNew == UNCHANGED <<task, volume, snapshot, snapshotGrants>>

(* DescribeAvailabilityZones may fail or name none. *)
FindZone ==
  /\ pc = "zone"
  /\ Goto("fetch") \/ NoVolume("error")
  /\ NothingNew

(* The manifest is fetched by its presigned URL and parsed. *)
FetchManifest ==
  /\ pc = "fetch"
  /\ Goto("import") \/ NoVolume("error")
  /\ NothingNew

(* An error, or an answer without a task id, may hide a task; in an answer *)
(* without any task a nil pointer is followed.                             *)
ImportVolume ==
  /\ pc = "import"
  /\ \/ task' = "active" /\ Goto("poll")
     \/ /\ task' \in {"none", "active"}
        /\ NoVolume("error") \/ (Malformed /\ NoVolume("panic"))
  /\ UNCHANGED <<volume, snapshot, snapshotGrants>>

Converted == task = "completed"

Sleep == attempts' = attempts + 1 /\ UNCHANGED <<pc, handle, result, volumeDeleted>>

BadPollsLeft == attempts <= MaxPolls

PollsLeft == attempts < MaxPolls

(* One round of the loop; here an empty answer is an error.  The message   *)
(* about a cancelled task follows the id of the task.                      *)
Poll ==
  /\ pc = "poll"
  /\ PollsLeft
  /\ \/ Converted /\ Goto("describe")
     \/ task = "cancelled" /\ (NoVolume("error") \/ (Malformed /\ NoVolume("panic")))
     \/ task = "active" /\ Sleep
     \/ NoVolume("error")
  /\ NothingNew

BadTimeOut ==
  /\ pc = "poll"
  /\ attempts = MaxPolls
  /\ attempts' = 0
  /\ UNCHANGED <<pc, handle, result, volumeDeleted>>
  /\ NothingNew

TimeOut ==
  /\ pc = "poll"
  /\ attempts = MaxPolls
  /\ NoVolume("error")
  /\ NothingNew

(* The first task of the answer, or an index out of range. *)
Describe ==
  /\ pc = "describe"
  /\ \/ volume # "none" /\ Goto("available")
     \/ NoVolume("error")
     \/ Malformed /\ NoVolume("panic")
  /\ NothingNew

BadVolumeReady == volume # "none"

VolumeReady == volume = "available"

WaitVolume ==
  /\ pc = "available"
  /\ \/ /\ VolumeReady
        /\ pc' = "snapshot" /\ handle' = "ok"
        /\ UNCHANGED <<attempts, result, volumeDeleted>>
     \/ NoVolume("error")
  /\ NothingNew

-----------------------------------------------------------------------------
(* SDKSnapshotFromVolumeDriver.Create(), entered with a volume *)

Answer(r) == pc' = "use" /\ result' = r /\ UNCHANGED <<attempts, handle, volumeDeleted>>

(* In an answer without an id a nil pointer is followed, after a request   *)
(* for permissions that cannot be sent without it.                         *)
CreateSnapshot ==
  /\ pc = "snapshot"
  /\ \/ snapshot' = "pending" /\ Goto("publish")
     \/ /\ snapshot' \in {"none", "pending"}
        /\ Answer("error") \/ (Malformed /\ Answer("panic"))
  /\ UNCHANGED <<task, volume, snapshotGrants>>

(* Before it is finished, and whatever the visibility. *)
MakePublic ==
  /\ pc = "publish"
  /\ \/ snapshotGrants' = {"all"} /\ Goto("wait")
     \/ snapshotGrants' \in {{}, {"all"}} /\ Answer("error")
  /\ UNCHANGED <<task, volume, snapshot>>

BadSnapshotReady == snapshot # "none"

SnapshotReady == snapshot = "completed"

WaitSnapshot ==
  /\ pc = "wait"
  /\ \/ SnapshotReady /\ Answer("ok")
     \/ Answer("error")
  /\ NothingNew

-----------------------------------------------------------------------------
(* Publish() *)

ImageStep == Image!Create /\ UNCHANGED <<config, volumeVars, snapshotGrants, amiVars>>

VolumeStep ==
  /\ created = "ok"
  /\ \/ FindZone \/ FetchManifest \/ ImportVolume \/ Poll \/ TimeOut \/ Describe
     \/ WaitVolume \/ CreateSnapshot \/ MakePublic \/ WaitSnapshot
  /\ UNCHANGED <<config, imageVars, amiVars>>

AmiStep ==
  /\ result = "ok"
  /\ Ami!Create
  /\ UNCHANGED <<config, imageVars, volumeVars>>

BadVolumeUsed == handle = "ok"

(* What the publisher wants of the volume is done, or failed. *)
VolumeUsed == result \in {"error", "panic"} \/ amiResult # "none"

BadDeleteVolume ==
  /\ handle = "ok" /\ pc # "returned"
  /\ VolumeUsed
  /\ volume' \in {volume, "deleted"} /\ volumeDeleted' = "nil"
  /\ pc' = "returned" /\ UNCHANGED <<attempts, handle, result>>
  /\ UNCHANGED <<config, imageVars, task, snapshot, snapshotGrants, amiVars>>

(* SDKDeleteVolumeDriver.Delete(), deferred by the publisher once it has a *)
(* volume; its error is logged.                                            *)
DeleteVolume ==
  /\ handle = "ok" /\ pc # "returned"
  /\ VolumeUsed
  /\ \/ volume' = "deleted" /\ volumeDeleted' = "nil"
     \/ volume' \in {volume, "deleted"} /\ volumeDeleted' = "error"
  /\ pc' = "returned" /\ UNCHANGED <<attempts, handle, result>>
  /\ UNCHANGED <<config, imageVars, task, snapshot, snapshotGrants, amiVars>>

BadImageUsed == created = "ok"

(* Deferred calls run last in, first out, so the volume goes first.        *)
ImageUsed == pc = "returned"

DeferredDelete ==
  /\ (ImageUsed /\ Image!StartDelete) \/ Image!Delete
  /\ UNCHANGED <<config, volumeVars, snapshotGrants, amiVars>>

Publish == ImageStep \/ VolumeStep \/ AmiStep \/ DeleteVolume \/ DeferredDelete

Meanwhile ==
  \/ Image!Expire /\ UNCHANGED <<config, volumeVars, snapshotGrants, amiVars>>
  \/ (Convert \/ SettleVolume \/ SettleSnapshot) /\ UNCHANGED <<config, imageVars, amiVars>>
  \/ Ami!Settle /\ UNCHANGED <<config, imageVars, volumeVars>>

Returned == imagePc = "returned" /\ UNCHANGED vars

Next == Publish \/ Meanwhile \/ Returned

Spec == Init /\ [][Next]_vars

(* Every request returns, the one for the manifest too (http.Get has no    *)
(* time limit of its own), and the time between polls passes.              *)
FairSpec == Spec /\ WF_vars(Publish)

-----------------------------------------------------------------------------
(* What IsolatedRegionPublisher sees of this: one entry, whose calls take  *)
(* effect when they return.                                                *)
Home == [p \in {"entry"} |-> "home"]

Stage ==
  CASE imagePc = "returned" -> "returned"
    [] created = "none" -> "image"
    [] created = "ok" /\ handle = "none" -> "volume"
    [] handle = "ok" /\ result = "none" -> "snapshot"
    [] result = "ok" /\ amiResult = "none" -> "ami"
    [] OTHER -> "cleanup"

Outcome ==
  CASE "panic" \in {handle, result} -> "panic"
    [] "error" \in {created, handle, result, amiResult} -> "error"
    [] OTHER -> "nil"

(* A task that was started may make a volume whenever it likes.            *)
KeptVolume ==
  CASE handle = "none" -> "none"
    [] handle \in {"error", "panic"} -> IF task = "none" THEN "none" ELSE "abandoned"
    [] handle = "ok" /\ pc # "returned" -> "live"
    [] OTHER -> IF volume = "deleted" THEN "deleted" ELSE "kept"

ReturnedAmis ==
  IF amiResult = "ok" THEN <<[id |-> "entry", region |-> "home", virt |-> "hvm"]>> ELSE <<>>

Publisher == INSTANCE IsolatedRegionPublisher WITH
  Standard <- {}, Isolated <- {"entry"},
  pc <- [p \in {"entry"} |-> Stage],
  err <- [p \in {"entry"} |-> Outcome],
  image <- [p \in {"entry"} |-> Image!Kept],
  amis <- [p \in {"entry"} |-> ReturnedAmis],
  registered <- {x \in {"entry"} : amiResult # "none" /\ ami # "none"},
  volume <- [p \in {"entry"} |-> KeptVolume]

-----------------------------------------------------------------------------
(* The type invariant. *)
TypeOK ==
  /\ config \in Configs
  /\ Image!TypeOK /\ Ami!TypeOK
  /\ pc \in {"zone", "fetch", "import", "poll", "describe", "available",
             "snapshot", "publish", "wait", "use", "returned"}
  /\ attempts \in 0 .. MaxPolls
  /\ handle \in {"none", "ok", "error", "panic"}
  /\ result \in {"none", "ok", "error", "panic"}
  /\ volumeDeleted \in {"none", "nil", "error"}
  /\ task \in {"none", "active", "completed", "cancelled"}
  /\ volume \in {"none", "creating", "available", "broken", "deleted"}
  /\ snapshot \in {"none", "pending", "completed", "failed"}

(* A snapshot is only taken of a volume that holds the whole machine       *)
(* image: the import is over and the volume available before, and it stays *)
(* until the snapshot is finished or given up.  An AMI is registered of a  *)
(* finished snapshot, and returned only when it is available               *)
(* (create_volume_driver.go:114-138, snapshot_from_volume_driver.go:68-82, *)
(* isolated_region.go:71-102).                                             *)
AmiOfWholeImage ==
  /\ snapshot # "none" => task = "completed" /\ volume \in {"available", "deleted"}
  /\ volume = "deleted" => result # "none"
  /\ ami # "none" => snapshot = "completed"
  /\ amiResult = "ok" => ami = "available"

(* A manifest in the bucket always leads to an image: it is uploaded after *)
(* the image and deleted before it, so nobody who can still fetch it is    *)
(* sent after an object that is gone.                                      *)
ManifestLeadsToImage == "manifest" \in objects => "image" \in objects

(* As long as the publisher waits for the conversion, EC2 finds the image  *)
(* and its manifest in the bucket; they are taken from a conversion that   *)
(* is still under way only after the volume driver gave it up, with an     *)
(* error or a panic (create_volume_driver.go:150-176,                      *)
(* isolated_region.go:59-74).                                              *)
ImageStaysForImport ==
  /\ pc \in {"fetch", "import", "poll", "describe"} => objects = {"image", "manifest"}
  /\ task = "active" /\ objects # {"image", "manifest"} => handle \in {"error", "panic"}

(* Nothing is left behind in silence.  When the publisher has returned, an *)
(* object is still in the bucket only if its upload or its deletion        *)
(* reported an error, and a volume, or a task that may still make one, is  *)
(* there only if the import or the deletion of the volume did: neither a   *)
(* URL that expired or was skipped nor a wait that failed passes for       *)
(* success (delete_machine_image_driver.go:42-59,                          *)
(* create_machine_image_manifest_driver.go:83-124,                         *)
(* create_volume_driver.go:114-138, isolated_region.go:52-81).             *)
LeftoversAreReported ==
  imagePc = "returned" =>
    /\ objects # {} => "error" \in {created, deleted}
    /\ task = "active" \/ volume \in {"creating", "available", "broken"} =>
         handle \in {"error", "panic"} \/ volumeDeleted = "error"

(* To the publisher every call of a driver is a single step with one of    *)
(* the outcomes that IsolatedRegionPublisher lists, and in its order       *)
(* (isolated_region.go:39-112).                                            *)
ImplementsPublisher ==
  /\ Publisher!PublisherInit /\ Publisher!VolumeInit
  /\ [][Publisher!IsolatedStep("entry")]_<<Publisher!publisherVars, [p \in {"entry"} |-> KeptVolume]>>

(* The publisher returns, even when EC2 never finishes the import. *)
Returns == <>(imagePc = "returned")
=============================================================================
