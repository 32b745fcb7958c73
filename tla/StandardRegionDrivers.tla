------------------------ MODULE StandardRegionDrivers ------------------------
(***************************************************************************)
(* The drivers of a standard region as publisher/standard_region.go calls  *)
(* them, with EC2 and S3 at work at the same time: the machine image, the  *)
(* KMS alias, the snapshot, the source AMI, a copy of it, and the deferred *)
(* deletion of the machine image.  One copy destination stands for all,    *)
(* which have nothing in common but the source AMI.                        *)
(***************************************************************************)
EXTENDS DriverRequest

VARIABLES
  imagePc, objects, urls, expired, nextUrl, created, deleted,
  alias, key,   \* what the KMS driver returned: the alias, the replica's key
  importPc, importPolls, imported, importTask, snapshot,
  sourcePc, sourceNext, sourceResult, sourceImage, sourceGrants, snapshotGrants,
  copyPc, copyNext, copyResult, copyImage, copyGrants, copySnapshotGrants,
  copyListed, copyPolls,
  copyDone      \* has the copy's goroutine called procGroup.Done()?

imageVars == <<imagePc, objects, urls, expired, nextUrl, created, deleted>>
kmsVars == <<alias, key>>
importVars == <<importPc, importPolls, imported, importTask, snapshot>>
sourceVars == <<sourcePc, sourceNext, sourceResult, sourceImage, sourceGrants>>
copyVars == <<copyPc, copyNext, copyResult, copyImage, copyGrants, copySnapshotGrants,
              copyListed, copyPolls, copyDone>>
vars == <<config, imageVars, kmsVars, importVars, sourceVars, snapshotGrants, copyVars>>

Image == INSTANCE MachineImageDrivers WITH
  Kind <- "standard", pc <- imagePc, next <- nextUrl

Import == INSTANCE SnapshotFromImageDriver WITH
  pc <- importPc, attempts <- importPolls, result <- imported, task <- importTask

Source == INSTANCE CreateAmiDriver WITH
  pc <- sourcePc, next <- sourceNext, result <- sourceResult, image <- sourceImage,
  imageGrants <- sourceGrants

Copy == INSTANCE CopyAmiDriver WITH
  pc <- copyPc, next <- copyNext, result <- copyResult, image <- copyImage,
  imageGrants <- copyGrants, snapshotGrants <- copySnapshotGrants,
  listed <- copyListed, polls <- copyPolls

Init ==
  /\ config \in Configs
  /\ alias = "none" /\ key = "none"
  /\ copyDone = FALSE
  /\ Image!Init /\ Import!Init /\ Source!Init /\ Copy!Init

-----------------------------------------------------------------------------
(* Publish(): the next call is made when the one before returned no error. *)

ImageStep ==
  /\ Image!Create
  /\ UNCHANGED <<config, kmsVars, importVars, sourceVars, snapshotGrants, copyVars>>

CreateAlias ==
  /\ created = "ok" /\ alias = "none"
  /\ alias' \in {"ok", "error"}
  /\ UNCHANGED <<config, imageVars, key, importVars, sourceVars, snapshotGrants, copyVars>>

ImportStep ==
  /\ alias = "ok"
  /\ Import!Create
  /\ UNCHANGED <<config, imageVars, kmsVars, sourceVars, copyVars>>

SourceStep ==
  /\ imported = "ok"
  /\ Source!Create
  /\ UNCHANGED <<config, imageVars, kmsVars, importVars, copyVars>>

BadReplicateKey ==
  /\ sourceImage # "none" /\ key = "none"
  /\ key' \in {"ok", "error"}
  /\ UNCHANGED <<config, imageVars, alias, importVars, sourceVars, snapshotGrants, copyVars>>

ReplicateKey ==
  /\ sourceResult = "ok" /\ key = "none"
  /\ key' \in {"ok", "error"}
  /\ UNCHANGED <<config, imageVars, alias, importVars, sourceVars, snapshotGrants, copyVars>>

CopyStep ==
  /\ key = "ok"
  /\ Copy!Create
  /\ UNCHANGED <<config, imageVars, kmsVars, importVars, sourceVars, snapshotGrants, copyDone>>

(* What the copy's goroutine came to: replicating the key or copying the   *)
(* AMI ended it.                                                           *)
CopyEnded == key = "error" \/ copyResult # "none"

CopyDone ==
  /\ CopyEnded /\ ~copyDone
  /\ copyDone' = TRUE
  /\ UNCHANGED <<config, imageVars, kmsVars, importVars, sourceVars, snapshotGrants,
                 copyPc, copyNext, copyResult, copyImage, copyGrants,
                 copySnapshotGrants, copyListed, copyPolls>>

SourceEnded == \E r \in {alias, imported, sourceResult} : r \in {"error", "panic"}

BadLeaving == TRUE
BadForgottenWait == SourceEnded \/ sourceResult = "ok"

(* Publish() returns, or panics: a call of its own did, or the wait for    *)
(* the copy is over.                                                       *)
Leaving == SourceEnded \/ copyDone

DeferredDelete ==
  /\ (Leaving /\ Image!StartDelete) \/ Image!Delete
  /\ UNCHANGED <<config, kmsVars, importVars, sourceVars, snapshotGrants, copyVars>>

Publish ==
  \/ ImageStep \/ CreateAlias \/ ImportStep \/ SourceStep
  \/ ReplicateKey \/ CopyStep \/ CopyDone
  \/ DeferredDelete

-----------------------------------------------------------------------------
(* What happens meanwhile *)

Meanwhile ==
  \/ /\ Image!Expire
     /\ UNCHANGED <<config, kmsVars, importVars, sourceVars, snapshotGrants, copyVars>>
  \/ /\ Import!Work
     /\ UNCHANGED <<config, imageVars, kmsVars, sourceVars, copyVars>>
  \/ /\ Source!Settle
     /\ UNCHANGED <<config, imageVars, kmsVars, importVars, copyVars>>
  \/ /\ Copy!Settled \/ Copy!ListSnapshot
     /\ UNCHANGED <<config, imageVars, kmsVars, importVars, sourceVars, snapshotGrants, copyDone>>

Returned == imagePc = "returned" /\ UNCHANGED vars

Next == Publish \/ Meanwhile \/ Returned

Spec == Init /\ [][Next]_vars

(* Every request returns and the time between polls passes; AWS need not   *)
(* ever finish what it works on.                                           *)
FairSpec == Spec /\ WF_vars(Publish)

-----------------------------------------------------------------------------
(* What StandardRegionPublisher sees of this: one entry with one copy,     *)
(* whose calls take effect when they return.                               *)
Home == [p \in {"entry"} |-> "home"]
Owner == [c \in {"copy"} |-> "entry"]
Dest == [c \in {"copy"} |-> "destination"]

CopyFailed == key = "error" \/ copyResult = "error"

Stage ==
  CASE imagePc = "returned" -> "returned"
    [] created = "none" -> "image"
    [] created = "ok" /\ alias = "none" -> "alias"
    [] alias = "ok" /\ imported = "none" -> "snapshot"
    [] imported = "ok" /\ sourceResult = "none" -> "ami"
    [] sourceResult = "ok" /\ imagePc = "use" -> "copying"
    [] OTHER -> "cleanup"

Outcome ==
  CASE imported = "panic" -> "panic"
    [] "error" \in {created, alias, imported, sourceResult} -> "error"
    [] imagePc \in {"delete", "returned"} /\ CopyFailed -> "error"
    [] OTHER -> "nil"

SourceAmi == [id |-> "entry", region |-> "home", virt |-> "hvm"]
CopiedAmi == [id |-> "copy", region |-> "destination", virt |-> ""]

ReturnedAmis ==
  (IF sourceResult = "ok" THEN <<SourceAmi>> ELSE <<>>) \o
  (IF copyResult = "ok" THEN <<CopiedAmi>> ELSE <<>>)

Registered ==
  {x \in {"entry"} : sourceResult # "none" /\ sourceImage # "none"} \cup
  {x \in {"copy"} : copyResult # "none" /\ copyImage # "none"}

CopyStage ==
  CASE sourceResult # "ok" -> "idle"
    [] sourceResult = "ok" /\ key = "none" -> "replicate"
    [] key = "ok" /\ copyResult = "none" -> "copy"
    [] copyResult = "panic" -> IF copyDone THEN "panicked" ELSE "panicking"
    [] OTHER -> IF copyDone THEN "done" ELSE "leaving"

Publisher == INSTANCE StandardRegionPublisher WITH
  Standard <- {"entry"}, Isolated <- {}, Copies <- {"copy"},
  pc <- [p \in {"entry"} |-> Stage],
  err <- [p \in {"entry"} |-> Outcome],
  image <- [p \in {"entry"} |-> Image!Kept],
  amis <- [p \in {"entry"} |-> ReturnedAmis],
  registered <- Registered,
  copyPc <- [c \in {"copy"} |-> CopyStage],
  errCol <- [p \in {"entry"} |-> {c \in {"copy"} : CopyFailed}]

-----------------------------------------------------------------------------
(* The type invariant of the four drivers and their publisher. *)
TypeOK ==
  /\ config \in Configs
  /\ alias \in {"none", "ok", "error"} /\ key \in {"none", "ok", "error"}
  /\ copyDone \in BOOLEAN
  /\ Image!TypeOK /\ Import!TypeOK /\ Source!TypeOK /\ Copy!TypeOK

(* A snapshot that was returned is complete, and public when and only when *)
(* the stemcell is; also when a poll took an empty answer for the end of   *)
(* the task (snapshot_from_image_driver.go:83-105).                        *)
OkMeansImported ==
  imported = "ok" =>
    /\ importTask = "completed" /\ snapshot = "complete"
    /\ "all" \in snapshotGrants <=> Public

(* A source AMI or a copy that was returned is available and open to every *)
(* configured account together with its snapshot.  A copy is open to       *)
(* everybody exactly when the stemcell is public, and then its snapshot is *)
(* as well, unless it is encrypted (create_ami_driver.go:110-144,          *)
(* copy_ami_driver.go:74-225).  What may not be open is said by            *)
(* NobodyElseMayUse and PrivateStaysPrivate.                               *)
OkMeansConfigured ==
  /\ Source!SharedWhenOk /\ Copy!SharedWhenOk
  /\ copyResult = "ok" =>
       /\ "all" \in copyGrants <=> Public
       /\ Public /\ ~config.encrypted => "all" \in copySnapshotGrants

(* At no moment, failed or not, may anybody but the configured accounts,   *)
(* or everybody for a public stemcell, use the source AMI, its snapshot or *)
(* the copy, nor everybody the snapshot of an encrypted copy               *)
(* (snapshot_from_image_driver.go:90, create_ami_driver.go:146,            *)
(* copy_ami_driver.go:119, 208-210).                                       *)
NobodyElseMayUse ==
  /\ sourceGrants \cup snapshotGrants \cup copyGrants \subseteq Entitled
  /\ config.encrypted => "all" \notin copySnapshotGrants

(* No AMI is public before it is available: whoever sees a public stemcell *)
(* can launch it (create_ami_driver.go:137-156, copy_ami_driver.go:74-132).*)
PublicMeansAvailable == Source!AvailableWhenPublic /\ Copy!AvailableWhenPublic

(* A configured account that was given a snapshot was given its AMI        *)
(* before, so that a loop or a driver that stops half-way leaves no such   *)
(* account with the disk alone (create_ami_driver.go:110-135,              *)
(* copy_ami_driver.go:104-206).  Everybody is the exception: a public      *)
(* stemcell's snapshot is open before its AMI is registered, which may     *)
(* fail (snapshot_from_image_driver.go:90), and the snapshot of an         *)
(* unencrypted copy is even when the AMI is private                        *)
(* (copy_ami_driver.go:208-221).                                           *)
SnapshotFollowsImage == Source!ImageBeforeSnapshot /\ Copy!ImageBeforeSnapshot

(* As long as the publisher waits for the import, and whatever has expired *)
(* by then, the machine image is in the bucket; it is taken from an import *)
(* that is still under way only after the snapshot driver gave that up     *)
(* with an error (snapshot_from_image_driver.go:70-81,                     *)
(* standard_region.go:65-96).                                              *)
ImageStaysForImport ==
  /\ importPc \in {"poll", "describe"} => "image" \in objects
  /\ importTask = "active" /\ "image" \notin objects => imported \in {"error", "panic"}

(* When the publisher has returned, the machine image is still in the      *)
(* bucket only if its upload or its deletion reported an error             *)
(* (create_machine_image_driver.go:75-101, delete_machine_image_driver.go: *)
(* 42-59, standard_region.go:65-70).                                       *)
LeftoversAreReported ==
  imagePc = "returned" /\ objects # {} => "error" \in {created, deleted}

(* A copy is only requested of a source AMI that is available and was made *)
(* of a complete snapshot (standard_region.go:103-150).                    *)
CopyOfFinished ==
  copyImage # "none" =>
    sourceImage = "available" /\ importTask = "completed" /\ Shared \subseteq sourceGrants

(* Publish() returns, even when EC2 never finishes the import, never has   *)
(* an image available or never lists the snapshot of the copy.             *)
Returns == <>(imagePc = "returned")

(* To the publisher every call of a driver is a single step with one of    *)
(* the outcomes that StandardRegionPublisher lists, and in its order       *)
(* (standard_region.go:47-157).                                            *)
ImplementsPublisher ==
  /\ Publisher!PublisherInit /\ Publisher!CopyInit
  /\ [][Publisher!StandardStep("entry") \/ Publisher!CopyStep("copy")]_
       <<Publisher!publisherVars, Publisher!copyVars>>

(* What config.go:59 says of the visibility, and create_ami_driver_test.go *)
(* expects: the AMI of a public stemcell is public.                        *)
OkMeansPublic == sourceResult = "ok" /\ Public => "all" \in sourceGrants

(* config.go:59: the visibility makes a stemcell public or private.        *)
PrivateStaysPrivate == ~Public => "all" \notin snapshotGrants \cup copySnapshotGrants
=============================================================================
