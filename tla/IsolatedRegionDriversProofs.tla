---------------------- MODULE IsolatedRegionDriversProofs ----------------------
(***************************************************************************)
(* For any configuration and poll limit: what the drivers of an isolated   *)
(* region leave in AWS, whatever they meet there, and that they are the    *)
(* calls that the publisher's model takes them for.                        *)
(***************************************************************************)
EXTENDS IsolatedRegionDrivers, TLAPS

(* The two objects: uploaded one after the other, deleted in the opposite  *)
(* order.                                                                  *)
ImageInv ==
  /\ Image!TypeOK
  /\ imagePc # "sign"
  /\ created = "none" <=> imagePc \in {"upload", "prepare", "uploadManifest"}
  /\ created = "error" => imagePc = "returned"
  /\ urls = IF created = "ok" THEN <<"manifest", "image">> ELSE <<>>
  /\ imagePc = "upload" => objects = {}
  /\ imagePc \in {"prepare", "uploadManifest"} => objects = {"image"}
  /\ imagePc = "use" => objects = {"image", "manifest"}
  /\ imagePc \notin {"delete", "returned"} => nextUrl = 1
  /\ imagePc # "returned" => deleted = "none"
  /\ imagePc = "delete" =>
       /\ nextUrl = 1 => objects = {"image", "manifest"}
       /\ nextUrl = 2 => objects = {"image"}
       /\ nextUrl = 3 => objects = {}
  /\ imagePc = "returned" /\ objects # {} => "error" \in {created, deleted}
  /\ ManifestLeadsToImage

(* Publish() makes a call only after the success of the one before, and    *)
(* deletes volume and image when nothing needs them any more.              *)
TurnInv ==
  /\ pc # "zone" => created = "ok"
  /\ amiPc # "register" => result = "ok"
  /\ created = "ok" /\ imagePc # "use" => pc = "returned"
  /\ pc = "returned" /\ handle = "ok" => VolumeUsed

(* Where the calls are, by what the ones before have returned. *)
CallsInv ==
  /\ pc \in {"zone", "fetch", "import", "poll", "describe", "available",
             "snapshot", "publish", "wait", "use", "returned"}
  /\ attempts \in 0 .. MaxPolls
  /\ handle \in {"none", "ok", "error", "panic"}
  /\ result \in {"none", "ok", "error", "panic"}
  /\ handle = "none" <=> pc \in {"zone", "fetch", "import", "poll", "describe", "available"}
  /\ handle \in {"error", "panic"} => pc = "returned"
  /\ pc \in {"snapshot", "publish", "wait"} => result = "none"
  /\ pc = "use" => result # "none"
  /\ result # "none" => handle = "ok"
  /\ pc = "returned" /\ handle = "ok" => result # "none"

(* A volume holds the whole image before a snapshot of it is begun, and    *)
(* stays until the deferred deletion.                                      *)
VolumeInv ==
  /\ volumeDeleted \in {"none", "nil", "error"}
  /\ task \in {"none", "active", "completed", "cancelled"}
  /\ volume \in {"none", "creating", "available", "broken", "deleted"}
  /\ snapshot \in {"none", "pending", "completed", "failed"}
  /\ volumeDeleted # "none" <=> pc = "returned" /\ handle = "ok"
  /\ volumeDeleted = "nil" => volume = "deleted"
  /\ volume = "deleted" => volumeDeleted # "none"
  /\ pc \in {"zone", "fetch", "import"} => task = "none"
  /\ pc \in {"poll", "describe", "available"} => task # "none"
  /\ task = "completed" <=> volume # "none"
  /\ handle = "ok" => volume \in {"available", "deleted"}
  /\ snapshot # "none" => handle = "ok"
  /\ pc = "snapshot" => snapshot = "none"
  /\ result = "ok" => snapshot = "completed"
  /\ snapshotGrants \subseteq Grantees

(* The AMI, which no loop shares with anybody.                             *)
AmiInv ==
  /\ amiPc \in {"register", "exists", "share", "available", "publish", "returned"}
  /\ amiNext = 1
  /\ amiResult \in {"none", "ok", "error"}
  /\ ami \in {"none", "pending", "available", "failed"}
  /\ amiGrants \subseteq Grantees
  /\ amiResult = "none" <=> amiPc # "returned"
  /\ amiPc = "register" => ami = "none"
  /\ amiPc = "publish" \/ amiResult = "ok" => ami = "available"

Inv ==
  /\ config \in Configs /\ config.shared = <<>>
  /\ ImageInv /\ TurnInv /\ CallsInv /\ VolumeInv /\ AmiInv

-----------------------------------------------------------------------------
(* Nothing exists and nothing was called.                                  *)
LEMMA InvInit == Init => Inv
<1> SUFFICES ASSUME Init PROVE Inv
  OBVIOUS
<1> USE DEF Init
<1>1. ImageInv
  BY DEF ImageInv, ManifestLeadsToImage, Image!TypeOK, Image!Init
<1>2. TurnInv
  BY DEF TurnInv, Image!Init, Ami!Init
<1>3. CallsInv
  BY PollsAssumption DEF CallsInv
<1>4. VolumeInv
  BY DEF VolumeInv
<1>5. AmiInv
  BY DEF AmiInv, Ami!Init, Ami!CallInit
<1> QED
  BY <1>1, <1>2, <1>3, <1>4, <1>5 DEF Inv

-----------------------------------------------------------------------------
(* Each part of the invariant is about the variables of one driver.        *)
LEMMA ImageFrame == ASSUME ImageInv, UNCHANGED imageVars PROVE ImageInv'
  BY DEF ImageInv, imageVars, Image!TypeOK, ManifestLeadsToImage

(* A driver that does not move keeps its part, if what it reads of the     *)
(* others stays.                                                           *)
LEMMA CallsFrame == ASSUME CallsInv, UNCHANGED callVars PROVE CallsInv'
  BY DEF CallsInv, callVars

(* The same for volume and snapshot.                                       *)
LEMMA VolumeFrame == ASSUME VolumeInv, UNCHANGED <<volumeVars, snapshotGrants>> PROVE VolumeInv'
  BY DEF VolumeInv, volumeVars, callVars

(* The same for the AMI.                                                   *)
LEMMA AmiFrame == ASSUME AmiInv, UNCHANGED amiVars PROVE AmiInv'
  BY DEF AmiInv, amiVars

(* The same for the configuration.                                         *)
LEMMA ConfigFrame ==
  ASSUME config \in Configs /\ config.shared = <<>>, UNCHANGED config
  PROVE  (config \in Configs /\ config.shared = <<>>)'
  OBVIOUS

-----------------------------------------------------------------------------
(* The machine image *)

(* Upload of the image, then of the manifest                               *)
(* (create_machine_image_manifest_driver.go:83-124).                       *)
LEMMA ImageStepInv == ASSUME Inv, ImageStep PROVE Inv'
<1>1. UNCHANGED <<config, volumeVars, snapshotGrants, amiVars>>
  BY DEF ImageStep
<1>2. /\ (config \in Configs /\ config.shared = <<>>)'
      /\ CallsInv' /\ VolumeInv' /\ AmiInv'
  BY <1>1, ConfigFrame, CallsFrame, VolumeFrame, AmiFrame DEF Inv, volumeVars
<1>3. expired = {} /\ imagePc \in {"upload", "prepare", "uploadManifest"}
  BY DEF Inv, ImageInv, Image!TypeOK, Image!Range, ImageStep, Image!Create, Image!UploadImage,
    Image!SignDelete, Image!PrepareManifest, Image!UploadManifest
<1>4. ImageInv'
  <2> USE <1>3 DEF Inv, ImageInv, ManifestLeadsToImage
  <2>1. CASE Image!UploadImage
    BY <2>1 DEF Image!TypeOK, Image!UploadImage, Image!Goto, Image!Fail, Image!deleteVars
  <2>2. CASE Image!PrepareManifest
    BY <2>2 DEF Image!TypeOK, Image!PrepareManifest, Image!Goto, Image!Fail, Image!deleteVars
  <2>3. CASE Image!UploadManifest
    <3>1. objects' \in {{"image"}, {"image", "manifest"}}
      BY <2>3 DEF Image!UploadManifest
    <3>2. Image!TypeOK'
      BY <2>3, <3>1 DEF Image!TypeOK, Image!UploadManifest, Image!ManifestDeleteURLs,
        Image!Succeed, Image!Fail, Image!deleteVars
    <3> QED
      BY <2>3, <3>1, <3>2 DEF Image!UploadManifest, Image!ManifestDeleteURLs, Image!Succeed,
        Image!Fail, Image!deleteVars
  <2>4. ~Image!SignDelete
    BY DEF Image!SignDelete
  <2> QED
    BY <2>1, <2>2, <2>3, <2>4 DEF ImageStep, Image!Create
<1>5. TurnInv'
  <2>1. pc = "zone" /\ amiPc = "register"
    BY <1>3 DEF Inv, ImageInv, TurnInv, CallsInv
  <2>2. created' = "ok" => imagePc' = "use"
    BY <1>3 DEF Inv, ImageInv, ImageStep, Image!Create, Image!UploadImage, Image!SignDelete,
      Image!PrepareManifest, Image!UploadManifest, Image!Goto, Image!Succeed, Image!Fail
  <2> QED
    BY <1>1, <2>1, <2>2 DEF TurnInv, volumeVars, callVars, amiVars
<1> QED
  BY <1>2, <1>4, <1>5 DEF Inv

(* An expired URL takes nothing out of the bucket.                         *)
LEMMA ExpireInv ==
  ASSUME Inv, Image!Expire, UNCHANGED <<config, volumeVars, snapshotGrants, amiVars>>
  PROVE  Inv'
<1>1. /\ (config \in Configs /\ config.shared = <<>>)'
      /\ CallsInv' /\ VolumeInv' /\ AmiInv'
  BY ConfigFrame, CallsFrame, VolumeFrame, AmiFrame DEF Inv, volumeVars
<1>2. ImageInv'
  BY DEF Inv, ImageInv, ManifestLeadsToImage, Image!TypeOK, Image!Expire
<1>3. TurnInv'
  BY DEF Inv, TurnInv, Image!Expire, volumeVars, callVars, amiVars, VolumeUsed
<1> QED
  BY <1>1, <1>2, <1>3 DEF Inv

(* One URL after the other: what is left in the bucket when one is served. *)
LEMMA DeferredDeleteInv == ASSUME Inv, DeferredDelete PROVE Inv'
<1>1. UNCHANGED <<config, volumeVars, snapshotGrants, amiVars>>
  BY DEF DeferredDelete
<1>2. /\ (config \in Configs /\ config.shared = <<>>)'
      /\ CallsInv' /\ VolumeInv' /\ AmiInv'
  BY <1>1, ConfigFrame, CallsFrame, VolumeFrame, AmiFrame DEF Inv, volumeVars
<1>3. created = "ok" /\ urls = <<"manifest", "image">> /\ Len(urls) = 2 /\ nextUrl \in 1 .. 3
  <2>1. created = "ok"
    BY DEF Inv, ImageInv, Image!TypeOK, DeferredDelete, Image!StartDelete, Image!Delete,
      Image!DeleteNext, Image!DeletedAll
  <2>2. urls = <<"manifest", "image">> /\ Len(urls) = 2
    BY <2>1 DEF Inv, ImageInv
  <2> QED
    BY <2>1, <2>2 DEF Inv, ImageInv, Image!TypeOK
<1>4. ImageInv'
  <2>1. CASE ImageUsed /\ Image!StartDelete
    BY <1>3, <2>1 DEF Inv, ImageInv, ManifestLeadsToImage, Image!TypeOK, Image!StartDelete,
      Image!Goto, Image!deleteVars
  <2>2. CASE Image!DeleteNext
    <3>1. /\ imagePc = "delete" /\ deleted = "none"
          /\ \/ nextUrl = 1 /\ urls[nextUrl] = "manifest" /\ objects = {"image", "manifest"}
             \/ nextUrl = 2 /\ urls[nextUrl] = "image" /\ objects = {"image"}
      BY <1>3, <2>2 DEF Inv, ImageInv, Image!DeleteNext
    <3>2. CASE /\ Image!AnswerAccepted /\ Image!Serve(urls[nextUrl]) /\ nextUrl' = nextUrl + 1
               /\ Image!Goto("delete") /\ UNCHANGED <<expired, deleted>>
      <4>1. \/ nextUrl' = 2 /\ objects' = {"image"}
            \/ nextUrl' = 3 /\ objects' = {}
        BY <3>1, <3>2 DEF Image!Serve, Image!AnswerAccepted
      <4>2. Image!TypeOK'
        BY <1>3, <3>2, <4>1 DEF Inv, ImageInv, Image!TypeOK, Image!Goto
      <4> QED
        BY <1>3, <3>1, <3>2, <4>1, <4>2 DEF Inv, ImageInv, ManifestLeadsToImage, Image!Goto
    <3>3. CASE (Image!Serve(urls[nextUrl]) \/ UNCHANGED objects) /\ Image!StopDeleting("error")
      <4>1. objects' \in {{"image", "manifest"}, {"image"}, {}}
        BY <3>1, <3>3 DEF Image!Serve
      <4>2. Image!TypeOK'
        BY <1>3, <3>3, <4>1 DEF Inv, ImageInv, Image!TypeOK, Image!StopDeleting
      <4> QED
        BY <1>3, <3>1, <3>3, <4>1, <4>2 DEF Inv, ImageInv, ManifestLeadsToImage,
          Image!StopDeleting
    <3> QED
      BY <2>2, <3>2, <3>3 DEF Image!DeleteNext
  <2>3. CASE Image!DeletedAll
    <3>1. imagePc = "delete" /\ nextUrl = 3 /\ objects = {}
      BY <1>3, <2>3 DEF Inv, ImageInv, Image!DeletedAll
    <3> QED
      BY <1>3, <2>3, <3>1 DEF Inv, ImageInv, ManifestLeadsToImage, Image!TypeOK,
        Image!DeletedAll, Image!StopDeleting
  <2> QED
    BY <2>1, <2>2, <2>3 DEF DeferredDelete, Image!Delete
<1>5. TurnInv'
  <2>1. pc = "returned" /\ created' = "ok"
    BY <1>3 DEF Inv, TurnInv, DeferredDelete, ImageUsed, Image!StartDelete, Image!Delete,
      Image!DeleteNext, Image!DeletedAll, Image!Goto, Image!StopDeleting
  <2> QED
    BY <1>1, <2>1 DEF Inv, TurnInv, volumeVars, callVars, amiVars, VolumeUsed
<1> QED
  BY <1>2, <1>4, <1>5 DEF Inv

-----------------------------------------------------------------------------
(* Volume and snapshot *)

(* Import of the volume, and the snapshot of it                            *)
(* (create_volume_driver.go:41-177, snapshot_from_volume_driver.go:37-83). *)
LEMMA VolumeStepInv == ASSUME Inv, VolumeStep PROVE Inv'
<1>1. UNCHANGED <<config, imageVars, amiVars>> /\ created = "ok"
  BY DEF VolumeStep
<1>2. (config \in Configs /\ config.shared = <<>>)' /\ ImageInv' /\ AmiInv'
  BY <1>1, ConfigFrame, ImageFrame, AmiFrame DEF Inv
<1> DEFINE Ready == pc # "returned" /\ result = "none" /\ amiPc = "register" /\ volumeDeleted = "none"
           Done == CallsInv' /\ VolumeInv' /\ volumeDeleted' = "none"
<1>3. /\ FindZone \/ FetchManifest \/ ImportVolume \/ Poll \/ TimeOut \/ Describe
         \/ WaitVolume \/ CreateSnapshot \/ MakePublic \/ WaitSnapshot
      /\ Ready
  BY DEF VolumeStep, Inv, CallsInv, VolumeInv, TurnInv, FindZone, FetchManifest, ImportVolume,
    Poll, TimeOut, Describe, WaitVolume, CreateSnapshot, MakePublic, WaitSnapshot
<1>4. Done
  <2> USE <1>3 DEF Inv, CallsInv, VolumeInv
  <2>1. CASE FindZone
    BY <2>1 DEF FindZone, Goto, NoVolume, NothingNew
  <2>2. CASE FetchManifest
    BY <2>2 DEF FetchManifest, Goto, NoVolume, NothingNew
  <2>3. CASE ImportVolume
    BY <2>3 DEF ImportVolume, Goto, NoVolume
  <2>4. CASE Poll
    BY <2>4, PollsAssumption DEF Poll, PollsLeft, Converted, Sleep, Goto, NoVolume, NothingNew
  <2>5. CASE TimeOut
    BY <2>5 DEF TimeOut, NoVolume, NothingNew
  <2>6. CASE Describe
    BY <2>6 DEF Describe, Goto, NoVolume, NothingNew
  <2>7. CASE WaitVolume
    BY <2>7 DEF WaitVolume, VolumeReady, NoVolume, NothingNew
  <2>8. CASE CreateSnapshot
    BY <2>8 DEF CreateSnapshot, Goto, Answer
  <2>9. CASE MakePublic
    BY <2>9 DEF MakePublic, Goto, Answer, Grantees
  <2>10. CASE WaitSnapshot
    BY <2>10 DEF WaitSnapshot, SnapshotReady, Answer, NothingNew
  <2> QED
    BY <2>1, <2>2, <2>3, <2>4, <2>5, <2>6, <2>7, <2>8, <2>9, <2>10
<1>5. TurnInv'
  <2>1. imagePc = "use" /\ ~(pc' = "returned" /\ handle' = "ok")
    BY <1>1, <1>3, <1>4 DEF Inv, TurnInv, VolumeInv
  <2> QED
    BY <1>1, <1>3, <2>1 DEF TurnInv, imageVars, amiVars
<1> QED
  BY <1>2, <1>4, <1>5 DEF Inv

(* The volume's deferred deletion comes when no call needs it any more     *)
(* (isolated_region.go:75-81).                                             *)
LEMMA DeleteVolumeInv == ASSUME Inv, DeleteVolume PROVE Inv'
<1>1. UNCHANGED <<config, imageVars, amiVars>>
  BY DEF DeleteVolume
<1>2. (config \in Configs /\ config.shared = <<>>)' /\ ImageInv' /\ AmiInv'
  BY <1>1, ConfigFrame, ImageFrame, AmiFrame DEF Inv
<1>3. result # "none"
  BY DEF DeleteVolume, VolumeUsed, Inv, TurnInv, AmiInv
<1>4. CallsInv'
  BY <1>3 DEF Inv, CallsInv, DeleteVolume
<1>5. VolumeInv'
  BY DEF Inv, VolumeInv, CallsInv, DeleteVolume
<1>6. TurnInv'
  BY <1>1 DEF Inv, TurnInv, CallsInv, DeleteVolume, VolumeUsed, imageVars, amiVars
<1> QED
  BY <1>2, <1>4, <1>5, <1>6 DEF Inv

(* EC2 works on the conversion, the volume and the snapshot by itself.     *)
LEMMA Ec2Inv ==
  ASSUME Inv, Convert \/ SettleVolume \/ SettleSnapshot, UNCHANGED <<config, imageVars, amiVars>>
  PROVE  Inv'
<1>1. (config \in Configs /\ config.shared = <<>>)' /\ ImageInv' /\ AmiInv'
  BY ConfigFrame, ImageFrame, AmiFrame DEF Inv
<1>2. UNCHANGED callVars
  BY DEF Convert, SettleVolume, SettleSnapshot
<1>3. CallsInv'
  BY <1>2, CallsFrame DEF Inv
<1>4. VolumeInv'
  <2>1. CASE Convert
    BY <2>1 DEF Inv, VolumeInv, Convert, callVars
  <2>2. CASE SettleVolume
    BY <2>2 DEF Inv, VolumeInv, SettleVolume, callVars
  <2>3. CASE SettleSnapshot
    BY <2>3 DEF Inv, VolumeInv, SettleSnapshot, callVars
  <2> QED
    BY <2>1, <2>2, <2>3
<1>5. TurnInv'
  BY <1>2 DEF Inv, TurnInv, callVars, imageVars, amiVars, VolumeUsed
<1> QED
  BY <1>1, <1>3, <1>4, <1>5 DEF Inv

-----------------------------------------------------------------------------
(* The AMI: with no accounts to share with the loop is over at once.       *)

(* No account is configured here, so the loop over them is over at once.   *)
LEMMA NothingToShare == ASSUME Inv PROVE ~Ami!MoreToShare
<1>1. config.shared = <<>> /\ amiNext = 1
  BY DEF Inv, AmiInv
<1>2. Len(<<>>) = 0
  OBVIOUS
<1> QED
  BY <1>1, <1>2 DEF Ami!MoreToShare

(* The AMI: registered of a finished snapshot, awaited, published          *)
(* (create_ami_driver.go:39-165).                                          *)
LEMMA AmiStepInv == ASSUME Inv, AmiStep PROVE Inv'
<1>1. UNCHANGED <<config, imageVars, volumeVars>> /\ result = "ok"
  BY DEF AmiStep
<1>2. (config \in Configs /\ config.shared = <<>>)' /\ ImageInv' /\ CallsInv'
  BY <1>1, ConfigFrame, ImageFrame, CallsFrame DEF Inv, volumeVars
<1>3. AmiInv' /\ snapshotGrants' \subseteq Grantees
  <2> USE DEF Inv, AmiInv, VolumeInv
  <2>1. CASE Ami!Register
    BY <2>1 DEF Ami!Register, Ami!MakeImage, Ami!Goto, Ami!Return
  <2>2. CASE Ami!WaitExists
    BY <2>2 DEF Ami!WaitExists, Ami!Goto, Ami!Return, Ami!ec2Vars
  <2>3. ~Ami!ShareImage /\ ~Ami!ShareSnapshot
    BY NothingToShare DEF Ami!ShareImage, Ami!ShareSnapshot
  <2>4. CASE Ami!SharedWithAll
    BY <2>4 DEF Ami!SharedWithAll, Ami!Goto, Ami!ec2Vars
  <2>5. CASE Ami!WaitAvailable("publish")
    BY <2>5 DEF Ami!WaitAvailable, Ami!Available, Ami!Goto, Ami!Return, Ami!ec2Vars
  <2>6. CASE Ami!MakePublic
    BY <2>6 DEF Ami!MakePublic, Ami!GrantImage, Ami!NoGrant, Ami!Return, Grantees
  <2> QED
    BY <2>1, <2>2, <2>3, <2>4, <2>5, <2>6 DEF AmiStep, Ami!Create
<1>4. VolumeInv'
  BY <1>1, <1>3 DEF Inv, VolumeInv, volumeVars, callVars
<1>5. TurnInv'
  <2>1. amiPc # "returned"
    BY DEF AmiStep, Ami!Create, Ami!Register, Ami!WaitExists, Ami!ShareImage, Ami!ShareSnapshot,
      Ami!SharedWithAll, Ami!WaitAvailable, Ami!MakePublic
  <2>2. amiResult = "none" /\ ~(pc = "returned" /\ handle = "ok")
    BY <1>1, <2>1 DEF Inv, AmiInv, TurnInv, VolumeUsed
  <2> QED
    BY <1>1, <2>2 DEF Inv, TurnInv, imageVars, volumeVars, callVars
<1> QED
  BY <1>2, <1>3, <1>4, <1>5 DEF Inv

(* EC2 settles the state of the AMI by itself.                             *)
LEMMA SettleInv ==
  ASSUME Inv, Ami!Settle, UNCHANGED <<config, imageVars, volumeVars>>
  PROVE  Inv'
<1>1. (config \in Configs /\ config.shared = <<>>)' /\ ImageInv' /\ CallsInv' /\ VolumeInv'
  BY ConfigFrame, ImageFrame, CallsFrame, VolumeFrame DEF Inv, volumeVars, Ami!Settle
<1>2. AmiInv'
  BY DEF Inv, AmiInv, Ami!Settle
<1>3. TurnInv'
  BY DEF Inv, TurnInv, Ami!Settle, imageVars, volumeVars, callVars, VolumeUsed
<1> QED
  BY <1>1, <1>2, <1>3 DEF Inv

-----------------------------------------------------------------------------
(* Every step of Publish(), of a driver or of AWS keeps the invariant.     *)
LEMMA InvNext == Inv /\ [Next]_vars => Inv'
<1> SUFFICES ASSUME Inv, [Next]_vars PROVE Inv'
  OBVIOUS
<1>1. CASE UNCHANGED vars
  <2>1. UNCHANGED <<config, imageVars, volumeVars, snapshotGrants, amiVars>>
    BY <1>1 DEF vars
  <2>2. (config \in Configs /\ config.shared = <<>>)' /\ ImageInv' /\ CallsInv' /\ VolumeInv' /\ AmiInv'
    BY <2>1, ConfigFrame, ImageFrame, CallsFrame, VolumeFrame, AmiFrame DEF Inv, volumeVars
  <2>3. TurnInv'
    BY <2>1 DEF Inv, TurnInv, imageVars, volumeVars, callVars, amiVars, VolumeUsed
  <2> QED
    BY <2>2, <2>3 DEF Inv
<1>2. CASE Publish
  BY <1>2, ImageStepInv, VolumeStepInv, AmiStepInv, DeleteVolumeInv, DeferredDeleteInv DEF Publish
<1>3. CASE Meanwhile
  BY <1>3, ExpireInv, Ec2Inv, SettleInv DEF Meanwhile
<1> QED
  BY <1>1, <1>2, <1>3 DEF Next, Returned

(* In every state the drivers, what they have returned and what AWS holds  *)
(* belong together, for any poll limit (isolated_region.go:39-112 and the  *)
(* drivers it calls).                                                      *)
THEOREM InvCorrect == Spec => []Inv
  BY InvInit, InvNext, PTL DEF Spec

(* The variables of Publish() and of its drivers keep their types.         *)
THEOREM TypeCorrect == Spec => []TypeOK
<1>1. ASSUME Inv PROVE TypeOK
  <2>1. Ami!TypeOK
    <3>1. amiNext \in 1 .. Len(config.shared) + 1
      <4>1. amiNext = 1 /\ config.shared = <<>> /\ Len(<<>>) = 0
        BY <1>1 DEF Inv, AmiInv
      <4> QED
        BY <4>1
    <3> QED
      BY <1>1, <3>1 DEF Inv, AmiInv, VolumeInv, Ami!TypeOK, Ami!CallTypeOK, Ami!Grantees, Grantees
  <2> QED
    BY <1>1, <2>1 DEF Inv, ImageInv, CallsInv, VolumeInv, TypeOK
<1> QED
  BY <1>1, InvCorrect, PTL

(* No failed wait, empty answer or early deletion lets a snapshot of half  *)
(* an image or an AMI of an unfinished snapshot come into being            *)
(* (create_volume_driver.go:114-138, snapshot_from_volume_driver.go:68-82, *)
(* isolated_region.go:71-102).                                             *)
THEOREM AmiIsOfWholeImage == Spec => []AmiOfWholeImage
<1>1. Inv => AmiOfWholeImage
  BY DEF Inv, TurnInv, CallsInv, VolumeInv, AmiInv, AmiOfWholeImage
<1> QED
  BY <1>1, InvCorrect, PTL

(* Whatever fails or expires, a manifest in the bucket leads to an image:  *)
(* the one is uploaded after and deleted before the other                  *)
(* (create_machine_image_manifest_driver.go:83-124,                        *)
(* delete_machine_image_driver.go:42-59).                                  *)
THEOREM ManifestAlwaysLeadsToImage == Spec => []ManifestLeadsToImage
<1>1. Inv => ManifestLeadsToImage
  BY DEF Inv, ImageInv
<1> QED
  BY <1>1, InvCorrect, PTL

(* The deferred deletion takes image or manifest away from a conversion    *)
(* under way only after the volume driver gave it up                       *)
(* (create_volume_driver.go:150-176, isolated_region.go:59-74).            *)
THEOREM ImageAlwaysStaysForImport == Spec => []ImageStaysForImport
<1>1. Inv => ImageStaysForImport
  <2> SUFFICES ASSUME Inv PROVE ImageStaysForImport
    OBVIOUS
  <2>1. pc \in {"fetch", "import", "poll", "describe"} => objects = {"image", "manifest"}
    BY DEF Inv, TurnInv, ImageInv
  <2>2. ASSUME task = "active", handle \notin {"error", "panic"}
        PROVE  pc \in {"poll", "describe", "available"} /\ created = "ok"
    BY <2>2 DEF Inv, TurnInv, CallsInv, VolumeInv
  <2>3. task = "active" /\ objects # {"image", "manifest"} => handle \in {"error", "panic"}
    BY <2>2 DEF Inv, TurnInv, ImageInv
  <2> QED
    BY <2>1, <2>3 DEF ImageStaysForImport
<1> QED
  BY <1>1, InvCorrect, PTL

(* Objects, a volume or a task that may still make one outlive Publish()   *)
(* only after an error of the call that should have secured or deleted     *)
(* them (delete_machine_image_driver.go:42-59,                             *)
(* create_volume_driver.go:114-138, isolated_region.go:52-81).             *)
THEOREM LeftoversAreAlwaysReported == Spec => []LeftoversAreReported
<1>1. ASSUME Inv, imagePc = "returned"
      PROVE  /\ objects # {} => "error" \in {created, deleted}
             /\ task = "active" \/ volume \in {"creating", "available", "broken"} =>
                  handle \in {"error", "panic"} \/ volumeDeleted = "error"
  <2>1. objects # {} => "error" \in {created, deleted}
    BY <1>1 DEF Inv, ImageInv
  <2>2. CASE created = "ok"
    <3>1. pc = "returned" /\ handle # "none"
      BY <1>1, <2>2 DEF Inv, TurnInv, CallsInv
    <3>2. handle = "ok" => task = "completed" /\ volume \in {"available", "deleted"} /\ volumeDeleted # "none"
      BY <1>1, <3>1 DEF Inv, VolumeInv
    <3> QED
      BY <1>1, <2>1, <3>1, <3>2 DEF Inv, CallsInv, VolumeInv
  <2>3. CASE created = "error"
    <3>1. task = "none" /\ volume = "none"
      BY <1>1, <2>3 DEF Inv, TurnInv, VolumeInv
    <3> QED
      BY <2>1, <3>1
  <2> QED
    BY <1>1, <2>2, <2>3 DEF Inv, ImageInv, Image!TypeOK
<1>2. Inv => LeftoversAreReported
  BY <1>1 DEF LeftoversAreReported
<1> QED
  BY <1>2, InvCorrect, PTL

-----------------------------------------------------------------------------
(* What the publisher sees *)

Registered == {x \in {"entry"} : amiResult # "none" /\ ami # "none"}

(* What each variable of the publisher depends on. *)
Unseen ==
  /\ Stage' = Stage /\ Outcome' = Outcome /\ Image!Kept' = Image!Kept
  /\ ReturnedAmis' = ReturnedAmis /\ Registered' = Registered /\ KeptVolume' = KeptVolume

(* Such a step is a stutter of the publisher's model.                      *)
LEMMA UnseenIsStutter ==
  ASSUME Unseen PROVE UNCHANGED <<Publisher!publisherVars, [p \in {"entry"} |-> KeptVolume]>>
  BY DEF Unseen, Registered, Publisher!publisherVars

(* How the publisher goes from one call to the next.                       *)
LEMMA Proceeds ==
  ASSUME NEW s, Stage' = s, Outcome' = Outcome PROVE Publisher!Proceed("entry", s)
  BY DEF Publisher!Proceed

(* How it leaves for the deferred deletions, with or without an error.     *)
LEMMA Leaves ==
  ASSUME NEW e, Stage' = "cleanup", Outcome' = e PROVE Publisher!Leave("entry", e)
  BY DEF Publisher!Leave

(* Nothing was called and nothing exists for the publisher either.         *)
LEMMA InitSeen == Init => Publisher!PublisherInit /\ Publisher!VolumeInit
<1> SUFFICES ASSUME Init PROVE Publisher!PublisherInit /\ Publisher!VolumeInit
  OBVIOUS
<1> USE DEF Init, Image!Init, Ami!Init, Ami!CallInit
<1>1. Stage = "image" /\ Outcome = "nil" /\ Image!Kept = "none" /\ KeptVolume = "none"
  BY DEF Stage, Outcome, Image!Kept, KeptVolume
<1>2. ReturnedAmis = <<>>
  BY DEF ReturnedAmis
<1>3. {x \in {"entry"} : amiResult # "none" /\ ami # "none"} = {}
  OBVIOUS
<1> QED
  BY <1>1, <1>2, <1>3 DEF Publisher!PublisherInit, Publisher!VolumeInit, Publisher!Publishers

(* Image and manifest are one call of the publisher, visible when it       *)
(* returns.                                                                *)
LEMMA ImageStepSeen == ASSUME Inv, Inv', ImageStep PROVE Publisher!IsolatedStep("entry") \/ Unseen
<1>1. /\ UNCHANGED <<config, volumeVars, snapshotGrants, amiVars>>
      /\ created = "none" /\ imagePc # "returned" /\ pc = "zone"
      /\ handle = "none" /\ result = "none" /\ amiResult = "none"
  BY DEF Inv, ImageInv, TurnInv, CallsInv, AmiInv, ImageStep, Image!Create, Image!UploadImage,
    Image!SignDelete, Image!PrepareManifest, Image!UploadManifest
<1>2. pc' = pc /\ handle' = handle /\ result' = result /\ amiResult' = amiResult /\ ami' = ami
      /\ volume' = volume /\ task' = task
  BY <1>1 DEF volumeVars, callVars, amiVars
<1>3. /\ ReturnedAmis' = ReturnedAmis /\ Registered' = Registered /\ KeptVolume' = KeptVolume
      /\ Stage = "image" /\ Outcome = "nil" /\ Image!Kept = "none"
  <2>1. Stage = "image" /\ Outcome = "nil" /\ Image!Kept = "none"
    BY <1>1 DEF Stage, Outcome, Image!Kept
  <2>2. Registered' = Registered /\ KeptVolume' = KeptVolume
    BY <1>2 DEF Registered, KeptVolume
  <2>3. ReturnedAmis' = ReturnedAmis
    BY <1>2 DEF ReturnedAmis
  <2> QED
    BY <2>1, <2>2, <2>3
<1>4. CASE created' = "none"
  <2>1. imagePc' # "returned"
    BY <1>4 DEF Inv, ImageInv
  <2>2. Stage' = "image" /\ Outcome' = "nil" /\ Image!Kept' = "none"
    BY <1>1, <1>2, <1>4, <2>1 DEF Stage, Outcome, Image!Kept
  <2> QED
    BY <1>3, <2>2 DEF Unseen
<1>5. CASE created' = "ok"
  <2>1. imagePc' = "use"
    BY <1>1, <1>5 DEF ImageStep, Image!Create, Image!UploadImage, Image!SignDelete,
      Image!PrepareManifest, Image!UploadManifest, Image!Goto, Image!Succeed, Image!Fail
  <2>2. Stage' = "volume" /\ Outcome' = "nil" /\ Image!Kept' = "live"
    BY <1>1, <1>2, <1>5, <2>1 DEF Stage, Outcome, Image!Kept
  <2>3. Publisher!CreateMachineImage("entry", "volume")
    BY <1>3, <2>2, Proceeds DEF Publisher!CreateMachineImage, Registered
  <2> QED
    BY <1>3, <2>3 DEF Publisher!IsolatedStep
<1>6. CASE created' = "error"
  <2>1. imagePc' = "returned"
    BY <1>6 DEF Inv, ImageInv
  <2>2. Stage' = "returned" /\ Outcome' = "error" /\ Image!Kept' \in {"none", "abandoned"}
    BY <1>1, <1>2, <1>6, <2>1 DEF Stage, Outcome, Image!Kept
  <2>3. Publisher!CreateMachineImage("entry", "volume")
    BY <1>3, <2>2 DEF Publisher!CreateMachineImage, Registered
  <2> QED
    BY <1>3, <2>3 DEF Publisher!IsolatedStep
<1> QED
  BY <1>4, <1>5, <1>6 DEF Inv, ImageInv, Image!TypeOK

(* What a step of the drivers of volume and snapshot leaves as it was, and *)
(* what it finds.                                                          *)
LEMMA Waiting ==
  ASSUME Inv, VolumeStep
  PROVE  /\ created = "ok" /\ imagePc = "use" /\ created' = created /\ imagePc' = imagePc /\ objects' = objects
         /\ amiResult = "none" /\ amiResult' = "none"
         /\ Image!Kept' = Image!Kept /\ ReturnedAmis' = ReturnedAmis /\ Registered' = Registered
         /\ pc # "returned" /\ result = "none" /\ handle \in {"none", "ok"}
<1>1. UNCHANGED <<config, imageVars, amiVars>> /\ created = "ok"
  BY DEF VolumeStep
<1>2. pc # "returned" /\ result = "none" /\ handle \in {"none", "ok"}
  BY DEF VolumeStep, Inv, CallsInv, FindZone, FetchManifest, ImportVolume, Poll, TimeOut,
    Describe, WaitVolume, CreateSnapshot, MakePublic, WaitSnapshot
<1>3. amiResult = "none" /\ imagePc = "use"
  BY <1>1, <1>2 DEF Inv, TurnInv, AmiInv
<1>4. created' = created /\ imagePc' = imagePc /\ objects' = objects /\ amiResult' = amiResult /\ ami' = ami
  BY <1>1 DEF imageVars, amiVars
<1>5. Image!Kept' = Image!Kept /\ Registered' = Registered
  BY <1>4 DEF Image!Kept, Registered
<1>6. ReturnedAmis' = ReturnedAmis
  BY <1>4 DEF ReturnedAmis
<1> QED
  BY <1>1, <1>2, <1>3, <1>4, <1>5, <1>6

(* The volume becomes visible when its driver returns or panics: kept, or  *)
(* an error and possibly a volume nobody will delete.                      *)
LEMMA CreateVolumeSeen ==
  ASSUME Inv, Inv', VolumeStep, handle = "none"
  PROVE  Publisher!IsolatedStep("entry") \/ Unseen
<1>1. /\ created = "ok" /\ imagePc = "use" /\ created' = created /\ imagePc' = imagePc
      /\ amiResult = "none" /\ amiResult' = "none"
      /\ Image!Kept' = Image!Kept /\ ReturnedAmis' = ReturnedAmis /\ Registered' = Registered
      /\ pc # "returned" /\ result = "none"
  BY Waiting
<1>2. result' = "none"
  BY <1>1 DEF VolumeStep, Inv, CallsInv, FindZone, FetchManifest, ImportVolume, Poll, TimeOut,
    Describe, WaitVolume, CreateSnapshot, MakePublic, WaitSnapshot, Goto, NoVolume, Sleep
<1>3. Stage = "volume" /\ Outcome = "nil" /\ KeptVolume = "none"
  BY <1>1 DEF Stage, Outcome, KeptVolume
<1>4. UNCHANGED <<[p \in {"entry"} |-> Image!Kept], [p \in {"entry"} |-> ReturnedAmis],
                  {x \in {"entry"} : amiResult # "none" /\ ami # "none"}>>
  BY <1>1 DEF Registered
<1>5. CASE handle' = "none"
  <2>1. Stage' = "volume" /\ Outcome' = "nil" /\ KeptVolume' = "none"
    BY <1>1, <1>2, <1>5 DEF Stage, Outcome, KeptVolume
  <2> QED
    BY <1>1, <1>3, <2>1 DEF Unseen
<1>6. CASE handle' = "ok"
  <2>1. pc' # "returned"
    BY <1>2, <1>6 DEF Inv, CallsInv
  <2>2. Stage' = "snapshot" /\ Outcome' = "nil" /\ KeptVolume' = "live"
    BY <1>1, <1>2, <1>6, <2>1 DEF Stage, Outcome, KeptVolume
  <2>3. Publisher!CreateVolume("entry")
    BY <1>3, <1>4, <2>2, Proceeds DEF Publisher!CreateVolume
  <2> QED
    BY <2>3 DEF Publisher!IsolatedStep
<1>7. CASE handle' = "error"
  <2>1. Stage' = "cleanup" /\ Outcome' = "error" /\ KeptVolume' \in {"none", "abandoned"}
    BY <1>1, <1>2, <1>7 DEF Stage, Outcome, KeptVolume
  <2>2. Publisher!CreateVolume("entry")
    BY <1>3, <1>4, <2>1, Leaves DEF Publisher!CreateVolume
  <2> QED
    BY <2>2 DEF Publisher!IsolatedStep
<1>8. CASE handle' = "panic"
  <2>1. Malformed
    BY <1>1, <1>8 DEF VolumeStep, FindZone, FetchManifest, ImportVolume, Poll, TimeOut,
      Describe, WaitVolume, CreateSnapshot, MakePublic, WaitSnapshot, Goto, NoVolume, Sleep,
      Answer
  <2>2. Stage' = "cleanup" /\ Outcome' = "panic" /\ KeptVolume' \in {"none", "abandoned"}
    BY <1>1, <1>2, <1>8 DEF Stage, Outcome, KeptVolume
  <2>3. Publisher!CreateVolume("entry")
    BY <1>3, <1>4, <2>1, <2>2, Leaves DEF Publisher!CreateVolume
  <2> QED
    BY <2>3 DEF Publisher!IsolatedStep
<1> QED
  BY <1>5, <1>6, <1>7, <1>8 DEF Inv, CallsInv

(* The snapshot becomes visible when its driver returns.                   *)
LEMMA CreateSnapshotSeen ==
  ASSUME Inv, Inv', VolumeStep, handle = "ok"
  PROVE  Publisher!IsolatedStep("entry") \/ Unseen
<1>1. /\ created = "ok" /\ imagePc = "use" /\ created' = created /\ imagePc' = imagePc
      /\ amiResult = "none" /\ amiResult' = "none"
      /\ Image!Kept' = Image!Kept /\ ReturnedAmis' = ReturnedAmis /\ Registered' = Registered
      /\ pc # "returned" /\ result = "none"
  BY Waiting
<1>2. handle' = "ok" /\ pc' # "returned"
  BY <1>1 DEF VolumeStep, Inv, CallsInv, FindZone, FetchManifest, ImportVolume, Poll, TimeOut,
    Describe, WaitVolume, CreateSnapshot, MakePublic, WaitSnapshot, Goto, Answer
<1>3. Stage = "snapshot" /\ Outcome = "nil" /\ KeptVolume = "live" /\ KeptVolume' = "live"
  BY <1>1, <1>2 DEF Stage, Outcome, KeptVolume
<1>4. UNCHANGED <<[p \in {"entry"} |-> Image!Kept], [p \in {"entry"} |-> ReturnedAmis],
                  {x \in {"entry"} : amiResult # "none" /\ ami # "none"}, [p \in {"entry"} |-> KeptVolume]>>
  BY <1>1, <1>3 DEF Registered
<1>5. CASE result' = "none"
  <2>1. Stage' = "snapshot" /\ Outcome' = "nil"
    BY <1>1, <1>2, <1>5 DEF Stage, Outcome
  <2> QED
    BY <1>1, <1>3, <2>1 DEF Unseen
<1>6. CASE result' = "ok"
  <2>1. Stage' = "ami" /\ Outcome' = "nil"
    BY <1>1, <1>2, <1>6 DEF Stage, Outcome
  <2> QED
    BY <1>3, <1>4, <2>1, Proceeds DEF Publisher!IsolatedStep, Publisher!CreateIsolatedSnapshot,
      Publisher!CallDriver
<1>7. CASE result' = "error"
  <2>1. Stage' = "cleanup" /\ Outcome' = "error"
    BY <1>1, <1>2, <1>7 DEF Stage, Outcome
  <2> QED
    BY <1>3, <1>4, <2>1, Leaves DEF Publisher!IsolatedStep, Publisher!CreateIsolatedSnapshot,
      Publisher!CallDriver
<1>8. CASE result' = "panic"
  <2>1. Malformed
    BY <1>1, <1>8 DEF VolumeStep, FindZone, FetchManifest, ImportVolume, Poll, TimeOut,
      Describe, WaitVolume, CreateSnapshot, MakePublic, WaitSnapshot, Goto, NoVolume, Sleep,
      Answer
  <2>2. Stage' = "cleanup" /\ Outcome' = "panic"
    BY <1>1, <1>2, <1>8 DEF Stage, Outcome
  <2> QED
    BY <1>3, <1>4, <2>1, <2>2, Leaves DEF Publisher!IsolatedStep,
      Publisher!CreateIsolatedSnapshot, Publisher!PanicAt
<1> QED
  BY <1>5, <1>6, <1>7, <1>8 DEF Inv, CallsInv

(* The AMI becomes visible, and counts as registered, when its driver      *)
(* returns; one that was registered and then failed is registered all the  *)
(* same.                                                                   *)
LEMMA AmiStepSeen == ASSUME Inv, Inv', AmiStep PROVE Publisher!IsolatedStep("entry") \/ Unseen
<1>1. /\ UNCHANGED <<config, imageVars, volumeVars>>
      /\ result = "ok" /\ handle = "ok" /\ amiResult = "none"
  BY DEF Inv, CallsInv, AmiInv, AmiStep, Ami!Create, Ami!Register, Ami!WaitExists,
    Ami!ShareImage, Ami!ShareSnapshot, Ami!SharedWithAll, Ami!WaitAvailable, Ami!MakePublic
<1>2. pc # "returned" /\ created = "ok" /\ imagePc = "use"
  <2>1. pc # "returned"
    BY <1>1 DEF Inv, TurnInv, VolumeUsed
  <2>2. pc # "zone"
    BY <1>1 DEF Inv, CallsInv
  <2> QED
    BY <2>1, <2>2 DEF Inv, TurnInv
<1>3. /\ pc' = pc /\ handle' = handle /\ result' = result /\ created' = created /\ imagePc' = imagePc
      /\ objects' = objects /\ task' = task /\ volume' = volume
  BY <1>1 DEF imageVars, volumeVars, callVars
<1>4. Image!Kept' = Image!Kept /\ KeptVolume' = KeptVolume
  BY <1>3 DEF Image!Kept, KeptVolume
<1>5. Stage = "ami" /\ Outcome = "nil" /\ Registered = {}
  BY <1>1, <1>2 DEF Stage, Outcome, Registered
<1>6. ReturnedAmis = <<>> /\ (amiResult' # "ok" => ReturnedAmis' = <<>>)
  BY <1>1 DEF ReturnedAmis
<1>7. UNCHANGED <<[p \in {"entry"} |-> Image!Kept], [p \in {"entry"} |-> KeptVolume]>>
  BY <1>4
<1>8. CASE amiResult' = "none"
  <2>1. Stage' = "ami" /\ Outcome' = "nil" /\ Registered' = {}
    BY <1>1, <1>2, <1>3, <1>8 DEF Stage, Outcome, Registered
  <2> QED
    BY <1>4, <1>5, <1>6, <1>8, <2>1 DEF Unseen
<1>9. CASE amiResult' = "error"
  <2>1. Stage' = "cleanup" /\ Outcome' = "error"
    BY <1>1, <1>2, <1>3, <1>9 DEF Stage, Outcome
  <2>2. \E made \in {{}, {"entry"}} : Registered' = Registered \cup made
    BY <1>5 DEF Registered
  <2>3. Publisher!FailCreateAmi("entry")
    BY <1>5, <1>6, <1>7, <1>9, <2>1, <2>2, Leaves DEF Publisher!FailCreateAmi, Registered
  <2> QED
    BY <1>7, <2>3 DEF Publisher!IsolatedStep
<1>10. CASE amiResult' = "ok"
  <2>1. Stage' = "cleanup" /\ Outcome' = "nil"
    BY <1>1, <1>2, <1>3, <1>10 DEF Stage, Outcome
  <2>2. Registered' = Registered \cup {"entry"}
    <3>1. ami' = "available"
      BY <1>10 DEF Inv, AmiInv
    <3> QED
      BY <1>5, <1>10, <3>1 DEF Registered
  <2>3. ReturnedAmis' = Append(ReturnedAmis, Publisher!SourceAmi("entry"))
    <3>1. Publisher!SourceAmi("entry") = [id |-> "entry", region |-> "home", virt |-> "hvm"]
      BY DEF Publisher!SourceAmi, Home
    <3>2. ReturnedAmis' = <<Publisher!SourceAmi("entry")>>
      BY <1>10, <3>1 DEF ReturnedAmis
    <3>3. Append(<<>>, Publisher!SourceAmi("entry")) = <<Publisher!SourceAmi("entry")>>
      OBVIOUS
    <3> QED
      BY <1>6, <3>2, <3>3
  <2>4. Publisher!RegisterSourceAmi("entry")
    BY <1>5, <1>7, <2>2, <2>3 DEF Publisher!RegisterSourceAmi, Registered
  <2>5. Publisher!CreateIsolatedAmi("entry")
    BY <1>7, <2>1, <2>4, Leaves DEF Publisher!CreateIsolatedAmi
  <2> QED
    BY <2>5 DEF Publisher!IsolatedStep
<1> QED
  BY <1>8, <1>9, <1>10 DEF Inv, AmiInv

(* The deferred deletions come when every call has returned. *)
LEMMA AtCleanup ==
  ASSUME Inv, created = "ok", imagePc # "returned",
         handle \in {"error", "panic"} \/ VolumeUsed
  PROVE  Stage = "cleanup"
<1>1. /\ amiResult # "none" => result = "ok"
      /\ result # "none" => handle = "ok"
  BY DEF Inv, TurnInv, CallsInv, AmiInv
<1> QED
  BY <1>1 DEF Stage, VolumeUsed

(* The volume's deletion is one step there and here.                       *)
LEMMA DeleteVolumeSeen == ASSUME Inv, Inv', DeleteVolume PROVE Publisher!IsolatedStep("entry")
<1>1. /\ UNCHANGED <<config, imageVars, amiVars>>
      /\ handle = "ok" /\ handle' = "ok" /\ pc # "returned" /\ pc' = "returned" /\ result' = result
      /\ VolumeUsed
  BY DEF DeleteVolume
<1>2. created = "ok" /\ imagePc = "use"
  <2>1. pc # "zone"
    BY <1>1 DEF Inv, CallsInv
  <2> QED
    BY <1>1, <2>1 DEF Inv, TurnInv
<1>3. created' = created /\ imagePc' = imagePc /\ objects' = objects /\ amiResult' = amiResult /\ ami' = ami
  BY <1>1 DEF imageVars, amiVars
<1>4. Image!Kept' = Image!Kept /\ Registered' = Registered /\ Outcome' = Outcome /\ Stage' = Stage
  BY <1>1, <1>3 DEF Image!Kept, Registered, Outcome, Stage
<1>5. ReturnedAmis' = ReturnedAmis
  BY <1>3 DEF ReturnedAmis
<1>6. Stage = "cleanup"
  BY <1>1, <1>2, AtCleanup
<1>7. KeptVolume = "live" /\ KeptVolume' \in {"deleted", "kept"}
  <2>1. KeptVolume' = IF volume' = "deleted" THEN "deleted" ELSE "kept"
    BY <1>1 DEF KeptVolume
  <2>2. KeptVolume = "live"
    BY <1>1 DEF KeptVolume
  <2> QED
    BY <2>1, <2>2
<1>8. UNCHANGED Publisher!publisherVars
  BY <1>4, <1>5 DEF Publisher!publisherVars, Registered
<1>9. Publisher!DeleteVolume("entry")
  BY <1>6, <1>7, <1>8 DEF Publisher!DeleteVolume
<1> QED
  BY <1>9 DEF Publisher!IsolatedStep

(* The deletion of image and manifest becomes visible when its driver      *)
(* returns; what it does at one URL is not seen before.                    *)
LEMMA DeferredDeleteSeen ==
  ASSUME Inv, Inv', DeferredDelete PROVE Publisher!IsolatedStep("entry") \/ Unseen
<1>1. /\ UNCHANGED <<config, volumeVars, snapshotGrants, amiVars>>
      /\ imagePc \in {"use", "delete"} /\ imagePc' \in {"delete", "returned"} /\ created' = created
      /\ imagePc = "use" => imagePc' = "delete"
  BY DEF DeferredDelete, Image!StartDelete, Image!Delete, Image!DeleteNext, Image!DeletedAll,
    Image!Goto, Image!StopDeleting
<1>2. created = "ok"
  BY <1>1 DEF Inv, ImageInv, Image!TypeOK
<1>3. pc = "returned" /\ handle \in {"ok", "error", "panic"} /\ (handle = "ok" => VolumeUsed)
  <2>1. pc = "returned"
    BY <1>2 DEF Inv, TurnInv, DeferredDelete, ImageUsed, Image!Delete, Image!DeleteNext,
      Image!DeletedAll
  <2> QED
    BY <2>1 DEF Inv, TurnInv, CallsInv
<1>4. /\ pc' = pc /\ handle' = handle /\ result' = result /\ amiResult' = amiResult /\ ami' = ami
      /\ task' = task /\ volume' = volume
  BY <1>1 DEF volumeVars, callVars, amiVars
<1>5. Registered' = Registered /\ Outcome' = Outcome /\ KeptVolume' = KeptVolume
  BY <1>1, <1>4 DEF Registered, Outcome, KeptVolume
<1>6. ReturnedAmis' = ReturnedAmis
  BY <1>4 DEF ReturnedAmis
<1>7. Stage = "cleanup" /\ Image!Kept = "live"
  BY <1>1, <1>2, <1>3, AtCleanup DEF Image!Kept
<1>8. KeptVolume # "live"
  BY <1>3 DEF KeptVolume
<1>9. CASE imagePc' = "delete"
  <2>1. Stage' = Stage
    BY <1>1, <1>2, <1>4, <1>9 DEF Stage
  <2>2. Image!Kept' = "live"
    BY <1>1, <1>2, <1>9 DEF Image!Kept
  <2> QED
    BY <1>5, <1>6, <1>7, <2>1, <2>2 DEF Unseen
<1>10. CASE imagePc' = "returned"
  <2>1. Image!Kept' \in {"deleted", "kept"}
    <3>1. Image!Kept' = IF objects' = {} THEN "deleted" ELSE "kept"
      BY <1>1, <1>2, <1>10 DEF Image!Kept
    <3> QED
      BY <3>1
  <2>2. Stage' = "returned"
    <3>1. handle' # "none" /\ ~(handle' = "ok" /\ result' = "none") /\ ~(result' = "ok" /\ amiResult' = "none")
      BY <1>3, <1>4 DEF VolumeUsed, Inv, TurnInv, CallsInv, AmiInv
    <3> QED
      BY <1>1, <1>2, <1>10, <3>1 DEF Stage
  <2>3. Publisher!DeleteMachineImage("entry")
    BY <1>5, <1>6, <1>7, <2>1, <2>2 DEF Publisher!DeleteMachineImage, Registered
  <2>4. Publisher!DeleteImageAfterVolume("entry")
    BY <1>5, <1>8, <2>3 DEF Publisher!DeleteImageAfterVolume, Publisher!VolumeReleased
  <2> QED
    BY <2>4 DEF Publisher!IsolatedStep
<1> QED
  BY <1>1, <1>9, <1>10

(* What AWS does by itself the publisher does not see.                     *)
LEMMA MeanwhileUnseen == ASSUME Inv, Inv', Meanwhile PROVE Unseen
<1>1. /\ imagePc' = imagePc /\ objects' = objects /\ created' = created
      /\ pc' = pc /\ handle' = handle /\ result' = result
      /\ (task' = "none" <=> task = "none") /\ (volume' = "deleted" <=> volume = "deleted")
      /\ amiResult' = amiResult /\ (ami' # "none" <=> ami # "none")
  <2>1. CASE Image!Expire /\ UNCHANGED <<config, volumeVars, snapshotGrants, amiVars>>
    BY <2>1 DEF Image!Expire, volumeVars, callVars, amiVars
  <2>2. CASE (Convert \/ SettleVolume \/ SettleSnapshot) /\ UNCHANGED <<config, imageVars, amiVars>>
    BY <2>2 DEF Inv, VolumeInv, Convert, SettleVolume, SettleSnapshot, imageVars, callVars,
      amiVars
  <2>3. CASE Ami!Settle /\ UNCHANGED <<config, imageVars, volumeVars>>
    BY <2>3 DEF Ami!Settle, imageVars, volumeVars, callVars
  <2> QED
    BY <2>1, <2>2, <2>3 DEF Meanwhile
<1>2. Stage' = Stage /\ Outcome' = Outcome /\ Image!Kept' = Image!Kept
  BY <1>1 DEF Stage, Outcome, Image!Kept
<1>3. ReturnedAmis' = ReturnedAmis
  BY <1>1 DEF ReturnedAmis
<1>4. Registered' = Registered /\ KeptVolume' = KeptVolume
  BY <1>1 DEF Registered, KeptVolume
<1> QED
  BY <1>2, <1>3, <1>4 DEF Unseen

(* A stutter is a stutter.                                                 *)
LEMMA NothingUnseen == ASSUME UNCHANGED vars PROVE Unseen
<1>1. UNCHANGED <<imageVars, volumeVars, amiVars>>
  BY DEF vars
<1>2. Stage' = Stage /\ Outcome' = Outcome /\ Image!Kept' = Image!Kept
  BY <1>1 DEF imageVars, volumeVars, callVars, amiVars, Stage, Outcome, Image!Kept
<1>3. ReturnedAmis' = ReturnedAmis
  BY <1>1 DEF amiVars, ReturnedAmis
<1>4. Registered' = Registered /\ KeptVolume' = KeptVolume
  BY <1>1 DEF volumeVars, callVars, amiVars, Registered, KeptVolume
<1> QED
  BY <1>2, <1>3, <1>4 DEF Unseen

(* For any poll limit the drivers implement IsolatedRegionPublisher:       *)
(* whatever happens in the many steps of a driver and in AWS meanwhile, to *)
(* Publish() the call is one step with one of the outcomes listed there    *)
(* (isolated_region.go:39-112).                                            *)
THEOREM CallsAreStepsOfPublisher == Spec => ImplementsPublisher
<1>1. Init => Publisher!PublisherInit /\ Publisher!VolumeInit
  BY InitSeen
<1>2. ASSUME Inv, Inv', [Next]_vars
      PROVE  [Publisher!IsolatedStep("entry")]_<<Publisher!publisherVars, [p \in {"entry"} |-> KeptVolume]>>
  <2>1. CASE UNCHANGED vars
    BY <2>1, NothingUnseen, UnseenIsStutter
  <2>2. CASE VolumeStep
    <3>1. handle \in {"none", "ok"}
      BY <1>2, <2>2, Waiting
    <3> QED
      BY <1>2, <2>2, <3>1, CreateVolumeSeen, CreateSnapshotSeen, UnseenIsStutter
  <2>3. CASE ImageStep \/ AmiStep \/ DeleteVolume \/ DeferredDelete \/ Meanwhile
    BY <1>2, <2>3, ImageStepSeen, AmiStepSeen, DeleteVolumeSeen, DeferredDeleteSeen,
      MeanwhileUnseen, UnseenIsStutter
  <2> QED
    BY <1>2, <2>1, <2>2, <2>3 DEF Next, Publish, Returned
<1> QED
  BY <1>1, <1>2, InvCorrect, PTL DEF Spec, ImplementsPublisher
=============================================================================
