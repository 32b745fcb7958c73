---------------------- MODULE StandardRegionDriversProofs ----------------------
(***************************************************************************)
(* For any accounts, configuration and poll limit: what the drivers of a   *)
(* standard region leave in AWS, whatever they meet there, and that they   *)
(* are the calls that the publisher's model takes them for.                *)
(***************************************************************************)
EXTENDS StandardRegionDrivers, SequenceTheorems, TLAPS

(* The accounts that the loops have passed. *)
Before(n) == {config.shared[i] : i \in 1 .. n - 1}

(* The machine image: the object is there from the upload to the deletion. *)
ImageInv ==
  /\ Image!TypeOK
  /\ imagePc \in {"upload", "sign", "use", "delete", "returned"}
  /\ created = "none" <=> imagePc \in {"upload", "sign"}
  /\ created = "error" => imagePc = "returned"
  /\ urls = IF created = "ok" THEN <<"image">> ELSE <<>>
  /\ objects \subseteq {"image"}
  /\ imagePc = "upload" => objects = {}
  /\ imagePc \in {"sign", "use"} => objects = {"image"} /\ nextUrl = 1
  /\ imagePc # "returned" => deleted = "none"
  /\ imagePc = "delete" /\ nextUrl = 2 => objects = {}
  /\ LeftoversAreReported

(* Publish() makes a call only after the success of the one before, and    *)
(* deletes the image when it leaves.                                       *)
TurnInv ==
  /\ alias # "none" => created = "ok"
  /\ importPc # "import" => alias = "ok"
  /\ sourcePc # "register" => imported = "ok"
  /\ key # "none" => sourceResult = "ok"
  /\ copyPc # "copy" => key = "ok"
  /\ copyDone => CopyEnded
  /\ created = "ok" /\ imagePc # "use" => Leaving

(* The snapshot exists when the driver comes to open it.                   *)
ImportInv ==
  /\ Import!TypeOK
  /\ imported = "none" <=> importPc # "returned"
  /\ importPc = "import" => importTask = "none"
  /\ snapshot = "complete" <=> importTask = "completed"
  /\ importPc = "publish" \/ imported = "ok" => snapshot = "complete"
  /\ imported = "ok" => ("all" \in snapshotGrants <=> Public)
  /\ imported = "none" => snapshotGrants = {}
  /\ snapshotGrants \subseteq Entitled

(* The source AMI: the accounts before the current one have been given the *)
(* image and the snapshot, and the current one the image first.            *)
SourceInv ==
  /\ Source!TypeOK
  /\ sourceResult = "none" <=> sourcePc # "returned"
  /\ sourcePc = "register" =>
       sourceImage = "none" /\ sourceGrants = {} /\ snapshotGrants \subseteq {"all"}
  /\ sourcePc \in {"register", "exists"} => sourceNext = 1
  /\ sourcePc \in {"share", "shareSnapshot"} =>
       Before(sourceNext) \subseteq sourceGrants \cap snapshotGrants
  /\ sourcePc = "shareSnapshot" =>
       sourceNext <= Len(config.shared) /\ config.shared[sourceNext] \in sourceGrants
  /\ sourcePc \in {"available", "publish"} => Shared \subseteq sourceGrants \cap snapshotGrants
  /\ sourcePc = "publish" => sourceImage = "available"
  /\ Source!SharedWhenOk /\ Source!AvailableWhenPublic /\ Source!ImageBeforeSnapshot
  /\ sourceGrants \subseteq Entitled

(* The copy: all accounts get the image before any gets the snapshot.      *)
CopyInv ==
  /\ Copy!TypeOK
  /\ copyResult = "none" <=> copyPc # "returned"
  /\ copyPc = "copy" => copyImage = "none" /\ copyGrants = {}
  /\ copyPc \in {"copy", "available", "publish", "poll"} => copyNext = 1
  /\ copyPc \in {"shareImage", "publish", "poll", "shareSnapshot"} => copyImage = "available"
  /\ copyPc \in {"copy", "available", "shareImage", "publish"} => "all" \notin copyGrants
  /\ copyPc = "shareImage" => Before(copyNext) \subseteq copyGrants
  /\ copyPc \in {"publish", "poll", "shareSnapshot"} => Shared \subseteq copyGrants
  /\ copyPc \in {"poll", "shareSnapshot"} => ("all" \in copyGrants <=> Public)
  /\ copyPc \notin {"shareSnapshot", "returned"} => copySnapshotGrants = {}
  /\ copyPc = "shareSnapshot" => Before(copyNext) \subseteq copySnapshotGrants
  /\ copyResult = "ok" =>
       /\ "all" \in copyGrants <=> Public
       /\ ~config.encrypted => "all" \in copySnapshotGrants
  /\ config.encrypted => "all" \notin copySnapshotGrants
  /\ Copy!SharedWhenOk /\ Copy!AvailableWhenPublic /\ Copy!ImageBeforeSnapshot
  /\ copyGrants \subseteq Entitled

(* What Publish() was given, and what the calls to KMS returned.           *)
Called ==
  /\ config \in Configs
  /\ alias \in {"none", "ok", "error"} /\ key \in {"none", "ok", "error"}
  /\ copyDone \in BOOLEAN

Inv == Called /\ ImageInv /\ TurnInv /\ ImportInv /\ SourceInv /\ CopyInv

-----------------------------------------------------------------------------
(* The list of accounts, as a loop that has come to the n-th sees it.      *)
LEMMA ConfigTyped ==
  ASSUME config \in Configs
  PROVE  /\ config.shared \in Seq(Accounts)
         /\ Len(config.shared) \in Nat
         /\ DOMAIN config.shared = 1 .. Len(config.shared)
         /\ \A n \in 1 .. Len(config.shared) : config.shared[n] \in Accounts
         /\ "all" \notin Accounts
         /\ config.visibility \in {"public", "private"}
         /\ config.encrypted \in BOOLEAN
<1>1. /\ config.shared \in Seq(Accounts) /\ "all" \notin Accounts
      /\ config.visibility \in {"public", "private"} /\ config.encrypted \in BOOLEAN
  BY SharedAssumption DEF Configs
<1>2. /\ Len(config.shared) \in Nat /\ DOMAIN config.shared = 1 .. Len(config.shared)
      /\ \A n \in 1 .. Len(config.shared) : config.shared[n] \in Accounts
  BY <1>1, LenProperties, ElementOfSeq
<1> QED
  BY <1>1, <1>2

(* The loop that has given the n-th account access has passed one more,    *)
(* and all of them at the end.                                             *)
LEMMA Accounted ==
  ASSUME config \in Configs
  PROVE  /\ "all" \notin Shared /\ Shared \subseteq Accounts
         /\ Shared \subseteq Entitled /\ Entitled \subseteq Grantees
         /\ "all" \in Entitled <=> Public
         /\ \A n \in 1 .. Len(config.shared) : config.shared[n] \in Shared
         /\ Before(1) = {}
         /\ \A n \in 1 .. Len(config.shared) : Before(n + 1) = Before(n) \cup {config.shared[n]}
         /\ Before(Len(config.shared) + 1) = Shared
<1>1. /\ DOMAIN config.shared = 1 .. Len(config.shared) /\ Len(config.shared) \in Nat
      /\ \A n \in 1 .. Len(config.shared) : config.shared[n] \in Accounts
      /\ "all" \notin Accounts
  BY ConfigTyped
<1>2. /\ "all" \notin Shared /\ Shared \subseteq Accounts
      /\ \A n \in 1 .. Len(config.shared) : config.shared[n] \in Shared
  BY <1>1 DEF Shared
<1>3. Shared \subseteq Entitled /\ Entitled \subseteq Grantees /\ ("all" \in Entitled <=> Public)
  BY <1>2 DEF Entitled, Grantees
<1>4. Before(1) = {}
  BY DEF Before
<1>5. ASSUME NEW n \in 1 .. Len(config.shared)
      PROVE  Before(n + 1) = Before(n) \cup {config.shared[n]}
  <2>1. 1 .. n + 1 - 1 = (1 .. n - 1) \cup {n}
    BY <1>1
  <2> QED
    BY <2>1 DEF Before
<1>6. Before(Len(config.shared) + 1) = Shared
  <2>1. 1 .. Len(config.shared) + 1 - 1 = DOMAIN config.shared
    BY <1>1
  <2> QED
    BY <2>1 DEF Before, Shared
<1> QED
  BY <1>2, <1>3, <1>4, <1>5, <1>6

(* Nothing exists and nothing was called.                                  *)
LEMMA InvInit == Init => Inv
<1> SUFFICES ASSUME Init PROVE Inv
  OBVIOUS
<1> USE DEF Init
<1>1. Called /\ TurnInv
  <2>1. Called
    BY DEF Called
  <2>2. TurnInv
    BY DEF TurnInv, Image!Init, Import!Init, Source!Init, Copy!Init
  <2> QED
    BY <2>1, <2>2
<1>2. Len(config.shared) \in Nat
  BY ConfigTyped
<1>3. ImageInv
  BY DEF ImageInv, LeftoversAreReported, Image!TypeOK, Image!Init
<1>4. ImportInv
  BY PollsAssumption DEF ImportInv, Import!TypeOK, Import!Init
<1>5. SourceInv
  <2>1. Source!TypeOK
    BY <1>2 DEF Source!TypeOK, Source!CallTypeOK, Source!Init, Source!CallInit, Import!Init
  <2> QED
    BY <2>1 DEF SourceInv, Source!Init, Source!CallInit, Import!Init, Source!SharedWhenOk,
      Source!AvailableWhenPublic, Source!ImageBeforeSnapshot
<1>6. CopyInv
  <2>1. Copy!TypeOK
    <3>1. Copy!CallTypeOK
      BY <1>2 DEF Copy!CallTypeOK, Copy!Init, Copy!CallInit
    <3>2. copyListed \in BOOLEAN
      BY DEF Copy!Init
    <3>3. copyPolls \in 0 .. MaxPolls
      BY PollsAssumption DEF Copy!Init
    <3> QED
      BY <3>1, <3>2, <3>3 DEF Copy!TypeOK, Copy!Init
  <2> QED
    BY <2>1 DEF CopyInv, Copy!Init, Copy!CallInit, Copy!SharedWhenOk, Copy!AvailableWhenPublic,
      Copy!ImageBeforeSnapshot
<1> QED
  BY <1>1, <1>3, <1>4, <1>5, <1>6 DEF Inv

-----------------------------------------------------------------------------
(* Each part of the invariant is about the variables of one driver.        *)
LEMMA ImageFrame == ASSUME ImageInv, UNCHANGED imageVars PROVE ImageInv'
  BY DEF ImageInv, imageVars, Image!TypeOK, LeftoversAreReported

(* A driver that does not move keeps its part, if what it reads of the     *)
(* others stays.                                                           *)
LEMMA ImportFrame ==
  ASSUME ImportInv, UNCHANGED <<config, importVars, snapshotGrants>> PROVE ImportInv'
  BY DEF ImportInv, importVars, Import!TypeOK, Public, Entitled, Shared

(* The same for the source AMI.                                            *)
LEMMA SourceFrame ==
  ASSUME SourceInv, UNCHANGED <<config, sourceVars, snapshotGrants>> PROVE SourceInv'
<1>1. Source!TypeOK'
  BY DEF SourceInv, sourceVars, Source!TypeOK, Source!CallTypeOK
<1> QED
  BY <1>1 DEF SourceInv, sourceVars, Before, Shared, Entitled, Public, Source!Shared,
    Source!SharedWhenOk, Source!AvailableWhenPublic, Source!ImageBeforeSnapshot

(* The same for the copy.                                                  *)
LEMMA CopyFrame == ASSUME CopyInv, UNCHANGED <<config, copyVars>> PROVE CopyInv'
<1>1. Copy!TypeOK'
  BY DEF CopyInv, copyVars, Copy!TypeOK, Copy!CallTypeOK
<1> QED
  BY <1>1 DEF CopyInv, copyVars, Before, Shared, Entitled, Public, Copy!Shared,
    Copy!SharedWhenOk, Copy!AvailableWhenPublic, Copy!ImageBeforeSnapshot

(* The same for the calls to KMS.                                          *)
LEMMA CalledFrame == ASSUME Called, UNCHANGED <<config, kmsVars, copyDone>> PROVE Called'
  BY DEF Called, kmsVars

-----------------------------------------------------------------------------
(* The machine image *)

(* Upload and signing (create_machine_image_driver.go:75-101).             *)
LEMMA ImageStepInv == ASSUME Inv, ImageStep PROVE Inv'
<1>1. /\ Called' /\ ImportInv' /\ SourceInv' /\ CopyInv'
  <2>1. UNCHANGED <<config, kmsVars, importVars, sourceVars, snapshotGrants, copyVars>>
    BY DEF ImageStep
  <2> QED
    BY <2>1, CalledFrame, ImportFrame, SourceFrame, CopyFrame DEF Inv, copyVars
<1>2. CASE Image!UploadImage
  <2>1. ImageInv'
    BY <1>2 DEF Inv, ImageInv, LeftoversAreReported, Image!TypeOK, Image!UploadImage,
      Image!Goto, Image!Fail, Image!deleteVars
  <2>2. TurnInv'
    BY <1>2, <2>1 DEF Inv, TurnInv, ImageInv, ImageStep, Image!UploadImage, Image!Goto,
      Image!Fail, kmsVars, importVars, sourceVars, copyVars, CopyEnded, Leaving, SourceEnded
  <2> QED
    BY <1>1, <2>1, <2>2 DEF Inv
<1>3. CASE Image!SignDelete
  <2>0. expired = {} /\ nextUrl = 1
    BY <1>3 DEF Inv, ImageInv, Image!TypeOK, Image!SignDelete, Image!Range
  <2>1. ImageInv'
    BY <1>3, <2>0 DEF Inv, ImageInv, LeftoversAreReported, Image!TypeOK, Image!SignDelete,
      Image!Succeed, Image!Fail, Image!deleteVars
  <2>2. TurnInv'
    BY <1>3, <2>1 DEF Inv, TurnInv, ImageInv, ImageStep, Image!SignDelete, Image!Succeed,
      Image!Fail, kmsVars, importVars, sourceVars, copyVars, CopyEnded, Leaving, SourceEnded
  <2> QED
    BY <1>1, <2>1, <2>2 DEF Inv
<1>4. ~Image!PrepareManifest /\ ~Image!UploadManifest
  BY DEF Inv, ImageInv, Image!PrepareManifest, Image!UploadManifest
<1> QED
  BY <1>2, <1>3, <1>4 DEF ImageStep, Image!Create

(* An expired URL takes nothing out of the bucket.                         *)
LEMMA ExpireInv ==
  ASSUME Inv, Image!Expire,
         UNCHANGED <<config, kmsVars, importVars, sourceVars, snapshotGrants, copyVars>>
  PROVE  Inv'
<1>1. /\ Called' /\ ImportInv' /\ SourceInv' /\ CopyInv'
  BY CalledFrame, ImportFrame, SourceFrame, CopyFrame DEF Inv, copyVars
<1>2. ImageInv'
  BY DEF Inv, ImageInv, LeftoversAreReported, Image!TypeOK, Image!Expire
<1>3. TurnInv'
  BY DEF Inv, TurnInv, Image!Expire, kmsVars, importVars, sourceVars, copyVars, CopyEnded,
    Leaving, SourceEnded
<1> QED
  BY <1>1, <1>2, <1>3 DEF Inv

(* The deferred deletion comes when a call failed or the last returned, so *)
(* nobody needs the image any more (standard_region.go:65-70).             *)
LEMMA DeferredDeleteInv == ASSUME Inv, DeferredDelete PROVE Inv'
<1>1. /\ Called' /\ ImportInv' /\ SourceInv' /\ CopyInv'
  <2>1. UNCHANGED <<config, kmsVars, importVars, sourceVars, snapshotGrants, copyVars>>
    BY DEF DeferredDelete
  <2> QED
    BY <2>1, CalledFrame, ImportFrame, SourceFrame, CopyFrame DEF Inv, copyVars
<1>2. CASE Leaving /\ Image!StartDelete
  <2>1. ImageInv'
    BY <1>2 DEF Inv, ImageInv, LeftoversAreReported, Image!TypeOK, Image!StartDelete,
      Image!Goto, Image!deleteVars
  <2>2. TurnInv'
    BY <1>2 DEF Inv, TurnInv, Image!StartDelete, Image!Goto, DeferredDelete, kmsVars,
      importVars, sourceVars, copyVars, CopyEnded, Leaving, SourceEnded
  <2> QED
    BY <1>1, <2>1, <2>2 DEF Inv
<1>3. CASE Image!DeleteNext
  <2>0. created = "ok" /\ urls = <<"image">> /\ nextUrl = 1 /\ urls[nextUrl] = "image" /\ Len(urls) = 1
    BY <1>3 DEF Inv, ImageInv, Image!TypeOK, Image!DeleteNext
  <2>1. ImageInv'
    <3>1. CASE Image!AnswerAccepted /\ Image!Serve(urls[nextUrl]) /\ nextUrl' = nextUrl + 1 /\ Image!Goto("delete")
               /\ UNCHANGED <<expired, deleted>>
      <4>1. objects' = {} /\ nextUrl' = 2
        BY <2>0, <3>1 DEF Inv, ImageInv, Image!Serve, Image!AnswerAccepted
      <4>2. Image!TypeOK'
        BY <2>0, <3>1, <4>1 DEF Inv, ImageInv, Image!TypeOK, Image!Goto
      <4> QED
        BY <1>3, <2>0, <3>1, <4>1, <4>2 DEF Inv, ImageInv, LeftoversAreReported, Image!Goto,
          Image!DeleteNext
    <3>2. CASE (Image!Serve(urls[nextUrl]) \/ UNCHANGED objects) /\ Image!StopDeleting("error")
      BY <1>3, <2>0, <3>2 DEF Inv, ImageInv, LeftoversAreReported, Image!TypeOK,
        Image!StopDeleting, Image!Serve
    <3> QED
      BY <1>3, <3>1, <3>2 DEF Image!DeleteNext
  <2>2. TurnInv'
    BY <1>3 DEF Inv, TurnInv, Image!DeleteNext, Image!Goto, Image!StopDeleting, DeferredDelete,
      kmsVars, importVars, sourceVars, copyVars, CopyEnded, Leaving, SourceEnded
  <2> QED
    BY <1>1, <2>1, <2>2 DEF Inv
<1>4. CASE Image!DeletedAll
  <2>0. created = "ok" /\ urls = <<"image">> /\ Len(urls) = 1
    BY <1>4 DEF Inv, ImageInv, Image!TypeOK, Image!DeletedAll
  <2>3. nextUrl = 2 /\ objects = {}
    BY <1>4, <2>0 DEF Inv, ImageInv, Image!TypeOK, Image!DeletedAll
  <2>1. ImageInv'
    BY <1>4, <2>0, <2>3 DEF Inv, ImageInv, LeftoversAreReported, Image!TypeOK, Image!DeletedAll,
      Image!StopDeleting
  <2>2. TurnInv'
    BY <1>4 DEF Inv, TurnInv, Image!DeletedAll, Image!StopDeleting, DeferredDelete, kmsVars,
      importVars, sourceVars, copyVars, CopyEnded, Leaving, SourceEnded
  <2> QED
    BY <1>1, <2>1, <2>2 DEF Inv
<1> QED
  BY <1>2, <1>3, <1>4 DEF DeferredDelete, Image!Delete

-----------------------------------------------------------------------------
(* The calls to KMS, and the end of the copy's goroutine *)

(* The alias: one call with two outcomes.                                  *)
LEMMA CreateAliasInv == ASSUME Inv, CreateAlias PROVE Inv'
<1>1. ImageInv' /\ ImportInv' /\ SourceInv' /\ CopyInv'
  BY ImageFrame, ImportFrame, SourceFrame, CopyFrame DEF Inv, CreateAlias
<1>2. Called' /\ TurnInv'
  <2>1. Called'
    BY DEF Inv, Called, CreateAlias, copyVars
  <2>2. TurnInv'
    BY DEF Inv, TurnInv, CreateAlias, imageVars, importVars, sourceVars, copyVars, CopyEnded,
      Leaving, SourceEnded
  <2> QED
    BY <2>1, <2>2
<1> QED
  BY <1>1, <1>2 DEF Inv

(* The replica: one call with two outcomes.                                *)
LEMMA ReplicateKeyInv == ASSUME Inv, ReplicateKey PROVE Inv'
<1>1. ImageInv' /\ ImportInv' /\ SourceInv' /\ CopyInv'
  BY ImageFrame, ImportFrame, SourceFrame, CopyFrame DEF Inv, ReplicateKey
<1>2. Called' /\ TurnInv'
  <2>1. Called'
    BY DEF Inv, Called, ReplicateKey, copyVars
  <2>2. TurnInv'
    BY DEF Inv, TurnInv, ReplicateKey, imageVars, importVars, sourceVars, copyVars, CopyEnded,
      Leaving, SourceEnded
  <2> QED
    BY <2>1, <2>2
<1> QED
  BY <1>1, <1>2 DEF Inv

(* procGroup.Done() comes after the copy's driver has returned.            *)
LEMMA CopyDoneInv == ASSUME Inv, CopyDone PROVE Inv'
<1>1. ImageInv' /\ ImportInv' /\ SourceInv'
  BY ImageFrame, ImportFrame, SourceFrame DEF Inv, CopyDone
<1>2. CopyInv'
  <2>1. Copy!TypeOK'
    BY DEF Inv, CopyInv, CopyDone, Copy!TypeOK, Copy!CallTypeOK
  <2> QED
    BY <2>1 DEF Inv, CopyInv, CopyDone, Before, Shared, Entitled, Public, Copy!Shared,
      Copy!SharedWhenOk, Copy!AvailableWhenPublic, Copy!ImageBeforeSnapshot
<1>3. Called' /\ TurnInv'
  <2>1. Called'
    BY DEF Inv, Called, CopyDone, kmsVars
  <2>2. TurnInv'
    BY DEF Inv, TurnInv, CopyDone, imageVars, kmsVars, importVars, sourceVars, CopyEnded,
      Leaving, SourceEnded
  <2> QED
    BY <2>1, <2>2
<1> QED
  BY <1>1, <1>2, <1>3 DEF Inv

-----------------------------------------------------------------------------
(* The import *)

(* The import: request, polls, the empty answer, the permission            *)
(* (snapshot_from_image_driver.go:37-149).                                 *)
LEMMA ImportStepInv == ASSUME Inv, ImportStep PROVE Inv'
<1>1. ImageInv' /\ CopyInv' /\ Called'
  BY ImageFrame, CopyFrame, CalledFrame DEF Inv, ImportStep, copyVars
<1>2. /\ config' = config /\ UNCHANGED sourceVars
      /\ imported = "none" /\ alias = "ok" /\ sourcePc = "register" /\ snapshotGrants = {}
  BY DEF Inv, ImportInv, TurnInv, ImportStep, Import!Create, Import!ImportSnapshot, Import!Poll,
    Import!TimeOut, Import!Describe, Import!MakePublic
<1>3. ImportInv' /\ snapshotGrants' \subseteq {"all"}
  <2> USE <1>2 DEF Inv, ImportInv, Import!TypeOK, Public, Entitled, Shared
  <2>1. CASE Import!ImportSnapshot
    BY <2>1 DEF Import!ImportSnapshot, Import!Goto, Import!Return
  <2>2. CASE Import!Poll
    BY <2>2, PollsAssumption DEF Import!Poll, Import!PollsLeft, Import!TaskFinished,
      Import!TaskDeleted, Import!Sleep, Import!Goto, Import!Return, Import!ec2Vars
  <2>3. CASE Import!TimeOut
    BY <2>3 DEF Import!TimeOut, Import!Return, Import!ec2Vars
  <2>4. CASE Import!Describe
    BY <2>4 DEF Import!Describe, Import!SnapshotNamed, Import!Goto, Import!Return, Import!ec2Vars
  <2>5. CASE Import!MakePublic
    BY <2>5 DEF Import!MakePublic, Import!StaysPrivate, Import!Open, Import!Return, Called,
      Configs
  <2> QED
    BY <2>1, <2>2, <2>3, <2>4, <2>5 DEF ImportStep, Import!Create
<1>4. TurnInv'
  BY <1>2 DEF Inv, TurnInv, ImportStep, imageVars, kmsVars, sourceVars, copyVars, CopyEnded,
    Leaving, SourceEnded
<1>5. SourceInv'
  <2>1. Source!TypeOK'
    BY <1>2, <1>3 DEF Inv, SourceInv, sourceVars, Source!TypeOK, Source!CallTypeOK,
      Source!Grantees
  <2>2. "all" \notin Source!Shared'
    BY <1>2, Accounted DEF Inv, Called, Shared, Source!Shared
  <2> QED
    BY <1>2, <1>3, <2>1, <2>2 DEF Inv, SourceInv, sourceVars, Source!SharedWhenOk,
      Source!AvailableWhenPublic, Source!ImageBeforeSnapshot
<1> QED
  BY <1>1, <1>3, <1>4, <1>5 DEF Inv

(* EC2 works on the import by itself.                                      *)
LEMMA WorkInv ==
  ASSUME Inv, Import!Work, UNCHANGED <<config, imageVars, kmsVars, sourceVars, copyVars>>
  PROVE  Inv'
<1>1. ImageInv' /\ SourceInv' /\ CopyInv' /\ Called'
  BY ImageFrame, SourceFrame, CopyFrame, CalledFrame DEF Inv, Import!Work, copyVars
<1>2. ImportInv'
  BY DEF Inv, ImportInv, Import!TypeOK, Import!Work, Public, Entitled, Shared
<1>3. TurnInv'
  BY DEF Inv, TurnInv, Import!Work, imageVars, kmsVars, sourceVars, copyVars, CopyEnded,
    Leaving, SourceEnded
<1> QED
  BY <1>1, <1>2, <1>3 DEF Inv

-----------------------------------------------------------------------------
(* The source AMI *)

(* The configuration stays, and with it what is said of the accounts.      *)
LEMMA ConfigStays ==
  ASSUME config' = config
  PROVE  /\ Shared' = Shared /\ Source!Shared' = Shared /\ Copy!Shared' = Shared
         /\ Source!Shared = Shared /\ Copy!Shared = Shared
         /\ Source!Public = Public /\ Copy!Public = Public
         /\ Source!Grantees = Grantees /\ Copy!Grantees = Grantees
         /\ Entitled' = Entitled /\ Public' = Public
         /\ Before(sourceNext)' = Before(sourceNext')
         /\ Before(copyNext)' = Before(copyNext')
  BY DEF Shared, Source!Shared, Copy!Shared, Entitled, Public, Before, Source!Public,
    Copy!Public, Source!Grantees, Copy!Grantees, Grantees

(* The source AMI: registered, shared account by account, published        *)
(* (create_ami_driver.go:39-165).                                          *)
LEMMA SourceStepInv == ASSUME Inv, SourceStep PROVE Inv'
<1>1. ImageInv' /\ CopyInv' /\ Called'
  BY ImageFrame, CopyFrame, CalledFrame DEF Inv, SourceStep, copyVars
<1>2. /\ config' = config /\ UNCHANGED importVars
      /\ imported = "ok" /\ sourceResult = "none"
      /\ ("all" \in snapshotGrants <=> Public) /\ snapshotGrants \subseteq Entitled
      /\ sourceGrants \subseteq Entitled
  BY DEF Inv, ImportInv, SourceInv, SourceStep, Source!Create, Source!Register,
    Source!WaitExists, Source!ShareImage, Source!ShareSnapshot, Source!SharedWithAll,
    Source!WaitAvailable, Source!MakePublic
<1>3. TurnInv'
  BY <1>2 DEF Inv, TurnInv, SourceStep, imageVars, kmsVars, importVars, copyVars, CopyEnded,
    Leaving, SourceEnded
<1> DEFINE n == sourceNext
           GrantsOK ==
             /\ sourceGrants' \subseteq Entitled
             /\ snapshotGrants' \subseteq Entitled
             /\ "all" \in snapshotGrants' <=> Public
<1>4. /\ Len(config.shared) \in Nat
      /\ n \in 1 .. Len(config.shared) + 1
      /\ \A i \in 1 .. Len(config.shared) :
           /\ config.shared[i] \in Shared
           /\ Before(i + 1) = Before(i) \cup {config.shared[i]}
      /\ Before(1) = {} /\ Before(Len(config.shared) + 1) = Shared
      /\ "all" \notin Shared /\ Shared \subseteq Entitled /\ Entitled \subseteq Grantees
      /\ "all" \in Entitled <=> Public
  BY ConfigTyped, Accounted DEF Inv, Called, SourceInv, Source!TypeOK, Source!CallTypeOK
<1>5. Source!MoreToShare <=> n \in 1 .. Len(config.shared)
  BY <1>4 DEF Source!MoreToShare
<1>6. ASSUME GrantsOK PROVE ImportInv'
  BY <1>2, <1>6, ConfigStays DEF Inv, ImportInv, importVars, Import!TypeOK
<1>7. ASSUME Source!Create PROVE SourceInv' /\ GrantsOK
  <2> USE <1>2 DEF Inv, SourceInv, Source!TypeOK, Source!CallTypeOK, Source!SharedWhenOk,
        Source!AvailableWhenPublic, Source!ImageBeforeSnapshot
  <2>1. CASE Source!Register
    BY <2>1, <1>4, ConfigStays DEF Source!Register, Source!MakeImage, Source!Goto, Source!Return
  <2>2. CASE Source!WaitExists
    BY <2>2, <1>4, ConfigStays DEF Source!WaitExists, Source!Goto, Source!Return, Source!ec2Vars
  <2>3. CASE Source!ShareImage
    BY <2>3, <1>4, <1>5, ConfigStays DEF Source!ShareImage, Source!GrantImage, Source!NoGrant,
      Source!Goto, Source!Return
  <2>4. CASE Source!ShareSnapshot
    BY <2>4, <1>4, ConfigStays DEF Source!ShareSnapshot, Source!GrantSnapshot, Source!NoGrant,
      Source!Goto, Source!Return
  <2>5. CASE Source!SharedWithAll
    BY <2>5, <1>4, <1>5, ConfigStays DEF Source!SharedWithAll, Source!Goto, Source!ec2Vars
  <2>6. CASE Source!WaitAvailable("publish")
    BY <2>6, <1>4, ConfigStays DEF Source!WaitAvailable, Source!Available, Source!Goto,
      Source!Return, Source!ec2Vars
  <2>7. CASE Source!MakePublic
    BY <2>7, <1>4, ConfigStays DEF Source!MakePublic, Source!GrantImage, Source!NoGrant,
      Source!Return
  <2> QED
    BY <1>7, <2>1, <2>2, <2>3, <2>4, <2>5, <2>6, <2>7 DEF Source!Create
<1> QED
  BY <1>1, <1>3, <1>6, <1>7 DEF Inv, SourceStep

(* EC2 settles the state of the source AMI by itself.                      *)
LEMMA SettleInv ==
  ASSUME Inv, Source!Settle, UNCHANGED <<config, imageVars, kmsVars, importVars, copyVars>>
  PROVE  Inv'
<1>1. ImageInv' /\ ImportInv' /\ CopyInv' /\ Called'
  BY ImageFrame, ImportFrame, CopyFrame, CalledFrame DEF Inv, Source!Settle, copyVars
<1>2. SourceInv'
  BY ConfigStays DEF Inv, SourceInv, Source!Settle, Source!TypeOK, Source!CallTypeOK,
    Source!SharedWhenOk, Source!AvailableWhenPublic, Source!ImageBeforeSnapshot
<1>3. TurnInv'
  BY DEF Inv, TurnInv, Source!Settle, imageVars, kmsVars, importVars, copyVars, CopyEnded,
    Leaving, SourceEnded
<1> QED
  BY <1>1, <1>2, <1>3 DEF Inv

-----------------------------------------------------------------------------
(* The copy *)

(* The copy: requested, awaited, shared, published; its snapshot found and *)
(* shared (copy_ami_driver.go:74-225).                                     *)
LEMMA CopyStepInv == ASSUME Inv, CopyStep PROVE Inv'
<1>1. ImageInv' /\ ImportInv' /\ SourceInv' /\ Called'
  BY ImageFrame, ImportFrame, SourceFrame, CalledFrame DEF Inv, CopyStep
<1>2. config' = config /\ copyResult = "none" /\ copyGrants \subseteq Entitled
  BY DEF Inv, CopyInv, CopyStep, Copy!Create, Copy!CopyImage, Copy!WaitAvailable,
    Copy!ShareImages, Copy!SharedImage, Copy!MakePublic, Copy!Poll, Copy!GiveUp,
    Copy!ShareSnapshots, Copy!MakeSnapshotPublic
<1>3. TurnInv'
  BY <1>2 DEF Inv, TurnInv, CopyStep, imageVars, kmsVars, importVars, sourceVars, CopyEnded,
    Leaving, SourceEnded
<1> DEFINE n == copyNext
<1>4. /\ Len(config.shared) \in Nat
      /\ n \in 1 .. Len(config.shared) + 1
      /\ \A i \in 1 .. Len(config.shared) :
           /\ config.shared[i] \in Shared
           /\ Before(i + 1) = Before(i) \cup {config.shared[i]}
      /\ Before(1) = {} /\ Before(Len(config.shared) + 1) = Shared
      /\ "all" \notin Shared /\ Shared \subseteq Entitled /\ Entitled \subseteq Grantees
      /\ "all" \in Entitled <=> Public
      /\ "all" \in Grantees
  BY ConfigTyped, Accounted DEF Inv, Called, CopyInv, Copy!TypeOK, Copy!CallTypeOK, Grantees
<1>5. Copy!MoreToShare <=> n \in 1 .. Len(config.shared)
  BY <1>4 DEF Copy!MoreToShare
<1>6. ASSUME Copy!Create PROVE CopyInv'
  <2> USE <1>2 DEF Inv, CopyInv, Copy!TypeOK, Copy!CallTypeOK, Copy!SharedWhenOk,
        Copy!AvailableWhenPublic, Copy!ImageBeforeSnapshot
  <2>1. CASE Copy!CopyImage
    BY <2>1, <1>4, ConfigStays DEF Copy!CopyImage, Copy!MakeImage, Copy!Goto, Copy!Return,
      Copy!pollVars
  <2>2. CASE Copy!WaitAvailable("shareImage") /\ UNCHANGED Copy!pollVars
    BY <2>2, <1>4, ConfigStays DEF Copy!WaitAvailable, Copy!Available, Copy!Goto, Copy!Return,
      Copy!ec2Vars, Copy!pollVars
  <2>3. CASE Copy!ShareImages
    BY <2>3, <1>4, <1>5, ConfigStays DEF Copy!ShareImages, Copy!GrantImage, Copy!NoGrant,
      Copy!Goto, Copy!Return, Copy!pollVars
  <2>4. CASE Copy!SharedImage
    BY <2>4, <1>4, <1>5, ConfigStays DEF Copy!SharedImage, Copy!Goto, Copy!ec2Vars, Copy!pollVars
  <2>5. CASE Copy!MakePublic
    BY <2>5, <1>4, ConfigStays DEF Copy!MakePublic, Copy!GrantImage, Copy!NoGrant, Copy!Goto,
      Copy!Return, Copy!pollVars
  <2>6. CASE Copy!Poll
    BY <2>6, <1>4, ConfigStays, PollsAssumption DEF Copy!Poll, Copy!Goto, Copy!Return,
      Copy!ec2Vars
  <2>7. CASE Copy!GiveUp
    BY <2>7, <1>4, ConfigStays DEF Copy!GiveUp, Copy!Return, Copy!ec2Vars, Copy!pollVars
  <2>8. CASE Copy!ShareSnapshots
    BY <2>8, <1>4, <1>5, ConfigStays DEF Copy!ShareSnapshots, Copy!GrantSnapshot, Copy!NoGrant,
      Copy!Goto, Copy!Return, Copy!pollVars
  <2>9. CASE Copy!MakeSnapshotPublic
    BY <2>9, <1>4, <1>5, ConfigStays DEF Copy!MakeSnapshotPublic, Copy!SnapshotStaysPrivate,
      Copy!GrantSnapshot, Copy!NoGrant, Copy!Return, Copy!pollVars
  <2> QED
    BY <1>6, <2>1, <2>2, <2>3, <2>4, <2>5, <2>6, <2>7, <2>8, <2>9 DEF Copy!Create
<1> QED
  BY <1>1, <1>3, <1>6 DEF Inv, CopyStep

(* EC2 settles the copy and lists its snapshot by itself.                  *)
LEMMA CopyMeanwhileInv ==
  ASSUME Inv, Copy!Settled \/ Copy!ListSnapshot,
         UNCHANGED <<config, imageVars, kmsVars, importVars, sourceVars, snapshotGrants, copyDone>>
  PROVE  Inv'
<1>1. ImageInv' /\ ImportInv' /\ SourceInv' /\ Called'
  BY ImageFrame, ImportFrame, SourceFrame, CalledFrame DEF Inv
<1>2. CopyInv'
  <2> USE DEF Inv, CopyInv, Copy!TypeOK, Copy!CallTypeOK, Copy!SharedWhenOk, Copy!AvailableWhenPublic,
        Copy!ImageBeforeSnapshot
  <2>1. CASE Copy!Settled
    BY <2>1, ConfigStays DEF Copy!Settled, Copy!Settle, Copy!pollVars
  <2>2. CASE Copy!ListSnapshot
    <3>1. Copy!TypeOK'
      <4>1. copyListed' \in BOOLEAN
        BY <2>2 DEF Copy!ListSnapshot
      <4> QED
        BY <2>2, <4>1, ConfigStays DEF Copy!ListSnapshot, Copy!ec2Vars
    <3> QED
      BY <2>2, <3>1, ConfigStays DEF Copy!ListSnapshot, Copy!ec2Vars
  <2> QED
    BY <2>1, <2>2
<1>3. TurnInv'
  BY DEF Inv, TurnInv, Copy!Settled, Copy!Settle, Copy!ListSnapshot, Copy!ec2Vars, imageVars,
    kmsVars, importVars, sourceVars, CopyEnded, Leaving, SourceEnded
<1> QED
  BY <1>1, <1>2, <1>3 DEF Inv

-----------------------------------------------------------------------------
(* Every step of Publish(), of a driver or of AWS keeps the invariant.     *)
LEMMA InvNext == Inv /\ [Next]_vars => Inv'
<1> SUFFICES ASSUME Inv, [Next]_vars PROVE Inv'
  OBVIOUS
<1>1. CASE UNCHANGED vars
  <2>1. /\ UNCHANGED <<config, imageVars, kmsVars, importVars, sourceVars, snapshotGrants, copyVars>>
        /\ UNCHANGED copyDone
    BY <1>1 DEF vars, copyVars
  <2>2. TurnInv'
    BY <2>1 DEF Inv, TurnInv, imageVars, kmsVars, importVars, sourceVars, copyVars, CopyEnded,
      Leaving, SourceEnded
  <2> QED
    BY <2>1, <2>2, CalledFrame, ImageFrame, ImportFrame, SourceFrame, CopyFrame DEF Inv
<1>2. CASE Publish
  BY <1>2, ImageStepInv, CreateAliasInv, ImportStepInv, SourceStepInv, ReplicateKeyInv,
    CopyStepInv, CopyDoneInv, DeferredDeleteInv DEF Publish
<1>3. CASE Meanwhile
  BY <1>3, ExpireInv, WorkInv, SettleInv, CopyMeanwhileInv DEF Meanwhile
<1> QED
  BY <1>1, <1>2, <1>3 DEF Next, Returned

(* In every state the drivers, what they have returned and what AWS holds  *)
(* belong together, for any accounts and any poll limit                    *)
(* (standard_region.go:47-157 and the drivers it calls).                   *)
THEOREM InvCorrect == Spec => []Inv
  BY InvInit, InvNext, PTL DEF Spec

(* The variables of Publish() and of its four drivers keep their types.    *)
THEOREM TypeCorrect == Spec => []TypeOK
<1>1. Inv => TypeOK
  BY DEF Inv, Called, ImageInv, ImportInv, SourceInv, CopyInv, TypeOK
<1> QED
  BY <1>1, InvCorrect, PTL

(* A snapshot that was returned is complete, and public exactly when the   *)
(* stemcell is: the empty answer that ends the polls does not pass for     *)
(* success (snapshot_from_image_driver.go:83-105).                         *)
THEOREM OkAlwaysMeansImported == Spec => []OkMeansImported
<1>1. Inv => OkMeansImported
  BY DEF Inv, ImportInv, OkMeansImported
<1> QED
  BY <1>1, InvCorrect, PTL

(* However many accounts there are, a returned AMI or copy is available    *)
(* and open to every one of them together with its snapshot, and that of a *)
(* public stemcell's unencrypted copy to everybody                         *)
(* (create_ami_driver.go:110-144, copy_ami_driver.go:74-225).              *)
THEOREM OkAlwaysMeansConfigured == Spec => []OkMeansConfigured
<1>1. Inv => OkMeansConfigured
  BY DEF Inv, SourceInv, CopyInv, OkMeansConfigured
<1> QED
  BY <1>1, InvCorrect, PTL

(* No failure at any point of any loop leaves source AMI, snapshot or copy *)
(* open to somebody who is not configured (create_ami_driver.go:146,       *)
(* copy_ami_driver.go:119, 208-210).                                       *)
THEOREM NobodyElseEverMayUse == Spec => []NobodyElseMayUse
<1>1. Inv => NobodyElseMayUse
  BY DEF Inv, ImportInv, SourceInv, CopyInv, NobodyElseMayUse
<1> QED
  BY <1>1, InvCorrect, PTL

(* Neither driver publishes an AMI that cannot be launched yet             *)
(* (create_ami_driver.go:137-156, copy_ami_driver.go:74-132).              *)
THEOREM PublicAlwaysMeansAvailable == Spec => []PublicMeansAvailable
<1>1. Inv => PublicMeansAvailable
  BY DEF Inv, SourceInv, CopyInv, PublicMeansAvailable
<1> QED
  BY <1>1, InvCorrect, PTL

(* Wherever a loop over the accounts stops, and however many there are, no *)
(* configured account has the disk alone (create_ami_driver.go:110-135,    *)
(* copy_ami_driver.go:104-206).                                            *)
THEOREM SnapshotAlwaysFollowsImage == Spec => []SnapshotFollowsImage
<1>1. Inv => SnapshotFollowsImage
  BY DEF Inv, SourceInv, CopyInv, SnapshotFollowsImage
<1> QED
  BY <1>1, InvCorrect, PTL

(* The deferred deletion takes the image away from an import under way     *)
(* only after the snapshot driver gave that up                             *)
(* (snapshot_from_image_driver.go:70-81, standard_region.go:65-96).        *)
THEOREM ImageAlwaysStaysForImport == Spec => []ImageStaysForImport
<1>1. Inv => ImageStaysForImport
  <2> SUFFICES ASSUME Inv, importPc # "import", imported \notin {"ok", "error", "panic"}
               PROVE  "image" \in objects
    BY DEF Inv, ImportInv, ImageStaysForImport
  <2>1. created = "ok" /\ alias = "ok" /\ imported = "none" /\ sourcePc = "register"
    BY DEF Inv, TurnInv, ImportInv, Import!TypeOK
  <2>2. sourceResult = "none"
    BY <2>1 DEF Inv, SourceInv
  <2>3. key = "none" /\ copyPc = "copy" /\ copyResult = "none"
    BY <2>2 DEF Inv, Called, TurnInv, CopyInv
  <2>4. imagePc = "use"
    BY <2>1, <2>2, <2>3 DEF Inv, TurnInv, Leaving, SourceEnded, CopyEnded
  <2> QED
    BY <2>4 DEF Inv, ImageInv
<1> QED
  BY <1>1, InvCorrect, PTL

(* Publish() returns with the image in the bucket only after an error of   *)
(* the upload or of the deletion (delete_machine_image_driver.go:42-59,    *)
(* standard_region.go:65-70).                                              *)
THEOREM LeftoversAreAlwaysReported == Spec => []LeftoversAreReported
<1>1. Inv => LeftoversAreReported
  BY DEF Inv, ImageInv
<1> QED
  BY <1>1, InvCorrect, PTL

(* A copy is requested only of an available AMI made of a complete         *)
(* snapshot (standard_region.go:103-150).                                  *)
THEOREM CopyIsOfFinished == Spec => []CopyOfFinished
<1>1. Inv => CopyOfFinished
  <2> SUFFICES ASSUME Inv, copyImage # "none"
               PROVE  sourceImage = "available" /\ importTask = "completed" /\ Shared \subseteq sourceGrants
    BY DEF CopyOfFinished
  <2>1. sourceResult = "ok"
    BY DEF Inv, CopyInv, TurnInv
  <2>2. imported = "ok"
    BY <2>1 DEF Inv, SourceInv, TurnInv
  <2>3. importTask = "completed"
    BY <2>2 DEF Inv, ImportInv
  <2>4. sourceImage = "available" /\ Shared \subseteq sourceGrants
    BY <2>1 DEF Inv, SourceInv, Source!SharedWhenOk, Source!Shared, Shared
  <2> QED
    BY <2>3, <2>4
<1> QED
  BY <1>1, InvCorrect, PTL

-----------------------------------------------------------------------------
(* What the publisher sees *)

PublisherNext == Publisher!StandardStep("entry") \/ Publisher!CopyStep("copy")

(* What each variable of the publisher depends on. *)
Unseen ==
  /\ Stage' = Stage /\ Outcome' = Outcome /\ Image!Kept' = Image!Kept
  /\ ReturnedAmis' = ReturnedAmis /\ Registered' = Registered
  /\ CopyStage' = CopyStage /\ CopyFailed' = CopyFailed

(* Such a step is a stutter of the publisher's model.                      *)
LEMMA UnseenIsStutter ==
  ASSUME Unseen PROVE UNCHANGED <<Publisher!publisherVars, Publisher!copyVars>>
  BY DEF Unseen, Publisher!publisherVars, Publisher!copyVars

(* How the publisher goes from one call to the next.                       *)
LEMMA Proceeds ==
  ASSUME NEW s, Stage' = s, Outcome' = Outcome PROVE Publisher!Proceed("entry", s)
  BY DEF Publisher!Proceed

(* How it leaves for the deferred deletion, with or without an error.      *)
LEMMA Leaves ==
  ASSUME NEW e, Stage' = "cleanup", Outcome' = e PROVE Publisher!Leave("entry", e)
  BY DEF Publisher!Leave

(* How a copy's goroutine goes from one call to the next.                  *)
LEMMA CopyGoes ==
  ASSUME NEW s, CopyStage' = s PROVE Publisher!CopyGoto("copy", s)
  BY DEF Publisher!CopyGoto

(* How it ends with an error in the collection.                            *)
LEMMA CopyFails ==
  ASSUME ~CopyFailed, CopyFailed', CopyStage' = "leaving" PROVE Publisher!FailCopy("copy")
  BY CopyGoes DEF Publisher!FailCopy, Owner

(* Nothing was called and nothing exists for the publisher either.         *)
LEMMA InitSeen == Init => Publisher!PublisherInit /\ Publisher!CopyInit
<1> SUFFICES ASSUME Init PROVE Publisher!PublisherInit /\ Publisher!CopyInit
  OBVIOUS
<1> USE DEF Init, Image!Init, Import!Init, Source!Init, Source!CallInit, Copy!Init, Copy!CallInit
<1>1. Stage = "image" /\ Outcome = "nil" /\ Image!Kept = "none" /\ CopyStage = "idle" /\ ~CopyFailed
  BY DEF Stage, Outcome, CopyFailed, Image!Kept, CopyStage
<1>2. ReturnedAmis = <<>>
  BY DEF ReturnedAmis
<1>3. Registered = {}
  BY DEF Registered
<1> QED
  BY <1>1, <1>2, <1>3 DEF Publisher!PublisherInit, Publisher!CopyInit, Publisher!Publishers

(* The upload becomes visible when its driver returns: the image, an       *)
(* error, or an error and an object nobody will delete.                    *)
LEMMA ImageStepSeen == ASSUME Inv, Inv', ImageStep PROVE PublisherNext \/ Unseen
<1>1. /\ UNCHANGED <<config, kmsVars, importVars, sourceVars, snapshotGrants, copyVars>>
      /\ imagePc \in {"upload", "sign"} /\ created = "none"
      /\ alias = "none" /\ imported = "none" /\ sourceResult = "none" /\ key = "none" /\ copyResult = "none"
  BY DEF Inv, Called, ImageInv, TurnInv, ImportInv, SourceInv, CopyInv, ImageStep, Image!Create,
    Image!UploadImage, Image!SignDelete, Image!PrepareManifest, Image!UploadManifest
<1>2. /\ ReturnedAmis' = ReturnedAmis /\ Registered' = Registered
      /\ CopyStage' = CopyStage /\ CopyFailed' = CopyFailed
      /\ Stage = "image" /\ Outcome = "nil" /\ Image!Kept = "none"
  BY <1>1 DEF kmsVars, sourceVars, copyVars, ReturnedAmis, Registered, CopyStage, CopyFailed,
    Stage, Outcome, Image!Kept
<1>3. CASE created' = "none"
  <2>1. imagePc' # "returned"
    BY <1>3 DEF Inv, ImageInv
  <2>2. Stage' = "image" /\ Outcome' = "nil" /\ Image!Kept' = "none"
    BY <1>1, <1>3, <2>1 DEF kmsVars, importVars, sourceVars, copyVars, Stage, Outcome,
      Image!Kept, CopyFailed
  <2> QED
    BY <1>2, <2>2 DEF Unseen
<1>4. CASE created' = "ok"
  <2>1. imagePc' = "use"
    BY <1>4, <1>1 DEF ImageStep, Image!Create, Image!UploadImage, Image!SignDelete,
      Image!PrepareManifest, Image!UploadManifest, Image!Goto, Image!Succeed, Image!Fail
  <2>2. Stage' = "alias" /\ Outcome' = "nil" /\ Image!Kept' = "live"
    BY <1>1, <1>4, <2>1 DEF kmsVars, importVars, sourceVars, copyVars, Stage, Outcome,
      Image!Kept, CopyFailed
  <2>3. Publisher!CreateMachineImage("entry", "alias")
    BY <1>2, <2>2, Proceeds DEF Publisher!CreateMachineImage
  <2> QED
    BY <1>2, <2>3 DEF PublisherNext, Publisher!StandardStep, Publisher!copyVars
<1>5. CASE created' = "error"
  <2>1. imagePc' = "returned"
    BY <1>5 DEF Inv, ImageInv
  <2>2. Stage' = "returned" /\ Outcome' = "error" /\ Image!Kept' \in {"none", "abandoned"}
    BY <1>1, <1>5, <2>1 DEF kmsVars, importVars, sourceVars, copyVars, Stage, Outcome,
      Image!Kept, CopyFailed
  <2>3. Publisher!CreateMachineImage("entry", "alias")
    BY <1>2, <2>2 DEF Publisher!CreateMachineImage
  <2> QED
    BY <1>2, <2>3 DEF PublisherNext, Publisher!StandardStep, Publisher!copyVars
<1> QED
  BY <1>3, <1>4, <1>5 DEF Inv, ImageInv, Image!TypeOK

(* As long as Publish() has not come to the end of its calls, the image is *)
(* in use; nothing is returned, registered or copied before its turn.      *)
LEMMA InUse ==
  ASSUME Inv, created = "ok", ~Leaving
  PROVE  imagePc = "use" /\ Image!Kept = "live"
  BY DEF Inv, TurnInv, Image!Kept

(* Before the source AMI's turn nothing is registered, and no copy runs.   *)
LEMMA BeforeSource ==
  ASSUME Inv, sourceResult = "none"
  PROVE  /\ key = "none" /\ copyPc = "copy" /\ copyResult = "none" /\ copyImage = "none" /\ ~copyDone
         /\ ReturnedAmis = <<>> /\ Registered = {} /\ CopyStage = "idle" /\ ~CopyFailed
<1>1. /\ key = "none" /\ copyPc = "copy" /\ copyResult = "none" /\ copyImage = "none" /\ ~copyDone
  BY DEF Inv, Called, TurnInv, CopyInv, CopyEnded
<1>2. ReturnedAmis = <<>>
  BY <1>1 DEF ReturnedAmis
<1> QED
  BY <1>1, <1>2 DEF Registered, CopyStage, CopyFailed

(* CreateAlias is one step there and here.                                 *)
LEMMA CreateAliasSeen == ASSUME Inv, Inv', CreateAlias PROVE PublisherNext
<1>1. /\ created = "ok" /\ alias = "none" /\ imported = "none" /\ sourceResult = "none" /\ ~copyDone
  <2>1. importPc = "import" /\ imported = "none" /\ sourcePc = "register" /\ sourceResult = "none"
    BY DEF Inv, TurnInv, ImportInv, SourceInv, CreateAlias
  <2> QED
    BY <2>1, BeforeSource DEF CreateAlias
<1>2. imagePc = "use" /\ Image!Kept = "live" /\ imagePc' = "use" /\ Image!Kept' = "live"
  BY <1>1, InUse DEF CreateAlias, Leaving, SourceEnded, imageVars, Image!Kept
<1>3. /\ ReturnedAmis' = ReturnedAmis /\ Registered' = Registered
      /\ CopyStage' = CopyStage /\ CopyFailed' = CopyFailed
  BY DEF CreateAlias, sourceVars, copyVars, ReturnedAmis, Registered, CopyStage, CopyFailed
<1>4. Stage = "alias" /\ Outcome = "nil"
  BY <1>1, <1>2 DEF Stage, Outcome
<1>5. UNCHANGED <<[p \in {"entry"} |-> Image!Kept], [p \in {"entry"} |-> ReturnedAmis], Registered, Publisher!copyVars>>
  BY <1>2, <1>3 DEF Publisher!copyVars
<1>6. CASE alias' = "ok"
  <2>1. Stage' = "snapshot" /\ Outcome' = "nil"
    BY <1>1, <1>2, <1>6 DEF CreateAlias, imageVars, importVars, sourceVars, Stage, Outcome
  <2> QED
    BY <1>4, <1>5, <2>1, Proceeds DEF PublisherNext, Publisher!StandardStep,
      Publisher!CreateAlias, Publisher!CallDriver
<1>7. CASE alias' = "error"
  <2>1. Stage' = "cleanup" /\ Outcome' = "error"
    BY <1>1, <1>2, <1>7 DEF CreateAlias, imageVars, importVars, sourceVars, Stage, Outcome
  <2> QED
    BY <1>4, <1>5, <2>1, Leaves DEF PublisherNext, Publisher!StandardStep,
      Publisher!CreateAlias, Publisher!CallDriver
<1> QED
  BY <1>6, <1>7 DEF CreateAlias

(* The import becomes visible when its driver returns.                     *)
LEMMA ImportStepSeen == ASSUME Inv, Inv', ImportStep PROVE PublisherNext \/ Unseen
<1>1. /\ UNCHANGED <<config, imageVars, kmsVars, sourceVars, copyVars>>
      /\ created = "ok" /\ alias = "ok" /\ imported = "none" /\ sourceResult = "none" /\ ~copyDone
      /\ ~CopyFailed
  <2>1. /\ UNCHANGED <<config, imageVars, kmsVars, sourceVars, copyVars>>
        /\ created = "ok" /\ alias = "ok" /\ imported = "none" /\ sourceResult = "none"
    BY DEF Inv, TurnInv, ImportInv, SourceInv, ImportStep, Import!Create, Import!ImportSnapshot,
      Import!Poll, Import!TimeOut, Import!Describe, Import!MakePublic
  <2> QED
    BY <2>1, BeforeSource
<1>2. imagePc = "use" /\ Image!Kept = "live" /\ imagePc' = "use" /\ Image!Kept' = "live"
  BY <1>1, InUse DEF Leaving, SourceEnded, imageVars, Image!Kept
<1>3. /\ ReturnedAmis' = ReturnedAmis /\ Registered' = Registered
      /\ CopyStage' = CopyStage /\ CopyFailed' = CopyFailed
  BY <1>1 DEF kmsVars, sourceVars, copyVars, ReturnedAmis, Registered, CopyStage, CopyFailed
<1>4. Stage = "snapshot" /\ Outcome = "nil"
  BY <1>1, <1>2 DEF Stage, Outcome
<1>5. UNCHANGED <<[p \in {"entry"} |-> Image!Kept], [p \in {"entry"} |-> ReturnedAmis], Registered, Publisher!copyVars>>
  BY <1>2, <1>3 DEF Publisher!copyVars
<1>6. CASE imported' = "none"
  <2>1. Stage' = "snapshot" /\ Outcome' = "nil"
    BY <1>1, <1>2, <1>6 DEF imageVars, kmsVars, sourceVars, Stage, Outcome
  <2> QED
    BY <1>2, <1>3, <1>4, <2>1 DEF Unseen
<1>7. CASE imported' = "ok"
  <2>1. Stage' = "ami" /\ Outcome' = "nil"
    BY <1>1, <1>2, <1>7 DEF imageVars, kmsVars, sourceVars, Stage, Outcome
  <2> QED
    BY <1>4, <1>5, <2>1, Proceeds DEF PublisherNext, Publisher!StandardStep,
      Publisher!CreateSnapshot, Publisher!CallDriver
<1>8. CASE imported' = "error"
  <2>1. Stage' = "cleanup" /\ Outcome' = "error"
    BY <1>1, <1>2, <1>8 DEF imageVars, kmsVars, sourceVars, Stage, Outcome
  <2> QED
    BY <1>4, <1>5, <2>1, Leaves DEF PublisherNext, Publisher!StandardStep,
      Publisher!CreateSnapshot, Publisher!CallDriver
<1>9. CASE imported' = "panic"
  <2>1. Malformed
    BY <1>1, <1>9 DEF ImportStep, Import!Create, Import!ImportSnapshot, Import!Poll,
      Import!TimeOut, Import!Describe, Import!MakePublic, Import!Goto, Import!Return, Import!Sleep
  <2>2. Stage' = "cleanup" /\ Outcome' = "panic"
    BY <1>1, <1>2, <1>9 DEF imageVars, kmsVars, sourceVars, Stage, Outcome
  <2> QED
    BY <1>4, <1>5, <2>1, <2>2, Leaves DEF PublisherNext, Publisher!StandardStep,
      Publisher!CreateSnapshot, Publisher!PanicAt
<1> QED
  BY <1>6, <1>7, <1>8, <1>9 DEF Inv, ImportInv, Import!TypeOK

(* The source AMI becomes visible, and counts as registered, when its      *)
(* driver returns; one that was registered and then failed is registered   *)
(* all the same.                                                           *)
LEMMA SourceStepSeen == ASSUME Inv, Inv', SourceStep PROVE PublisherNext \/ Unseen
<1>1. /\ UNCHANGED <<config, imageVars, kmsVars, importVars, copyVars>>
      /\ created = "ok" /\ alias = "ok" /\ imported = "ok" /\ sourceResult = "none" /\ ~copyDone
      /\ ~CopyFailed /\ key = "none" /\ copyResult = "none" /\ copyImage = "none"
      /\ ReturnedAmis = <<>> /\ Registered = {} /\ CopyStage = "idle"
  <2>1. /\ UNCHANGED <<config, imageVars, kmsVars, importVars, copyVars>>
        /\ created = "ok" /\ alias = "ok" /\ imported = "ok" /\ sourceResult = "none"
    BY DEF Inv, TurnInv, ImportInv, SourceInv, SourceStep, Source!Create, Source!Register,
      Source!WaitExists, Source!ShareImage, Source!ShareSnapshot, Source!SharedWithAll,
      Source!WaitAvailable, Source!MakePublic
  <2> QED
    BY <2>1, BeforeSource
<1>2. imagePc = "use" /\ Image!Kept = "live" /\ imagePc' = "use" /\ Image!Kept' = "live"
  BY <1>1, InUse DEF Leaving, SourceEnded, imageVars, Image!Kept
<1>3. Stage = "ami" /\ Outcome = "nil"
  BY <1>1, <1>2 DEF Stage, Outcome
<1>4. ~CopyFailed' /\ CopyFailed' = CopyFailed
  BY <1>1 DEF kmsVars, copyVars, CopyFailed
<1>5. CASE sourceResult' = "none"
  <2>1. Stage' = "ami" /\ Outcome' = "nil"
    BY <1>1, <1>2, <1>5 DEF imageVars, kmsVars, importVars, Stage, Outcome
  <2>2. ReturnedAmis' = <<>> /\ Registered' = {} /\ CopyStage' = "idle"
    <3>1. ReturnedAmis' = <<>>
      BY <1>1, <1>5 DEF ReturnedAmis, copyVars
    <3> QED
      BY <1>1, <1>5, <3>1 DEF Registered, CopyStage, kmsVars, copyVars
  <2> QED
    BY <1>1, <1>2, <1>3, <1>4, <2>1, <2>2 DEF Unseen
<1>6. CASE sourceResult' = "error"
  <2>1. Stage' = "cleanup" /\ Outcome' = "error"
    BY <1>1, <1>2, <1>6 DEF imageVars, kmsVars, importVars, Stage, Outcome
  <2>2. ReturnedAmis' = <<>> /\ CopyStage' = "idle"
    <3>1. ReturnedAmis' = <<>>
      BY <1>1, <1>6 DEF ReturnedAmis, copyVars
    <3> QED
      BY <1>1, <1>6, <3>1 DEF CopyStage, kmsVars, copyVars
  <2>3. \E made \in {{}, {"entry"}} : Registered' = Registered \cup made
    BY <1>1, <1>6 DEF Registered, copyVars
  <2>4. Publisher!FailCreateAmi("entry")
    BY <1>1, <1>2, <1>3, <2>1, <2>2, <2>3, Leaves DEF Publisher!FailCreateAmi
  <2>5. UNCHANGED Publisher!copyVars
    BY <1>1, <1>4, <2>2 DEF Publisher!copyVars
  <2> QED
    BY <2>4, <2>5 DEF PublisherNext, Publisher!StandardStep
<1>7. CASE sourceResult' = "ok"
  <2>1. Stage' = "copying" /\ Outcome' = "nil"
    BY <1>1, <1>2, <1>7 DEF imageVars, kmsVars, importVars, Stage, Outcome
  <2>2. CopyStage' = "replicate"
    BY <1>1, <1>7 DEF CopyStage, kmsVars, copyVars
  <2>3. Registered' = Registered \cup {"entry"}
    <3>1. sourceImage' # "none"
      BY <1>7 DEF Inv, SourceInv, Source!SharedWhenOk
    <3> QED
      BY <1>1, <1>7, <3>1 DEF Registered, copyVars
  <2>4. ReturnedAmis' = Append(ReturnedAmis, Publisher!SourceAmi("entry"))
    <3>1. Publisher!SourceAmi("entry") = SourceAmi
      BY DEF Publisher!SourceAmi, SourceAmi, Home
    <3>2. ReturnedAmis' = <<SourceAmi>> \o <<>>
      BY <1>1, <1>7 DEF ReturnedAmis, copyVars, SourceAmi
    <3>3. <<SourceAmi>> \o <<>> = <<SourceAmi>>
      OBVIOUS
    <3>4. Append(<<>>, SourceAmi) = <<SourceAmi>>
      OBVIOUS
    <3> QED
      BY <1>1, <3>1, <3>2, <3>3, <3>4
  <2>5. Publisher!RegisterSourceAmi("entry")
    BY <1>2, <1>3, <2>3, <2>4 DEF Publisher!RegisterSourceAmi
  <2>6. Publisher!CreateSourceAmi("entry")
    BY <1>3, <1>4, <2>1, <2>2, <2>5, Proceeds DEF Publisher!CreateSourceAmi, Owner
  <2> QED
    BY <2>6 DEF PublisherNext, Publisher!StandardStep
<1> QED
  <2>1. sourceResult' # "panic"
    BY <1>1 DEF SourceStep, Source!Create, Source!Register, Source!WaitExists,
      Source!ShareImage, Source!ShareSnapshot, Source!SharedWithAll, Source!WaitAvailable,
      Source!MakePublic, Source!MakeImage, Source!Goto, Source!Return
  <2> QED
    BY <1>5, <1>6, <1>7, <2>1 DEF Inv, SourceInv, Source!TypeOK, Source!CallTypeOK

(* The copy and its goroutine *)

(* While the copy's goroutine runs, Publish() waits for it. *)
LEMMA Copying ==
  ASSUME Inv, sourceResult = "ok"
  PROVE  /\ created = "ok" /\ alias = "ok" /\ imported = "ok"
         /\ sourceImage # "none" /\ ~SourceEnded
         /\ ~copyDone => imagePc = "use" /\ Stage = "copying" /\ Outcome = "nil"
<1>1. created = "ok" /\ alias = "ok" /\ imported = "ok" /\ sourceImage # "none"
  BY DEF Inv, TurnInv, ImportInv, SourceInv, Source!SharedWhenOk
<1>2. ~SourceEnded
  BY <1>1 DEF SourceEnded
<1>3. ASSUME ~copyDone PROVE imagePc = "use" /\ Stage = "copying" /\ Outcome = "nil"
  <2>1. imagePc = "use"
    BY <1>1, <1>2, <1>3 DEF Inv, TurnInv, Leaving
  <2> QED
    BY <1>1, <2>1 DEF Stage, Outcome
<1> QED
  BY <1>1, <1>2, <1>3

(* ReplicateKey is one step there and here.                                *)
LEMMA ReplicateKeySeen == ASSUME Inv, Inv', ReplicateKey PROVE PublisherNext
<1>1. /\ UNCHANGED <<config, imageVars, alias, importVars, sourceVars, snapshotGrants, copyVars>>
      /\ sourceResult = "ok" /\ key = "none" /\ copyResult = "none" /\ ~copyDone
  BY DEF ReplicateKey, Inv, TurnInv, CopyInv, Called, CopyEnded
<1>2. /\ created = "ok" /\ alias = "ok" /\ imported = "ok" /\ imagePc = "use"
      /\ Stage = "copying" /\ Outcome = "nil"
  BY <1>1, Copying
<1>3. Stage' = Stage /\ Outcome' = Outcome
  BY <1>1, <1>2 DEF imageVars, importVars, sourceVars, Stage, Outcome
<1>4. Image!Kept' = Image!Kept /\ Registered' = Registered
  BY <1>1 DEF imageVars, sourceVars, copyVars, Image!Kept, Registered
<1>5. ReturnedAmis' = ReturnedAmis
  BY <1>1 DEF sourceVars, copyVars, ReturnedAmis
<1>6. CopyStage = "replicate" /\ ~CopyFailed
  BY <1>1 DEF CopyStage, CopyFailed
<1>7. UNCHANGED Publisher!publisherVars
  BY <1>3, <1>4, <1>5 DEF Publisher!publisherVars
<1>8. CASE key' = "ok"
  <2>1. CopyStage' = "copy" /\ CopyFailed' = CopyFailed
    BY <1>1, <1>8 DEF CopyStage, CopyFailed, sourceVars, copyVars
  <2>2. Publisher!ReplicateKey("copy")
    BY <1>6, <1>7, <2>1, CopyGoes DEF Publisher!ReplicateKey
  <2> QED
    BY <2>2 DEF PublisherNext, Publisher!CopyStep
<1>9. CASE key' = "error"
  <2>1. CopyStage' = "leaving" /\ CopyFailed'
    BY <1>1, <1>9 DEF CopyStage, CopyFailed, sourceVars, copyVars
  <2>2. Publisher!ReplicateKey("copy")
    BY <1>6, <1>7, <2>1, CopyFails DEF Publisher!ReplicateKey
  <2> QED
    BY <2>2 DEF PublisherNext, Publisher!CopyStep
<1> QED
  BY <1>8, <1>9 DEF ReplicateKey

(* The copy becomes visible when its driver returns or panics.             *)
LEMMA CopyStepSeen == ASSUME Inv, Inv', CopyStep PROVE PublisherNext \/ Unseen
<1>1. /\ UNCHANGED <<config, imageVars, kmsVars, importVars, sourceVars, snapshotGrants, copyDone>>
      /\ key = "ok" /\ sourceResult = "ok" /\ copyResult = "none" /\ ~copyDone
  <2>1. copyResult = "none"
    BY DEF Inv, CopyInv, CopyStep, Copy!Create, Copy!CopyImage, Copy!WaitAvailable,
      Copy!ShareImages, Copy!SharedImage, Copy!MakePublic, Copy!Poll, Copy!GiveUp,
      Copy!ShareSnapshots, Copy!MakeSnapshotPublic
  <2> QED
    BY <2>1 DEF CopyStep, Inv, TurnInv, CopyEnded
<1>2. /\ created = "ok" /\ alias = "ok" /\ imported = "ok" /\ imagePc = "use" /\ sourceImage # "none"
      /\ Stage = "copying" /\ Outcome = "nil"
  BY <1>1, Copying
<1>3. Stage' = Stage /\ Outcome' = Outcome /\ Image!Kept' = Image!Kept
  BY <1>1, <1>2 DEF imageVars, kmsVars, importVars, sourceVars, Stage, Outcome, Image!Kept
<1>4. CopyStage = "copy" /\ ~CopyFailed /\ Registered = {"entry"}
  BY <1>1, <1>2 DEF CopyStage, CopyFailed, Registered
<1>5. ReturnedAmis = <<SourceAmi>> /\ (copyResult' # "ok" => ReturnedAmis' = <<SourceAmi>>)
  <2>1. <<SourceAmi>> \o <<>> = <<SourceAmi>>
    OBVIOUS
  <2>2. ReturnedAmis = <<SourceAmi>> \o <<>>
    BY <1>1 DEF ReturnedAmis
  <2>3. copyResult' # "ok" => ReturnedAmis' = <<SourceAmi>> \o <<>>
    BY <1>1 DEF ReturnedAmis, sourceVars, SourceAmi
  <2> QED
    BY <2>1, <2>2, <2>3
<1>6. UNCHANGED <<[p \in {"entry"} |-> Stage], [p \in {"entry"} |-> Outcome], [p \in {"entry"} |-> Image!Kept]>>
  BY <1>3
<1>7. CASE copyResult' = "none"
  <2>1. CopyStage' = "copy" /\ ~CopyFailed' /\ Registered' = {"entry"}
    BY <1>1, <1>2, <1>7 DEF CopyStage, CopyFailed, Registered, kmsVars, sourceVars
  <2>2. CopyFailed' = CopyFailed
    BY <1>4, <2>1 DEF CopyFailed
  <2> QED
    BY <1>3, <1>4, <1>5, <1>7, <2>1, <2>2 DEF Unseen
<1>8. CASE copyResult' = "ok"
  <2>1. copyImage' # "none"
    BY <1>8 DEF Inv, CopyInv, Copy!SharedWhenOk
  <2>2. CopyStage' = "leaving" /\ ~CopyFailed' /\ Registered' = Registered \cup {"copy"}
    BY <1>1, <1>2, <1>4, <1>8, <2>1 DEF CopyStage, CopyFailed, Registered, kmsVars, sourceVars
  <2>3. ReturnedAmis' = Append(ReturnedAmis, Publisher!CopiedAmi("copy"))
    <3>1. Publisher!CopiedAmi("copy") = CopiedAmi
      BY DEF Publisher!CopiedAmi, CopiedAmi, Dest
    <3>2. ReturnedAmis' = <<SourceAmi>> \o <<CopiedAmi>>
      BY <1>1, <1>8 DEF ReturnedAmis, sourceVars, SourceAmi, CopiedAmi
    <3>3. <<SourceAmi>> \o <<CopiedAmi>> = Append(<<SourceAmi>>, CopiedAmi)
      OBVIOUS
    <3> QED
      BY <1>5, <3>1, <3>2, <3>3
  <2>4. CopyFailed' = CopyFailed
    BY <1>4, <2>2 DEF CopyFailed
  <2>5. Publisher!CopyAmi("copy")
    BY <1>4, <1>6, <2>2, <2>3, <2>4, CopyGoes DEF Publisher!CopyAmi, Owner
  <2> QED
    BY <2>5 DEF PublisherNext, Publisher!CopyStep
<1>9. CASE copyResult' = "error"
  <2>1. CopyStage' = "leaving" /\ CopyFailed'
    BY <1>1, <1>9 DEF CopyStage, CopyFailed, kmsVars, sourceVars
  <2>2. \E made \in {{}, {"copy"}} : Registered' = Registered \cup made
    BY <1>1, <1>2, <1>4, <1>9 DEF Registered, sourceVars
  <2>3. Publisher!CopyAmi("copy")
    BY <1>4, <1>5, <1>6, <1>9, <2>1, <2>2, CopyFails DEF Publisher!CopyAmi
  <2> QED
    BY <2>3 DEF PublisherNext, Publisher!CopyStep
<1>10. CASE copyResult' = "panic"
  <2>1. Malformed /\ copyPc = "poll" /\ copyImage' = copyImage
    BY <1>1, <1>10 DEF CopyStep, Copy!Create, Copy!CopyImage, Copy!WaitAvailable,
      Copy!ShareImages, Copy!SharedImage, Copy!MakePublic, Copy!Poll, Copy!GiveUp,
      Copy!ShareSnapshots, Copy!MakeSnapshotPublic, Copy!MakeImage, Copy!Goto, Copy!Return,
      Copy!ec2Vars
  <2>2. copyImage' # "none"
    BY <2>1 DEF Inv, CopyInv
  <2>3. CopyStage' = "panicking" /\ ~CopyFailed' /\ Registered' = Registered \cup {"copy"}
    BY <1>1, <1>2, <1>4, <1>10, <2>2 DEF CopyStage, CopyFailed, Registered, kmsVars, sourceVars
  <2>4. CopyFailed' = CopyFailed
    BY <1>4, <2>3 DEF CopyFailed
  <2>5. Publisher!CopyAmi("copy")
    BY <1>4, <1>5, <1>6, <1>10, <2>1, <2>3, <2>4, CopyGoes DEF Publisher!CopyAmi
  <2> QED
    BY <2>5 DEF PublisherNext, Publisher!CopyStep
<1> QED
  BY <1>7, <1>8, <1>9, <1>10 DEF Inv, CopyInv, Copy!TypeOK, Copy!CallTypeOK

(* Done() is one step there and here, and lets Publish() return.           *)
LEMMA CopyDoneSeen == ASSUME Inv, Inv', CopyDone PROVE PublisherNext
<1>1. /\ UNCHANGED <<config, imageVars, kmsVars, importVars, sourceVars, snapshotGrants,
                      copyPc, copyResult, copyImage>>
      /\ sourceResult = "ok" /\ ~copyDone /\ copyDone'
      /\ \/ key = "error" /\ copyResult = "none"
         \/ key = "ok" /\ copyResult \in {"ok", "error", "panic"}
  BY DEF CopyDone, CopyEnded, Inv, Called, TurnInv, CopyInv, Copy!TypeOK, Copy!CallTypeOK
<1>2. /\ created = "ok" /\ alias = "ok" /\ imported = "ok" /\ imagePc = "use"
      /\ Stage = "copying" /\ Outcome = "nil"
  BY <1>1, Copying
<1>3. Stage' = Stage /\ Outcome' = Outcome /\ Image!Kept' = Image!Kept /\ Registered' = Registered
  BY <1>1, <1>2 DEF imageVars, kmsVars, importVars, sourceVars, Stage, Outcome, Image!Kept,
    Registered
<1>4. ReturnedAmis' = ReturnedAmis
  BY <1>1 DEF sourceVars, ReturnedAmis
<1>5. CopyFailed' = CopyFailed
  BY <1>1 DEF kmsVars, CopyFailed
<1>6. \/ CopyStage = "leaving" /\ CopyStage' = "done"
      \/ CopyStage = "panicking" /\ CopyStage' = "panicked"
  BY <1>1 DEF kmsVars, sourceVars, CopyStage
<1>7. UNCHANGED Publisher!publisherVars
  BY <1>3, <1>4 DEF Publisher!publisherVars
<1>8. Publisher!CopyDone("copy")
  BY <1>5, <1>6, <1>7, CopyGoes DEF Publisher!CopyDone
<1> QED
  BY <1>8 DEF PublisherNext, Publisher!CopyStep

(* The deletion becomes visible when its driver returns; the request for   *)
(* the only URL is not seen before.                                        *)
LEMMA DeferredDeleteSeen == ASSUME Inv, Inv', DeferredDelete PROVE PublisherNext \/ Unseen
<1>1. /\ UNCHANGED <<config, kmsVars, importVars, sourceVars, snapshotGrants, copyVars>>
      /\ created = "ok" /\ imagePc \in {"use", "delete"} /\ created' = "ok" /\ Leaving
      /\ Image!Kept = "live"
  <2>1. /\ UNCHANGED <<config, kmsVars, importVars, sourceVars, snapshotGrants, copyVars>>
        /\ imagePc \in {"use", "delete"} /\ created' = created
    BY DEF DeferredDelete, Image!StartDelete, Image!Delete, Image!DeleteNext, Image!DeletedAll,
      Image!Goto, Image!StopDeleting
  <2>2. created = "ok"
    BY <2>1 DEF Inv, ImageInv, Image!TypeOK
  <2>3. Leaving
    BY <2>1, <2>2 DEF DeferredDelete, Inv, TurnInv, Image!Delete, Image!DeleteNext,
      Image!DeletedAll
  <2> QED
    BY <2>1, <2>2, <2>3 DEF Image!Kept
<1>2. Registered' = Registered /\ CopyStage' = CopyStage
  BY <1>1 DEF kmsVars, sourceVars, copyVars, Registered, CopyStage
<1>3. ReturnedAmis' = ReturnedAmis /\ CopyFailed' = CopyFailed
  BY <1>1 DEF kmsVars, sourceVars, copyVars, ReturnedAmis, CopyFailed
<1>4. UNCHANGED Publisher!copyVars
  BY <1>2, <1>3 DEF Publisher!copyVars
<1>5. /\ imported # "none" => alias = "ok"
      /\ sourceResult # "none" => imported = "ok"
      /\ sourceResult # "ok" => ~CopyFailed
      /\ ~SourceEnded => sourceResult = "ok" /\ copyDone
  BY <1>1 DEF Leaving, CopyEnded, CopyFailed, Inv, Called, TurnInv, ImportInv, SourceInv, CopyInv
<1>6. SourceEnded => Stage = "cleanup" /\ sourceResult # "ok"
  BY <1>1, <1>5 DEF Stage, SourceEnded
<1>7. /\ alias' = alias /\ imported' = imported /\ sourceResult' = sourceResult
  BY <1>1 DEF kmsVars, importVars, sourceVars
<1>8. CASE imagePc = "use"
  <2>1. imagePc' = "delete"
    BY <1>8 DEF DeferredDelete, Image!StartDelete, Image!Delete, Image!DeleteNext,
      Image!DeletedAll, Image!Goto
  <2>2. Image!Kept' = Image!Kept
    BY <1>1, <2>1 DEF Image!Kept
  <2>3. CASE SourceEnded
    <3>1. Stage' = Stage
      BY <1>1, <1>5, <1>7, <2>1, <2>3 DEF Stage, SourceEnded
    <3>2. Outcome' = Outcome
      BY <1>1, <1>3, <1>5, <1>6, <1>7, <1>8, <2>1, <2>3 DEF Outcome
    <3> QED
      BY <1>2, <1>3, <2>2, <3>1, <3>2 DEF Unseen
  <2>4. CASE ~SourceEnded
    <3>1. sourceResult = "ok" /\ imported = "ok" /\ alias = "ok" /\ copyDone
      BY <1>5, <2>4
    <3>2. Stage = "copying" /\ Stage' = "cleanup"
      BY <1>1, <1>7, <1>8, <2>1, <3>1 DEF Stage
    <3>3. Outcome' = IF CopyFailed THEN "error" ELSE "nil"
      BY <1>1, <1>3, <1>7, <2>1, <3>1 DEF Outcome
    <3>4. CopyStage \in {"done", "panicked"}
      <4>1. \/ key = "error" /\ copyResult = "none"
            \/ key = "ok" /\ copyResult \in {"ok", "error", "panic"}
        BY <3>1 DEF CopyEnded, Inv, Called, TurnInv, CopyInv, Copy!TypeOK, Copy!CallTypeOK
      <4> QED
        BY <3>1, <4>1 DEF CopyStage
    <3>5. Publisher!CopiesFinished("entry")
      BY <3>4 DEF Publisher!CopiesFinished, Publisher!CopiesOf
    <3>6. {c \in {"copy"} : CopyFailed} = {} <=> ~CopyFailed
      OBVIOUS
    <3>7. Publisher!WaitCopies("entry")
      BY <1>2, <1>3, <1>4, <2>2, <3>2, <3>3, <3>5, <3>6, Leaves DEF Publisher!WaitCopies
    <3> QED
      BY <3>7 DEF PublisherNext, Publisher!StandardStep
  <2> QED
    BY <2>3, <2>4
<1>9. CASE imagePc = "delete"
  <2>1. Stage = "cleanup"
    BY <1>1, <1>5, <1>6, <1>9 DEF Stage
  <2>2. imagePc' \in {"delete", "returned"}
    BY <1>9 DEF DeferredDelete, Image!StartDelete, Image!Delete, Image!DeleteNext,
      Image!DeletedAll, Image!Goto, Image!StopDeleting
  <2>3. Outcome' = Outcome
    BY <1>1, <1>3, <1>7, <1>9, <2>2 DEF Outcome
  <2>4. CASE imagePc' = "delete"
    <3>1. Image!Kept' = Image!Kept /\ Stage' = "cleanup"
      <4>1. Stage' = Stage
        BY <1>1, <1>7, <1>9, <2>4 DEF Stage
      <4> QED
        BY <1>1, <2>1, <2>4, <4>1 DEF Image!Kept
    <3> QED
      BY <1>2, <1>3, <2>1, <2>3, <3>1 DEF Unseen
  <2>5. CASE imagePc' = "returned"
    <3>1. Image!Kept' \in {"deleted", "kept"} /\ Stage' = "returned"
      <4>1. Image!Kept' = IF objects' = {} THEN "deleted" ELSE "kept"
        BY <1>1, <2>5 DEF Image!Kept
      <4>2. Stage' = "returned"
        BY <1>1, <1>5, <1>7, <2>5 DEF Stage, SourceEnded
      <4> QED
        BY <4>1, <4>2
    <3>2. Publisher!DeleteMachineImage("entry")
      BY <1>2, <1>3, <2>1, <2>3, <3>1 DEF Publisher!DeleteMachineImage
    <3> QED
      BY <1>4, <3>2 DEF PublisherNext, Publisher!StandardStep
  <2> QED
    BY <2>2, <2>4, <2>5
<1> QED
  BY <1>1, <1>8, <1>9

(* What AWS does by itself the publisher does not see.                     *)
LEMMA MeanwhileUnseen == ASSUME Inv, Inv', Meanwhile PROVE Unseen
<1>1. /\ imagePc' = imagePc /\ objects' = objects /\ created' = created
      /\ alias' = alias /\ key' = key /\ imported' = imported
      /\ sourceResult' = sourceResult /\ (sourceImage' # "none" <=> sourceImage # "none")
      /\ copyResult' = copyResult /\ (copyImage' # "none" <=> copyImage # "none") /\ copyDone' = copyDone
  <2>1. CASE Image!Expire /\ UNCHANGED <<config, kmsVars, importVars, sourceVars, snapshotGrants, copyVars>>
    BY <2>1 DEF Image!Expire, kmsVars, importVars, sourceVars, copyVars
  <2>2. CASE Import!Work /\ UNCHANGED <<config, imageVars, kmsVars, sourceVars, copyVars>>
    BY <2>2 DEF Import!Work, imageVars, kmsVars, sourceVars, copyVars
  <2>3. CASE Source!Settle /\ UNCHANGED <<config, imageVars, kmsVars, importVars, copyVars>>
    BY <2>3 DEF Source!Settle, imageVars, kmsVars, importVars, copyVars
  <2>4. CASE /\ Copy!Settled \/ Copy!ListSnapshot
             /\ UNCHANGED <<config, imageVars, kmsVars, importVars, sourceVars, snapshotGrants, copyDone>>
    BY <2>4 DEF Copy!Settled, Copy!Settle, Copy!ListSnapshot, Copy!ec2Vars, imageVars, kmsVars,
      importVars, sourceVars
  <2> QED
    BY <2>1, <2>2, <2>3, <2>4 DEF Meanwhile
<1>2. CopyFailed' = CopyFailed
  BY <1>1 DEF CopyFailed
<1>3. Stage' = Stage /\ Outcome' = Outcome /\ Image!Kept' = Image!Kept
  BY <1>1, <1>2 DEF Stage, Outcome, Image!Kept
<1>4. ReturnedAmis' = ReturnedAmis
  BY <1>1 DEF ReturnedAmis, SourceAmi, CopiedAmi
<1>5. Registered' = Registered /\ CopyStage' = CopyStage
  BY <1>1 DEF Registered, CopyStage
<1> QED
  BY <1>2, <1>3, <1>4, <1>5 DEF Unseen

(* A stutter is a stutter.                                                 *)
LEMMA NothingUnseen == ASSUME UNCHANGED vars PROVE Unseen
<1>1. UNCHANGED <<imageVars, kmsVars, importVars, sourceVars, copyVars>>
  BY DEF vars
<1>2. Stage' = Stage /\ Outcome' = Outcome /\ Image!Kept' = Image!Kept /\ CopyFailed' = CopyFailed
  BY <1>1 DEF imageVars, kmsVars, importVars, sourceVars, copyVars, Stage, Outcome, Image!Kept,
    CopyFailed
<1>3. ReturnedAmis' = ReturnedAmis
  BY <1>1 DEF sourceVars, copyVars, ReturnedAmis, SourceAmi, CopiedAmi
<1>4. Registered' = Registered /\ CopyStage' = CopyStage
  BY <1>1 DEF kmsVars, sourceVars, copyVars, Registered, CopyStage
<1> QED
  BY <1>2, <1>3, <1>4 DEF Unseen

(* For any accounts and any poll limit the drivers implement               *)
(* StandardRegionPublisher: whatever happens in the many steps of a driver *)
(* and in AWS meanwhile, to Publish() the call is one step with one of the *)
(* outcomes listed there (standard_region.go:47-157).                      *)
THEOREM CallsAreStepsOfPublisher == Spec => ImplementsPublisher
<1>1. Init => Publisher!PublisherInit /\ Publisher!CopyInit
  BY InitSeen
<1>2. ASSUME Inv, Inv', [Next]_vars
      PROVE  [Publisher!StandardStep("entry") \/ Publisher!CopyStep("copy")]_
               <<Publisher!publisherVars, Publisher!copyVars>>
  <2>1. CASE UNCHANGED vars
    BY <2>1, NothingUnseen, UnseenIsStutter
  <2>2. PublisherNext \/ Unseen
    BY <1>2, <2>1, NothingUnseen, ImageStepSeen, CreateAliasSeen, ImportStepSeen,
      SourceStepSeen, ReplicateKeySeen, CopyStepSeen, CopyDoneSeen, DeferredDeleteSeen,
      MeanwhileUnseen DEF Next, Publish, Returned
  <2> QED
    BY <2>2, UnseenIsStutter DEF PublisherNext
<1> QED
  BY <1>1, <1>2, InvCorrect, PTL DEF Spec, ImplementsPublisher
=============================================================================
