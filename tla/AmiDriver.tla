------------------------------ MODULE AmiDriver ------------------------------
(***************************************************************************)
(* What CreateAmiDriver and CopyAmiDriver share: the loop over the         *)
(* accounts, and the part of EC2 they work on, one image and its root      *)
(* snapshot, each with the accounts that may use it.  Both set tags as     *)
(* well; the errors of that are logged, nothing more, so tags are left out.*)
(***************************************************************************)
EXTENDS DriverRequest

VARIABLES
  pc,              \* where Create() is
  next,            \* the account a sharing loop has come to
  result,          \* what Create() returned
  image,           \* the image as EC2 sees it
  imageGrants,     \* who may launch it
  snapshotGrants   \* who may make volumes of its snapshot

ec2Vars == <<image, imageGrants, snapshotGrants>>

CallInit ==
  /\ next = 1
  /\ result = "none"
  /\ image = "none"
  /\ imageGrants = {}

(* The image goes its own way once it is registered. *)
Settle ==
  /\ image = "pending"
  /\ image' \in {"available", "failed"}
  /\ UNCHANGED <<pc, next, result, imageGrants, snapshotGrants>>

Goto(step) == pc' = step /\ UNCHANGED result

Return(r) == pc' = "returned" /\ result' = r /\ UNCHANGED next

(* RegisterImage or CopyImage: an error may hide an image that was made.   *)
MakeImage(after) ==
  /\ \/ image' = "pending" /\ Goto(after) /\ UNCHANGED next
     \/ image' \in {"none", "pending"} /\ Return("error")
  /\ UNCHANGED <<imageGrants, snapshotGrants>>

BadAvailable == image # "failed"

Available == image = "available"

(* The waiter polls until the image is available, and gives up when it has *)
(* failed or the time is over, which may be at any poll.                   *)
WaitAvailable(after) ==
  /\ pc = "available"
  /\ \/ Available /\ Goto(after) /\ UNCHANGED next
     \/ Return("error")
  /\ UNCHANGED ec2Vars

(* ModifyImageAttribute and ModifySnapshotAttribute: an error does not say *)
(* that the permission was not added.                                      *)
GrantImage(who) == imageGrants' = imageGrants \cup {who} /\ UNCHANGED snapshotGrants
GrantSnapshot(who) == snapshotGrants' = snapshotGrants \cup {who} /\ UNCHANGED imageGrants
NoGrant == UNCHANGED <<imageGrants, snapshotGrants>>

BadMoreToShare == next < Len(config.shared)

MoreToShare == next <= Len(config.shared)

CallTypeOK ==
  /\ next \in 1 .. Len(config.shared) + 1
  /\ result \in {"none", "ok", "error", "panic"}
  /\ image \in {"none", "pending", "available", "failed"}
  /\ imageGrants \subseteq Grantees
  /\ snapshotGrants \subseteq Grantees

(* An AMI that is returned is available, and every configured account may  *)
(* use it and its snapshot.                                                *)
SharedWhenOk ==
  result = "ok" => image = "available" /\ Shared \subseteq imageGrants \cap snapshotGrants

AvailableWhenPublic == "all" \in imageGrants => image = "available"

(* A configured account that may use the snapshot may launch the AMI.  Not *)
(* so everybody: a snapshot is opened to "all" by itself.                  *)
ImageBeforeSnapshot == snapshotGrants \cap Shared \subseteq imageGrants
=============================================================================
