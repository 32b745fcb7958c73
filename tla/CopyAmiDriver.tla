---------------------------- MODULE CopyAmiDriver ----------------------------
(***************************************************************************)
(* driver/copy_ami_driver.go: copies an AMI to another region, shares it,  *)
(* makes it public, and looks up the snapshot EC2 made for the copy to     *)
(* share it and make it public as well.                                    *)
(***************************************************************************)
EXTENDS AmiDriver

VARIABLES
  listed,   \* does the copy's root device show its snapshot yet?
  polls     \* rounds of the loop that looks for it

pollVars == <<listed, polls>>

Init ==
  /\ CallInit
  /\ pc = "copy"
  /\ snapshotGrants = {}
  /\ listed = FALSE
  /\ polls = 0

CopyImage == pc = "copy" /\ MakeImage("available") /\ UNCHANGED pollVars

BadShareImages ==
  /\ pc = "shareImage"
  /\ MoreToShare
  /\ GrantImage(config.shared[next]) \/ NoGrant
  /\ Goto("shareImage") /\ next' = next + 1
  /\ UNCHANGED <<image, pollVars>>

(* The first loop over the accounts. *)
ShareImages ==
  /\ pc = "shareImage"
  /\ MoreToShare
  /\ \/ GrantImage(config.shared[next]) /\ Goto("shareImage") /\ next' = next + 1
     \/ (GrantImage(config.shared[next]) \/ NoGrant) /\ Return("error")
  /\ UNCHANGED <<image, pollVars>>

SharedImage ==
  /\ pc = "shareImage"
  /\ ~MoreToShare
  /\ Goto("publish") /\ next' = 1
  /\ UNCHANGED <<ec2Vars, pollVars>>

MakePublic ==
  /\ pc = "publish"
  /\ \/ ~Public /\ NoGrant /\ Goto("poll") /\ UNCHANGED next
     \/ Public /\ GrantImage("all") /\ Goto("poll") /\ UNCHANGED next
     \/ Public /\ (GrantImage("all") \/ NoGrant) /\ Return("error")
  /\ UNCHANGED <<image, pollVars>>

(* EC2 lists the snapshot of the copy when it likes. *)
ListSnapshot ==
  /\ image # "none"
  /\ ~listed
  /\ listed' = TRUE
  /\ UNCHANGED <<pc, next, result, ec2Vars, polls>>

Settled == Settle /\ UNCHANGED pollVars

(* One round of the loop: DescribeImages may fail, the root device may be  *)
(* missing from the answer or its snapshot still be nil; an answer without *)
(* any image makes the index run out of range.                             *)
Poll ==
  /\ pc = "poll"
  /\ polls < MaxPolls
  /\ polls' = polls + 1
  /\ \/ listed /\ Goto("shareSnapshot") /\ UNCHANGED next
     \/ Goto("poll") /\ UNCHANGED next
     \/ Return("error")
     \/ Malformed /\ Return("panic")
  /\ UNCHANGED <<ec2Vars, listed>>

BadGiveUp ==
  /\ pc = "poll"
  /\ polls = MaxPolls
  /\ Return("ok")
  /\ UNCHANGED <<ec2Vars, pollVars>>

BadStartAgain ==
  /\ pc = "poll"
  /\ polls = MaxPolls
  /\ polls' = 0
  /\ UNCHANGED <<pc, next, result, ec2Vars, listed>>

GiveUp ==
  /\ pc = "poll"
  /\ polls = MaxPolls
  /\ Return("error")
  /\ UNCHANGED <<ec2Vars, pollVars>>

(* The second loop over the accounts. *)
ShareSnapshots ==
  /\ pc = "shareSnapshot"
  /\ MoreToShare
  /\ \/ GrantSnapshot(config.shared[next]) /\ Goto("shareSnapshot") /\ next' = next + 1
     \/ (GrantSnapshot(config.shared[next]) \/ NoGrant) /\ Return("error")
  /\ UNCHANGED <<image, pollVars>>

BadSnapshotStaysPrivate == FALSE

SnapshotStaysPrivate == config.encrypted

(* The snapshot of an unencrypted copy is made public, whatever the        *)
(* visibility.                                                             *)
MakeSnapshotPublic ==
  /\ pc = "shareSnapshot"
  /\ ~MoreToShare
  /\ \/ SnapshotStaysPrivate /\ NoGrant /\ Return("ok")
     \/ ~SnapshotStaysPrivate /\ GrantSnapshot("all") /\ Return("ok")
     \/ ~SnapshotStaysPrivate /\ (GrantSnapshot("all") \/ NoGrant) /\ Return("error")
  /\ UNCHANGED <<image, pollVars>>

Create ==
  \/ CopyImage
  \/ WaitAvailable("shareImage") /\ UNCHANGED pollVars
  \/ ShareImages \/ SharedImage \/ MakePublic
  \/ Poll \/ GiveUp
  \/ ShareSnapshots \/ MakeSnapshotPublic

TypeOK ==
  /\ CallTypeOK
  /\ pc \in {"copy", "available", "shareImage", "publish", "poll", "shareSnapshot", "returned"}
  /\ listed \in BOOLEAN
  /\ polls \in 0 .. MaxPolls
=============================================================================
