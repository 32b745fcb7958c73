--------------------------- MODULE CreateAmiDriver ---------------------------
(***************************************************************************)
(* driver/create_ami_driver.go: registers an AMI of a snapshot, shares the *)
(* AMI and the snapshot with the configured accounts, and makes the AMI    *)
(* public.  Whether the snapshot is public was settled before by the       *)
(* driver that made it.                                                    *)
(***************************************************************************)
EXTENDS AmiDriver

Init == CallInit /\ pc = "register"

Register == pc = "register" /\ MakeImage("exists")

WaitExists ==
  /\ pc = "exists"
  /\ (Goto("share") /\ UNCHANGED next) \/ Return("error")
  /\ UNCHANGED ec2Vars

ShareImage ==
  /\ pc = "share"
  /\ MoreToShare
  /\ \/ GrantImage(config.shared[next]) /\ Goto("shareSnapshot") /\ UNCHANGED next
     \/ (GrantImage(config.shared[next]) \/ NoGrant) /\ Return("error")
  /\ UNCHANGED image

ShareSnapshot ==
  /\ pc = "shareSnapshot"
  /\ \/ GrantSnapshot(config.shared[next]) /\ Goto("share") /\ next' = next + 1
     \/ (GrantSnapshot(config.shared[next]) \/ NoGrant) /\ Return("error")
  /\ UNCHANGED image

SharedWithAll ==
  /\ pc = "share"
  /\ ~MoreToShare
  /\ Goto("available") /\ UNCHANGED <<next, ec2Vars>>

BadMakePublic ==
  /\ pc = "publish"
  /\ GrantImage("all") \/ NoGrant
  /\ Return("ok")
  /\ UNCHANGED image

(* The error of the call is dropped (nolint:errcheck). *)
MakePublic ==
  /\ pc = "publish"
  /\ (Public /\ GrantImage("all")) \/ NoGrant
  /\ Return("ok")
  /\ UNCHANGED image

Create ==
  \/ Register \/ WaitExists
  \/ ShareImage \/ ShareSnapshot \/ SharedWithAll
  \/ WaitAvailable("publish")
  \/ MakePublic

TypeOK ==
  /\ CallTypeOK
  /\ pc \in {"register", "exists", "share", "shareSnapshot", "available", "publish",
             "returned"}
=============================================================================
