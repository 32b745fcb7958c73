----------------------- MODULE SnapshotFromImageDriver -----------------------
(***************************************************************************)
(* driver/snapshot_from_image_driver.go: imports the machine image of a    *)
(* standard region as a snapshot.  EC2 works on an import task that the    *)
(* driver polls, a bounded number of times, before it asks the task for    *)
(* its snapshot and opens the snapshot of a stemcell that is not private.  *)
(***************************************************************************)
EXTENDS DriverRequest

VARIABLES
  pc,              \* where Create() is
  attempts,        \* the polls of the task that are over
  result,          \* what Create() returned
  task,            \* the import task, as EC2 sees it
  snapshot,        \* the snapshot the task makes
  snapshotGrants   \* who may make volumes of it

ec2Vars == <<task, snapshot, snapshotGrants>>

Init ==
  /\ pc = "import"
  /\ attempts = 0
  /\ result = "none"
  /\ task = "none"
  /\ snapshot = "none"
  /\ snapshotGrants = {}

(* The task goes its own way: an operator may delete it; a task that is    *)
(* completed names its snapshot.                                           *)
Work ==
  /\ \/ task = "active" /\ task' = "completed" /\ snapshot' = "complete"
     \/ task = "active" /\ task' = "deleting" /\ UNCHANGED snapshot
     \/ task = "deleting" /\ task' = "deleted" /\ UNCHANGED snapshot
  /\ UNCHANGED <<pc, attempts, result, snapshotGrants>>

Goto(step) == pc' = step /\ UNCHANGED <<attempts, result>>
Return(r) == pc' = "returned" /\ result' = r /\ UNCHANGED attempts

(* An error may hide a task that was started; in an answer without an id a *)
(* nil pointer is followed.                                                *)
ImportSnapshot ==
  /\ pc = "import"
  /\ \/ task' = "active" /\ Goto("poll")
     \/ /\ task' \in {"none", "active"}
        /\ Return("error") \/ (Malformed /\ Return("panic"))
  /\ UNCHANGED <<snapshot, snapshotGrants>>

TaskFinished == task = "completed"

TaskDeleted == task \in {"deleting", "deleted"}

(* The next round of the loop. *)
Sleep == attempts' = attempts + 1 /\ UNCHANGED <<pc, result>>

BadPollsLeft == attempts <= MaxPolls

PollsLeft == attempts < MaxPolls

(* One round: when the answer lists no task at all, all of them count as   *)
(* completed.                                                              *)
Poll ==
  /\ pc = "poll"
  /\ PollsLeft
  /\ \/ TaskFinished /\ Goto("describe")
     \/ Malformed /\ Goto("describe")
     \/ TaskDeleted /\ Return("error")
     \/ ~TaskDeleted /\ ~TaskFinished /\ Sleep
     \/ Return("error")
  /\ UNCHANGED ec2Vars

TimeOut ==
  /\ pc = "poll"
  /\ attempts = MaxPolls
  /\ Return("error")
  /\ UNCHANGED ec2Vars

BadSnapshotNamed == TRUE

(* The check for a nil SnapshotId. *)
SnapshotNamed == snapshot # "none"

(* The first task of the answer is taken without looking for one. *)
Describe ==
  /\ pc = "describe"
  /\ \/ SnapshotNamed /\ Goto("publish")
     \/ Return("error")
     \/ Malformed /\ Return("panic")
  /\ UNCHANGED ec2Vars

StaysPrivate == config.visibility = "private"

Open == snapshotGrants' = snapshotGrants \cup {"all"}

MakePublic ==
  /\ pc = "publish"
  /\ \/ StaysPrivate /\ Return("ok") /\ UNCHANGED snapshotGrants
     \/ ~StaysPrivate /\ Open /\ Return("ok")
     \/ ~StaysPrivate /\ (Open \/ UNCHANGED snapshotGrants) /\ Return("error")
  /\ UNCHANGED <<task, snapshot>>

Create == ImportSnapshot \/ Poll \/ TimeOut \/ Describe \/ MakePublic

TypeOK ==
  /\ pc \in {"import", "poll", "describe", "publish", "returned"}
  /\ attempts \in 0 .. MaxPolls
  /\ result \in {"none", "ok", "error", "panic"}
  /\ task \in {"none", "active", "deleting", "deleted", "completed"}
  /\ snapshot \in {"none", "complete"}
=============================================================================
