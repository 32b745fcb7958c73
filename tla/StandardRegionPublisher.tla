----------------------- MODULE StandardRegionPublisher -----------------------
(***************************************************************************)
(* publisher/standard_region.go: an entry of ami_regions that is not an    *)
(* isolated region.  When its source AMI exists, one goroutine per copy    *)
(* destination replicates the KMS key and copies the AMI; they share the   *)
(* publisher's collection.Ami and collection.Error and meet at a           *)
(* sync.WaitGroup before Publish() returns.                                *)
(***************************************************************************)
EXTENDS Publisher

CONSTANTS
  Copies,   \* the copy destinations of all entries, one goroutine each
  Owner,    \* the entry a copy destination belongs to
  Dest      \* the region it names

(* validate refuses a destination that is the entry's own or an isolated   *)
(* region; it does not compare destinations, nor entries, with each other. *)
ASSUME CopiesAssumption ==
  /\ IsFiniteSet(Copies)
  /\ Copies \cap Publishers = {}
  /\ Owner \in [Copies -> Standard]
  /\ DOMAIN Dest = Copies
  /\ \A c \in Copies : Dest[c] # Home[Owner[c]]
  /\ \A c \in Copies, p \in Isolated : Dest[c] # Home[p]

VARIABLES
  copyPc,   \* where each copy goroutine is
  errCol    \* the errors of a publisher's copies, by the copy that failed

copyVars == <<copyPc, errCol>>

CopySteps == {"idle", "replicate", "copy", "leaving", "done",
              "panicking", "panicked"}

CopiesOf(p) == {c \in Copies : Owner[c] = p}

(* The copy driver leaves the virtualization type of its result empty. *)
CopiedAmi(c) == [id |-> c, region |-> Dest[c], virt |-> ""]

CopyInit ==
  /\ copyPc = [c \in Copies |-> "idle"]
  /\ errCol = [p \in Standard |-> {}]

-----------------------------------------------------------------------------
(* Publish() itself *)

CreateAlias(p) ==
  CallDriver(p, "alias", "snapshot") /\ UNCHANGED copyVars

CreateSnapshot(p) ==
  /\ CallDriver(p, "snapshot", "ami") \/ PanicAt(p, "snapshot")
  /\ UNCHANGED copyVars

(* The source AMI is added before the goroutines start, so it comes first. *)
CreateSourceAmi(p) ==
  /\ RegisterSourceAmi(p)
  /\ copyPc' = [c \in Copies |-> IF Owner[c] = p THEN "replicate" ELSE copyPc[c]]
  /\ Proceed(p, "copying")
  /\ UNCHANGED errCol

BadCopiesFinished(p) == \E c \in CopiesOf(p) : copyPc[c] \in {"done", "panicked"}

(* procGroup: its counter is zero once every goroutine called Done(). *)
CopiesFinished(p) == \A c \in CopiesOf(p) : copyPc[c] \in {"done", "panicked"}

WaitCopies(p) ==
  /\ pc[p] = "copying"
  /\ CopiesFinished(p)
  /\ Leave(p, IF errCol[p] = {} THEN "nil" ELSE "error")
  /\ UNCHANGED <<image, amis, registered, copyVars>>

-----------------------------------------------------------------------------
(* The goroutine of one destination *)

CopyGoto(c, step) == copyPc' = [copyPc EXCEPT ![c] = step]

BadFailCopy(c) ==
  /\ CopyGoto(c, "leaving")
  /\ UNCHANGED errCol

BadRetryCopy(c) ==
  /\ CopyGoto(c, "replicate")
  /\ UNCHANGED errCol

FailCopy(c) ==
  /\ errCol' = [errCol EXCEPT ![Owner[c]] = @ \cup {c}]
  /\ CopyGoto(c, "leaving")

ReplicateKey(c) ==
  /\ copyPc[c] = "replicate"
  /\ \/ CopyGoto(c, "copy") /\ UNCHANGED errCol
     \/ FailCopy(c)
  /\ UNCHANGED publisherVars

(* CopyImage, its waiters, tags and permissions; a copy may exist when the *)
(* driver fails or panics.                                                 *)
CopyAmi(c) ==
  /\ copyPc[c] = "copy"
  /\ \/ /\ registered' = registered \cup {c}
        /\ amis' = [amis EXCEPT ![Owner[c]] = Append(@, CopiedAmi(c))]
        /\ CopyGoto(c, "leaving")
        /\ UNCHANGED errCol
     \/ /\ \E made \in {{}, {c}} : registered' = registered \cup made
        /\ FailCopy(c)
        /\ UNCHANGED amis
     \/ /\ Malformed
        /\ registered' = registered \cup {c}
        /\ CopyGoto(c, "panicking")
        /\ UNCHANGED <<errCol, amis>>
  /\ UNCHANGED <<pc, err, image>>

(* defer procGroup.Done(): it also runs while a panic unwinds. *)
CopyDone(c) ==
  /\ \/ copyPc[c] = "leaving" /\ CopyGoto(c, "done")
     \/ copyPc[c] = "panicking" /\ CopyGoto(c, "panicked")
  /\ UNCHANGED <<publisherVars, errCol>>

-----------------------------------------------------------------------------
StandardStep(p) ==
  \/ CreateMachineImage(p, "alias") /\ UNCHANGED copyVars
  \/ CreateAlias(p)
  \/ CreateSnapshot(p)
  \/ FailCreateAmi(p) /\ UNCHANGED copyVars
  \/ CreateSourceAmi(p)
  \/ WaitCopies(p)
  \/ DeleteMachineImage(p) /\ UNCHANGED copyVars

CopyStep(c) == ReplicateKey(c) \/ CopyAmi(c) \/ CopyDone(c)
=============================================================================
