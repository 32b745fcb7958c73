-------------------- MODULE LightStemcellBuilderInvariant --------------------
(***************************************************************************)
(* The inductive invariant of LightStemcellBuilder: what every step of     *)
(* every goroutine relies on and leaves true.  LightStemcellBuilderProofs  *)
(* derives the safety properties of the system from it.                    *)
(***************************************************************************)
EXTENDS LightStemcellBuilder

Early == {"image", "alias", "volume", "snapshot", "ami"}
Left == {"cleanup", "returned"}
Owes(c) == copyPc[c] \notin {"idle", "done", "panicked"}

(* Publish(): no AMI before RegisterSourceAmi, the source AMI first after  *)
(* it; the deferred calls leave nothing live.                              *)
PublisherOK(p) ==
  /\ pc[p] \in Early => amis[p] = <<>> /\ err[p] = "nil"
  /\ pc[p] = "copying" => amis[p] # <<>> /\ err[p] = "nil"
  /\ pc[p] \in Left /\ err[p] = "nil" => amis[p] # <<>>
  /\ amis[p] # <<>> => amis[p][1] = SourceAmi(p)
  /\ \A i \in DOMAIN amis[p] :
       /\ amis[p][i].id \in {p} \cup CopiesOf(p)
       /\ amis[p][i].id \in registered
  /\ pc[p] = "returned" => image[p] # "live"

VolumeOK(p) ==
  /\ pc[p] \in {"image", "volume"} => volume[p] = "none"
  /\ pc[p] = "returned" => volume[p] # "live"

(* The copies: they run only while their publisher waits, and each one     *)
(* that got to Done() without a panic is accounted for.                    *)
CopyOK(c) ==
  /\ pc[Owner[c]] \in Early => copyPc[c] = "idle"
  /\ pc[Owner[c]] = "copying" => copyPc[c] # "idle"
  /\ pc[Owner[c]] \in Left => ~Owes(c)
  /\ copyPc[c] \in {"leaving", "done"} =>
       c \in errCol[Owner[c]] \/ CopiedAmi(c) \in Elements(amis[Owner[c]])
  /\ pc[Owner[c]] \in Left /\ err[Owner[c]] = "nil" =>
       copyPc[c] # "idle" /\ errCol[Owner[c]] = {}

GoInv ==
  /\ \A p \in Publishers : PublisherOK(p)
  /\ \A p \in Isolated : VolumeOK(p)
  /\ \A c \in Copies : CopyOK(c)

(* The reports: what Merge copied is there, and wg.Done() comes last. *)
ReportOK(p) ==
  /\ merged[p] <= Len(amis[p])
  /\ merged[p] > 0 => pc[p] = "returned" /\ err[p] = "nil"
  /\ \A i \in 1..merged[p] : amis[p][i] \in Elements(amiCollection)
  /\ p \in wgDone => pc[p] = "returned" /\ Reported(p)
  /\ p \in errCollection => pc[p] = "returned" /\ err[p] = "error"

ReportInv ==
  /\ \A p \in Publishers : ReportOK(p)
  /\ amiCollection # <<>> => \E p \in Publishers : amiCollection[1] = SourceAmi(p)
  /\ \A i \in DOMAIN amiCollection :
       \E p \in Publishers : merged[p] > 0 /\ amiCollection[i] \in Elements(amis[p])

(* main: the collections are final, and the manifest holds the AMIs that   *)
(* the loop of Write() passed, the last one of each region.                *)
MainInv ==
  /\ mainPc # "wait" => wgDone = Publishers
  /\ exit \in {"ok", "fatal"} => mainPc # "wait"
  /\ mainPc \in {"write", "close"} => errCollection = {} /\ published = amiCollection
  /\ mainPc \in {"wait", "check"} => next = 1 /\ published = <<>>
  /\ next <= Len(published) + 1
  /\ DOMAIN manifest = {published[i].region : i \in 1 .. next - 1}
  /\ \A r \in DOMAIN manifest : \E i \in 1 .. next - 1 :
       published[i].region = r /\ published[i].id = manifest[r]
  /\ output = "whole" => mainPc = "close"
  /\ mainPc = "close" => next = Len(published) + 1 /\ published # <<>> /\ name # "xen"

Inv == GoInv /\ ReportInv /\ MainInv
=============================================================================
