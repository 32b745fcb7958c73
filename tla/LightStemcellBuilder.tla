------------------------- MODULE LightStemcellBuilder -------------------------
(***************************************************************************)
(* main.go and manifest/manifest.go: one goroutine per ami_regions entry   *)
(* publishes to its region and reports to two shared collections, main     *)
(* waits for all of them and, when none failed, writes the manifest of the *)
(* light stemcell.                                                         *)
(*                                                                         *)
(* A collection is changed by one atomic Add at a time (see AmiCollection).*)
(* logger.Fatal leaves the process at once: no deferred call, no other     *)
(* goroutine runs afterwards.  A goroutine that panics runs its deferred   *)
(* calls and then takes the process down; the others go on until it does.  *)
(***************************************************************************)
EXTENDS StandardRegionPublisher, IsolatedRegionPublisher

CONSTANT StemcellNames   \* how the name in the input manifest may read

(* "xen": names the xen hypervisor only; "xen-hvm": the -hvm is there      *)
(* already; "plain": neither is in it.                                     *)
ASSUME NamesAssumption == StemcellNames \subseteq {"xen", "xen-hvm", "plain"}
                          /\ StemcellNames # {}

VARIABLES
  amiCollection,   \* the AMIs merged so far
  errCollection,   \* the entries whose Publish() failed
  merged,          \* how many AMIs of an entry's collection were merged
  wgDone,          \* the entries whose goroutine called wg.Done()
  mainPc,          \* where main is
  published,       \* manifest.PublishedAmis
  next,            \* the next one Write() enters into the manifest
  manifest,        \* CloudProperties.Amis, from region to AMI
  name,            \* manifest.Name
  output,          \* what went to standard output
  exit             \* how the process ended

reportVars == <<amiCollection, errCollection, merged, wgDone>>
mainVars == <<mainPc, published, next, manifest, name, output, exit>>
goVars == <<publisherVars, copyVars, volume>>
vars == <<goVars, reportVars, mainVars>>

Ids == Publishers \cup Copies
AllAmis == {SourceAmi(p) : p \in Publishers} \cup {CopiedAmi(c) : c \in Copies}
AllRegions == {a.region : a \in AllAmis}
EmptyManifest == [r \in {} |-> {}]

Init ==
  /\ PublisherInit /\ CopyInit /\ VolumeInit
  /\ amiCollection = <<>>
  /\ errCollection = {}
  /\ merged = [p \in Publishers |-> 0]
  /\ wgDone = {}
  /\ mainPc = "wait"
  /\ published = <<>>
  /\ next = 1
  /\ manifest = EmptyManifest
  /\ name \in StemcellNames
  /\ output = "none"
  /\ exit = "running"

-----------------------------------------------------------------------------
(* The goroutine of an entry *)

(* errCollection.Add *)
ReportError(p) ==
  /\ pc[p] = "returned" /\ err[p] = "error"
  /\ p \notin errCollection
  /\ errCollection' = errCollection \cup {p}
  /\ UNCHANGED <<goVars, amiCollection, merged, wgDone, mainVars>>

BadMayMerge(p) == pc[p] = "returned"

MayMerge(p) == pc[p] = "returned" /\ err[p] = "nil"

(* One round of the loop of amiCollection.Merge: the merges of different   *)
(* entries interleave, the collection is locked for each AMI only.         *)
MergeNext(p) ==
  /\ MayMerge(p)
  /\ p \notin wgDone
  /\ merged[p] < Len(amis[p])
  /\ amiCollection' = Append(amiCollection, amis[p][merged[p] + 1])
  /\ merged' = [merged EXCEPT ![p] = @ + 1]
  /\ UNCHANGED <<goVars, errCollection, wgDone, mainVars>>

BadReported(p) == TRUE

Reported(p) ==
  /\ err[p] = "error" => p \in errCollection
  /\ err[p] = "nil" => merged[p] = Len(amis[p])

(* defer wg.Done(): a panic runs it with nothing reported. *)
Done(p) ==
  /\ pc[p] = "returned"
  /\ p \notin wgDone
  /\ Reported(p)
  /\ wgDone' = wgDone \cup {p}
  /\ UNCHANGED <<goVars, amiCollection, errCollection, merged, mainVars>>

(* A panic that has run all deferred calls of its goroutine. *)
Panicked ==
  \/ \E p \in wgDone : err[p] = "panic"
  \/ \E c \in Copies : copyPc[c] = "panicked"

Crash ==
  /\ Panicked
  /\ exit' = "crashed"
  /\ UNCHANGED <<goVars, reportVars, mainPc, published, next, manifest, name, output>>

-----------------------------------------------------------------------------
(* main *)

BadAllDone == wgDone # {}

(* wg.Wait() *)
AllDone == wgDone = Publishers

AwaitPublishers ==
  /\ mainPc = "wait"
  /\ AllDone
  /\ mainPc' = "check"
  /\ UNCHANGED <<goVars, reportVars, published, next, manifest, name, output, exit>>

BadCheckErrors ==
  /\ mainPc = "check"
  /\ published' = amiCollection
  /\ mainPc' = "write"
  /\ UNCHANGED <<goVars, reportVars, next, manifest, name, output, exit>>

(* errCollection.Error(), then logger.Fatal or amiCollection.GetAll(). *)
CheckErrors ==
  /\ mainPc = "check"
  /\ \/ /\ errCollection # {}
        /\ exit' = "fatal"
        /\ UNCHANGED <<mainPc, published>>
     \/ /\ errCollection = {}
        /\ published' = amiCollection
        /\ mainPc' = "write"
        /\ UNCHANGED exit
  /\ UNCHANGED <<goVars, reportVars, next, manifest, name, output>>

(* Write() refuses to write a manifest without AMIs. *)
RefuseEmptyManifest ==
  /\ mainPc = "write"
  /\ published = <<>>
  /\ exit' = "fatal"
  /\ UNCHANGED <<goVars, reportVars, mainPc, published, next, manifest, name, output>>

(* A Go map assignment. *)
Assign(m, key, value) ==
  [x \in DOMAIN m \cup {key} |-> IF x = key THEN value ELSE m[x]]

(* One round of the loop of Write(): the last AMI of a region stays. *)
EnterAmi ==
  /\ mainPc = "write"
  /\ next <= Len(published)
  /\ manifest' = Assign(manifest, published[next].region, published[next].id)
  /\ next' = next + 1
  /\ UNCHANGED <<goVars, reportVars, mainPc, published, name, output, exit>>

BadVirtualization == published[Len(published)].virt

(* The first AMI stands for all of them. *)
Virtualization == published[1].virt

BadHvmName(n) ==
  IF Virtualization # "hvm" THEN n
  ELSE CASE n = "xen"     -> "xen-hvm"
         [] n = "xen-hvm" -> "xen-hvm-hvm"
         [] n = "plain"   -> "plain"

(* Replacing "xen" by "xen-hvm" leaves a name without "xen" as it is. *)
HvmName(n) == IF Virtualization = "hvm" /\ n = "xen" THEN "xen-hvm" ELSE n

(* The write to standard output may fail, with part of it written. *)
FinishWrite ==
  /\ mainPc = "write"
  /\ published # <<>>
  /\ next > Len(published)
  /\ name' = HvmName(name)
  /\ \/ output' = "whole" /\ mainPc' = "close" /\ UNCHANGED exit
     \/ output' \in {"none", "part"} /\ exit' = "fatal" /\ UNCHANGED mainPc
  /\ UNCHANGED <<goVars, reportVars, published, next, manifest>>

(* The deferred Close of the configuration file; its error is fatal too. *)
CloseConfig ==
  /\ mainPc = "close"
  /\ exit' \in {"ok", "fatal"}
  /\ UNCHANGED <<goVars, reportVars, mainPc, published, next, manifest, name, output>>

-----------------------------------------------------------------------------
GoStep(p) == ReportError(p) \/ MergeNext(p) \/ Done(p)

MainStep ==
  \/ AwaitPublishers \/ CheckErrors \/ RefuseEmptyManifest
  \/ EnterAmi \/ FinishWrite \/ CloseConfig

PublishStandard(p) == StandardStep(p) /\ UNCHANGED <<volume, reportVars, mainVars>>
PublishCopy(c) == CopyStep(c) /\ UNCHANGED <<volume, reportVars, mainVars>>
PublishIsolated(p) == IsolatedStep(p) /\ UNCHANGED <<copyVars, reportVars, mainVars>>

Running == exit = "running"

(* The process has ended: only this step is left. *)
Ended == ~Running /\ UNCHANGED vars

Next ==
  \/ /\ Running
     /\ \/ \E p \in Standard : PublishStandard(p)
        \/ \E c \in Copies : PublishCopy(c)
        \/ \E p \in Isolated : PublishIsolated(p)
        \/ \E p \in Publishers : GoStep(p)
        \/ MainStep
        \/ Crash
  \/ Ended

(* The Go scheduler runs every goroutine that can go on, and every driver  *)
(* call returns: the waiters of the drivers are bounded.                   *)
Fairness ==
  /\ \A p \in Standard : WF_vars(Running /\ PublishStandard(p))
  /\ \A c \in Copies : WF_vars(Running /\ PublishCopy(c))
  /\ \A p \in Isolated : WF_vars(Running /\ PublishIsolated(p))
  /\ \A p \in Publishers : WF_vars(Running /\ GoStep(p))
  /\ WF_vars(Running /\ MainStep)
  /\ WF_vars(Running /\ Crash)

Spec == Init /\ [][Next]_vars

FairSpec == Spec /\ Fairness

-----------------------------------------------------------------------------
(* The type invariant. *)
TypeOK ==
  /\ pc \in [Publishers -> Stages]
  /\ err \in [Publishers -> {"nil", "error", "panic"}]
  /\ image \in [Publishers -> {"none", "live", "abandoned", "deleted", "kept"}]
  /\ amis \in [Publishers -> Seq(AllAmis)]
  /\ registered \subseteq Ids
  /\ copyPc \in [Copies -> CopySteps]
  /\ errCol \in [Standard -> SUBSET Copies]
  /\ volume \in [Isolated -> {"none", "live", "abandoned", "deleted", "kept"}]
  /\ amiCollection \in Seq(AllAmis)
  /\ errCollection \subseteq Publishers
  /\ merged \in [Publishers -> Nat]
  /\ wgDone \subseteq Publishers
  /\ mainPc \in {"wait", "check", "write", "close"}
  /\ published \in Seq(AllAmis)
  /\ next \in Nat \ {0}
  /\ DOMAIN manifest \subseteq AllRegions
  /\ \A r \in DOMAIN manifest : manifest[r] \in Ids
  /\ name \in {"xen", "xen-hvm", "plain"}
  /\ output \in {"none", "part", "whole"}
  /\ exit \in {"running", "ok", "fatal", "crashed"}

NoPanic ==
  /\ \A p \in Publishers : err[p] # "panic"
  /\ \A c \in Copies : copyPc[c] \notin {"panicking", "panicked"}

Elements(s) == {s[i] : i \in DOMAIN s}

(* A manifest that was written names every configured region, the copy     *)
(* destinations too, each with an AMI that exists and is of that region    *)
(* (main.go:165-179): none of the goroutines that ran meanwhile can lose   *)
(* its region without an error that keeps the manifest from being written. *)
CompleteFor(regions) ==
  /\ DOMAIN manifest = regions
  /\ \A r \in regions :
       \E a \in AllAmis : a.region = r /\ a.id = manifest[r] /\ a.id \in registered

ManifestComplete == output = "whole" /\ NoPanic => CompleteFor(AllRegions)

(* The same with no word about panics: what integration/main_test.go       *)
(* expects of every run that exits with status 0.                          *)
StatusZeroMeansComplete == exit = "ok" => CompleteFor(AllRegions)

(* When Publish() of a standard region returns no error, its collection is *)
(* exactly the source AMI, in front, and one copy per destination: no      *)
(* concurrent Add was lost and no failed copy forgotten                    *)
(* (standard_region.go:116-156).                                           *)
NilMeansAllCopied ==
  \A p \in Standard :
    pc[p] = "returned" /\ err[p] = "nil" /\ NoPanic =>
      /\ Len(amis[p]) = 1 + Cardinality(CopiesOf(p))
      /\ amis[p][1] = SourceAmi(p)
      /\ Elements(amis[p]) = {SourceAmi(p)} \cup {CopiedAmi(c) : c \in CopiesOf(p)}

(* An entry that failed contributes nothing: its AMIs, the source AMI and  *)
(* the copies that did succeed, are not merged (main.go:139-158).          *)
FailedEntryMergesNothing ==
  \A p \in Publishers : err[p] = "error" =>
    \A i \in DOMAIN amiCollection :
      LET id == amiCollection[i].id
      IN  id # p /\ (id \in Copies => Owner[id] # p)

(* With all regions different, every AMI that AWS registered for this run  *)
(* is in the manifest that is written: nothing published is left unlisted. *)
RegionsDistinct == \A a, b \in AllAmis : a.region = b.region => a = b

NoAmiUnlisted ==
  output = "whole" /\ NoPanic /\ RegionsDistinct =>
    registered = {manifest[r] : r \in DOMAIN manifest}

(* The name written never says xen for an HVM stemcell (manifest.go:70-73),*)
(* however the merges interleaved: the AMI that stands for all is a source *)
(* AMI, the only kind whose virtualization type is filled in.              *)
HvmNameWritten == output = "whole" => name # "xen"

(* When main ends the process no deferred delete is cut off: every machine *)
(* image and volume that somebody held was at least asked to be deleted.   *)
CleanedUpBeforeExit ==
  exit \in {"ok", "fatal"} =>
    /\ \A p \in Publishers : image[p] # "live"
    /\ \A p \in Isolated : volume[p] # "live"

(* Nothing changes a collection after its reader passed the WaitGroup:     *)
(* GetAll() and Error() are read once, the slice is not copied             *)
(* (ami_collection.go:22-27, main.go:165-172, standard_region.go:154-156). *)
FrozenWhenRead ==
  [][ /\ mainPc # "wait" => UNCHANGED <<amiCollection, errCollection>>
      /\ \A p \in Standard : pc[p] \in {"cleanup", "returned"} =>
           amis'[p] = amis[p] /\ errCol'[p] = errCol[p] ]_vars

(* Seen from outside, the run is StemcellPublication: all or nothing.      *)
Region == [id \in Ids |-> (CHOOSE a \in AllAmis : a.id = id).region]
Source == [id \in Ids |-> IF id \in Copies THEN Owner[id] ELSE id]

Publication == INSTANCE StemcellPublication WITH
  Amis <- Ids,
  RegionOf <- Region,
  SourceOf <- Source,
  built <- registered,
  outcome <- CASE output = "whole" -> "published"
               [] output # "whole" /\ exit \in {"fatal", "crashed"} -> "failed"
               [] OTHER -> "pending",
  catalog <- IF output = "whole" THEN manifest ELSE EmptyManifest

ImplementsPublication == Publication!Spec

(* The process ends: no failing driver leaves a WaitGroup waiting. *)
Terminates == <>(exit # "running")
=============================================================================
