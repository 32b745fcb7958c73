---------------------- MODULE LightStemcellBuilderProofs ----------------------
(***************************************************************************)
(* Proofs about LightStemcellBuilder, for every set of regions, entries    *)
(* and copy destinations, with and without panics.                         *)
(***************************************************************************)
EXTENDS LightStemcellBuilderInvariant, SequenceTheorems, TLAPS

(* Every step of the system is one of these. *)
StepCases ==
  \/ \E p \in Standard : PublishStandard(p)
  \/ \E c \in Copies : PublishCopy(c)
  \/ \E p \in Isolated : PublishIsolated(p)
  \/ UNCHANGED goVars

(* The goroutines that publish are the only ones to touch what they own.   *)
LEMMA NextCases == [Next]_vars => StepCases
<1> SUFFICES ASSUME [Next]_vars PROVE StepCases
  OBVIOUS
<1>1. CASE UNCHANGED vars
  BY <1>1 DEF StepCases, vars
<1>2. CASE Ended
  BY <1>2 DEF StepCases, Ended, vars
<1>3. CASE \E p \in Publishers : GoStep(p)
  BY <1>3 DEF StepCases, GoStep, ReportError, MergeNext, Done
<1>4. CASE MainStep
  BY <1>4 DEF StepCases, MainStep, AwaitPublishers, CheckErrors,
     RefuseEmptyManifest, EnterAmi, FinishWrite, CloseConfig
<1>5. CASE Crash
  BY <1>5 DEF StepCases, Crash
<1> QED
  BY <1>1, <1>2, <1>3, <1>4, <1>5 DEF Next, StepCases

-----------------------------------------------------------------------------
(* Type correctness *)

LEMMA AmisTyped ==
  /\ \A p \in Publishers : SourceAmi(p) \in AllAmis
  /\ \A c \in Copies : CopiedAmi(c) \in AllAmis
  /\ \A a \in AllAmis : a.region \in AllRegions /\ a.id \in Ids
<1>1. \A p \in Publishers : SourceAmi(p) \in AllAmis /\ SourceAmi(p).id = p
  BY DEF AllAmis, SourceAmi
<1>2. \A c \in Copies : CopiedAmi(c) \in AllAmis /\ CopiedAmi(c).id = c
  BY DEF AllAmis, CopiedAmi
<1>3. ASSUME NEW a \in AllAmis PROVE a.id \in Ids
  BY <1>1, <1>2 DEF AllAmis, Ids
<1>4. \A a \in AllAmis : a.region \in AllRegions
  BY DEF AllRegions
<1> QED
  BY <1>1, <1>2, <1>3, <1>4

(* The parts of TypeOK about the goroutines that publish. *)
PublisherTypeOK ==
  /\ pc \in [Publishers -> Stages]
  /\ err \in [Publishers -> {"nil", "error", "panic"}]
  /\ image \in [Publishers -> {"none", "live", "abandoned", "deleted", "kept"}]
  /\ amis \in [Publishers -> Seq(AllAmis)]
  /\ registered \subseteq Ids

CopyTypeOK ==
  /\ copyPc \in [Copies -> CopySteps]
  /\ errCol \in [Standard -> SUBSET Copies]

VolumeTypeOK ==
  volume \in [Isolated -> {"none", "live", "abandoned", "deleted", "kept"}]

(* The steps both publishers have. *)
LEMMA SharedStepTypes ==
  ASSUME PublisherTypeOK, NEW p \in Publishers, NEW stage, NEW after \in Stages,
         \/ CreateMachineImage(p, after)
         \/ CallDriver(p, stage, after)
         \/ PanicAt(p, stage)
         \/ FailCreateAmi(p)
         \/ DeleteMachineImage(p)
  PROVE  PublisherTypeOK'
<1> USE DEF PublisherTypeOK
<1> DEFINE Images == {"none", "live", "abandoned", "deleted", "kept"}
<1>1. CASE CreateMachineImage(p, after)
  <2>1. image' \in [Publishers -> Images]
    <3>1. CASE image' = [image EXCEPT ![p] = "live"]
      BY <3>1
    <3>2. CASE \E left \in {"none", "abandoned"} : image' = [image EXCEPT ![p] = left]
      BY <3>2
    <3> QED
      BY <1>1, <3>1, <3>2 DEF CreateMachineImage
  <2>2. pc' \in [Publishers -> Stages] /\ err' \in [Publishers -> {"nil", "error", "panic"}]
    BY <1>1 DEF CreateMachineImage, Proceed, Stages
  <2> QED
    BY <1>1, <2>1, <2>2 DEF CreateMachineImage
<1>2. CASE CallDriver(p, stage, after)
  BY <1>2 DEF CallDriver, Proceed, Leave, Stages
<1>3. CASE PanicAt(p, stage)
  BY <1>3 DEF PanicAt, Leave, Stages
<1>4. CASE FailCreateAmi(p)
  BY <1>4 DEF FailCreateAmi, Leave, Stages, Ids
<1>5. CASE DeleteMachineImage(p)
  BY <1>5 DEF DeleteMachineImage, Stages
<1> QED
  BY <1>1, <1>2, <1>3, <1>4, <1>5

(* The source AMI's step, which both publishers complete in their own way. *)
LEMMA RegisterTypes ==
  ASSUME PublisherTypeOK, NEW p \in Publishers, NEW after \in Stages,
         RegisterSourceAmi(p), Proceed(p, after) \/ Leave(p, "nil")
  PROVE  PublisherTypeOK'
<1>1. Append(amis[p], SourceAmi(p)) \in Seq(AllAmis)
  BY AmisTyped, AppendProperties DEF PublisherTypeOK
<1> QED
  BY <1>1 DEF PublisherTypeOK, RegisterSourceAmi, Proceed, Leave, Stages, Ids

LEMMA PublisherTypeStep == ASSUME PublisherTypeOK, [Next]_vars PROVE PublisherTypeOK'
<1>1. ASSUME NEW p \in Standard, PublishStandard(p) PROVE PublisherTypeOK'
  <2>0. p \in Publishers /\ {"alias", "snapshot", "ami", "copying"} \subseteq Stages
    BY DEF Publishers, Stages
  <2>1. CASE CreateMachineImage(p, "alias")
    BY <2>0, <2>1, SharedStepTypes
  <2>2. CASE CreateAlias(p)
    BY <2>0, <2>2, SharedStepTypes DEF CreateAlias
  <2>3. CASE CreateSnapshot(p)
    BY <2>0, <2>3, SharedStepTypes DEF CreateSnapshot
  <2>4. CASE FailCreateAmi(p)
    BY <2>0, <2>4, SharedStepTypes
  <2>5. CASE CreateSourceAmi(p)
    BY <2>0, <2>5, RegisterTypes DEF CreateSourceAmi
  <2>6. CASE WaitCopies(p)
    BY <2>0, <2>6 DEF PublisherTypeOK, WaitCopies, Leave, Stages
  <2>7. CASE DeleteMachineImage(p)
    BY <2>0, <2>7, SharedStepTypes
  <2> QED
    BY <1>1, <2>1, <2>2, <2>3, <2>4, <2>5, <2>6, <2>7 DEF PublishStandard, StandardStep
<1>2. ASSUME NEW c \in Copies, PublishCopy(c) PROVE PublisherTypeOK'
  <2>0. Owner[c] \in Publishers
    BY CopiesAssumption DEF Publishers
  <2>1. CASE UNCHANGED publisherVars
    BY <2>1 DEF PublisherTypeOK, publisherVars
  <2>2. CASE CopyAmi(c)
    <3>1. Append(amis[Owner[c]], CopiedAmi(c)) \in Seq(AllAmis)
      BY <2>0, AmisTyped, AppendProperties DEF PublisherTypeOK
    <3>2. registered' \subseteq Ids
      BY <2>2 DEF CopyAmi, PublisherTypeOK, Ids
    <3>3. amis' \in [Publishers -> Seq(AllAmis)]
      BY <2>0, <2>2, <3>1 DEF CopyAmi, PublisherTypeOK
    <3> QED
      BY <2>2, <3>2, <3>3 DEF PublisherTypeOK, CopyAmi
  <2> QED
    BY <1>2, <2>1, <2>2 DEF PublishCopy, CopyStep, ReplicateKey, CopyDone
<1>3. ASSUME NEW p \in Isolated, PublishIsolated(p) PROVE PublisherTypeOK'
  <2>0. p \in Publishers /\ {"volume", "snapshot", "ami", "cleanup"} \subseteq Stages
    BY DEF Publishers, Stages
  <2>1. CASE CreateMachineImage(p, "volume")
    BY <2>0, <2>1, SharedStepTypes
  <2>2. CASE CreateVolume(p)
    BY <2>0, <2>2 DEF PublisherTypeOK, CreateVolume, Proceed, Leave
  <2>3. CASE CreateIsolatedSnapshot(p)
    BY <2>0, <2>3, SharedStepTypes DEF CreateIsolatedSnapshot
  <2>4. CASE FailCreateAmi(p)
    BY <2>0, <2>4, SharedStepTypes
  <2>5. CASE CreateIsolatedAmi(p)
    BY <2>0, <2>5, RegisterTypes DEF CreateIsolatedAmi
  <2>6. CASE DeleteVolume(p)
    BY <2>6 DEF PublisherTypeOK, DeleteVolume, publisherVars
  <2>7. CASE DeleteImageAfterVolume(p)
    BY <2>0, <2>7, SharedStepTypes DEF DeleteImageAfterVolume
  <2> QED
    BY <1>3, <2>1, <2>2, <2>3, <2>4, <2>5, <2>6, <2>7 DEF PublishIsolated, IsolatedStep
<1>4. CASE UNCHANGED goVars
  BY <1>4 DEF goVars, publisherVars, PublisherTypeOK
<1> QED
  BY NextCases, <1>1, <1>2, <1>3, <1>4 DEF StepCases

LEMMA CopyTypeStep == ASSUME CopyTypeOK, [Next]_vars PROVE CopyTypeOK'
<1> USE DEF CopyTypeOK, CopySteps
<1>1. ASSUME NEW p \in Standard, PublishStandard(p) PROVE CopyTypeOK'
  BY <1>1 DEF PublishStandard, StandardStep, CreateAlias, CreateSnapshot,
     CreateSourceAmi, WaitCopies, copyVars
<1>2. ASSUME NEW c \in Copies, PublishCopy(c) PROVE CopyTypeOK'
  <2>0. Owner[c] \in Standard
    BY CopiesAssumption
  <2>1. copyPc' \in [Copies -> CopySteps]
    BY <1>2 DEF PublishCopy, CopyStep, ReplicateKey, CopyAmi, CopyDone, FailCopy, CopyGoto
  <2>2. errCol' = errCol \/ errCol' = [errCol EXCEPT ![Owner[c]] = @ \cup {c}]
    BY <1>2 DEF PublishCopy, CopyStep, ReplicateKey, CopyAmi, CopyDone, FailCopy
  <2> QED
    BY <2>0, <2>1, <2>2
<1>3. CASE UNCHANGED copyVars
  BY <1>3 DEF copyVars
<1> QED
  BY NextCases, <1>1, <1>2, <1>3 DEF StepCases, PublishIsolated, goVars

LEMMA VolumeTypeStep == ASSUME VolumeTypeOK, [Next]_vars PROVE VolumeTypeOK'
<1> USE DEF VolumeTypeOK
<1>1. ASSUME NEW p \in Isolated, PublishIsolated(p) PROVE VolumeTypeOK'
  <2>1. CASE UNCHANGED volume
    BY <2>1
  <2>2. CASE CreateVolume(p)
    BY <2>2 DEF CreateVolume
  <2>3. CASE DeleteVolume(p)
    BY <2>3 DEF DeleteVolume
  <2> QED
    BY <1>1, <2>1, <2>2, <2>3 DEF PublishIsolated, IsolatedStep, CreateIsolatedSnapshot,
       CreateIsolatedAmi, DeleteImageAfterVolume
<1>2. CASE UNCHANGED volume
  BY <1>2
<1> QED
  BY NextCases, <1>1, <1>2 DEF StepCases, PublishStandard, PublishCopy, goVars

(* The parts about the reports of the goroutines, and about main. *)
ReportTypeOK ==
  /\ amiCollection \in Seq(AllAmis)
  /\ errCollection \subseteq Publishers
  /\ merged \in [Publishers -> Nat]
  /\ wgDone \subseteq Publishers

MainTypeOK ==
  /\ mainPc \in {"wait", "check", "write", "close"}
  /\ published \in Seq(AllAmis)
  /\ next \in Nat \ {0}
  /\ DOMAIN manifest \subseteq AllRegions
  /\ \A r \in DOMAIN manifest : manifest[r] \in Ids
  /\ name \in {"xen", "xen-hvm", "plain"}
  /\ output \in {"none", "part", "whole"}
  /\ exit \in {"running", "ok", "fatal", "crashed"}

(* Only GoStep reports, only main writes. *)
LEMMA ReportCases ==
  [Next]_vars => (\E p \in Publishers : GoStep(p)) \/ UNCHANGED reportVars
<1> SUFFICES ASSUME Next, ~ \E p \in Publishers : GoStep(p) PROVE UNCHANGED reportVars
  BY DEF vars
<1>1. CASE MainStep
  BY <1>1 DEF MainStep, AwaitPublishers, CheckErrors, RefuseEmptyManifest,
     EnterAmi, FinishWrite, CloseConfig
<1>2. CASE Ended
  BY <1>2 DEF Ended, vars
<1>3. CASE Crash
  BY <1>3 DEF Crash
<1> QED
  BY <1>1, <1>2, <1>3 DEF Next, PublishStandard, PublishCopy, PublishIsolated

LEMMA MainCases == [Next]_vars => (Running /\ (MainStep \/ Crash)) \/ UNCHANGED mainVars
<1> SUFFICES ASSUME Next, ~ (Running /\ (MainStep \/ Crash)) PROVE UNCHANGED mainVars
  BY DEF vars
<1>1. CASE \E p \in Publishers : GoStep(p)
  BY <1>1 DEF GoStep, ReportError, MergeNext, Done
<1>2. CASE Ended
  BY <1>2 DEF Ended, vars
<1> QED
  BY <1>1, <1>2 DEF Next, PublishStandard, PublishCopy, PublishIsolated

LEMMA ReportTypeStep ==
  ASSUME PublisherTypeOK, ReportTypeOK, [Next]_vars PROVE ReportTypeOK'
<1> USE DEF ReportTypeOK
<1>1. ASSUME NEW p \in Publishers, ReportError(p) PROVE ReportTypeOK'
  BY <1>1 DEF ReportError
<1>2. ASSUME NEW p \in Publishers, MergeNext(p) PROVE ReportTypeOK'
  <2>1. amis[p] \in Seq(AllAmis) /\ merged[p] \in Nat /\ merged[p] < Len(amis[p])
    BY <1>2 DEF MergeNext, PublisherTypeOK
  <2>2. amis[p][merged[p] + 1] \in AllAmis
    BY <2>1
  <2>3. Append(amiCollection, amis[p][merged[p] + 1]) \in Seq(AllAmis)
    BY <2>2, AppendProperties
  <2> QED
    BY <1>2, <2>1, <2>3 DEF MergeNext
<1>3. ASSUME NEW p \in Publishers, Done(p) PROVE ReportTypeOK'
  BY <1>3 DEF Done
<1>4. CASE UNCHANGED reportVars
  BY <1>4 DEF reportVars
<1> QED
  BY ReportCases, <1>1, <1>2, <1>3, <1>4 DEF GoStep

LEMMA MainTypeStep ==
  ASSUME ReportTypeOK, MainTypeOK, [Next]_vars PROVE MainTypeOK'
<1> USE DEF MainTypeOK
<1>1. CASE AwaitPublishers
  BY <1>1 DEF AwaitPublishers
<1>2. CASE CheckErrors
  BY <1>2 DEF CheckErrors, ReportTypeOK
<1>3. CASE RefuseEmptyManifest
  BY <1>3 DEF RefuseEmptyManifest
<1>4. CASE EnterAmi
  <2>1. published[next] \in AllAmis
    BY <1>4 DEF EnterAmi
  <2> DEFINE r == published[next].region
             id == published[next].id
  <2>2. r \in AllRegions /\ id \in Ids
    BY <2>1, AmisTyped
  <2>3. manifest' = Assign(manifest, r, id) /\ next' = next + 1
    BY <1>4 DEF EnterAmi
  <2>4. DOMAIN manifest' = {r} \cup DOMAIN manifest
        /\ manifest'[r] = id
        /\ \A x \in DOMAIN manifest : x # r => manifest'[x] = manifest[x]
    BY <2>3 DEF Assign
  <2>5. DOMAIN manifest' \subseteq AllRegions
        /\ \A x \in DOMAIN manifest' : manifest'[x] \in Ids
    BY <2>2, <2>4
  <2> QED
    BY <1>4, <2>3, <2>5 DEF EnterAmi
<1>5. CASE FinishWrite
  <2>1. HvmName(name) \in {"xen", "xen-hvm", "plain"}
    BY DEF HvmName
  <2> QED
    BY <1>5, <2>1 DEF FinishWrite
<1>6. CASE CloseConfig
  BY <1>6 DEF CloseConfig
<1>7. CASE Crash
  BY <1>7 DEF Crash
<1>8. CASE UNCHANGED mainVars
  BY <1>8 DEF mainVars
<1> QED
  BY MainCases, <1>1, <1>2, <1>3, <1>4, <1>5, <1>6, <1>7, <1>8 DEF MainStep

LEMMA TypeParts ==
  TypeOK <=> PublisherTypeOK /\ CopyTypeOK /\ VolumeTypeOK /\ ReportTypeOK /\ MainTypeOK
  BY DEF TypeOK, PublisherTypeOK, CopyTypeOK, VolumeTypeOK, ReportTypeOK, MainTypeOK

LEMMA TypeInit == Init => TypeOK
<1> SUFFICES ASSUME Init PROVE TypeOK
  OBVIOUS
<1>1. <<>> \in Seq(AllAmis)
  OBVIOUS
<1>2. PublisherTypeOK
  BY <1>1 DEF Init, PublisherInit, PublisherTypeOK, Stages
<1>3. CopyTypeOK /\ VolumeTypeOK
  BY DEF Init, CopyInit, VolumeInit, CopyTypeOK, VolumeTypeOK, CopySteps
<1>4. ReportTypeOK
  BY <1>1 DEF Init, ReportTypeOK
<1>5. MainTypeOK
  BY <1>1, NamesAssumption DEF Init, MainTypeOK, EmptyManifest
<1> QED
  BY <1>2, <1>3, <1>4, <1>5, TypeParts

(* The variables keep their types in every behaviour. *)
THEOREM TypeCorrect == Spec => []TypeOK
<1>1. TypeOK /\ [Next]_vars => TypeOK'
  <2> SUFFICES ASSUME TypeOK, [Next]_vars PROVE TypeOK'
    OBVIOUS
  <2>1. PublisherTypeOK' /\ CopyTypeOK' /\ VolumeTypeOK' /\ ReportTypeOK' /\ MainTypeOK'
    BY TypeParts, PublisherTypeStep, CopyTypeStep, VolumeTypeStep, ReportTypeStep, MainTypeStep
  <2> QED
    BY <2>1 DEF TypeOK, PublisherTypeOK, CopyTypeOK, VolumeTypeOK, ReportTypeOK, MainTypeOK
<1> QED
  BY TypeInit, <1>1, PTL DEF Spec

-----------------------------------------------------------------------------
(* The inductive invariant: the goroutines that publish *)

GoTypes == PublisherTypeOK /\ CopyTypeOK /\ VolumeTypeOK

LEMMA StagesSplit == \A p \in Publishers : PublisherTypeOK =>
                       pc[p] \in Early \cup {"copying"} \cup Left
  BY DEF PublisherTypeOK, Stages, Early, Left

(* A step that does not touch q, and un-registers no AMI, keeps what is    *)
(* known of q.                                                             *)
LEMMA OtherPublisher ==
  ASSUME NEW q \in Publishers, PublisherOK(q),
         pc'[q] = pc[q], err'[q] = err[q], image'[q] = image[q],
         amis'[q] = amis[q], registered \subseteq registered'
  PROVE  PublisherOK(q)'
  BY DEF PublisherOK

LEMMA OtherCopy ==
  ASSUME NEW c \in Copies, CopyOK(c),
         pc'[Owner[c]] = pc[Owner[c]], err'[Owner[c]] = err[Owner[c]],
         amis'[Owner[c]] = amis[Owner[c]],
         errCol'[Owner[c]] = errCol[Owner[c]], copyPc'[c] = copyPc[c]
  PROVE  CopyOK(c)'
  BY DEF CopyOK, Owes

(* A publisher that leaves Publish() early has added no AMI and started no *)
(* copy.                                                                   *)
LEMMA LeavingEarly ==
  ASSUME GoTypes, NEW p \in Publishers, PublisherOK(p), pc[p] \in Early,
         pc'[p] \in Early \/ (pc'[p] \in Left /\ err'[p] # "nil"),
         pc'[p] \in Early => err'[p] = err[p],
         amis' = amis, pc'[p] = "returned" => image'[p] # "live"
  PROVE  PublisherOK(p)'
  BY DEF PublisherOK, Early, Left

LEMMA LeavingEarlyCopy ==
  ASSUME GoTypes, NEW c \in Copies, CopyOK(c), pc[Owner[c]] \in Early,
         pc'[Owner[c]] \in Early \/ (pc'[Owner[c]] \in Left /\ err'[Owner[c]] # "nil"),
         UNCHANGED copyVars
  PROVE  CopyOK(c)'
  BY DEF CopyOK, Early, Left, Owes, copyVars

(* An append keeps the elements, and the first one, of a collection. *)
LEMMA AppendKeeps ==
  ASSUME NEW S, NEW s \in Seq(S), NEW a \in S
  PROVE  /\ Append(s, a) \in Seq(S)
         /\ Append(s, a) # <<>>
         /\ Len(Append(s, a)) = Len(s) + 1
         /\ DOMAIN Append(s, a) = 1 .. Len(s) + 1
         /\ \A i \in DOMAIN s : Append(s, a)[i] = s[i]
         /\ Append(s, a)[Len(s) + 1] = a
         /\ Elements(Append(s, a)) = Elements(s) \cup {a}
<1>1. /\ Append(s, a) \in Seq(S)
      /\ Len(Append(s, a)) = Len(s) + 1
      /\ DOMAIN Append(s, a) = 1 .. Len(s) + 1
      /\ DOMAIN s = 1 .. Len(s)
      /\ Len(s) \in Nat
  OBVIOUS
<1>2. \A i \in DOMAIN s : Append(s, a)[i] = s[i]
  OBVIOUS
<1>3. Append(s, a)[Len(s) + 1] = a
  OBVIOUS
<1>4. Append(s, a) # <<>>
  BY <1>1
<1>5. Elements(Append(s, a)) = Elements(s) \cup {a}
  <2>1. Len(s) + 1 \in 1 .. Len(s) + 1 /\ 1 .. Len(s) + 1 = (1 .. Len(s)) \cup {Len(s) + 1}
    BY <1>1
  <2> QED
    BY <1>1, <1>2, <1>3, <2>1 DEF Elements
<1> QED
  BY <1>1, <1>2, <1>3, <1>4, <1>5

LEMMA PublisherStep ==
  ASSUME GoTypes, GoInv, [Next]_vars, NEW q \in Publishers
  PROVE  PublisherOK(q)'
<1> USE DEF GoTypes
<1>0. PublisherOK(q)
  BY DEF GoInv
<1>1. ASSUME NEW p \in Standard, PublishStandard(p) PROVE PublisherOK(q)'
  <2>0. p \in Publishers
    BY DEF Publishers
  <2>1. CASE q # p
    <3>1. pc'[q] = pc[q] /\ err'[q] = err[q] /\ image'[q] = image[q]
          /\ amis'[q] = amis[q] /\ registered \subseteq registered'
      BY <1>1, <2>0, <2>1 DEF PublishStandard, StandardStep, CreateMachineImage,
         CreateAlias, CreateSnapshot, CallDriver, PanicAt, FailCreateAmi,
         CreateSourceAmi, RegisterSourceAmi, WaitCopies, DeleteMachineImage,
         Proceed, Leave, PublisherTypeOK
    <3> QED
      BY <1>0, <3>1, OtherPublisher
  <2>2. CASE q = p
    <3>1. CASE CreateMachineImage(p, "alias")
      BY <1>0, <2>0, <2>2, <3>1, LeavingEarly
         DEF CreateMachineImage, Proceed, Early, Left, PublisherTypeOK
    <3>2. CASE CreateAlias(p)
      BY <1>0, <2>0, <2>2, <3>2, LeavingEarly
         DEF CreateAlias, CallDriver, Proceed, Leave, Early, Left, PublisherTypeOK
    <3>3. CASE CreateSnapshot(p)
      BY <1>0, <2>0, <2>2, <3>3, LeavingEarly
         DEF CreateSnapshot, CallDriver, PanicAt, Proceed, Leave, Early, Left, PublisherTypeOK
    <3>4. CASE FailCreateAmi(p)
      BY <1>0, <2>0, <2>2, <3>4, LeavingEarly
         DEF FailCreateAmi, Leave, Early, Left, PublisherTypeOK
    <3>5. CASE CreateSourceAmi(p)
      <4>1. amis[p] = <<>> /\ err[p] = "nil"
        BY <1>0, <2>2, <3>5 DEF CreateSourceAmi, RegisterSourceAmi, PublisherOK, Early
      <4>2. amis'[p] = <<SourceAmi(p)>> /\ pc'[p] = "copying" /\ err'[p] = "nil"
            /\ p \in registered'
        BY <2>0, <3>5, <4>1 DEF CreateSourceAmi, RegisterSourceAmi, Proceed, PublisherTypeOK
      <4> QED
        BY <2>2, <4>2 DEF PublisherOK, Early, Left, SourceAmi
    <3>6. CASE WaitCopies(p)
      <4>1. pc[p] = "copying" /\ pc'[p] = "cleanup" /\ amis' = amis /\ registered' = registered
        BY <2>0, <3>6 DEF WaitCopies, Leave, PublisherTypeOK
      <4> QED
        BY <1>0, <2>2, <4>1 DEF PublisherOK, Early, Left
    <3>7. CASE DeleteMachineImage(p)
      <4>1. pc[p] = "cleanup" /\ pc'[p] = "returned" /\ image'[p] # "live"
            /\ amis' = amis /\ err' = err /\ registered' = registered
        BY <2>0, <3>7 DEF DeleteMachineImage, PublisherTypeOK
      <4> QED
        BY <1>0, <2>2, <4>1 DEF PublisherOK, Early, Left
    <3> QED
      BY <1>1, <3>1, <3>2, <3>3, <3>4, <3>5, <3>6, <3>7 DEF PublishStandard, StandardStep
  <2> QED
    BY <2>1, <2>2
<1>2. ASSUME NEW c \in Copies, PublishCopy(c) PROVE PublisherOK(q)'
  <2>0. Owner[c] \in Publishers
    BY CopiesAssumption DEF Publishers
  <2>1. CASE UNCHANGED publisherVars
    BY <1>0, <2>1, OtherPublisher DEF publisherVars
  <2>2. CASE CopyAmi(c) /\ amis'[q] = amis[q]
    BY <1>0, <2>2, OtherPublisher DEF CopyAmi
  <2>3. CASE CopyAmi(c) /\ amis'[q] # amis[q]
    <3>1. q = Owner[c] /\ amis'[q] = Append(amis[q], CopiedAmi(c))
          /\ UNCHANGED <<pc, err, image>> /\ registered' = registered \cup {c}
      BY <2>0, <2>3 DEF CopyAmi, PublisherTypeOK
    <3>2. pc[q] = "copying"
      <4>1. CopyOK(c) /\ copyPc[c] = "copy"
        BY <2>3 DEF GoInv, CopyAmi
      <4> QED
        BY <3>1, <4>1, StagesSplit DEF CopyOK, Owes
    <3>3. amis[q] \in Seq(AllAmis) /\ amis[q] # <<>> /\ amis[q][1] = SourceAmi(q)
      BY <1>0, <3>2 DEF PublisherOK, PublisherTypeOK
    <3>4. /\ amis'[q] # <<>>
          /\ DOMAIN amis'[q] = 1 .. Len(amis[q]) + 1
          /\ DOMAIN amis[q] = 1 .. Len(amis[q])
          /\ \A i \in DOMAIN amis[q] : amis'[q][i] = amis[q][i]
          /\ amis'[q][Len(amis[q]) + 1] = CopiedAmi(c)
      BY <3>1, <3>3, AmisTyped, AppendKeeps
    <3>5. amis'[q][1] = SourceAmi(q)
      <4>1. 1 \in DOMAIN amis[q]
        BY <3>3
      <4> QED
        BY <3>3, <3>4, <4>1
    <3>6. ASSUME NEW i \in DOMAIN amis'[q]
          PROVE  amis'[q][i].id \in {q} \cup CopiesOf(q) /\ amis'[q][i].id \in registered'
      <4>1. CASE i \in DOMAIN amis[q]
        BY <1>0, <3>1, <3>4, <4>1 DEF PublisherOK
      <4>2. CASE i = Len(amis[q]) + 1
        <5>1. amis'[q][i] = CopiedAmi(c)
          BY <3>4, <4>2
        <5>2. CopiedAmi(c).id = c
          BY DEF CopiedAmi
        <5>3. c \in CopiesOf(q) /\ c \in registered'
          BY <3>1 DEF CopiesOf
        <5> QED
          BY <5>1, <5>2, <5>3
      <4> QED
        BY <3>3, <3>4, <4>1, <4>2
    <3> QED
      BY <1>0, <3>1, <3>2, <3>4, <3>5, <3>6 DEF PublisherOK, Early, Left
  <2> QED
    BY <1>2, <2>1, <2>2, <2>3 DEF PublishCopy, CopyStep, ReplicateKey, CopyDone
<1>3. ASSUME NEW p \in Isolated, PublishIsolated(p) PROVE PublisherOK(q)'
  <2>0. p \in Publishers
    BY DEF Publishers
  <2>1. CASE q # p
    <3>1. pc'[q] = pc[q] /\ err'[q] = err[q] /\ image'[q] = image[q]
          /\ amis'[q] = amis[q] /\ registered \subseteq registered'
      BY <1>3, <2>0, <2>1 DEF PublishIsolated, IsolatedStep, CreateMachineImage,
         CreateVolume, CreateIsolatedSnapshot, CallDriver, PanicAt, FailCreateAmi,
         CreateIsolatedAmi, RegisterSourceAmi, DeleteVolume, DeleteImageAfterVolume,
         DeleteMachineImage, Proceed, Leave, PublisherTypeOK, publisherVars
    <3> QED
      BY <1>0, <3>1, OtherPublisher
  <2>2. CASE q = p
    <3>1. CASE CreateMachineImage(p, "volume")
      BY <1>0, <2>0, <2>2, <3>1, LeavingEarly
         DEF CreateMachineImage, Proceed, Early, Left, PublisherTypeOK
    <3>2. CASE CreateVolume(p)
      BY <1>0, <2>0, <2>2, <3>2, LeavingEarly
         DEF CreateVolume, Proceed, Leave, Early, Left, PublisherTypeOK
    <3>3. CASE CreateIsolatedSnapshot(p)
      BY <1>0, <2>0, <2>2, <3>3, LeavingEarly
         DEF CreateIsolatedSnapshot, CallDriver, PanicAt, Proceed, Leave, Early, Left, PublisherTypeOK
    <3>4. CASE FailCreateAmi(p)
      BY <1>0, <2>0, <2>2, <3>4, LeavingEarly
         DEF FailCreateAmi, Leave, Early, Left, PublisherTypeOK
    <3>5. CASE CreateIsolatedAmi(p)
      <4>1. amis[p] = <<>>
        BY <1>0, <2>2, <3>5 DEF CreateIsolatedAmi, RegisterSourceAmi, PublisherOK, Early
      <4>2. amis'[p] = <<SourceAmi(p)>> /\ pc'[p] = "cleanup" /\ p \in registered'
        BY <2>0, <3>5, <4>1 DEF CreateIsolatedAmi, RegisterSourceAmi, Leave, PublisherTypeOK
      <4> QED
        BY <2>2, <4>2 DEF PublisherOK, Early, Left, SourceAmi
    <3>6. CASE DeleteVolume(p)
      BY <1>0, <3>6, OtherPublisher DEF DeleteVolume, publisherVars
    <3>7. CASE DeleteImageAfterVolume(p)
      <4>1. pc[p] = "cleanup" /\ pc'[p] = "returned" /\ image'[p] # "live"
            /\ amis' = amis /\ err' = err /\ registered' = registered
        BY <2>0, <3>7 DEF DeleteImageAfterVolume, DeleteMachineImage, PublisherTypeOK
      <4> QED
        BY <1>0, <2>2, <4>1 DEF PublisherOK, Early, Left
    <3> QED
      BY <1>3, <3>1, <3>2, <3>3, <3>4, <3>5, <3>6, <3>7 DEF PublishIsolated, IsolatedStep
  <2> QED
    BY <2>1, <2>2
<1>4. CASE UNCHANGED goVars
  BY <1>0, <1>4, OtherPublisher DEF goVars, publisherVars
<1> QED
  BY NextCases, <1>1, <1>2, <1>3, <1>4 DEF StepCases

LEMMA VolumeStep ==
  ASSUME GoTypes, GoInv, [Next]_vars, NEW q \in Isolated
  PROVE  VolumeOK(q)'
<1> USE DEF GoTypes
<1>0. VolumeOK(q) /\ q \in Publishers /\ q \notin Standard
  BY PublishersAssumption DEF GoInv, Publishers
<1>1. ASSUME NEW p \in Standard, PublishStandard(p) PROVE VolumeOK(q)'
  <2>1. p \in Publishers /\ p # q
    BY <1>0 DEF Publishers
  <2>2. pc'[q] = pc[q] /\ volume'[q] = volume[q]
    BY <1>0, <1>1, <2>1 DEF PublishStandard, StandardStep, CreateMachineImage,
       CreateAlias, CreateSnapshot, CallDriver, PanicAt, FailCreateAmi,
       CreateSourceAmi, WaitCopies, DeleteMachineImage, Proceed, Leave, PublisherTypeOK
  <2> QED
    BY <1>0, <2>2 DEF VolumeOK
<1>2. ASSUME NEW c \in Copies, PublishCopy(c) PROVE VolumeOK(q)'
  BY <1>0, <1>2 DEF PublishCopy, CopyStep, ReplicateKey, CopyAmi, CopyDone,
     publisherVars, VolumeOK
<1>3. ASSUME NEW p \in Isolated, PublishIsolated(p) PROVE VolumeOK(q)'
  <2>0. p \in Publishers
    BY DEF Publishers
  <2>1. CASE CreateMachineImage(p, "volume") /\ UNCHANGED volume
    BY <1>0, <2>0, <2>1 DEF CreateMachineImage, Proceed, VolumeOK, PublisherTypeOK, VolumeTypeOK
  <2>2. CASE CreateVolume(p)
    <3>1. pc' = [pc EXCEPT ![p] = "snapshot"] \/ pc' = [pc EXCEPT ![p] = "cleanup"]
      BY <2>2 DEF CreateVolume, Proceed, Leave
    <3>2. q # p => volume'[q] = volume[q]
      BY <2>2 DEF CreateVolume, VolumeTypeOK
    <3> QED
      BY <1>0, <2>0, <3>1, <3>2 DEF VolumeOK, PublisherTypeOK
  <2>3. CASE UNCHANGED volume /\ pc[p] \in {"snapshot", "ami"}
             /\ (Proceed(p, "ami") \/ \E e \in {"nil", "error", "panic"} : Leave(p, e))
    BY <1>0, <2>0, <2>3 DEF Proceed, Leave, VolumeOK, PublisherTypeOK
  <2>4. CASE DeleteVolume(p)
    BY <1>0, <2>0, <2>4 DEF DeleteVolume, publisherVars, VolumeOK, VolumeTypeOK
  <2>5. CASE DeleteImageAfterVolume(p)
    BY <1>0, <2>0, <2>5 DEF DeleteImageAfterVolume, DeleteMachineImage, VolumeReleased,
       VolumeOK, PublisherTypeOK
  <2> QED
    BY <1>3, <2>1, <2>2, <2>3, <2>4, <2>5 DEF PublishIsolated, IsolatedStep,
       CreateIsolatedSnapshot, CallDriver, PanicAt, FailCreateAmi, CreateIsolatedAmi, RegisterSourceAmi
<1>4. CASE UNCHANGED goVars
  BY <1>0, <1>4 DEF goVars, publisherVars, VolumeOK
<1> QED
  BY NextCases, <1>1, <1>2, <1>3, <1>4 DEF StepCases

(* Once Publish() left its body, its copies have ended and nothing changes *)
(* its collections any more.                                               *)
LEMMA LeftFrozen ==
  ASSUME GoTypes, GoInv, [Next]_vars, NEW q \in Publishers, pc[q] \in Left
  PROVE  /\ amis'[q] = amis[q] /\ err'[q] = err[q] /\ pc'[q] \in Left
         /\ pc[q] = "returned" => pc'[q] = "returned"
         /\ q \in Standard => errCol'[q] = errCol[q]
         /\ \A c \in CopiesOf(q) : copyPc'[c] = copyPc[c]
<1> USE DEF GoTypes
<1>1. ASSUME NEW p \in Standard, PublishStandard(p)
      PROVE  /\ amis'[q] = amis[q] /\ err'[q] = err[q] /\ pc'[q] \in Left
             /\ pc[q] = "returned" => pc'[q] = "returned"
             /\ errCol' = errCol
             /\ \A c \in CopiesOf(q) : copyPc'[c] = copyPc[c]
  <2>0. p \in Publishers
    BY DEF Publishers
  <2>1. CASE pc[p] \in Early \cup {"copying"}
    <3>1. q # p
      BY <2>1 DEF Early, Left
    <3>2. pc'[q] = pc[q] /\ err'[q] = err[q] /\ amis'[q] = amis[q]
      BY <1>1, <2>0, <3>1 DEF PublishStandard, StandardStep, CreateMachineImage,
         CreateAlias, CreateSnapshot, CallDriver, PanicAt, FailCreateAmi, CreateSourceAmi,
         RegisterSourceAmi, WaitCopies, DeleteMachineImage, Proceed, Leave, PublisherTypeOK
    <3>3. errCol' = errCol /\ \A c \in CopiesOf(q) : copyPc'[c] = copyPc[c]
      BY <1>1, <3>1 DEF PublishStandard, StandardStep, CreateAlias, CreateSnapshot,
         CreateSourceAmi, WaitCopies, copyVars, CopiesOf, CopyTypeOK
    <3> QED
      BY <3>2, <3>3
  <2>2. CASE DeleteMachineImage(p) /\ UNCHANGED copyVars
    BY <2>0, <2>2 DEF DeleteMachineImage, copyVars, Left, PublisherTypeOK
  <2> QED
    BY <1>1, <2>1, <2>2 DEF PublishStandard, StandardStep, CreateMachineImage, CreateAlias,
       CreateSnapshot, CallDriver, PanicAt, FailCreateAmi, CreateSourceAmi,
       RegisterSourceAmi, WaitCopies, Early
<1>2. ASSUME NEW c \in Copies, PublishCopy(c)
      PROVE  /\ amis'[q] = amis[q] /\ UNCHANGED <<pc, err>>
             /\ q \in Standard => errCol'[q] = errCol[q]
             /\ \A d \in CopiesOf(q) : copyPc'[d] = copyPc[d]
  <2>0. Owner[c] \in Publishers /\ Owner[c] \in Standard
    BY CopiesAssumption DEF Publishers
  <2>1. Owes(c)
    BY <1>2 DEF PublishCopy, CopyStep, ReplicateKey, CopyAmi, CopyDone, Owes
  <2>2. Owner[c] # q
    BY <2>1 DEF GoInv, CopyOK
  <2>3. UNCHANGED <<pc, err>> /\ amis'[q] = amis[q]
    BY <1>2, <2>0, <2>2 DEF PublishCopy, CopyStep, ReplicateKey, CopyAmi, CopyDone,
       publisherVars, PublisherTypeOK
  <2>4. q \in Standard => errCol'[q] = errCol[q]
    BY <1>2, <2>0, <2>2 DEF PublishCopy, CopyStep, ReplicateKey, CopyAmi, CopyDone,
       FailCopy, CopyTypeOK
  <2>5. \A d \in CopiesOf(q) : copyPc'[d] = copyPc[d]
    BY <1>2, <2>2 DEF PublishCopy, CopyStep, ReplicateKey, CopyAmi, CopyDone,
       FailCopy, CopyGoto, CopiesOf, CopyTypeOK
  <2> QED
    BY <2>3, <2>4, <2>5
<1>3. ASSUME NEW p \in Isolated, PublishIsolated(p)
      PROVE  /\ amis'[q] = amis[q] /\ err'[q] = err[q] /\ pc'[q] \in Left
             /\ pc[q] = "returned" => pc'[q] = "returned"
             /\ UNCHANGED copyVars
  <2>0. p \in Publishers
    BY DEF Publishers
  <2>1. CASE pc[p] \in Early
    <3>1. q # p
      BY <2>1 DEF Early, Left
    <3>2. pc'[q] = pc[q] /\ err'[q] = err[q] /\ amis'[q] = amis[q]
      BY <1>3, <2>0, <3>1 DEF PublishIsolated, IsolatedStep, CreateMachineImage, CreateVolume,
         CreateIsolatedSnapshot, CallDriver, PanicAt, FailCreateAmi, CreateIsolatedAmi,
         RegisterSourceAmi, DeleteVolume, DeleteImageAfterVolume, DeleteMachineImage,
         Proceed, Leave, publisherVars, PublisherTypeOK
    <3> QED
      BY <1>3, <3>2 DEF PublishIsolated
  <2>2. CASE DeleteVolume(p)
    BY <1>3, <2>2 DEF PublishIsolated, DeleteVolume, publisherVars
  <2>3. CASE DeleteImageAfterVolume(p)
    BY <1>3, <2>0, <2>3 DEF PublishIsolated, DeleteImageAfterVolume, DeleteMachineImage,
       Left, PublisherTypeOK
  <2> QED
    BY <1>3, <2>1, <2>2, <2>3 DEF PublishIsolated, IsolatedStep, CreateMachineImage,
       CreateVolume, CreateIsolatedSnapshot, CallDriver, PanicAt, FailCreateAmi,
       CreateIsolatedAmi, RegisterSourceAmi, Early
<1>4. CASE UNCHANGED goVars
  BY <1>4 DEF goVars, publisherVars, copyVars
<1> QED
  BY NextCases, <1>1, <1>2, <1>3, <1>4 DEF StepCases, copyVars

LEMMA CopyInvStep ==
  ASSUME GoTypes, GoInv, [Next]_vars, NEW c \in Copies
  PROVE  CopyOK(c)'
<1> USE DEF GoTypes
<1> DEFINE o == Owner[c]
<1>0. CopyOK(c) /\ o \in Standard /\ o \in Publishers /\ o \notin Isolated
  BY CopiesAssumption, PublishersAssumption DEF GoInv, Publishers
<1>1. ASSUME NEW p \in Standard, PublishStandard(p) PROVE CopyOK(c)'
  <2>0. p \in Publishers
    BY DEF Publishers
  <2>1. CASE p # o
    <3>1. pc'[o] = pc[o] /\ err'[o] = err[o] /\ amis'[o] = amis[o]
      BY <1>0, <1>1, <2>0, <2>1 DEF PublishStandard, StandardStep, CreateMachineImage,
         CreateAlias, CreateSnapshot, CallDriver, PanicAt, FailCreateAmi, CreateSourceAmi,
         RegisterSourceAmi, WaitCopies, DeleteMachineImage, Proceed, Leave, PublisherTypeOK
    <3>2. errCol' = errCol /\ copyPc'[c] = copyPc[c]
      BY <1>1, <2>1 DEF PublishStandard, StandardStep, CreateAlias, CreateSnapshot,
         CreateSourceAmi, WaitCopies, copyVars, CopyTypeOK
    <3> QED
      BY <1>0, <3>1, <3>2, OtherCopy
  <2>2. CASE p = o
    <3>1. CASE /\ pc[p] \in Early /\ UNCHANGED copyVars
               /\ \/ Leave(p, "error") \/ Leave(p, "panic")
                  \/ Proceed(p, "alias") \/ Proceed(p, "snapshot") \/ Proceed(p, "ami")
                  \/ /\ pc' = [pc EXCEPT ![p] = "returned"]
                     /\ err' = [err EXCEPT ![p] = "error"]
      BY <1>0, <2>0, <2>2, <3>1, LeavingEarlyCopy
         DEF Leave, Proceed, Early, Left, PublisherTypeOK
    <3>2. CASE CreateSourceAmi(p)
      <4>1. pc'[p] = "copying" /\ copyPc'[c] = "replicate"
        BY <2>0, <2>2, <3>2 DEF CreateSourceAmi, Proceed, PublisherTypeOK, CopyTypeOK
      <4> QED
        BY <2>2, <4>1 DEF CopyOK, Early, Left
    <3>3. CASE WaitCopies(p)
      <4>1. copyPc[c] \in {"done", "panicked"}
        BY <2>2, <3>3 DEF WaitCopies, CopiesFinished, CopiesOf
      <4>2. /\ pc'[p] = "cleanup" /\ UNCHANGED <<amis, copyVars>>
            /\ err'[p] = "nil" => errCol[p] = {}
        BY <2>0, <3>3 DEF WaitCopies, Leave, PublisherTypeOK
      <4> QED
        BY <1>0, <2>2, <4>1, <4>2 DEF CopyOK, Early, Left, Owes, copyVars
    <3>4. CASE DeleteMachineImage(p) /\ UNCHANGED copyVars
      <4>1. pc[p] = "cleanup" /\ pc'[p] = "returned" /\ UNCHANGED <<amis, err>>
        BY <2>0, <3>4 DEF DeleteMachineImage, PublisherTypeOK
      <4> QED
        BY <1>0, <2>2, <3>4, <4>1 DEF CopyOK, Early, Left, Owes, copyVars
    <3> QED
      BY <1>1, <3>1, <3>2, <3>3, <3>4 DEF PublishStandard, StandardStep, CreateMachineImage,
         CreateAlias, CreateSnapshot, CallDriver, PanicAt, FailCreateAmi, Early
  <2> QED
    BY <2>1, <2>2
<1>2. ASSUME NEW d \in Copies, PublishCopy(d) PROVE CopyOK(c)'
  <2>0. Owner[d] \in Standard /\ Owner[d] \in Publishers
    BY CopiesAssumption DEF Publishers
  <2>1. Owes(d) /\ UNCHANGED <<pc, err>>
    BY <1>2 DEF PublishCopy, CopyStep, ReplicateKey, CopyAmi, CopyDone, Owes, publisherVars
  <2>2. pc[Owner[d]] = "copying"
    BY <2>0, <2>1, StagesSplit DEF GoInv, CopyOK, Owes
  <2>3. CASE o # Owner[d]
    <3>1. amis'[o] = amis[o] /\ errCol'[o] = errCol[o] /\ copyPc'[c] = copyPc[c]
      BY <1>0, <1>2, <2>0, <2>3 DEF PublishCopy, CopyStep, ReplicateKey, CopyAmi, CopyDone,
         FailCopy, CopyGoto, publisherVars, PublisherTypeOK, CopyTypeOK
    <3> QED
      BY <1>0, <2>1, <3>1, OtherCopy
  <2>4. CASE o = Owner[d]
    <3>1. Elements(amis[o]) \subseteq Elements(amis'[o])
      <4>1. amis'[o] = amis[o] \/ amis'[o] = Append(amis[o], CopiedAmi(d))
        BY <1>0, <1>2, <2>0, <2>4 DEF PublishCopy, CopyStep, ReplicateKey, CopyAmi, CopyDone,
           publisherVars, PublisherTypeOK
      <4>2. amis[o] \in Seq(AllAmis) /\ CopiedAmi(d) \in AllAmis
        BY <1>0, AmisTyped DEF PublisherTypeOK
      <4>3. Elements(Append(amis[o], CopiedAmi(d))) = Elements(amis[o]) \cup {CopiedAmi(d)}
        BY <4>2, AppendKeeps
      <4> QED
        BY <4>1, <4>3
    <3>2. errCol[o] \subseteq errCol'[o]
      BY <1>0, <1>2, <2>0, <2>4 DEF PublishCopy, CopyStep, ReplicateKey, CopyAmi, CopyDone,
         FailCopy, CopyTypeOK
    <3>3. copyPc'[c] # "idle"
      BY <1>0, <1>2, <2>1, <2>2, <2>4 DEF PublishCopy, CopyStep, ReplicateKey, CopyAmi, CopyDone,
         FailCopy, CopyGoto, CopyOK, CopyTypeOK
    <3>4. copyPc'[c] \in {"leaving", "done"} =>
            c \in errCol'[o] \/ CopiedAmi(c) \in Elements(amis'[o])
      <4>1. CASE c # d
        <5>1. copyPc'[c] = copyPc[c]
          BY <1>2, <4>1 DEF PublishCopy, CopyStep, ReplicateKey, CopyAmi, CopyDone,
             FailCopy, CopyGoto, CopyTypeOK
        <5> QED
          BY <1>0, <3>1, <3>2, <5>1 DEF CopyOK
      <4>2. CASE c = d /\ FailCopy(c)
        BY <1>0, <4>2 DEF FailCopy, CopyTypeOK
      <4>3. CASE c = d /\ CopyDone(c)
        <5>1. copyPc'[c] = "done" => copyPc[c] = "leaving"
          BY <4>3 DEF CopyDone, CopyGoto, CopyTypeOK
        <5>2. copyPc'[c] # "leaving"
          BY <4>3 DEF CopyDone, CopyGoto, CopyTypeOK
        <5> QED
          BY <1>0, <3>1, <3>2, <5>1, <5>2 DEF CopyOK
      <4>4. CASE c = d /\ amis' = [amis EXCEPT ![o] = Append(@, CopiedAmi(c))]
        <5>1. amis[o] \in Seq(AllAmis) /\ CopiedAmi(c) \in AllAmis
          BY <1>0, AmisTyped DEF PublisherTypeOK
        <5>2. amis'[o] = Append(amis[o], CopiedAmi(c))
          BY <1>0, <4>4 DEF PublisherTypeOK
        <5>3. CopiedAmi(c) \in Elements(amis'[o])
          BY <5>1, <5>2, AppendKeeps
        <5> QED
          BY <5>3
      <4>5. CASE c = d /\ (CopyGoto(c, "copy") \/ CopyGoto(c, "panicking"))
        BY <4>5 DEF CopyGoto, CopyTypeOK
      <4> QED
        BY <1>2, <4>1, <4>2, <4>3, <4>4, <4>5 DEF PublishCopy, CopyStep, ReplicateKey, CopyAmi
    <3> QED
      BY <2>1, <2>2, <2>4, <3>3, <3>4 DEF CopyOK, Early, Left
  <2> QED
    BY <2>3, <2>4
<1>3. ASSUME NEW p \in Isolated, PublishIsolated(p) PROVE CopyOK(c)'
  <2>1. p \in Publishers /\ p # o
    BY <1>0 DEF Publishers
  <2>2. pc'[o] = pc[o] /\ err'[o] = err[o] /\ amis'[o] = amis[o] /\ UNCHANGED copyVars
    BY <1>0, <1>3, <2>1 DEF PublishIsolated, IsolatedStep, CreateMachineImage, CreateVolume,
       CreateIsolatedSnapshot, CallDriver, PanicAt, FailCreateAmi, CreateIsolatedAmi,
       RegisterSourceAmi, DeleteVolume, DeleteImageAfterVolume, DeleteMachineImage,
       Proceed, Leave, publisherVars, PublisherTypeOK
  <2> QED
    BY <1>0, <2>2, OtherCopy DEF copyVars
<1>4. CASE UNCHANGED goVars
  BY <1>0, <1>4, OtherCopy DEF goVars, publisherVars, copyVars
<1> QED
  BY NextCases, <1>1, <1>2, <1>3, <1>4 DEF StepCases

LEMMA GoInvStep == ASSUME GoTypes, GoInv, [Next]_vars PROVE GoInv'
<1>1. \A p \in Publishers : PublisherOK(p)'
  BY PublisherStep
<1>2. \A p \in Isolated : VolumeOK(p)'
  BY VolumeStep
<1>3. \A c \in Copies : CopyOK(c)'
  BY CopyInvStep
<1> QED
  BY <1>1, <1>2, <1>3 DEF GoInv

-----------------------------------------------------------------------------
(* The inductive invariant: the reports *)

LEMMA ReportOKStep ==
  ASSUME GoTypes, PublisherTypeOK', ReportTypeOK, GoInv, ReportInv, [Next]_vars,
         NEW q \in Publishers
  PROVE  ReportOK(q)'
<1> USE DEF GoTypes
<1>0. /\ ReportOK(q)
      /\ amis[q] \in Seq(AllAmis) /\ amis'[q] \in Seq(AllAmis)
      /\ merged[q] \in Nat
  BY DEF ReportInv, PublisherTypeOK, ReportTypeOK
<1>1. CASE UNCHANGED reportVars
  <2>1. CASE pc[q] = "returned"
    <3>1. pc'[q] = pc[q] /\ err'[q] = err[q] /\ amis'[q] = amis[q]
      BY <2>1, LeftFrozen DEF Left
    <3> QED
      BY <1>0, <1>1, <3>1 DEF ReportOK, Reported, reportVars
  <2>2. CASE pc[q] # "returned"
    <3>1. merged[q] = 0 /\ q \notin wgDone /\ q \notin errCollection
      BY <1>0, <2>2 DEF ReportOK
    <3> QED
      BY <1>0, <1>1, <3>1 DEF ReportOK, reportVars
  <2> QED
    BY <2>1, <2>2
<1>2. ASSUME NEW p \in Publishers, ReportError(p) PROVE ReportOK(q)'
  BY <1>0, <1>2 DEF ReportError, ReportOK, Reported, goVars, publisherVars
<1>3. ASSUME NEW p \in Publishers, MergeNext(p) PROVE ReportOK(q)'
  <2>1. /\ amis' = amis /\ pc' = pc /\ err' = err
        /\ wgDone' = wgDone /\ errCollection' = errCollection
    BY <1>3 DEF MergeNext, goVars, publisherVars
  <2>2. amis[p] \in Seq(AllAmis) /\ merged[p] \in Nat /\ merged[p] < Len(amis[p])
    BY <1>3 DEF MergeNext, PublisherTypeOK, ReportTypeOK
  <2> DEFINE next_ == amis[p][merged[p] + 1]
  <2>3. next_ \in AllAmis
    BY <2>2
  <2>4. Elements(amiCollection') = Elements(amiCollection) \cup {next_}
    BY <1>3, <2>3, AppendKeeps DEF MergeNext, ReportTypeOK
  <2>5. CASE q = p
    <3>1. merged'[q] = merged[q] + 1
      BY <1>3, <2>5 DEF MergeNext, ReportTypeOK
    <3>2. \A i \in 1 .. merged'[q] : amis[q][i] \in Elements(amiCollection')
      BY <1>0, <2>4, <2>5, <3>1 DEF ReportOK
    <3>3. pc[q] = "returned" /\ err[q] = "nil" /\ q \notin wgDone
      BY <1>3, <2>5 DEF MergeNext, MayMerge
    <3> QED
      BY <1>0, <2>1, <2>2, <2>5, <3>1, <3>2, <3>3 DEF ReportOK
  <2>6. CASE q # p
    <3>1. merged'[q] = merged[q]
      BY <1>3, <2>6 DEF MergeNext, ReportTypeOK
    <3> QED
      BY <1>0, <2>1, <2>4, <3>1 DEF ReportOK, Reported
  <2> QED
    BY <2>5, <2>6
<1>4. ASSUME NEW p \in Publishers, Done(p) PROVE ReportOK(q)'
  BY <1>0, <1>4 DEF Done, ReportOK, Reported, goVars, publisherVars
<1> QED
  BY ReportCases, <1>1, <1>2, <1>3, <1>4 DEF GoStep

LEMMA ReportInvStep ==
  ASSUME GoTypes, PublisherTypeOK', ReportTypeOK, GoInv, ReportInv, [Next]_vars
  PROVE  ReportInv'
<1> USE DEF GoTypes
<1>1. \A q \in Publishers : ReportOK(q)'
  BY ReportOKStep
<1>2. /\ amiCollection' # <<>> => \E p \in Publishers : amiCollection'[1] = SourceAmi(p)
      /\ \A i \in DOMAIN amiCollection' :
           \E p \in Publishers : merged'[p] > 0 /\ amiCollection'[i] \in Elements(amis'[p])
  <2>1. CASE UNCHANGED <<amiCollection, merged>>
    <3>1. ASSUME NEW p \in Publishers, merged[p] > 0 PROVE amis'[p] = amis[p]
      <4>1. pc[p] \in Left
        BY <3>1 DEF ReportInv, ReportOK, Left
      <4> QED
        BY <4>1, LeftFrozen
    <3> QED
      BY <2>1, <3>1 DEF ReportInv
  <2>2. ASSUME NEW p \in Publishers, MergeNext(p)
        PROVE  /\ amiCollection' # <<>> => \E r \in Publishers : amiCollection'[1] = SourceAmi(r)
               /\ \A i \in DOMAIN amiCollection' :
                    \E r \in Publishers : merged'[r] > 0 /\ amiCollection'[i] \in Elements(amis'[r])
    <3>1. amis[p] \in Seq(AllAmis) /\ merged[p] \in Nat /\ merged[p] < Len(amis[p])
      BY <2>2 DEF MergeNext, PublisherTypeOK, ReportTypeOK
    <3> DEFINE a == amis[p][merged[p] + 1]
    <3>2. a \in AllAmis /\ a \in Elements(amis[p])
      BY <3>1 DEF Elements
    <3>3. amiCollection' = Append(amiCollection, a) /\ amis' = amis
          /\ merged' = [merged EXCEPT ![p] = @ + 1]
      BY <2>2 DEF MergeNext, goVars, publisherVars
    <3>4. /\ DOMAIN amiCollection = 1 .. Len(amiCollection) /\ Len(amiCollection) \in Nat
          /\ DOMAIN amiCollection' = 1 .. Len(amiCollection) + 1
          /\ \A i \in DOMAIN amiCollection : amiCollection'[i] = amiCollection[i]
          /\ amiCollection'[Len(amiCollection) + 1] = a
      BY <3>2, <3>3, AppendKeeps DEF ReportTypeOK
    <3>5. \E r \in Publishers : amiCollection'[1] = SourceAmi(r)
      <4>1. CASE amiCollection = <<>>
        <5>1. merged[p] = 0
          <6>1. merged[p] > 0 => amis[p][1] \in Elements(amiCollection)
            BY <3>1 DEF ReportInv, ReportOK
          <6> QED
            BY <3>1, <4>1, <6>1 DEF Elements
        <5>2. a = amis[p][1] /\ amis[p] # <<>>
          BY <3>1, <5>1
        <5>3. a = SourceAmi(p)
          BY <5>2 DEF GoInv, PublisherOK
        <5> QED
          BY <3>4, <4>1, <5>3
      <4>2. CASE amiCollection # <<>>
        <5>1. 1 \in DOMAIN amiCollection
          BY <3>4, <4>2 DEF ReportTypeOK
        <5> QED
          BY <3>4, <4>2, <5>1 DEF ReportInv
      <4> QED
        BY <4>1, <4>2
    <3>6. ASSUME NEW i \in DOMAIN amiCollection'
          PROVE  \E r \in Publishers : merged'[r] > 0 /\ amiCollection'[i] \in Elements(amis'[r])
      <4>1. CASE i \in DOMAIN amiCollection
        <5>1. PICK r \in Publishers : merged[r] > 0 /\ amiCollection[i] \in Elements(amis[r])
          BY <4>1 DEF ReportInv
        <5>2. merged'[r] > 0
          BY <3>3, <5>1 DEF ReportTypeOK
        <5> QED
          BY <3>3, <3>4, <4>1, <5>1, <5>2
      <4>2. CASE i = Len(amiCollection) + 1
        <5>1. merged'[p] > 0
          BY <3>1, <3>3 DEF ReportTypeOK
        <5> QED
          BY <3>2, <3>3, <3>4, <4>2, <5>1
      <4> QED
        BY <3>4, <4>1, <4>2
    <3> QED
      BY <3>5, <3>6
  <2> QED
    BY ReportCases, <2>1, <2>2 DEF GoStep, ReportError, Done, reportVars
<1> QED
  BY <1>1, <1>2 DEF ReportInv

-----------------------------------------------------------------------------
(* The inductive invariant: main *)

(* A goroutine that called wg.Done() takes no further step, so after the   *)
(* WaitGroup the reports are final.                                        *)
LEMMA ReportsFinal ==
  ASSUME GoTypes, ReportInv, [Next]_vars, wgDone = Publishers
  PROVE  UNCHANGED reportVars
<1>1. ASSUME NEW p \in Publishers, GoStep(p) PROVE FALSE
  <2>1. ReportOK(p)
    BY DEF ReportInv
  <2>2. CASE ReportError(p)
    BY <2>1, <2>2 DEF ReportError, ReportOK, Reported
  <2> QED
    BY <1>1, <2>2 DEF GoStep, MergeNext, Done
<1> QED
  BY <1>1, ReportCases

LEMMA MainInvStep ==
  ASSUME TypeOK, ReportInv, MainInv, [Next]_vars
  PROVE  MainInv'
<1>0. /\ GoTypes
      /\ published \in Seq(AllAmis) /\ next \in Nat \ {0}
      /\ mainPc \in {"wait", "check", "write", "close"}
  BY TypeParts DEF GoTypes, MainTypeOK
<1>1. CASE mainPc = "wait" /\ UNCHANGED mainVars
  BY <1>1 DEF MainInv, mainVars
<1>2. CASE mainPc # "wait" /\ UNCHANGED mainVars
  <2>1. UNCHANGED reportVars
    BY <1>0, <1>2, ReportsFinal DEF MainInv
  <2> QED
    BY <1>2, <2>1 DEF MainInv, mainVars, reportVars
<1>3. CASE AwaitPublishers
  BY <1>3 DEF AwaitPublishers, AllDone, MainInv, reportVars
<1>4. CASE CheckErrors
  BY <1>4 DEF CheckErrors, MainInv, reportVars, ReportTypeOK, TypeOK
<1>5. CASE RefuseEmptyManifest
  BY <1>5 DEF RefuseEmptyManifest, MainInv, reportVars
<1>6. CASE EnterAmi
  <2>1. /\ mainPc = "write" /\ next <= Len(published) /\ next' = next + 1
        /\ manifest' = Assign(manifest, published[next].region, published[next].id)
        /\ UNCHANGED <<reportVars, mainPc, published, name, output, exit>>
    BY <1>6 DEF EnterAmi
  <2>2. 1 .. next' - 1 = (1 .. next - 1) \cup {next}
    BY <1>0, <2>1
  <2>3. DOMAIN manifest' = {published'[i].region : i \in 1 .. next' - 1}
    BY <2>1, <2>2 DEF Assign, MainInv
  <2>4. \A r \in DOMAIN manifest' : \E i \in 1 .. next' - 1 :
          published'[i].region = r /\ published'[i].id = manifest'[r]
    BY <2>1, <2>2 DEF Assign, MainInv
  <2> QED
    BY <1>0, <2>1, <2>3, <2>4 DEF MainInv, reportVars
<1>7. CASE FinishWrite
  <2>1. CASE output' = "whole" /\ mainPc' = "close" /\ UNCHANGED exit
    <3>1. name' # "xen"
      <4>1. published = amiCollection /\ published # <<>>
        BY <1>7 DEF FinishWrite, MainInv
      <4>2. \E p \in Publishers : published[1] = SourceAmi(p)
        BY <4>1 DEF ReportInv
      <4>3. Virtualization = "hvm"
        BY <4>2 DEF Virtualization, SourceAmi
      <4> QED
        BY <1>7, <4>3 DEF FinishWrite, HvmName
    <3> QED
      BY <1>0, <1>7, <2>1, <3>1 DEF FinishWrite, MainInv, reportVars
  <2>2. CASE output' \in {"none", "part"} /\ exit' = "fatal" /\ UNCHANGED mainPc
    BY <1>7, <2>2 DEF FinishWrite, MainInv, reportVars
  <2> QED
    BY <1>7, <2>1, <2>2 DEF FinishWrite
<1>8. CASE CloseConfig
  BY <1>8 DEF CloseConfig, MainInv, reportVars
<1>9. CASE Crash
  BY <1>9 DEF Crash, MainInv, reportVars
<1> QED
  BY MainCases, <1>1, <1>2, <1>3, <1>4, <1>5, <1>6, <1>7, <1>8, <1>9 DEF MainStep

-----------------------------------------------------------------------------
(* The invariant, and what follows from it *)

LEMMA InvInit == Init => Inv
<1> SUFFICES ASSUME Init PROVE Inv
  OBVIOUS
<1>1. GoInv
  <2>1. \A p \in Publishers : PublisherOK(p)
    BY DEF Init, PublisherInit, PublisherOK, Left
  <2>2. \A p \in Isolated : VolumeOK(p)
    BY DEF Init, PublisherInit, VolumeInit, VolumeOK, Publishers
  <2>3. \A c \in Copies : CopyOK(c)
    BY CopiesAssumption DEF Init, PublisherInit, CopyInit, CopyOK, Owes, Left, Publishers
  <2> QED
    BY <2>1, <2>2, <2>3 DEF GoInv
<1>2. ReportInv
  BY DEF Init, PublisherInit, ReportInv, ReportOK
<1>3. MainInv
  BY DEF Init, MainInv, EmptyManifest
<1> QED
  BY <1>1, <1>2, <1>3 DEF Inv

LEMMA InvStep == TypeOK /\ TypeOK' /\ Inv /\ [Next]_vars => Inv'
<1> SUFFICES ASSUME TypeOK, TypeOK', Inv, [Next]_vars PROVE Inv'
  OBVIOUS
<1>1. GoTypes /\ ReportTypeOK
  BY TypeParts DEF GoTypes
<1>2. PublisherTypeOK'
  BY DEF TypeOK, PublisherTypeOK
<1>3. GoInv'
  BY <1>1, GoInvStep DEF Inv
<1>4. ReportInv'
  BY <1>1, <1>2, ReportInvStep DEF Inv
<1>5. MainInv'
  BY MainInvStep DEF Inv
<1> QED
  BY <1>3, <1>4, <1>5 DEF Inv

(* The inductive invariant holds in every state of every behaviour. *)
THEOREM InvCorrect == Spec => []Inv
  BY TypeCorrect, InvInit, InvStep, PTL DEF Spec

(* At the end every publisher reported all it had, and main wrote it. *)
LEMMA AllPublished ==
  ASSUME TypeOK, Inv, output = "whole", NoPanic
  PROVE  AllAmis = Elements(published)
<1>0. GoTypes /\ ReportTypeOK /\ MainTypeOK
  BY TypeParts DEF GoTypes
<1> USE DEF GoTypes
<1>1. /\ wgDone = Publishers /\ errCollection = {}
      /\ published = amiCollection
  BY DEF Inv, MainInv
<1>2. ASSUME NEW p \in Publishers
      PROVE  /\ pc[p] \in Left /\ err[p] = "nil" /\ amis[p] # <<>>
             /\ Elements(amis[p]) \subseteq Elements(published)
  <2>1. ReportOK(p) /\ PublisherOK(p)
    BY DEF Inv, ReportInv, GoInv
  <2>2. pc[p] = "returned" /\ err[p] = "nil"
    BY <1>0, <1>1, <2>1 DEF ReportOK, Reported, NoPanic, PublisherTypeOK
  <2>3. merged[p] = Len(amis[p])
    BY <1>1, <2>1, <2>2 DEF ReportOK, Reported
  <2>4. DOMAIN amis[p] = 1 .. Len(amis[p])
    BY <1>0 DEF PublisherTypeOK
  <2>5. Elements(amis[p]) \subseteq Elements(published)
    BY <1>1, <2>1, <2>3, <2>4 DEF ReportOK, Elements
  <2> QED
    BY <2>1, <2>2, <2>5 DEF PublisherOK, Left
<1>3. ASSUME NEW p \in Publishers PROVE SourceAmi(p) \in Elements(published)
  <2>1. amis[p] \in Seq(AllAmis) /\ amis[p] # <<>> /\ amis[p][1] = SourceAmi(p)
    BY <1>0, <1>2 DEF PublisherTypeOK, Inv, GoInv, PublisherOK
  <2>2. SourceAmi(p) \in Elements(amis[p])
    BY <2>1 DEF Elements
  <2> QED
    BY <1>2, <2>2
<1>4. ASSUME NEW c \in Copies PROVE CopiedAmi(c) \in Elements(published)
  <2>1. Owner[c] \in Publishers /\ CopyOK(c)
    BY CopiesAssumption DEF Publishers, Inv, GoInv
  <2>2. pc[Owner[c]] \in Left /\ err[Owner[c]] = "nil"
    BY <1>2, <2>1
  <2>3. copyPc[c] = "done" /\ errCol[Owner[c]] = {}
    BY <2>1, <2>2 DEF CopyOK, Owes, NoPanic
  <2>4. CopiedAmi(c) \in Elements(amis[Owner[c]])
    BY <2>1, <2>3 DEF CopyOK
  <2> QED
    BY <1>2, <2>1, <2>4
<1>5. Elements(published) \subseteq AllAmis
  BY <1>0 DEF MainTypeOK, Elements
<1> QED
  BY <1>3, <1>4, <1>5 DEF AllAmis

LEMMA CompleteFromInv == TypeOK /\ Inv => ManifestComplete
<1> SUFFICES ASSUME TypeOK, Inv, output = "whole", NoPanic PROVE CompleteFor(AllRegions)
  BY DEF ManifestComplete
<1>1. AllAmis = Elements(published)
  BY AllPublished
<1>2. /\ published \in Seq(AllAmis) /\ next - 1 = Len(published)
      /\ DOMAIN published = 1 .. next - 1
  BY TypeParts DEF MainTypeOK, Inv, MainInv
<1>3. DOMAIN manifest = AllRegions
  <2>1. DOMAIN manifest = {published[i].region : i \in DOMAIN published}
    BY <1>2 DEF Inv, MainInv
  <2> QED
    BY <1>1, <2>1 DEF AllRegions, Elements
<1>4. ASSUME NEW r \in AllRegions
      PROVE  \E a \in AllAmis : a.region = r /\ a.id = manifest[r] /\ a.id \in registered
  <2>1. PICK i \in DOMAIN published : published[i].region = r /\ published[i].id = manifest[r]
    BY <1>2, <1>3 DEF Inv, MainInv
  <2>2. published = amiCollection
    BY DEF Inv, MainInv
  <2>3. PICK p \in Publishers : published[i] \in Elements(amis[p])
    BY <2>2 DEF Inv, ReportInv
  <2>4. published[i].id \in registered
    BY <2>3 DEF Inv, GoInv, PublisherOK, Elements
  <2>5. published[i] \in AllAmis
    BY <1>1 DEF Elements
  <2> QED
    BY <2>1, <2>4, <2>5
<1> QED
  BY <1>3, <1>4 DEF CompleteFor

(* No interleaving and no failure of a driver lets main write a manifest   *)
(* that lacks a configured region or names a wrong AMI (ManifestComplete). *)
THEOREM ManifestCompleteAlways == Spec => []ManifestComplete
  BY TypeCorrect, InvCorrect, CompleteFromInv, PTL

(* With distinct regions nothing registered stays unlisted. *)
THEOREM NoAmiUnlistedAlways == Spec => []NoAmiUnlisted
<1>1. TypeOK /\ Inv => NoAmiUnlisted
  <2> SUFFICES ASSUME TypeOK, Inv, output = "whole", NoPanic, RegionsDistinct
               PROVE  registered = {manifest[r] : r \in DOMAIN manifest}
    BY DEF NoAmiUnlisted
  <2>1. CompleteFor(AllRegions)
    BY CompleteFromInv DEF ManifestComplete
  <2>2. ASSUME NEW id \in registered PROVE \E r \in DOMAIN manifest : manifest[r] = id
    <3>1. PICK a \in AllAmis : a.id = id
      <4>1. id \in Publishers \/ id \in Copies
        BY DEF TypeOK, Ids
      <4>2. \A p \in Publishers : SourceAmi(p).id = p /\ SourceAmi(p) \in AllAmis
        BY AmisTyped DEF SourceAmi
      <4>3. \A c \in Copies : CopiedAmi(c).id = c /\ CopiedAmi(c) \in AllAmis
        BY AmisTyped DEF CopiedAmi
      <4> QED
        BY <4>1, <4>2, <4>3
    <3>2. a.region \in DOMAIN manifest
      BY <2>1, AmisTyped DEF CompleteFor
    <3>3. PICK b \in AllAmis : b.region = a.region /\ b.id = manifest[a.region]
      BY <2>1, AmisTyped DEF CompleteFor
    <3>4. b = a
      BY <3>3 DEF RegionsDistinct
    <3> QED
      BY <3>1, <3>2, <3>3, <3>4
  <2>3. ASSUME NEW r \in DOMAIN manifest PROVE manifest[r] \in registered
    BY <2>1 DEF CompleteFor
  <2> QED
    BY <2>2, <2>3
<1> QED
  BY <1>1, TypeCorrect, InvCorrect, PTL

(* The name written is an HVM name, whichever publisher merged first. *)
THEOREM HvmNameAlways == Spec => []HvmNameWritten
<1>1. Inv => HvmNameWritten
  BY DEF Inv, MainInv, HvmNameWritten
<1> QED
  BY <1>1, InvCorrect, PTL

(* A failed entry's AMIs never reach the shared collection. *)
THEOREM FailedEntryAlwaysMergesNothing == Spec => []FailedEntryMergesNothing
<1>1. Inv => FailedEntryMergesNothing
  <2> SUFFICES ASSUME Inv, NEW p \in Publishers, err[p] = "error",
                      NEW i \in DOMAIN amiCollection
               PROVE  /\ amiCollection[i].id # p
                      /\ amiCollection[i].id \in Copies => Owner[amiCollection[i].id] # p
    BY DEF FailedEntryMergesNothing
  <2>1. PICK q \in Publishers : merged[q] > 0 /\ amiCollection[i] \in Elements(amis[q])
    BY DEF Inv, ReportInv
  <2>2. q # p
    BY <2>1 DEF Inv, ReportInv, ReportOK
  <2>3. amiCollection[i].id \in {q} \cup CopiesOf(q)
    BY <2>1 DEF Inv, GoInv, PublisherOK, Elements
  <2> QED
    BY <2>2, <2>3, CopiesAssumption DEF CopiesOf
<1> QED
  BY <1>1, InvCorrect, PTL

(* main ends the process only when every deferred delete has run. *)
THEOREM AlwaysCleanedUpBeforeExit == Spec => []CleanedUpBeforeExit
<1>1. Inv => CleanedUpBeforeExit
  <2> SUFFICES ASSUME Inv, exit \in {"ok", "fatal"} PROVE CleanedUpBeforeExit
    BY DEF CleanedUpBeforeExit
  <2>1. \A p \in Publishers : pc[p] = "returned"
    BY DEF Inv, MainInv, ReportInv, ReportOK
  <2> QED
    BY <2>1 DEF Inv, GoInv, PublisherOK, VolumeOK, CleanedUpBeforeExit, Publishers
<1> QED
  BY <1>1, InvCorrect, PTL

(* Collections do not change under their readers. *)
THEOREM AlwaysFrozenWhenRead == Spec => FrozenWhenRead
<1> DEFINE Frozen ==
      /\ mainPc # "wait" => UNCHANGED <<amiCollection, errCollection>>
      /\ \A p \in Standard : pc[p] \in {"cleanup", "returned"} =>
           amis'[p] = amis[p] /\ errCol'[p] = errCol[p]
<1>1. TypeOK /\ Inv /\ [Next]_vars => [Frozen]_vars
  <2> SUFFICES ASSUME TypeOK, Inv, [Next]_vars PROVE Frozen
    OBVIOUS
  <2>0. GoTypes
    BY TypeParts DEF GoTypes
  <2>1. mainPc # "wait" => UNCHANGED <<amiCollection, errCollection>>
    BY <2>0, ReportsFinal DEF Inv, MainInv, reportVars
  <2>2. ASSUME NEW p \in Standard, pc[p] \in {"cleanup", "returned"}
        PROVE  amis'[p] = amis[p] /\ errCol'[p] = errCol[p]
    BY <2>0, <2>2, LeftFrozen DEF Left, Publishers, Inv
  <2> QED
    BY <2>1, <2>2
<1> QED
  BY <1>1, TypeCorrect, InvCorrect, PTL DEF Spec, FrozenWhenRead
=============================================================================
