----------------------- MODULE StemcellPublicationProofs -----------------------
(***************************************************************************)
(* What a run amounts to, for every set of entries and copy destinations:  *)
(* a publisher that returns no error has one AMI for each region it was    *)
(* asked for, and the whole run is a StemcellPublication.                  *)
(***************************************************************************)
EXTENDS LightStemcellBuilderProofs, FiniteSetTheorems

(* No AMI is added to a collection twice: a copy is in it only when the    *)
(* one step that adds it is over.                                          *)
OnceOK(p) ==
  /\ \A i, j \in DOMAIN amis[p] : amis[p][i].id = amis[p][j].id => i = j
  /\ \A c \in CopiesOf(p) :
       c \in {amis[p][i].id : i \in DOMAIN amis[p]} => copyPc[c] \in {"leaving", "done"}

OnceInv == \A p \in Publishers : OnceOK(p)

-----------------------------------------------------------------------------
(* A step that adds nothing to a collection, and takes no copy that is     *)
(* through with its driver back, keeps what is known of the collection.    *)
LEMMA OtherOnce ==
  ASSUME NEW q \in Publishers, OnceOK(q), amis'[q] = amis[q],
         \A c \in CopiesOf(q) :
           copyPc[c] \in {"leaving", "done"} => copyPc'[c] \in {"leaving", "done"}
  PROVE  OnceOK(q)'
  BY DEF OnceOK, CopiesOf

(* The source AMI is the first to be added. *)
LEMMA FirstOnce ==
  ASSUME GoTypes, GoInv, NEW q \in Publishers, RegisterSourceAmi(q)
  PROVE  OnceOK(q)'
<1>1. amis[q] = <<>>
  BY DEF RegisterSourceAmi, GoInv, PublisherOK, Early
<1>2. amis'[q] = <<SourceAmi(q)>>
  BY <1>1 DEF RegisterSourceAmi, GoTypes, PublisherTypeOK
<1>3. DOMAIN amis'[q] = {1} /\ amis'[q][1].id = q
  BY <1>2 DEF SourceAmi
<1>4. q \notin CopiesOf(q)
  BY CopiesAssumption DEF CopiesOf
<1> QED
  BY <1>3, <1>4 DEF OnceOK, CopiesOf

LEMMA OnceStep ==
  ASSUME GoTypes, GoInv, OnceInv, [Next]_vars, NEW q \in Publishers
  PROVE  OnceOK(q)'
<1> USE DEF GoTypes
<1>0. OnceOK(q)
  BY DEF OnceInv
<1>1. ASSUME NEW p \in Standard, PublishStandard(p) PROVE OnceOK(q)'
  <2>0. p \in Publishers
    BY DEF Publishers
  <2>1. CASE CreateSourceAmi(p) /\ p = q
    BY <2>0, <2>1, FirstOnce DEF CreateSourceAmi
  <2>2. CASE CreateSourceAmi(p) /\ p # q
    <3>1. amis'[q] = amis[q]
      BY <2>0, <2>2 DEF CreateSourceAmi, RegisterSourceAmi, PublisherTypeOK
    <3>2. \A c \in CopiesOf(q) : copyPc'[c] = copyPc[c]
      BY <2>2 DEF CreateSourceAmi, CopiesOf
    <3> QED
      BY <1>0, <3>1, <3>2, OtherOnce
  <2>3. CASE ~CreateSourceAmi(p)
    <3>1. amis' = amis /\ copyPc' = copyPc
      BY <1>1, <2>3 DEF PublishStandard, StandardStep, CreateMachineImage, CreateAlias,
        CreateSnapshot, CallDriver, PanicAt, FailCreateAmi, WaitCopies, DeleteMachineImage, copyVars
    <3> QED
      BY <1>0, <3>1, OtherOnce
  <2> QED
    BY <2>1, <2>2, <2>3
<1>2. ASSUME NEW c \in Copies, PublishCopy(c) PROVE OnceOK(q)'
  <2>0. Owner[c] \in Publishers
    BY CopiesAssumption DEF Publishers
  <2>1. CASE amis'[q] = amis[q]
    <3>1. ASSUME NEW d \in CopiesOf(q), copyPc[d] \in {"leaving", "done"}
          PROVE  copyPc'[d] \in {"leaving", "done"}
      BY <1>2, <3>1 DEF PublishCopy, CopyStep, ReplicateKey, CopyAmi, CopyDone, FailCopy,
        CopyGoto, CopiesOf, CopyTypeOK
    <3> QED
      BY <1>0, <2>1, <3>1, OtherOnce
  <2>2. CASE amis'[q] # amis[q]
    <3>1. /\ copyPc[c] = "copy" /\ copyPc' = [copyPc EXCEPT ![c] = "leaving"]
          /\ amis' = [amis EXCEPT ![Owner[c]] = Append(@, CopiedAmi(c))]
      BY <1>2, <2>2 DEF PublishCopy, CopyStep, ReplicateKey, CopyAmi, CopyDone, CopyGoto,
        publisherVars
    <3>2. q = Owner[c] /\ amis'[q] = Append(amis[q], CopiedAmi(c))
      BY <2>0, <2>2, <3>1 DEF PublisherTypeOK
    <3>3. /\ DOMAIN amis[q] = 1 .. Len(amis[q]) /\ Len(amis[q]) \in Nat
          /\ DOMAIN amis'[q] = 1 .. Len(amis[q]) + 1
          /\ \A i \in DOMAIN amis[q] : amis'[q][i] = amis[q][i]
          /\ amis'[q][Len(amis[q]) + 1].id = c
      <4>1. amis[q] \in Seq(AllAmis) /\ CopiedAmi(c) \in AllAmis /\ CopiedAmi(c).id = c
        BY AmisTyped DEF PublisherTypeOK, CopiedAmi
      <4>2. DOMAIN amis[q] = 1 .. Len(amis[q]) /\ Len(amis[q]) \in Nat
        BY <4>1
      <4> QED
        BY <3>2, <4>1, <4>2, AppendKeeps
    <3>4. c \in CopiesOf(q)
      BY <3>2 DEF CopiesOf
    <3>5. \A i \in DOMAIN amis[q] : amis[q][i].id # c
      BY <1>0, <3>1, <3>4 DEF OnceOK
    <3>6. \A i \in DOMAIN amis'[q] : i \in DOMAIN amis[q] \/ i = Len(amis[q]) + 1
      BY <3>3
    <3>7. \A i, j \in DOMAIN amis'[q] : amis'[q][i].id = amis'[q][j].id => i = j
      BY <1>0, <3>3, <3>5, <3>6 DEF OnceOK
    <3>8. ASSUME NEW d \in CopiesOf(q), NEW i \in DOMAIN amis'[q], d = amis'[q][i].id
          PROVE  copyPc'[d] \in {"leaving", "done"}
      <4>1. d # c => copyPc[d] \in {"leaving", "done"}
        BY <1>0, <3>3, <3>6, <3>8 DEF OnceOK
      <4> QED
        BY <3>1, <4>1 DEF CopiesOf, CopyTypeOK
    <3> QED
      BY <3>7, <3>8 DEF OnceOK, CopiesOf
  <2> QED
    BY <2>1, <2>2
<1>3. ASSUME NEW p \in Isolated, PublishIsolated(p) PROVE OnceOK(q)'
  <2>0. p \in Publishers /\ copyPc' = copyPc
    BY <1>3 DEF Publishers, PublishIsolated, copyVars
  <2>1. CASE CreateIsolatedAmi(p) /\ p = q
    BY <2>0, <2>1, FirstOnce DEF CreateIsolatedAmi
  <2>2. CASE CreateIsolatedAmi(p) /\ p # q
    <3>1. amis'[q] = amis[q]
      BY <2>0, <2>2 DEF CreateIsolatedAmi, RegisterSourceAmi, PublisherTypeOK
    <3> QED
      BY <1>0, <2>0, <3>1, OtherOnce
  <2>3. CASE ~CreateIsolatedAmi(p)
    <3>1. amis' = amis
      BY <1>3, <2>3 DEF PublishIsolated, IsolatedStep, CreateMachineImage, CreateVolume,
        CreateIsolatedSnapshot, CallDriver, PanicAt, FailCreateAmi, DeleteVolume, DeleteImageAfterVolume,
        DeleteMachineImage, publisherVars
    <3> QED
      BY <1>0, <2>0, <3>1, OtherOnce
  <2> QED
    BY <2>1, <2>2, <2>3
<1>4. CASE UNCHANGED goVars
  BY <1>0, <1>4, OtherOnce DEF goVars, publisherVars, copyVars
<1> QED
  BY NextCases, <1>1, <1>2, <1>3, <1>4 DEF StepCases

LEMMA OnceInit == Init => OnceInv
  BY DEF Init, PublisherInit, OnceInv, OnceOK

(* No concurrent Add enters an AMI into a collection twice                 *)
(* (standard_region.go:110-148).                                           *)
THEOREM OnceCorrect == Spec => []OnceInv
<1>1. TypeOK /\ Inv /\ OnceInv /\ [Next]_vars => OnceInv'
  BY OnceStep, TypeParts DEF GoTypes, Inv, OnceInv
<1> QED
  BY <1>1, OnceInit, TypeCorrect, InvCorrect, PTL DEF Spec

(* What a publisher that returned no error has in its collection.          *)
LEMMA AllCopied ==
  ASSUME TypeOK, Inv, NEW p \in Standard, pc[p] = "returned", err[p] = "nil", NoPanic
  PROVE  /\ amis[p] \in Seq(AllAmis) /\ amis[p] # <<>> /\ amis[p][1] = SourceAmi(p)
         /\ Elements(amis[p]) = {SourceAmi(p)} \cup {CopiedAmi(c) : c \in CopiesOf(p)}
<1>0. GoTypes /\ p \in Publishers
  BY TypeParts DEF GoTypes, Publishers
<1>1. amis[p] \in Seq(AllAmis) /\ amis[p] # <<>> /\ amis[p][1] = SourceAmi(p)
  BY <1>0 DEF GoTypes, PublisherTypeOK, Inv, GoInv, PublisherOK, Left
<1>2. SourceAmi(p) \in Elements(amis[p])
  BY <1>1 DEF Elements
<1>3. ASSUME NEW c \in CopiesOf(p) PROVE CopiedAmi(c) \in Elements(amis[p])
  <2>1. c \in Copies /\ Owner[c] = p /\ CopyOK(c)
    BY DEF CopiesOf, Inv, GoInv
  <2>2. copyPc[c] = "done" /\ errCol[p] = {}
    BY <1>0, <2>1 DEF CopyOK, Owes, Left, NoPanic, GoTypes, CopyTypeOK, CopySteps
  <2> QED
    BY <2>1, <2>2 DEF CopyOK
<1>4. ASSUME NEW i \in DOMAIN amis[p]
      PROVE  amis[p][i] \in {SourceAmi(p)} \cup {CopiedAmi(c) : c \in CopiesOf(p)}
  <2>1. amis[p][i] \in AllAmis /\ amis[p][i].id \in {p} \cup CopiesOf(p)
    BY <1>0, <1>1 DEF Inv, GoInv, PublisherOK
  <2>2. ASSUME NEW q \in Publishers, amis[p][i] = SourceAmi(q)
        PROVE  amis[p][i] = SourceAmi(p)
    <3>1. q \in {p} \cup CopiesOf(p)
      BY <2>1, <2>2 DEF SourceAmi
    <3>2. q \notin CopiesOf(p)
      BY CopiesAssumption DEF CopiesOf
    <3> QED
      BY <2>2, <3>1, <3>2
  <2>3. ASSUME NEW c \in Copies, amis[p][i] = CopiedAmi(c)
        PROVE  amis[p][i] \in {CopiedAmi(d) : d \in CopiesOf(p)}
    <3>1. CopiedAmi(c).id = c
      BY DEF CopiedAmi
    <3>2. c \in {p} \cup CopiesOf(p)
      BY <2>1, <2>3, <3>1
    <3>3. c # p
      BY <1>0, CopiesAssumption
    <3> QED
      BY <2>3, <3>2, <3>3
  <2> QED
    BY <2>1, <2>2, <2>3 DEF AllAmis
<1> QED
  BY <1>1, <1>2, <1>3, <1>4 DEF Elements

(* It counts what it has: as many AMIs as names, and each name once. *)
LEMMA OnePerRegion ==
  ASSUME TypeOK, Inv, OnceInv, NEW p \in Standard, pc[p] = "returned", err[p] = "nil", NoPanic
  PROVE  Len(amis[p]) = 1 + Cardinality(CopiesOf(p))
<1> DEFINE n == Len(amis[p])
           names == CopiesOf(p) \cup {p}
           f == [i \in 1 .. n |-> amis[p][i].id]
<1>1. /\ DOMAIN amis[p] = 1 .. n /\ n \in Nat /\ OnceOK(p)
      /\ Elements(amis[p]) = {SourceAmi(p)} \cup {CopiedAmi(c) : c \in CopiesOf(p)}
  <2>1. OnceOK(p)
    BY DEF OnceInv, Publishers
  <2>2. /\ amis[p] \in Seq(AllAmis)
        /\ Elements(amis[p]) = {SourceAmi(p)} \cup {CopiedAmi(c) : c \in CopiesOf(p)}
    BY AllCopied
  <2> QED
    BY <2>1, <2>2
<1>2. ASSUME NEW i \in 1 .. n PROVE f[i] \in names
  <2>1. amis[p][i] \in Elements(amis[p])
    BY <1>1 DEF Elements
  <2>2. CASE amis[p][i] = SourceAmi(p)
    <3>1. amis[p][i].id = p
      BY <2>2 DEF SourceAmi
    <3> QED
      BY <3>1
  <2>3. ASSUME NEW c \in CopiesOf(p), amis[p][i] = CopiedAmi(c) PROVE f[i] \in names
    <3>1. CopiedAmi(c).id = c
      BY DEF CopiedAmi
    <3> QED
      BY <2>3, <3>1
  <2>4. amis[p][i] = SourceAmi(p) \/ \E c \in CopiesOf(p) : amis[p][i] = CopiedAmi(c)
    BY <1>1, <2>1
  <2> QED
    BY <2>2, <2>3, <2>4
<1>3. \A i, j \in 1 .. n : f[i] = f[j] => i = j
  BY <1>1 DEF OnceOK
<1>4. ASSUME NEW x \in names PROVE \E i \in 1 .. n : f[i] = x
  <2>1. PICK a \in Elements(amis[p]) : a.id = x
    <3>1. SourceAmi(p).id = p /\ SourceAmi(p) \in Elements(amis[p])
      BY <1>1 DEF SourceAmi
    <3>2. \A c \in CopiesOf(p) : CopiedAmi(c).id = c /\ CopiedAmi(c) \in Elements(amis[p])
      BY <1>1 DEF CopiedAmi
    <3> QED
      BY <3>1, <3>2
  <2>2. PICK i \in 1 .. n : a = amis[p][i]
    BY <1>1 DEF Elements
  <2> QED
    BY <2>1, <2>2
<1>5. ExistsBijection(1 .. n, names)
  <2>1. f \in [1 .. n -> names]
    BY <1>2
  <2>2. IsInjective(f)
    BY <1>3 DEF IsInjective
  <2>3. f \in Injection(1 .. n, names) /\ f \in Surjection(1 .. n, names)
    BY <1>4, <2>1, <2>2 DEF Injection, Surjection
  <2> QED
    BY <2>3 DEF Bijection, ExistsBijection
<1>6. Cardinality(names) = n
  BY <1>1, <1>5, FS_CountingElements
<1>7. IsFiniteSet(CopiesOf(p)) /\ p \notin CopiesOf(p)
  <2>1. CopiesOf(p) \in SUBSET Copies /\ IsFiniteSet(Copies) /\ p \notin Copies
    BY CopiesAssumption DEF CopiesOf, Publishers
  <2> QED
    BY <2>1, FS_Subset
<1>8. Cardinality(CopiesOf(p) \cup {p}) = Cardinality(CopiesOf(p)) + 1
  BY <1>7, FS_AddElement
<1>9. Cardinality(CopiesOf(p)) \in Nat
  BY <1>7, FS_CardinalityType
<1> QED
  BY <1>6, <1>8, <1>9

(* However many copies a standard region has, no error means the source    *)
(* AMI in front and one AMI for each of them: no concurrent Add was lost   *)
(* or doubled and no failed copy forgotten (standard_region.go:116-156).   *)
THEOREM NilAlwaysMeansAllCopied == Spec => []NilMeansAllCopied
<1>1. TypeOK /\ Inv /\ OnceInv => NilMeansAllCopied
  BY AllCopied, OnePerRegion DEF NilMeansAllCopied
<1> QED
  BY <1>1, TypeCorrect, InvCorrect, OnceCorrect, PTL

-----------------------------------------------------------------------------
(* The run as a publication: the AMIs it asks for, and what is seen of it. *)

Outcome == CASE output = "whole" -> "published"
             [] output # "whole" /\ exit \in {"fatal", "crashed"} -> "failed"
             [] OTHER -> "pending"
Catalog == IF output = "whole" THEN manifest ELSE EmptyManifest

(* An AMI is known by its name, which tells its region and its source. *)
LEMMA AmisNamed ==
  /\ \A a \in AllAmis : a.id \in Ids /\ Region[a.id] = a.region
  /\ \A id \in Ids : \E a \in AllAmis : a.id = id
  /\ \A p \in Publishers : p \in Ids /\ Source[p] = p
  /\ \A c \in Copies : c \in Ids /\ Source[c] = Owner[c]
<1>1. \A p \in Publishers : SourceAmi(p).id = p /\ SourceAmi(p) \in AllAmis
  BY AmisTyped DEF SourceAmi
<1>2. \A c \in Copies : CopiedAmi(c).id = c /\ CopiedAmi(c) \in AllAmis
  BY AmisTyped DEF CopiedAmi
<1>3. ASSUME NEW a \in AllAmis, NEW b \in AllAmis, a.id = b.id PROVE a = b
  <2>1. a \in {SourceAmi(p) : p \in Publishers} \/ a \in {CopiedAmi(c) : c \in Copies}
    BY DEF AllAmis
  <2>2. b \in {SourceAmi(p) : p \in Publishers} \/ b \in {CopiedAmi(c) : c \in Copies}
    BY DEF AllAmis
  <2> QED
    BY <1>1, <1>2, <1>3, <2>1, <2>2, CopiesAssumption
<1>4. \A a \in AllAmis : a.id \in Ids
  BY AmisTyped
<1>5. ASSUME NEW a \in AllAmis PROVE Region[a.id] = a.region
  <2>1. (CHOOSE b \in AllAmis : b.id = a.id) = a
    BY <1>3
  <2> QED
    BY <1>4, <2>1 DEF Region
<1>6. \A id \in Ids : \E a \in AllAmis : a.id = id
  BY <1>1, <1>2 DEF Ids
<1>7. \A p \in Publishers : p \in Ids /\ Source[p] = p
  BY CopiesAssumption DEF Ids, Source
<1>8. \A c \in Copies : c \in Ids /\ Source[c] = Owner[c]
  BY DEF Ids, Source
<1> QED
  BY <1>4, <1>5, <1>6, <1>7, <1>8

LEMMA RegionsNamed == Publication!Regions = AllRegions
<1>1. Publication!Regions = {Region[id] : id \in Ids}
  BY DEF Publication!Regions
<1>2. \A id \in Ids : Region[id] \in AllRegions
  BY AmisNamed DEF AllRegions
<1>3. \A r \in AllRegions : \E id \in Ids : Region[id] = r
  BY AmisNamed DEF AllRegions
<1> QED
  BY <1>1, <1>2, <1>3

(* A Go map stays a map. *)
ManifestIsMap == manifest = [r \in DOMAIN manifest |-> manifest[r]]

LEMMA ManifestStaysMap == ManifestIsMap /\ [Next]_vars => ManifestIsMap'
<1> SUFFICES ASSUME ManifestIsMap, [Next]_vars PROVE ManifestIsMap'
  OBVIOUS
<1>1. CASE UNCHANGED manifest
  BY <1>1 DEF ManifestIsMap
<1>2. CASE EnterAmi
  BY <1>2 DEF EnterAmi, Assign, ManifestIsMap
<1> QED
  BY MainCases, <1>1, <1>2 DEF MainStep, AwaitPublishers, CheckErrors, RefuseEmptyManifest,
    FinishWrite, CloseConfig, Crash, mainVars

(* When the manifest is written, every AMI exists, and the manifest names  *)
(* one of each region.                                                     *)
WrittenMeansBuilt ==
  output = "whole" /\ NoPanic =>
    /\ registered = Ids
    /\ manifest \in [AllRegions -> Ids]
    /\ \A r \in AllRegions : Region[manifest[r]] = r

LEMMA WrittenIsBuilt == TypeOK /\ Inv /\ ManifestIsMap => WrittenMeansBuilt
<1> SUFFICES ASSUME TypeOK, Inv, ManifestIsMap, output = "whole", NoPanic
             PROVE  /\ registered = Ids
                    /\ manifest \in [AllRegions -> Ids]
                    /\ \A r \in AllRegions : Region[manifest[r]] = r
  BY DEF WrittenMeansBuilt
<1>1. AllAmis = Elements(published) /\ published = amiCollection
  BY AllPublished DEF Inv, MainInv
<1>2. ASSUME NEW a \in AllAmis PROVE a.id \in registered
  <2>1. PICK i \in DOMAIN amiCollection : a = amiCollection[i]
    BY <1>1 DEF Elements
  <2>2. PICK p \in Publishers : a \in Elements(amis[p])
    BY <2>1 DEF Inv, ReportInv
  <2> QED
    BY <2>2 DEF Inv, GoInv, PublisherOK, Elements
<1>3. registered = Ids
  <2>1. registered \subseteq Ids
    BY DEF TypeOK
  <2>2. ASSUME NEW id \in Ids PROVE id \in registered
    BY <1>2, AmisNamed
  <2> QED
    BY <2>1, <2>2
<1>4. CompleteFor(AllRegions)
  BY CompleteFromInv DEF ManifestComplete
<1>5. \A r \in AllRegions : manifest[r] \in Ids /\ Region[manifest[r]] = r
  BY <1>4, AmisNamed DEF CompleteFor
<1>6. manifest \in [AllRegions -> Ids]
  BY <1>4, <1>5 DEF CompleteFor, ManifestIsMap
<1> QED
  BY <1>3, <1>5, <1>6

(* One AMI comes into being, and a copy only of a source AMI that exists.  *)
BuiltOne ==
  \E id \in Ids : Source[id] \in registered \cup {id} /\ registered' = registered \cup {id}

(* That happens only while a publisher is at work. *)
LEMMA RegisteredStep ==
  ASSUME GoTypes, GoInv, [Next]_vars, registered' # registered
  PROVE  /\ Running /\ UNCHANGED mainVars
         /\ \E p \in Publishers : pc[p] # "returned"
         /\ BuiltOne
<1> USE DEF GoTypes, BuiltOne
<1>1. ASSUME NEW p \in Publishers, pc[p] = "ami", registered' \in {registered, registered \cup {p}}
      PROVE  /\ \E q \in Publishers : pc[q] # "returned"
             /\ BuiltOne
  BY <1>1, AmisNamed
<1>2. ASSUME NEW p \in Standard, PublishStandard(p)
      PROVE  p \in Publishers /\ pc[p] = "ami" /\ registered' \in {registered, registered \cup {p}}
  BY <1>2 DEF Publishers, PublishStandard, StandardStep, CreateMachineImage, CreateAlias,
    CreateSnapshot, CallDriver, PanicAt, FailCreateAmi, CreateSourceAmi, RegisterSourceAmi,
    WaitCopies, DeleteMachineImage
<1>3. ASSUME NEW p \in Isolated, PublishIsolated(p)
      PROVE  p \in Publishers /\ pc[p] = "ami" /\ registered' \in {registered, registered \cup {p}}
  BY <1>3 DEF Publishers, PublishIsolated, IsolatedStep, CreateMachineImage, CreateVolume,
    CreateIsolatedSnapshot, CallDriver, PanicAt, FailCreateAmi, CreateIsolatedAmi, RegisterSourceAmi,
    DeleteVolume, DeleteImageAfterVolume, DeleteMachineImage, publisherVars
<1>4. ASSUME NEW c \in Copies, PublishCopy(c)
      PROVE  /\ \E q \in Publishers : pc[q] # "returned"
             /\ BuiltOne
  <2>0. Owner[c] \in Publishers
    BY CopiesAssumption DEF Publishers
  <2>1. copyPc[c] = "copy" /\ registered' \in {registered, registered \cup {c}}
    BY <1>4 DEF PublishCopy, CopyStep, ReplicateKey, CopyAmi, CopyDone, publisherVars
  <2>2. pc[Owner[c]] = "copying"
    BY <2>0, <2>1, StagesSplit DEF GoInv, CopyOK, Owes
  <2>3. amis[Owner[c]] \in Seq(AllAmis) /\ amis[Owner[c]] # <<>>
        /\ amis[Owner[c]][1] = SourceAmi(Owner[c])
    BY <2>0, <2>2 DEF GoInv, PublisherOK, PublisherTypeOK
  <2>4. 1 \in DOMAIN amis[Owner[c]]
    BY <2>3
  <2>5. Owner[c] \in registered
    BY <2>0, <2>3, <2>4 DEF GoInv, PublisherOK, SourceAmi
  <2> QED
    BY <2>0, <2>1, <2>2, <2>5, AmisNamed
<1>5. ~ UNCHANGED goVars
  BY DEF goVars, publisherVars
<1>6. Running /\ UNCHANGED mainVars
  <2>1. Running
    BY <1>5 DEF Next, Ended, vars
  <2>2. ~MainStep /\ ~Crash
    BY <1>5 DEF MainStep, AwaitPublishers, CheckErrors, RefuseEmptyManifest, EnterAmi, FinishWrite,
      CloseConfig, Crash
  <2> QED
    BY <2>1, <2>2, MainCases
<1> QED
  BY NextCases, <1>1, <1>2, <1>3, <1>4, <1>5, <1>6 DEF StepCases

-----------------------------------------------------------------------------
(* The run's steps as the steps of a publication *)

LEMMA PublicationInit == Init => Publication!Init
  BY DEF Init, PublisherInit, Publication!Init, EmptyManifest

LEMMA BuildSeen ==
  ASSUME TypeOK, Inv, [Next]_vars, registered' # registered
  PROVE  Publication!Build
<1>0. GoTypes
  BY TypeParts DEF GoTypes
<1>1. /\ Running /\ UNCHANGED mainVars
      /\ \E p \in Publishers : pc[p] # "returned"
      /\ BuiltOne
  BY <1>0, RegisteredStep DEF Inv
<1>2. mainPc = "wait"
  BY <1>1 DEF Inv, MainInv, ReportInv, ReportOK
<1>3. output # "whole" /\ exit = "running" /\ output' = output /\ exit' = exit
  BY <1>1, <1>2 DEF Running, mainVars, Inv, MainInv
<1>4. Outcome = "pending" /\ Outcome' = Outcome /\ Catalog' = Catalog
  BY <1>3 DEF Outcome, Catalog, EmptyManifest
<1> QED
  BY <1>1, <1>4 DEF BuiltOne, Publication!Build, Outcome, Catalog

LEMMA PublishSeen ==
  ASSUME Inv, WrittenMeansBuilt', NoPanic', Running, FinishWrite, output' = "whole"
  PROVE  Publication!Publish
<1>1. output # "whole" /\ exit = "running" /\ registered' = registered
  BY DEF FinishWrite, Running, Inv, MainInv, goVars, publisherVars
<1>2. Outcome = "pending" /\ Outcome' = "published" /\ Catalog' = manifest'
  BY <1>1 DEF Outcome, Catalog
<1>3. /\ registered' = Ids
      /\ manifest' \in [AllRegions -> Ids]
      /\ \A r \in AllRegions : Region[manifest'[r]] = r
  BY DEF WrittenMeansBuilt
<1>4. Catalog' \in {f \in [Publication!Regions -> Ids] :
                      \A r \in Publication!Regions : Region[f[r]] = r}
  BY <1>2, <1>3, RegionsNamed
<1> QED
  BY <1>1, <1>2, <1>3, <1>4 DEF Publication!Publish, Outcome, Catalog

(* A run that ends without the manifest written has failed. *)
LEMMA FailSeen ==
  ASSUME Running, output # "whole", output' # "whole", exit' = "fatal", registered' = registered
  PROVE  Publication!Fail
<1>1. Outcome = "pending" /\ Outcome' = "failed" /\ Catalog' = Catalog
  BY DEF Running, Outcome, Catalog, EmptyManifest
<1> QED
  BY <1>1 DEF Publication!Fail, Outcome, Catalog

(* Nothing of what main does before or after is seen from outside. *)
Unseen == UNCHANGED <<registered, Outcome, Catalog>>

LEMMA MainSeen ==
  ASSUME Inv, WrittenMeansBuilt', NoPanic', Running, MainStep
  PROVE  Publication!Publish \/ Publication!Fail \/ Unseen
<1>0. registered' = registered
  BY DEF MainStep, AwaitPublishers, CheckErrors, RefuseEmptyManifest, EnterAmi, FinishWrite,
    CloseConfig, goVars, publisherVars
<1>1. ASSUME UNCHANGED <<output, exit>>, manifest' = manifest \/ output # "whole" PROVE Unseen
  BY <1>0, <1>1 DEF Unseen, Outcome, Catalog, EmptyManifest
<1>2. mainPc # "close" => output # "whole"
  BY DEF Inv, MainInv
<1>3. CASE AwaitPublishers
  BY <1>1, <1>3 DEF AwaitPublishers
<1>4. CASE CheckErrors
  BY <1>0, <1>1, <1>2, <1>4, FailSeen DEF CheckErrors
<1>5. CASE RefuseEmptyManifest
  BY <1>0, <1>2, <1>5, FailSeen DEF RefuseEmptyManifest
<1>6. CASE EnterAmi
  BY <1>1, <1>2, <1>6 DEF EnterAmi
<1>7. CASE FinishWrite
  <2>1. CASE output' = "whole"
    BY <1>7, <2>1, PublishSeen
  <2>2. CASE output' # "whole"
    BY <1>0, <1>2, <1>7, <2>2, FailSeen DEF FinishWrite
  <2> QED
    BY <2>1, <2>2
<1>8. CASE CloseConfig
  <2>1. CASE output = "whole"
    BY <1>0, <1>8, <2>1 DEF CloseConfig, Unseen, Outcome, Catalog
  <2>2. CASE output # "whole" /\ exit' = "fatal"
    BY <1>0, <1>8, <2>2, FailSeen DEF CloseConfig
  <2>3. CASE output # "whole" /\ exit' = "ok"
    BY <1>0, <1>8, <2>3 DEF CloseConfig, Running, Unseen, Outcome, Catalog
  <2> QED
    BY <1>8, <2>1, <2>2, <2>3 DEF CloseConfig
<1> QED
  BY <1>3, <1>4, <1>5, <1>6, <1>7, <1>8 DEF MainStep

LEMMA StepSeen ==
  TypeOK /\ Inv /\ WrittenMeansBuilt' /\ NoPanic /\ NoPanic' /\ [Next]_vars =>
    [Publication!Next]_<<registered, Outcome, Catalog>>
<1> SUFFICES ASSUME TypeOK, Inv, WrittenMeansBuilt', NoPanic, NoPanic', [Next]_vars
             PROVE  Publication!Next \/ Unseen
  BY DEF Unseen
<1>1. CASE registered' # registered
  BY <1>1, BuildSeen DEF Publication!Next
<1>2. CASE Running /\ MainStep
  BY <1>2, MainSeen DEF Publication!Next
<1>3. CASE Crash
  BY <1>3 DEF Crash, Panicked, NoPanic, TypeOK
<1>4. CASE registered' = registered /\ UNCHANGED mainVars
  BY <1>4 DEF Unseen, Outcome, Catalog, mainVars
<1> QED
  BY MainCases, <1>1, <1>2, <1>3, <1>4

(* A run in which no goroutine panics is a publication, whichever calls    *)
(* fail and whatever goroutines do meanwhile: the AMIs come into being, a  *)
(* copy after its source, and then either all of them are published at     *)
(* once, one for each region, or the run fails (main.go:129-181).          *)
THEOREM RunIsPublication == Spec /\ []NoPanic => ImplementsPublication
<1>1. Init => ManifestIsMap
  BY DEF Init, EmptyManifest, ManifestIsMap
<1>2. Spec => []ManifestIsMap
  BY <1>1, ManifestStaysMap, PTL DEF Spec
<1>3. Spec => []WrittenMeansBuilt
  BY <1>2, WrittenIsBuilt, TypeCorrect, InvCorrect, PTL
<1> QED
  BY <1>3, StepSeen, PublicationInit, TypeCorrect, InvCorrect, PTL
     DEF Spec, ImplementsPublication, Publication!Spec, Outcome, Catalog

(* Nobody panics as long as AWS never sends an empty list where a driver   *)
(* takes its first element (copy_ami_driver.go:150,                        *)
(* snapshot_from_image_driver.go:83, create_volume_driver.go:62, 126, 160).*)
LEMMA NoPanicStep ==
  ASSUME Malformed = FALSE, GoTypes, NoPanic, [Next]_vars PROVE NoPanic'
<1> USE DEF GoTypes, PublisherTypeOK, CopyTypeOK
<1>1. ASSUME NEW p \in Standard, PublishStandard(p) PROVE NoPanic'
  <2>0. p \in Publishers
    BY DEF Publishers
  <2>1. \A q \in Publishers : err'[q] # "panic"
    BY <1>1, <2>0 DEF NoPanic, PublishStandard, StandardStep, CreateMachineImage, CreateAlias,
      CreateSnapshot, CallDriver, PanicAt, FailCreateAmi, CreateSourceAmi, WaitCopies,
      DeleteMachineImage, Proceed, Leave
  <2>2. \A c \in Copies : copyPc'[c] \in {copyPc[c], "replicate"}
    BY <1>1 DEF PublishStandard, StandardStep, CreateAlias, CreateSnapshot, CreateSourceAmi,
      WaitCopies, copyVars
  <2> QED
    BY <2>1, <2>2 DEF NoPanic
<1>2. ASSUME NEW c \in Copies, PublishCopy(c) PROVE NoPanic'
  <2>1. err' = err
    BY <1>2 DEF PublishCopy, CopyStep, ReplicateKey, CopyAmi, CopyDone, publisherVars
  <2>2. \A d \in Copies : copyPc'[d] \in {copyPc[d], "copy", "leaving", "done"}
    BY <1>2 DEF NoPanic, PublishCopy, CopyStep, ReplicateKey, CopyAmi, CopyDone, FailCopy, CopyGoto
  <2> QED
    BY <2>1, <2>2 DEF NoPanic
<1>3. ASSUME NEW p \in Isolated, PublishIsolated(p) PROVE NoPanic'
  <2>0. p \in Publishers /\ copyPc' = copyPc
    BY <1>3 DEF Publishers, PublishIsolated, copyVars
  <2>1. \A q \in Publishers : err'[q] # "panic"
    BY <1>3, <2>0 DEF NoPanic, PublishIsolated, IsolatedStep, CreateMachineImage, CreateVolume,
      CreateIsolatedSnapshot, CallDriver, PanicAt, FailCreateAmi, CreateIsolatedAmi, DeleteVolume,
      DeleteImageAfterVolume, DeleteMachineImage, Proceed, Leave, publisherVars
  <2> QED
    BY <2>0, <2>1 DEF NoPanic
<1>4. CASE UNCHANGED goVars
  BY <1>4 DEF goVars, publisherVars, copyVars, NoPanic
<1> QED
  BY NextCases, <1>1, <1>2, <1>3, <1>4 DEF StepCases

(* With an AWS of which that is true, as in the run that checks it, every  *)
(* run is a publication, for any entries, copies and regions.              *)
THEOREM WellFormedRunIsPublication ==
  ASSUME Malformed = FALSE PROVE Spec => ImplementsPublication
<1>1. Init => NoPanic
  BY DEF Init, PublisherInit, CopyInit, NoPanic
<1>2. TypeOK /\ NoPanic /\ [Next]_vars => NoPanic'
  BY NoPanicStep, TypeParts DEF GoTypes
<1> QED
  BY <1>1, <1>2, TypeCorrect, RunIsPublication, PTL DEF Spec
=============================================================================
