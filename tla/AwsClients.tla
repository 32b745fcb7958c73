------------------------------ MODULE AwsClients ------------------------------
(***************************************************************************)
(* Which AWS clients the drivers of an entry work with: as whom, in which  *)
(* region and under which domain.  The driver sets of driverset/ build the *)
(* drivers, most of which make their client from the entry's credentials;  *)
(* the KMS driver and the copy driver make one for each call, from a part  *)
(* of the credentials (Credentials.GetAwsConfig, driver/kms_driver.go,     *)
(* driver/copy_ami_driver.go).                                             *)
(***************************************************************************)
EXTENDS Configuration

VARIABLE clients   \* the clients made so far

vars == <<startVars, clients>>

Entries == DOMAIN config.regions
EntryOf(i) == config.regions[i]

Init == StartInit /\ clients = {}

-----------------------------------------------------------------------------
(* Both keys are needed for static credentials; else those of the instance *)
(* are used.  A role is assumed with either.                               *)
Signer(creds) ==
  IF creds.accessKey # "" /\ creds.secretKey # ""
  THEN [account |-> <<creds.accessKey, creds.roleArn>>, token |-> creds.sessionToken]
  ELSE [account |-> <<"instance", creds.roleArn>>, token |-> ""]

GetAwsConfig(creds) ==
  [region |-> creds.region,
   signer |-> Signer(creds),
   domain |-> Default(creds.endpointBase, "standard")]

Client(i, service, creds) == [entry |-> i, service |-> service, aws |-> GetAwsConfig(creds)]

BadDerivedNoRole(i, region) ==
  [EntryOf(i).credentials EXCEPT
     !.region = region, !.roleArn = "", !.sessionToken = "", !.endpointBase = ""]

BadDerivedEndpoint(i, region) ==
  [EntryOf(i).credentials EXCEPT !.region = region, !.sessionToken = ""]

(* What the KMS driver and the copy driver take over for another region:   *)
(* the keys and the role, neither the session token nor the domain.        *)
DerivedCredentials(i, region) ==
  [EntryOf(i).credentials EXCEPT
     !.region = region, !.sessionToken = "", !.endpointBase = ""]

-----------------------------------------------------------------------------
NewClients(i, new) ==
  /\ clients' = clients \cup new
  /\ UNCHANGED startVars

Ready(i) == Launched /\ \E c \in clients : c.entry = i

Standard(i) == ~EntryOf(i).isolated

(* Deletion of a machine image needs no client, but presigned URLs.        *)
NewDriverSet(i) ==
  /\ Launched
  /\ ~Ready(i)
  /\ NewClients(i, {Client(i, service, EntryOf(i).credentials) : service \in {"s3", "ec2"}})

CreateAlias(i) ==
  /\ Ready(i) /\ Standard(i)
  /\ config.ami.kmsKey # ""
  /\ NewClients(i, {Client(i, "kms", DerivedCredentials(i, EntryOf(i).name))})

ReplicateKey(i, destination) ==
  /\ Ready(i) /\ Standard(i)
  /\ config.ami.kmsKey # ""
  /\ NewClients(i, {Client(i, "kms", DerivedCredentials(i, region)) :
                      region \in {EntryOf(i).name, destination}})

CopyAmi(i, destination) ==
  /\ Ready(i) /\ Standard(i)
  /\ NewClients(i, {Client(i, "ec2", DerivedCredentials(i, destination))})

Work ==
  \E i \in Entries :
    \/ NewDriverSet(i)
    \/ CreateAlias(i)
    \/ \E d \in Range(EntryOf(i).destinations) : ReplicateKey(i, d) \/ CopyAmi(i, d)

Next ==
  \/ Start /\ UNCHANGED clients
  \/ Work
  \/ stage \in {"exited", "launched"} /\ UNCHANGED vars

Spec == Init /\ [][Next]_vars

-----------------------------------------------------------------------------
(* What is started satisfies what the models of publishers and drivers     *)
(* assume (PublishersAssumption, CopiesAssumption, Configs), for every     *)
(* combination of entries: no copy goes to the entry's own region, or from *)
(* or to an isolated region, and every key has an alias KMS accepts        *)
(* (config.go:156-219, main.go:98-115).                                    *)
LaunchedAsAssumed ==
  Launched =>
    /\ Entries # {}
    /\ config.ami.visibility \in {"public", "private"}
    /\ config.ami.kmsKey # "" => config.ami.kmsAlias \in {"alias/mine", "alias/light-stemcell-builder"}
    /\ \A i \in Entries : EntryOf(i).isolated <=> EntryOf(i).name \in IsolatedNames
    /\ \A i \in Entries, d \in UNION {Range(EntryOf(j).destinations) : j \in Entries} :
         EntryOf(i).name = d => Standard(i) /\ d \notin Range(EntryOf(i).destinations)
    /\ \A i \in Entries : EntryOf(i).destinations # <<>> => Standard(i)

(* The volume of an isolated region is large enough for the image and not  *)
(* larger than needed when its size is that of the file; that happens only *)
(* for a raw image, whose file is its disk                                 *)
(* (main.go:55-57, create_machine_image_manifest_driver.go:98-106).        *)
VolumeHoldsImage ==
  Launched /\ input.volumeSize = 0 =>
    /\ input.format = "RAW"
    /\ VolumeSizeGB(input.imageBytes) * GB - input.imageBytes \in 0 .. GB - 1

(* Whatever an entry does, in its own region or another, it does in one    *)
(* account: an AMI is copied, and a key replicated, by whom it belongs to  *)
(* (copy_ami_driver.go:36-42, kms_driver.go:122-134, config.go:222-247).   *)
OneAccountPerEntry ==
  \A c, d \in clients : c.entry = d.entry => c.aws.signer.account = d.aws.signer.account

(* A client leaves the default domain only in the region of its entry, and *)
(* only for the domain of that entry: config_test.go:379 expects that a    *)
(* destination does not inherit it (copy_ami_driver.go:36-41).             *)
EndpointOnlyAtHome ==
  \A c \in clients : c.aws.domain # "standard" =>
    /\ c.aws.region = EntryOf(c.entry).name
    /\ c.aws.domain = EntryOf(c.entry).endpointBase

(* README.md:82: endpoint_base on the region entry overrides the endpoint  *)
(* domain for all services (EC2, S3, KMS).                                 *)
EndpointBaseForAllServices ==
  \A c \in clients :
    c.aws.region = EntryOf(c.entry).name /\ EntryOf(c.entry).endpointBase # "" =>
      c.aws.domain = EntryOf(c.entry).endpointBase
=============================================================================
