--------------------------- MODULE AwsClientsProofs ---------------------------
(***************************************************************************)
(* For any flags and files: what main starts satisfies what the models of  *)
(* publishers and drivers assume, and every client works for the account   *)
(* and in the domain it should.                                            *)
(***************************************************************************)
EXTENDS AwsClients, SequenceTheorems, TLAPS

(* The configuration keeps its shape from the file on. *)
Shaped ==
  /\ DOMAIN config = {"ami", "regions"}
  /\ DOMAIN config.ami = {"name", "description", "virtualization", "visibility",
                          "tags", "kmsKey", "kmsAlias"}
  /\ config.regions \in Seq(AmiRegions)
  /\ stage # "launched" => config.ami.kmsAlias \in {"", "mine", "alias/mine"}

(* Once it was accepted it is valid, and stays so. *)
Completed(c) ==
  \A i \in DOMAIN c.regions :
    /\ c.regions[i].isolated <=> c.regions[i].name \in IsolatedNames
    /\ c.regions[i].credentials.region = c.regions[i].name
    /\ c.regions[i].credentials.endpointBase = c.regions[i].endpointBase

Accepted ==
  stage \in {"files", "settle", "launched"} => Valid(config) /\ Completed(config)

Settled ==
  Launched /\ config.ami.kmsKey # "" =>
    config.ami.kmsAlias \in {"alias/mine", "alias/light-stemcell-builder"}

(* The account an entry works in. *)
Account(i) == Signer(EntryOf(i).credentials).account

ClientOK(c) ==
  /\ Launched /\ c.entry \in Entries
  /\ c.aws.signer.account = Account(c.entry)
  /\ c.aws.domain # "standard" =>
       /\ c.aws.region = EntryOf(c.entry).name
       /\ c.aws.domain = EntryOf(c.entry).endpointBase

ConfigInv == Shaped /\ Accepted /\ Settled
ClientsInv == \A c \in clients : ClientOK(c)

-----------------------------------------------------------------------------
(* An entry whose credentials and isolation were filled in.                *)
LEMMA CompletedRegion ==
  ASSUME NEW r \in AmiRegions, NEW q,
         q = [r EXCEPT !.credentials = [@ EXCEPT !.region = r.name, !.endpointBase = r.endpointBase],
                       !.isolated = r.name \in IsolatedNames]
  PROVE  /\ q \in AmiRegions
         /\ q.isolated <=> q.name \in IsolatedNames
         /\ q.credentials.region = q.name
         /\ q.credentials.endpointBase = q.endpointBase
<1>1. /\ r.credentials \in Credentials
      /\ r.name \in STRING /\ r.endpointBase \in STRING
  BY DEF AmiRegions
<1> DEFINE creds == [r.credentials EXCEPT !.region = r.name, !.endpointBase = r.endpointBase]
<1>2. /\ creds \in Credentials
      /\ creds.region = r.name /\ creds.endpointBase = r.endpointBase
  BY <1>1 DEF Credentials
<1>3. q = [r EXCEPT !.credentials = creds, !.isolated = r.name \in IsolatedNames]
  OBVIOUS
<1> HIDE DEF creds
<1>4. /\ q.credentials = creds /\ q.name = r.name /\ q.endpointBase = r.endpointBase
      /\ q.isolated = (r.name \in IsolatedNames)
  BY <1>3 DEF AmiRegions
<1>5. q \in AmiRegions
  <2>1. ASSUME NEW b \in BOOLEAN
        PROVE  [r EXCEPT !.credentials = creds, !.isolated = b] \in AmiRegions
    BY <1>2 DEF AmiRegions
  <2>2. (r.name \in IsolatedNames) \in BOOLEAN
    OBVIOUS
  <2> QED
    BY <1>3, <2>1, <2>2, Zenon
<1> QED
  BY <1>2, <1>4, <1>5

(* Completing a configuration with defaults keeps its shape. *)
LEMMA DefaultsShaped ==
  ASSUME Shaped, stage # "launched"
  PROVE  /\ DOMAIN WithDefaults(config) = {"ami", "regions"}
         /\ DOMAIN WithDefaults(config).ami = DOMAIN config.ami
         /\ WithDefaults(config).ami.kmsAlias = config.ami.kmsAlias
         /\ WithDefaults(config).regions \in Seq(AmiRegions)
         /\ Completed(WithDefaults(config))
<1> DEFINE Filled(r) ==
      [r EXCEPT !.credentials = [@ EXCEPT !.region = r.name, !.endpointBase = r.endpointBase],
                !.isolated = r.name \in IsolatedNames]
<1>1. WithDefaults(config).regions = [i \in DOMAIN config.regions |-> Filled(config.regions[i])]
  BY DEF WithDefaults
<1>2. ASSUME NEW r \in AmiRegions
      PROVE  /\ Filled(r) \in AmiRegions
             /\ Filled(r).isolated <=> Filled(r).name \in IsolatedNames
             /\ Filled(r).credentials.region = Filled(r).name
             /\ Filled(r).credentials.endpointBase = Filled(r).endpointBase
  BY CompletedRegion
<1> HIDE DEF Filled
<1>3. /\ DOMAIN config.regions = 1 .. Len(config.regions) /\ Len(config.regions) \in Nat
      /\ \A i \in DOMAIN config.regions : config.regions[i] \in AmiRegions
  BY LenProperties, ElementOfSeq DEF Shaped
<1>4. WithDefaults(config).regions \in Seq(AmiRegions)
  BY <1>1, <1>2, <1>3
<1>5. /\ DOMAIN WithDefaults(config) = {"ami", "regions"}
      /\ DOMAIN WithDefaults(config).ami = DOMAIN config.ami
      /\ WithDefaults(config).ami.kmsAlias = config.ami.kmsAlias
  BY DEF WithDefaults, Shaped
<1> QED
  BY <1>1, <1>2, <1>3, <1>4, <1>5 DEF Completed

LEMMA ConfigInit == Init => ConfigInv
  BY InputsAssumption DEF Init, StartInit, ConfigInv, Shaped, Accepted, Settled, Launched,
                          AmiConfigurations

LEMMA ConfigStep == ConfigInv /\ [Next]_vars => ConfigInv'
<1> SUFFICES ASSUME ConfigInv, [Next]_vars PROVE ConfigInv'
  OBVIOUS
<1> USE DEF ConfigInv, Launched, Entries, EntryOf
<1>1. CASE UNCHANGED startVars
  BY <1>1 DEF startVars, Shaped, Accepted, Settled
<1>2. CASE CheckFlags
  BY <1>2 DEF CheckFlags, Exit, Shaped, Accepted, Settled
<1>3. CASE LoadConfig
  <2>1. CASE Exit
    BY <2>1, <1>3 DEF LoadConfig, Exit, Shaped, Accepted, Settled
  <2>2. CASE /\ Valid(WithDefaults(config)) /\ config' = WithDefaults(config)
             /\ stage' = "files" /\ stage = "config"
    <3>1. Shaped' /\ Settled'
      BY <2>2, DefaultsShaped DEF Shaped, Settled
    <3>2. Accepted'
      BY <2>2, DefaultsShaped DEF Accepted
    <3> QED
      BY <3>1, <3>2
  <2> QED
    BY <1>3, <2>1, <2>2 DEF LoadConfig
<1>4. CASE LoadManifest
  BY <1>4 DEF LoadManifest, Exit, Shaped, Accepted, Settled
<1>5. CASE Settle
  <2>1. /\ config'.regions = config.regions /\ DOMAIN config' = DOMAIN config
        /\ config'.ami = [config.ami EXCEPT !.tags = Default(@, "from manifest"),
                                            !.kmsAlias = AliasOf(config.ami)]
    BY <1>5 DEF Settle, Shaped
  <2>2. /\ DOMAIN config'.ami = DOMAIN config.ami
        /\ config'.ami.kmsKey = config.ami.kmsKey
        /\ config'.ami.kmsAlias = AliasOf(config.ami)
        /\ config'.ami.description = config.ami.description
        /\ config'.ami.virtualization = config.ami.virtualization
        /\ config'.ami.visibility = config.ami.visibility
    BY <2>1 DEF Shaped
  <2>3. Shaped' /\ Settled'
    BY <1>5, <2>1, <2>2 DEF Settle, Shaped, Settled, AliasOf, Prefixed, Default
  <2>4. Accepted'
    <3>1. Valid(config) /\ Completed(config)
      BY <1>5 DEF Settle, Accepted
    <3>2. ValidAmi(config'.ami)
      BY <2>2, <3>1 DEF Valid, ValidAmi
    <3>3. Valid(config')
      BY <2>1, <3>1, <3>2 DEF Valid
    <3>4. Completed(config')
      BY <2>1, <3>1 DEF Completed
    <3> QED
      BY <3>3, <3>4 DEF Accepted
  <2> QED
    BY <2>3, <2>4
<1> QED
  BY <1>1, <1>2, <1>3, <1>4, <1>5
     DEF Next, Start, Work, NewDriverSet, CreateAlias, ReplicateKey, CopyAmi, NewClients, vars

-----------------------------------------------------------------------------
(* A sequence that is not empty has a first element.                       *)
LEMMA NonEmptyRegions ==
  ASSUME NEW S, NEW regions \in Seq(S), regions # <<>>
  PROVE  Len(regions) \in Nat \ {0} /\ DOMAIN regions = 1 .. Len(regions)
<1>1. Len(regions) \in Nat /\ DOMAIN regions = 1 .. Len(regions)
  BY LenProperties
<1>2. Len(regions) # 0
  BY EmptySeq
<1> QED
  BY <1>1, <1>2

LEMMA EntriesTyped ==
  ASSUME ConfigInv
  PROVE  \A i \in Entries : EntryOf(i) \in AmiRegions
<1>1. config.regions \in Seq(AmiRegions)
  BY DEF ConfigInv, Shaped
<1>2. \A i \in DOMAIN config.regions : config.regions[i] \in AmiRegions
  BY <1>1, LenProperties, ElementOfSeq
<1> QED
  BY <1>2 DEF Entries, EntryOf

LEMMA ClientsInit == Init => ClientsInv
  BY DEF Init, ClientsInv

(* A client made for entry i from credentials with the keys, the role and, *)
(* at home, the domain of that entry.                                      *)
LEMMA ClientMade ==
  ASSUME ConfigInv, Launched, NEW i \in Entries, NEW service, NEW creds,
         creds.accessKey = EntryOf(i).credentials.accessKey,
         creds.secretKey = EntryOf(i).credentials.secretKey,
         creds.roleArn = EntryOf(i).credentials.roleArn,
         \/ creds.endpointBase = ""
         \/ creds.region = EntryOf(i).name /\ creds.endpointBase = EntryOf(i).endpointBase
  PROVE  ClientOK(Client(i, service, creds))
<1> DEFINE c == Client(i, service, creds)
<1>1. /\ c.entry = i
      /\ c.aws.region = creds.region
      /\ c.aws.signer = Signer(creds)
      /\ c.aws.domain = Default(creds.endpointBase, "standard")
  BY DEF Client, GetAwsConfig
<1>2. Signer(creds).account = Account(i)
  BY DEF Signer, Account
<1> HIDE DEF c
<1>3. ClientOK(c)
  BY <1>1, <1>2 DEF ClientOK, Default
<1> QED
  BY <1>3 DEF c

LEMMA ClientsStep == ConfigInv /\ ClientsInv /\ [Next]_vars => ClientsInv'
<1> SUFFICES ASSUME ConfigInv, ClientsInv, [Next]_vars PROVE ClientsInv'
  OBVIOUS
<1>1. ASSUME NEW i \in Entries
      PROVE  EntryOf(i) \in AmiRegions /\ EntryOf(i).credentials \in Credentials
  <2>1. EntryOf(i) \in AmiRegions
    BY EntriesTyped
  <2> QED
    BY <2>1 DEF AmiRegions
<1>2. ASSUME NEW i \in Entries, NEW new, NewClients(i, new), Launched,
             \A c \in new : ClientOK(c)
      PROVE  ClientsInv'
  BY <1>2 DEF ClientsInv, NewClients, startVars, ClientOK, Launched, Account, Entries, EntryOf
<1>3. ASSUME NEW i \in Entries, NEW service, NEW region, Launched
      PROVE  ClientOK(Client(i, service, DerivedCredentials(i, region)))
  <2> DEFINE creds == EntryOf(i).credentials
  <2>1. /\ creds \in Credentials
        /\ DerivedCredentials(i, region) =
             [creds EXCEPT !.region = region, !.sessionToken = "", !.endpointBase = ""]
    BY <1>1 DEF DerivedCredentials
  <2> HIDE DEF creds
  <2>2. /\ DerivedCredentials(i, region).accessKey = creds.accessKey
        /\ DerivedCredentials(i, region).secretKey = creds.secretKey
        /\ DerivedCredentials(i, region).roleArn = creds.roleArn
        /\ DerivedCredentials(i, region).endpointBase = ""
    BY <2>1 DEF Credentials
  <2> QED
    BY <1>3, <2>2, ClientMade DEF creds
<1>4. ASSUME NEW i \in Entries, NewDriverSet(i) PROVE ClientsInv'
  <2>1. ASSUME NEW service PROVE ClientOK(Client(i, service, EntryOf(i).credentials))
    <3>1. /\ EntryOf(i).credentials.region = EntryOf(i).name
          /\ EntryOf(i).credentials.endpointBase = EntryOf(i).endpointBase
      BY <1>4 DEF NewDriverSet, ConfigInv, Accepted, Completed, Launched, Entries, EntryOf
    <3> QED
      BY <1>1, <1>4, <3>1, ClientMade DEF NewDriverSet
  <2> QED
    BY <1>2, <1>4, <2>1 DEF NewDriverSet
<1>5. ASSUME NEW i \in Entries, CreateAlias(i) PROVE ClientsInv'
  <2>1. Launched
    BY <1>5 DEF CreateAlias, Ready
  <2> QED
    BY <1>2, <1>3, <1>5, <2>1 DEF CreateAlias
<1>6. ASSUME NEW i \in Entries, NEW d \in Range(EntryOf(i).destinations), ReplicateKey(i, d)
      PROVE  ClientsInv'
  <2>1. Launched
    BY <1>6 DEF ReplicateKey, Ready
  <2> QED
    BY <1>2, <1>3, <1>6, <2>1 DEF ReplicateKey
<1>7. ASSUME NEW i \in Entries, NEW d \in Range(EntryOf(i).destinations), CopyAmi(i, d)
      PROVE  ClientsInv'
  <2>1. Launched
    BY <1>7 DEF CopyAmi, Ready
  <2> QED
    BY <1>2, <1>3, <1>7, <2>1 DEF CopyAmi
<1>8. CASE UNCHANGED vars
  BY <1>8 DEF vars, startVars, ClientsInv, ClientOK, Launched, Account, Entries, EntryOf
<1>9. CASE Start /\ UNCHANGED clients
  <2>1. ~Launched
    BY <1>9 DEF Start, CheckFlags, LoadConfig, LoadManifest, Settle, Launched
  <2> QED
    BY <1>9, <2>1 DEF ClientsInv, ClientOK
<1> QED
  BY <1>4, <1>5, <1>6, <1>7, <1>8, <1>9 DEF Next, Work

-----------------------------------------------------------------------------
(* Configuration and clients are as they should be, for any inputs.        *)
THEOREM InvCorrect == Spec => [](ConfigInv /\ ClientsInv)
  BY ConfigInit, ConfigStep, ClientsInit, ClientsStep, PTL DEF Spec

(* What main starts satisfies the assumptions of the other models,         *)
(* whatever the files hold.                                                *)
THEOREM AlwaysLaunchedAsAssumed == Spec => []LaunchedAsAssumed
<1>1. ConfigInv => LaunchedAsAssumed
  <2> SUFFICES ASSUME ConfigInv, Launched PROVE LaunchedAsAssumed
    BY DEF LaunchedAsAssumed
  <2>1. Valid(config) /\ Completed(config)
    BY DEF ConfigInv, Accepted, Launched
  <2>2. Entries # {}
    <3>1. config.regions \in Seq(AmiRegions) /\ config.regions # <<>>
      BY <2>1 DEF ConfigInv, Shaped, Valid
    <3>2. Len(config.regions) \in Nat \ {0} /\ Entries = 1 .. Len(config.regions)
      BY <3>1, NonEmptyRegions DEF Entries
    <3>3. 1 \in Entries
      BY <3>2
    <3> QED
      BY <3>3
  <2>3. config.ami.visibility \in {"public", "private"}
    BY <2>1 DEF Valid, ValidAmi
  <2>4. ASSUME NEW i \in Entries
        PROVE  /\ EntryOf(i).isolated <=> EntryOf(i).name \in IsolatedNames
               /\ ValidDestinations(EntryOf(i))
    BY <2>1 DEF Completed, Valid, ValidRegion, Entries, EntryOf
  <2>5. ASSUME NEW i \in Entries, NEW j \in Entries, NEW d \in Range(EntryOf(j).destinations),
               EntryOf(i).name = d
        PROVE  Standard(i) /\ d \notin Range(EntryOf(i).destinations)
    BY <2>4, <2>5 DEF ValidDestinations, Standard
  <2>6. ASSUME NEW i \in Entries, EntryOf(i).destinations # <<>> PROVE Standard(i)
    BY <2>4, <2>6 DEF ValidDestinations, Standard
  <2> QED
    BY <2>2, <2>3, <2>4, <2>5, <2>6 DEF LaunchedAsAssumed, ConfigInv, Settled
<1> QED
  BY <1>1, InvCorrect, PTL

(* Rounding up to whole multiples leaves less than one of them empty.      *)
LEMMA RoundedUp ==
  ASSUME NEW n \in Nat, NEW m \in Nat \ {0}
  PROVE  ((n + m - 1) \div m) * m - n \in 0 .. m - 1
<1> DEFINE q == (n + m - 1) \div m
           r == (n + m - 1) % m
<1>1. q \in Int /\ r \in 0 .. m - 1 /\ n + m - 1 = m * q + r
  OBVIOUS
<1>2. q * m = n + m - 1 - r /\ q * m \in Int
  BY <1>1
<1> HIDE DEF q, r
<1>3. q * m - n \in 0 .. m - 1
  BY <1>1, <1>2
<1> QED
  BY <1>3 DEF q

(* The volume fits the image, for any image and any unit.                  *)
THEOREM VolumeAlwaysHoldsImage == Spec => []VolumeHoldsImage
<1> DEFINE InputInv ==
      /\ input \in Inputs
      /\ stage \in {"config", "files", "settle", "launched"} => FlagsComplete
<1>1. Init => InputInv
  BY DEF Init, StartInit
<1>2. InputInv /\ [Next]_vars => InputInv'
  BY DEF Next, Start, Work, CheckFlags, LoadConfig, LoadManifest, Settle, Exit, FlagsComplete,
         NewDriverSet, CreateAlias, ReplicateKey, CopyAmi, NewClients, startVars, vars
<1>3. InputInv => VolumeHoldsImage
  <2> SUFFICES ASSUME InputInv, Launched, input.volumeSize = 0
               PROVE  VolumeHoldsImage
    BY DEF VolumeHoldsImage
  <2>1. input.format = "RAW"
    BY DEF Launched, FlagsComplete
  <2>2. input.imageBytes \in Nat
    BY InputsAssumption
  <2>3. ((input.imageBytes + GB - 1) \div GB) * GB - input.imageBytes \in 0 .. GB - 1
    BY <2>2, GBAssumption, RoundedUp
  <2> QED
    BY <2>1, <2>3 DEF VolumeHoldsImage, VolumeSizeGB
<1> QED
  BY <1>1, <1>2, <1>3, PTL DEF Spec

(* No client of an entry works in another account than the others.         *)
THEOREM AlwaysOneAccountPerEntry == Spec => []OneAccountPerEntry
<1>1. ClientsInv => OneAccountPerEntry
  BY DEF ClientsInv, ClientOK, OneAccountPerEntry
<1> QED
  BY <1>1, InvCorrect, PTL

(* No client outside the region of its entry leaves the default domain.    *)
THEOREM EndpointAlwaysOnlyAtHome == Spec => []EndpointOnlyAtHome
<1>1. ClientsInv => EndpointOnlyAtHome
  BY DEF ClientsInv, ClientOK, EndpointOnlyAtHome
<1> QED
  BY <1>1, InvCorrect, PTL
=============================================================================
