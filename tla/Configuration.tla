---------------------------- MODULE Configuration ----------------------------
(***************************************************************************)
(* main.go from the flags to the start of the publishers, with             *)
(* config/config.go: the configuration is read, completed with defaults,   *)
(* validated, and completed again with what the stemcell manifest and the  *)
(* KMS key call for.  What passes is what the publishers and the drivers   *)
(* assume of their entries.  An absent field is the empty string.          *)
(***************************************************************************)
EXTENDS Integers, Sequences, Functions

CONSTANTS
  Inputs,         \* the flags and files that are considered
  IsolatedNames,  \* the regions isolated from all others (cn-north-1)
  GB              \* gbInBytes, 2^30 in the code

(* An alias name stands for those with, and those without, the prefix that *)
(* KMS wants.                                                              *)
Credentials ==
  [accessKey : STRING, secretKey : STRING, sessionToken : STRING, roleArn : STRING,
   region : STRING, endpointBase : STRING]
AmiConfigurations ==
  [name : STRING, description : STRING, virtualization : STRING, visibility : STRING,
   tags : STRING, kmsKey : STRING, kmsAlias : {"", "mine", "alias/mine"}]
AmiRegions ==
  [name : STRING, bucket : STRING, destinations : Seq(STRING), endpointBase : STRING,
   isolated : BOOLEAN, credentials : Credentials]

ASSUME InputsAssumption ==
  Inputs \subseteq
    [given : SUBSET STRING, format : STRING, volumeSize : Int, imageBytes : Nat,
     config : [ami : AmiConfigurations, regions : Seq(AmiRegions)]]

ASSUME GBAssumption == GB \in Nat \ {0}

VARIABLES
  stage,   \* how far main has come
  input,   \* what it was started with
  config   \* the configuration as far as it is complete

startVars == <<stage, input, config>>

StartInit ==
  /\ stage = "flags"
  /\ input \in Inputs
  /\ config = input.config

Exit == stage' = "exited" /\ UNCHANGED <<input, config>>

BadFlagsComplete == input.given = {"config", "image", "manifest"}

(* The format is RAW unless given; any other one needs the volume's size.  *)
FlagsComplete ==
  /\ input.given = {"config", "image", "manifest"}
  /\ input.volumeSize = 0 => input.format = "RAW"

CheckFlags ==
  /\ stage = "flags"
  /\ \/ FlagsComplete /\ stage' = "config" /\ UNCHANGED <<input, config>>
     \/ ~FlagsComplete /\ Exit

-----------------------------------------------------------------------------
(* config.NewFromReader() *)

Default(field, value) == IF field = "" THEN value ELSE field

WithDefaults(c) ==
  [ami |-> [c.ami EXCEPT !.name = Default(@, "BOSH-uuid"),
                         !.virtualization = Default(@, "hvm"),
                         !.visibility = Default(@, "public")],
   regions |-> [i \in DOMAIN c.regions |->
     LET r == c.regions[i] IN
     [r EXCEPT !.credentials = [@ EXCEPT !.region = r.name, !.endpointBase = r.endpointBase],
               !.isolated = r.name \in IsolatedNames]]]

ValidAmi(ami) ==
  /\ ami.description # ""
  /\ ami.virtualization = "hvm"
  /\ ami.visibility \in {"public", "private"}

BadValidDestinations(r) ==
  /\ \A d \in Range(r.destinations) : d # r.name
  /\ r.name \in IsolatedNames => r.destinations = <<>>

ValidDestinations(r) ==
  /\ \A d \in Range(r.destinations) : d \notin IsolatedNames /\ d # r.name
  /\ r.name \in IsolatedNames => r.destinations = <<>>

ValidRegion(r) ==
  /\ r.name # "" /\ r.bucket # "" /\ r.credentials.region # ""
  /\ ValidDestinations(r)

Valid(c) ==
  /\ ValidAmi(c.ami)
  /\ c.regions # <<>>
  /\ \A i \in DOMAIN c.regions : ValidRegion(c.regions[i])

(* A file that is missing, unreadable or no JSON ends the run as well.     *)
LoadConfig ==
  /\ stage = "config"
  /\ \/ /\ Valid(WithDefaults(config))
        /\ config' = WithDefaults(config)
        /\ stage' = "files"
        /\ UNCHANGED input
     \/ Exit

-----------------------------------------------------------------------------
(* The image must exist, though it is only opened by the drivers; the      *)
(* manifest is read and parsed here.                                       *)
LoadManifest ==
  /\ stage = "files"
  /\ (stage' = "settle" /\ UNCHANGED <<input, config>>) \/ Exit

Prefixed(alias) ==
  CASE alias = "mine" -> "alias/mine"
    [] alias = "light-stemcell-builder" -> "alias/light-stemcell-builder"
    [] OTHER -> alias

BadAliasOf(ami) == Prefixed(ami.kmsAlias)

AliasOf(ami) ==
  Prefixed(IF ami.kmsKey = "" THEN ami.kmsAlias
           ELSE Default(ami.kmsAlias, "light-stemcell-builder"))

(* The tags of the manifest stand in only for tags that were not given at  *)
(* all, not for an empty object.                                           *)
Settle ==
  /\ stage = "settle"
  /\ config' = [config EXCEPT !.ami.tags = Default(@, "from manifest"),
                              !.ami.kmsAlias = AliasOf(config.ami)]
  /\ stage' = "launched"
  /\ UNCHANGED input

Start == CheckFlags \/ LoadConfig \/ LoadManifest \/ Settle

Launched == stage = "launched"

-----------------------------------------------------------------------------
BadVolumeSizeGB(bytes) == IF input.volumeSize = 0 THEN bytes \div GB ELSE input.volumeSize

(* create_machine_image_manifest_driver.go: the size of the volume that an *)
(* isolated region imports, from the size of the object that was uploaded. *)
VolumeSizeGB(bytes) ==
  IF input.volumeSize = 0 THEN (bytes + GB - 1) \div GB ELSE input.volumeSize
=============================================================================
