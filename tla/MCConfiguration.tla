--------------------------- MODULE MCConfiguration ---------------------------
(* One thing at a time is varied in a good input, and destinations, names  *)
(* and credentials together in two entries.                                *)
EXTENDS AwsClients

Ami == [name |-> "", description |-> "light", virtualization |-> "", visibility |-> "",
        tags |-> "", kmsKey |-> "", kmsAlias |-> ""]

Keys(access, secret, token, role) ==
  [accessKey |-> access, secretKey |-> secret, sessionToken |-> token, roleArn |-> role,
   region |-> "", endpointBase |-> ""]

Region(name, destinations, creds, base) ==
  [name |-> name, bucket |-> "b", destinations |-> destinations,
   endpointBase |-> base, isolated |-> FALSE, credentials |-> creds]

Input(ami, regions) ==
  [given |-> {"config", "image", "manifest"}, format |-> "RAW", volumeSize |-> 0,
   imageBytes |-> 5, config |-> [ami |-> ami, regions |-> regions]]

Alice == Keys("alice", "s", "", "")
East == Region("east", <<"west">>, Alice, "")
Good == Input(Ami, <<East>>)

AllKeys ==
  {Keys(access, secret, token, role) : access \in {"", "alice"}, secret \in {"", "s"},
                                       token \in {"", "t"}, role \in {"", "builder"}}

AmiInputs ==
  {Input([name |-> "", description |-> d, virtualization |-> v, visibility |-> s,
          tags |-> t, kmsKey |-> k, kmsAlias |-> a], <<East>>) :
     d \in {"", "light"}, v \in {"", "hvm", "paravirtual"}, s \in {"", "private", "secret"},
     t \in {"", "given"}, k \in {"", "key"}, a \in {"", "mine", "alias/mine"}}

Destinations == {<<>>, <<"west">>, <<"east">>, <<"cn-north-1">>, <<"west", "west">>, <<"west", "north">>}

RegionInputs ==
  {Input([Ami EXCEPT !.kmsKey = "key"], <<Region(name, d, c, base)>>) :
     name \in {"", "east", "cn-north-1"}, d \in Destinations, c \in AllKeys,
     base \in {"", "amazonaws.eu"}}
  \cup {Input(Ami, <<>>), Input(Ami, <<[East EXCEPT !.bucket = ""]>>)}

PairInputs ==
  {Input([Ami EXCEPT !.kmsKey = "key"],
         <<Region(m, d, Alice, ""), Region(n, e, Keys("", "", "", "builder"), "amazonaws.eu")>>) :
     m \in {"east", "west"}, d \in Destinations, n \in {"east", "west", "cn-north-1"}, e \in Destinations}

FlagInputs ==
  {[Good EXCEPT !.given = g, !.format = f, !.volumeSize = s, !.imageBytes = b] :
     g \in {Good.given, Good.given \ {"manifest"}}, f \in {"RAW", "vmdk"},
     s \in {-1, 0, 2}, b \in 0 .. 9}

Combinations == AmiInputs \cup RegionInputs \cup PairInputs \cup FlagInputs
=============================================================================
