------------------------------ MODULE KmsDriver ------------------------------
(***************************************************************************)
(* driver/kms_driver.go: before an encrypted snapshot is made, each        *)
(* publisher creates an alias of the key in its region, and each copy      *)
(* goroutine replicates the key to its destination.  Several of them may   *)
(* work on the same region at once, and the alias or the replica may be    *)
(* there from an earlier run: both calls take "already exists" for success *)
(* and then look for what they wanted.  There is one key id and one alias  *)
(* name per configuration; without a key id both calls do nothing, and     *)
(* there is nothing to model.                                              *)
(***************************************************************************)
EXTENDS Naturals

CONSTANTS
  Aliasers,      \* the publishers, calling CreateAlias()
  Replicators,   \* the copy goroutines, calling ReplicateKey()
  Regions,
  SourceOf,      \* the region a caller's publisher works in
  TargetOf       \* the region a caller wants the alias or the replica in

Callers == Aliasers \cup Replicators

ASSUME CallersAssumption ==
  /\ Aliasers \cap Replicators = {}
  /\ SourceOf \in [Callers -> Regions]
  /\ TargetOf \in [Callers -> Regions]
  /\ \A a \in Aliasers : SourceOf[a] = TargetOf[a]

VARIABLES
  pc,        \* where each call is
  result,    \* what it returned
  refused,   \* the callers that KMS answered with an error they cannot take
  aliases,   \* the key the alias name stands for in each region
  replicas,  \* the regions that have the key
  crowded    \* the lists so long that what is wanted is not on their first page

callVars == <<pc, result, refused>>
kmsVars == <<aliases, replicas, crowded>>
vars == <<callVars, kmsVars>>

(* The regions may hold anything from earlier runs: the alias of our key   *)
(* only where the key is, and perhaps an alias of that name for another.   *)
Init ==
  /\ pc = [c \in Callers |-> "ask"]
  /\ result = [c \in Callers |-> "none"]
  /\ refused = {}
  /\ replicas \in SUBSET Regions
  /\ aliases \in [Regions -> {"none", "ours", "other"}]
  /\ \A r \in Regions : aliases[r] = "ours" => r \in replicas
  /\ crowded \in SUBSET ({"aliases", "keys"} \X Regions)

Return(c, r) ==
  /\ pc' = [pc EXCEPT ![c] = "returned"]
  /\ result' = [result EXCEPT ![c] = r]

LookItUp(c) == pc' = [pc EXCEPT ![c] = "list"] /\ UNCHANGED <<result, refused>>

Refuse(c) == Return(c, "error") /\ refused' = refused \cup {c}

MakeAlias(r) ==
  aliases' = [aliases EXCEPT ![r] = "ours"] /\ UNCHANGED <<replicas, crowded>>
MakeReplica(r) == replicas' = replicas \cup {r} /\ UNCHANGED <<aliases, crowded>>

AliasFree(c) == TargetOf[c] \in replicas /\ aliases[TargetOf[c]] = "none"
CanReplicate(c) == SourceOf[c] \in replicas /\ TargetOf[c] \notin replicas

(* errors.As(err, *AlreadyExistsException) *)
AcceptExisting(c) == LookItUp(c)

BadCreateAlias(c) ==
  /\ pc[c] = "ask"
  /\ \/ AliasFree(c) /\ MakeAlias(TargetOf[c]) /\ LookItUp(c)
     \/ aliases[TargetOf[c]] # "none" /\ Return(c, "error") /\ UNCHANGED <<refused, kmsVars>>
     \/ AliasFree(c) /\ MakeAlias(TargetOf[c]) /\ Refuse(c)
     \/ Refuse(c) /\ UNCHANGED kmsVars

(* KMS makes the alias of a key the region has, once; or it has the alias  *)
(* already; any other answer is an error, even if the alias was made.      *)
CreateAlias(c) ==
  /\ pc[c] = "ask"
  /\ \/ AliasFree(c) /\ MakeAlias(TargetOf[c]) /\ LookItUp(c)
     \/ aliases[TargetOf[c]] # "none" /\ AcceptExisting(c) /\ UNCHANGED kmsVars
     \/ AliasFree(c) /\ MakeAlias(TargetOf[c]) /\ Refuse(c)
     \/ Refuse(c) /\ UNCHANGED kmsVars

(* The same for the replica of a key that the source region has. *)
ReplicateKey(c) ==
  /\ pc[c] = "ask"
  /\ \/ CanReplicate(c) /\ MakeReplica(TargetOf[c]) /\ LookItUp(c)
     \/ /\ {SourceOf[c], TargetOf[c]} \subseteq replicas
        /\ AcceptExisting(c) /\ UNCHANGED kmsVars
     \/ CanReplicate(c) /\ MakeReplica(TargetOf[c]) /\ Refuse(c)
     \/ Refuse(c) /\ UNCHANGED kmsVars

BadAliasListed(c) == aliases[TargetOf[c]] # "none"

FirstPage(list, r) == <<list, r>> \notin crowded

(* ListAliases names the aliases of our key alone, and only the first page *)
(* of them is looked at.                                                   *)
AliasListed(c) == aliases[TargetOf[c]] = "ours" /\ FirstPage("aliases", TargetOf[c])

(* ListKeys asks the target region. *)
ReplicaListed(c) == TargetOf[c] \in replicas /\ FirstPage("keys", TargetOf[c])

Look(c, listed) ==
  /\ pc[c] = "list"
  /\ \/ listed /\ Return(c, "ok") /\ UNCHANGED refused
     \/ ~listed /\ Return(c, "error") /\ UNCHANGED refused
     \/ Refuse(c)
  /\ UNCHANGED kmsVars

Returned == (\A c \in Callers : pc[c] = "returned") /\ UNCHANGED vars

Next ==
  \/ \E c \in Aliasers : CreateAlias(c) \/ Look(c, AliasListed(c))
  \/ \E c \in Replicators : ReplicateKey(c) \/ Look(c, ReplicaListed(c))
  \/ Returned

Spec == Init /\ [][Next]_vars

-----------------------------------------------------------------------------
(* The type invariant. *)
TypeOK ==
  /\ pc \in [Callers -> {"ask", "list", "returned"}]
  /\ result \in [Callers -> {"none", "ok", "error"}]
  /\ refused \subseteq Callers
  /\ aliases \in [Regions -> {"none", "ours", "other"}]
  /\ replicas \subseteq Regions
  /\ crowded \subseteq {"aliases", "keys"} \X Regions

(* The ARN of an alias that CreateAlias() returns stands for the key that  *)
(* was configured: an alias of that name left behind for another key is    *)
(* refused, so no stemcell is encrypted with it (kms_driver.go:48-75).     *)
AliasNamesOurKey ==
  \A c \in Aliasers : result[c] = "ok" =>
    aliases[TargetOf[c]] = "ours" /\ TargetOf[c] \in replicas

(* Callers racing for the same alias or replica, or coming after an earlier*)
(* run, do not fail because of each other: an error means that KMS refused *)
(* a call for a reason of its own, that the alias belongs to another key,  *)
(* or that there are more entries than a page holds, which is then all     *)
(* that keeps a caller from what is there                                  *)
(* (kms_driver.go:50-68, 100-117).                                         *)
RacersSucceed ==
  \A c \in Callers : result[c] = "error" /\ c \notin refused =>
    \/ c \in Aliasers /\ (aliases[TargetOf[c]] = "other" \/ ~FirstPage("aliases", TargetOf[c]))
    \/ c \in Replicators /\ ~FirstPage("keys", TargetOf[c])
=============================================================================
