---------------------------- MODULE KmsDriverProofs ----------------------------
(***************************************************************************)
(* For any publishers, copy goroutines and regions: what the KMS driver    *)
(* returns is right, and its callers do not fail because of each other.    *)
(***************************************************************************)
EXTENDS KmsDriver, TLAPS

(* KMS has no alias for our key where the key is not.                      *)
KeyOfAlias == \A r \in Regions : aliases[r] = "ours" => r \in replicas

(* Who looks up what was to be made knows that there is something: this    *)
(* call made it, or KMS said that it exists.  What was returned is right.  *)
CallOK(c) ==
  /\ pc[c] = "list" =>
       IF c \in Aliasers THEN aliases[TargetOf[c]] # "none" ELSE TargetOf[c] \in replicas
  /\ c \in Aliasers /\ result[c] = "ok" => aliases[TargetOf[c]] = "ours"
  /\ result[c] = "error" /\ c \notin refused =>
       IF c \in Aliasers
       THEN aliases[TargetOf[c]] = "other" \/ ~FirstPage("aliases", TargetOf[c])
       ELSE ~FirstPage("keys", TargetOf[c])

Inv == TypeOK /\ KeyOfAlias /\ \A c \in Callers : CallOK(c)

-----------------------------------------------------------------------------
(* The callers and what they are called with. *)
LEMMA CallersTyped ==
  /\ \A c \in Callers : TargetOf[c] \in Regions /\ SourceOf[c] \in Regions
  /\ Aliasers \subseteq Callers /\ Replicators \subseteq Callers
  /\ \A c \in Aliasers : c \notin Replicators
  BY CallersAssumption DEF Callers

(* What any step does to KMS: aliases and replicas are added, none is      *)
(* changed or taken away, and the lists stay as long as they were.         *)
OnlyMore ==
  /\ aliases' \in [Regions -> {"none", "ours", "other"}]
  /\ replicas' \subseteq Regions
  /\ crowded' = crowded
  /\ \A r \in Regions : aliases[r] # "none" => aliases'[r] = aliases[r]
  /\ \A r \in Regions : aliases'[r] = "ours" => aliases[r] = "ours" \/ r \in replicas
  /\ replicas \subseteq replicas'

(* What any step of one caller does to the calls of the others. *)
OnlyItself(c) ==
  /\ pc' \in [Callers -> {"ask", "list", "returned"}]
  /\ result' \in [Callers -> {"none", "ok", "error"}]
  /\ refused' \subseteq Callers /\ refused \subseteq refused'
  /\ \A d \in Callers : d # c =>
       pc'[d] = pc[d] /\ result'[d] = result[d] /\ (d \in refused' => d \in refused)

(* Whatever one caller does, the calls of the others stay right.           *)
LEMMA OthersStayOK ==
  ASSUME TypeOK, OnlyMore, NEW c \in Callers, OnlyItself(c), NEW d \in Callers, d # c, CallOK(d)
  PROVE  CallOK(d)'
<1>1. TargetOf[d] \in Regions
  BY CallersTyped
<1> QED
  BY <1>1 DEF CallOK, OnlyMore, OnlyItself, FirstPage, TypeOK

-----------------------------------------------------------------------------
(* A call that returns touches nothing but itself.                         *)
LEMMA ReturnProperties ==
  ASSUME TypeOK, NEW c \in Callers, NEW r \in {"ok", "error"}, Return(c, r),
         refused' \in {refused, refused \cup {c}}
  PROVE  OnlyItself(c) /\ pc'[c] = "returned" /\ result'[c] = r
  BY DEF TypeOK, Return, OnlyItself

(* A call that goes on to look for what exists touches nothing but itself. *)
LEMMA LookItUpProperties ==
  ASSUME TypeOK, NEW c \in Callers, LookItUp(c)
  PROVE  /\ OnlyItself(c) /\ pc'[c] = "list" /\ result'[c] = result[c]
         /\ refused' = refused
  BY DEF TypeOK, LookItUp, OnlyItself

(* A step that leaves KMS alone adds nothing.                              *)
LEMMA NothingMade == ASSUME TypeOK, UNCHANGED kmsVars PROVE OnlyMore
  BY DEF TypeOK, OnlyMore, kmsVars

(* A caller that gave up on a refusal, or never got further, owes nothing. *)
LEMMA RefusedOK ==
  ASSUME TypeOK, NEW c \in Callers, Refuse(c)
  PROVE  OnlyItself(c) /\ CallOK(c)'
<1>1. OnlyItself(c) /\ pc'[c] = "returned" /\ result'[c] = "error" /\ c \in refused'
  BY ReturnProperties DEF Refuse
<1> QED
  BY <1>1 DEF CallOK

(* CreateAlias: made, refused, or there already and looked up              *)
(* (kms_driver.go:48-75).                                                  *)
LEMMA CreateAliasStep ==
  ASSUME TypeOK, KeyOfAlias, NEW c \in Aliasers, CreateAlias(c), CallOK(c)
  PROVE  OnlyMore /\ OnlyItself(c) /\ CallOK(c)'
<1> DEFINE r == TargetOf[c]
<1>0. c \in Callers /\ r \in Regions
  BY CallersTyped
<1>1. ASSUME AliasFree(c), MakeAlias(r)
      PROVE  OnlyMore /\ aliases'[r] = "ours"
  BY <1>0, <1>1 DEF AliasFree, MakeAlias, OnlyMore, TypeOK
<1>2. ASSUME LookItUp(c), OnlyMore, aliases'[r] # "none", aliases[r] = "none" \/ aliases' = aliases
      PROVE  OnlyItself(c) /\ CallOK(c)'
  <2>1. OnlyItself(c) /\ pc'[c] = "list" /\ result'[c] = result[c] /\ refused' = refused
    BY <1>0, <1>2, LookItUpProperties
  <2>2. crowded' = crowded
    BY <1>2 DEF OnlyMore
  <2> QED
    BY <1>0, <1>2, <2>1, <2>2 DEF CallOK, FirstPage
<1>3. CASE AliasFree(c) /\ MakeAlias(r) /\ LookItUp(c)
  <2>1. aliases[r] = "none"
    BY <1>3 DEF AliasFree
  <2> QED
    BY <1>1, <1>2, <1>3, <2>1
<1>4. CASE aliases[r] # "none" /\ AcceptExisting(c) /\ UNCHANGED kmsVars
  BY <1>2, <1>4, NothingMade DEF AcceptExisting, kmsVars
<1>5. CASE AliasFree(c) /\ MakeAlias(r) /\ Refuse(c)
  BY <1>0, <1>1, <1>5, RefusedOK
<1>6. CASE Refuse(c) /\ UNCHANGED kmsVars
  BY <1>0, <1>6, RefusedOK, NothingMade
<1> QED
  BY <1>3, <1>4, <1>5, <1>6 DEF CreateAlias

(* ReplicateKey: made, refused, or there already and looked up             *)
(* (kms_driver.go:78-120).                                                 *)
LEMMA ReplicateKeyStep ==
  ASSUME TypeOK, NEW c \in Replicators, ReplicateKey(c), CallOK(c)
  PROVE  OnlyMore /\ OnlyItself(c) /\ CallOK(c)'
<1> DEFINE r == TargetOf[c]
<1>0. c \in Callers /\ r \in Regions /\ c \notin Aliasers
  BY CallersTyped
<1>1. ASSUME MakeReplica(r)
      PROVE  OnlyMore /\ r \in replicas'
  BY <1>0, <1>1 DEF MakeReplica, OnlyMore, TypeOK
<1>2. ASSUME LookItUp(c), OnlyMore, r \in replicas'
      PROVE  OnlyItself(c) /\ CallOK(c)'
  <2>1. OnlyItself(c) /\ pc'[c] = "list" /\ result'[c] = result[c] /\ refused' = refused
    BY <1>0, <1>2, LookItUpProperties
  <2>2. crowded' = crowded
    BY <1>2 DEF OnlyMore
  <2> QED
    BY <1>0, <1>2, <2>1, <2>2 DEF CallOK, FirstPage
<1>3. CASE CanReplicate(c) /\ MakeReplica(r) /\ LookItUp(c)
  BY <1>1, <1>2, <1>3
<1>4. CASE {SourceOf[c], r} \subseteq replicas /\ AcceptExisting(c) /\ UNCHANGED kmsVars
  BY <1>2, <1>4, NothingMade DEF AcceptExisting, kmsVars
<1>5. CASE CanReplicate(c) /\ MakeReplica(r) /\ Refuse(c)
  BY <1>0, <1>1, <1>5, RefusedOK
<1>6. CASE Refuse(c) /\ UNCHANGED kmsVars
  BY <1>0, <1>6, RefusedOK, NothingMade
<1> QED
  BY <1>3, <1>4, <1>5, <1>6 DEF ReplicateKey

(* The look-up answers for what is there, so far as its page goes.         *)
LEMMA LookStep ==
  ASSUME TypeOK, NEW c \in Callers, CallOK(c), NEW listed \in BOOLEAN, Look(c, listed),
         listed <=> IF c \in Aliasers THEN AliasListed(c) ELSE ReplicaListed(c)
  PROVE  OnlyMore /\ OnlyItself(c) /\ CallOK(c)'
<1>0. TargetOf[c] \in Regions /\ pc[c] = "list"
  BY CallersTyped DEF Look
<1>1. OnlyMore /\ aliases' = aliases /\ replicas' = replicas /\ crowded' = crowded
  BY NothingMade DEF Look, kmsVars
<1>2. CASE listed /\ Return(c, "ok") /\ UNCHANGED refused
  <2>1. OnlyItself(c) /\ pc'[c] = "returned" /\ result'[c] = "ok"
    BY <1>2, ReturnProperties
  <2> QED
    BY <1>1, <1>2, <2>1 DEF CallOK, AliasListed
<1>3. CASE ~listed /\ Return(c, "error") /\ UNCHANGED refused
  <2>1. OnlyItself(c) /\ pc'[c] = "returned" /\ result'[c] = "error"
    BY <1>3, ReturnProperties
  <2> QED
    BY <1>0, <1>1, <1>3, <2>1 DEF CallOK, AliasListed, ReplicaListed, FirstPage, TypeOK
<1>4. CASE Refuse(c)
  BY <1>1, <1>4, RefusedOK
<1> QED
  BY <1>2, <1>3, <1>4 DEF Look

-----------------------------------------------------------------------------
(* Whatever earlier runs left in KMS, no call is under way yet.            *)
LEMMA InvInit == Init => Inv
<1> SUFFICES ASSUME Init PROVE Inv
  OBVIOUS
<1>1. TypeOK /\ KeyOfAlias
  BY DEF Init, TypeOK, KeyOfAlias
<1>2. \A c \in Callers : pc[c] = "ask" /\ result[c] = "none"
  BY DEF Init
<1> QED
  BY <1>1, <1>2 DEF Inv, CallOK

(* A step of one caller keeps its own part of the invariant, and the parts *)
(* of the others because KMS only gets more.                               *)
LEMMA InvStep == Inv /\ [Next]_vars => Inv'
<1> SUFFICES ASSUME Inv, [Next]_vars PROVE Inv'
  OBVIOUS
<1>0. TypeOK /\ KeyOfAlias /\ \A c \in Callers : CallOK(c)
  BY DEF Inv
<1>1. CASE UNCHANGED vars
  BY <1>1 DEF vars, callVars, kmsVars, Inv, TypeOK, KeyOfAlias, CallOK, FirstPage
<1>2. ASSUME NEW c \in Callers, OnlyMore, OnlyItself(c), CallOK(c)' PROVE Inv'
  <2>1. TypeOK'
    BY <1>0, <1>2 DEF TypeOK, OnlyMore, OnlyItself
  <2>2. KeyOfAlias'
    BY <1>0, <1>2 DEF KeyOfAlias, OnlyMore
  <2>3. (\A d \in Callers : CallOK(d))'
    BY <1>0, <1>2, OthersStayOK
  <2> QED
    BY <2>1, <2>2, <2>3 DEF Inv
<1>3. ASSUME NEW c \in Aliasers, CreateAlias(c) \/ Look(c, AliasListed(c)) PROVE Inv'
  <2>1. AliasListed(c) \in BOOLEAN /\ c \in Callers
    BY CallersTyped DEF AliasListed
  <2>2. OnlyMore /\ OnlyItself(c) /\ CallOK(c)'
    BY <1>0, <1>3, <2>1, CreateAliasStep, LookStep
  <2> QED
    BY <1>2, <2>1, <2>2
<1>4. ASSUME NEW c \in Replicators, ReplicateKey(c) \/ Look(c, ReplicaListed(c)) PROVE Inv'
  <2>1. ReplicaListed(c) \in BOOLEAN /\ c \in Callers /\ c \notin Aliasers
    BY CallersTyped DEF ReplicaListed
  <2>2. OnlyMore /\ OnlyItself(c) /\ CallOK(c)'
    BY <1>0, <1>4, <2>1, ReplicateKeyStep, LookStep
  <2> QED
    BY <1>2, <2>1, <2>2
<1> QED
  BY <1>1, <1>3, <1>4 DEF Next, Returned

(* In every state, whoever searches a list knows that there is something   *)
(* to be found, and every result is justified by what KMS holds, for any   *)
(* number of racing callers (kms_driver.go:30-120).                        *)
THEOREM InvCorrect == Spec => []Inv
  BY InvInit, InvStep, PTL DEF Spec

(* Callers, results, aliases and replicas keep their types.                *)
THEOREM TypeCorrect == Spec => []TypeOK
<1>1. Inv => TypeOK
  BY DEF Inv
<1> QED
  BY <1>1, InvCorrect, PTL

(* The alias that CreateAlias() returns stands for the configured key,     *)
(* whoever else made or left an alias of that name, and goes on standing   *)
(* for it (kms_driver.go:48-75).                                           *)
THEOREM AliasAlwaysNamesOurKey == Spec => []AliasNamesOurKey
<1>1. Inv => AliasNamesOurKey
  BY CallersTyped DEF Inv, KeyOfAlias, CallOK, AliasNamesOurKey
<1> QED
  BY <1>1, InvCorrect, PTL

(* However many publishers and copies race for an alias or a replica, an   *)
(* error always has a reason of its own: a refusal, another's alias, or a  *)
(* list longer than a page (kms_driver.go:50-68, 100-117).                 *)
THEOREM RacersAlwaysSucceed == Spec => []RacersSucceed
<1>1. Inv => RacersSucceed
  BY DEF Inv, CallOK, RacersSucceed, Callers
<1> QED
  BY <1>1, InvCorrect, PTL
=============================================================================
