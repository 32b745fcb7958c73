------------------------- MODULE AmiCollectionProofs -------------------------
(***************************************************************************)
(* collection.Ami is atomic, for any number of goroutines and readers and  *)
(* anything they add.                                                      *)
(***************************************************************************)
EXTENDS AmiCollection, SequenceTheorems, TLAPS

LEMMA InvInit == Init => Inv
  BY DEF Init, Inv, TypeOK, MutexInv, Callers

LEMMA InvStep == Inv /\ [Next]_vars => Inv'
<1> SUFFICES ASSUME Inv, [Next]_vars PROVE Inv'
  OBVIOUS
<1> USE DEF Inv, TypeOK, MutexInv, Callers, Goto
<1>1. ASSUME NEW c \in Callers, Lock(c) PROVE Inv'
  BY <1>1 DEF Lock, WantsIn, Free
<1>2. ASSUME NEW c \in Callers, Read(c) PROVE Inv'
  <2>1. TypeOK'
    BY <1>2 DEF Read
  <2>2. c \in held
    BY <1>2 DEF Read
  <2> QED
    BY <1>2, <2>1, <2>2 DEF Read
<1>3. ASSUME NEW g \in Goroutines, Store(g) PROVE Inv'
  <2>1. g \in held /\ done[g] < Len(ItemsOf[g])
    BY <1>3 DEF Store
  <2>2. ItemsOf[g][done[g] + 1] \in Items
    <3>1. ItemsOf[g] \in Seq(Items) /\ done[g] \in Nat
      BY CollectionAssumption
    <3> QED
      BY <2>1, <3>1
  <2>3. amis' \in Seq(Items)
    BY <1>3, <2>2, AppendProperties DEF Store
  <2>4. TypeOK'
    BY <1>3, <2>3 DEF Store
  <2> QED
    BY <1>3, <2>1, <2>4 DEF Store
<1>4. ASSUME NEW c \in Callers, Unlock(c) PROVE Inv'
  BY <1>4, CollectionAssumption DEF Unlock
<1>5. CASE UNCHANGED vars
  BY <1>5 DEF vars
<1> QED
  BY <1>1, <1>2, <1>3, <1>4, <1>5 DEF Next, CallerStep, Ended

(* The mutex keeps the two halves of an append together. *)
THEOREM InvCorrect == Spec => []Inv
  BY InvInit, InvStep, PTL DEF Spec

(* The collection implements the atomic one. *)
THEOREM CollectionIsAtomic == Spec => ImplementsAtomic
<1>1. Init => Atomic!Init
  BY DEF Init, Atomic!Init
<1>2. Inv /\ [Next]_vars => [Atomic!Next]_<<amis, done>>
  <2> SUFFICES ASSUME Inv, [Next]_vars
               PROVE  Atomic!Next \/ UNCHANGED <<amis, done>>
    OBVIOUS
  <2>1. ASSUME NEW g \in Goroutines, Store(g) PROVE Atomic!Add(g)
    BY <2>1 DEF Store, Atomic!Add, Inv, MutexInv
  <2>2. ASSUME NEW c \in Callers, Lock(c) \/ Read(c) \/ Unlock(c)
        PROVE  UNCHANGED <<amis, done>>
    BY <2>2 DEF Lock, Read, Unlock
  <2> QED
    BY <2>1, <2>2 DEF Next, CallerStep, Ended, vars, Atomic!Next
<1> QED
  BY <1>1, <1>2, InvCorrect, PTL DEF Spec, ImplementsAtomic, Atomic!Spec

(* What a reader got from GetAll() stays the front of the collection. *)
LEMMA ReadInit == Init => ReadSliceStays
  BY DEF Init, ReadSliceStays, IsPrefix, Callers

LEMMA ReadStep == Inv /\ ReadSliceStays /\ [Next]_vars => ReadSliceStays'
<1> SUFFICES ASSUME Inv, ReadSliceStays, [Next]_vars, NEW r \in Readers
             PROVE  IsPrefix(header[r], amis)'
  BY DEF ReadSliceStays
<1>0. /\ amis \in Seq(Items) /\ header \in [Callers -> Seq(Items)] /\ r \in Callers
      /\ IsPrefix(header[r], amis)
  BY DEF Inv, TypeOK, Callers, ReadSliceStays
<1>1. ASSUME NEW g \in Goroutines, Store(g) PROVE IsPrefix(header[r], amis)'
  <2>1. amis' = Append(amis, ItemsOf[g][done[g] + 1]) /\ header' = header
    BY <1>1 DEF Store, Inv, MutexInv
  <2>2. ItemsOf[g][done[g] + 1] \in Items
    <3>1. ItemsOf[g] \in Seq(Items) /\ done[g] \in Nat /\ done[g] < Len(ItemsOf[g])
      BY <1>1, CollectionAssumption DEF Store, Inv, MutexInv, TypeOK
    <3> QED
      BY <3>1
  <2>3. Len(amis') = Len(amis) + 1 /\ \A i \in 1 .. Len(amis) : amis'[i] = amis[i]
    BY <1>0, <2>1, <2>2, AppendProperties
  <2> QED
    BY <1>0, <2>1, <2>3 DEF IsPrefix
<1>2. ASSUME NEW c \in Callers, Read(c) PROVE IsPrefix(header[r], amis)'
  <2>1. amis' = amis /\ (header'[r] = header[r] \/ header'[r] = amis)
    BY <1>0, <1>2 DEF Read
  <2> QED
    BY <1>0, <2>1 DEF IsPrefix
<1>3. CASE UNCHANGED <<amis, header>>
  BY <1>0, <1>3 DEF IsPrefix
<1> QED
  BY <1>1, <1>2, <1>3 DEF Next, CallerStep, Lock, Unlock, Ended, vars

THEOREM ReadSliceAlwaysStays == Spec => []ReadSliceStays
  BY ReadInit, ReadStep, InvCorrect, PTL DEF Spec
=============================================================================
