---------------------------- MODULE AmiCollection ----------------------------
(***************************************************************************)
(* collection/ami_collection.go, statement by statement, and               *)
(* collection/error_collection.go, which locks the same way.  Goroutines   *)
(* add items to one collection, one after the other as Merge() does, while *)
(* readers call GetAll().  An append reads the slice and stores a longer   *)
(* one: two steps that only the mutex keeps together.                      *)
(***************************************************************************)
EXTENDS Naturals, Sequences

CONSTANTS
  Goroutines,   \* who adds
  Readers,      \* who calls GetAll()
  ItemsOf,      \* what each goroutine adds, in order
  Items

ASSUME CollectionAssumption ==
  /\ Goroutines \cap Readers = {}
  /\ ItemsOf \in [Goroutines -> Seq(Items)]

Callers == Goroutines \cup Readers

VARIABLES
  amis,     \* the slice of the collection
  held,     \* who holds the mutex: at most one, were it not for bugs
  pc,       \* where each caller is
  header,   \* the slice a caller has read
  done      \* how many items a goroutine has added

vars == <<amis, held, pc, header, done>>

Init ==
  /\ amis = <<>>
  /\ held = {}
  /\ pc = [c \in Callers |-> "outside"]
  /\ header = [c \in Callers |-> <<>>]
  /\ done = [g \in Goroutines |-> 0]

Goto(c, step) == pc' = [pc EXCEPT ![c] = step]

BadFree == TRUE

Free == held = {}

WantsIn(c) == c \in Goroutines => done[c] < Len(ItemsOf[c])

(* a.Lock() *)
Lock(c) ==
  /\ pc[c] = "outside"
  /\ WantsIn(c)
  /\ Free
  /\ held' = held \cup {c}
  /\ Goto(c, "locked")
  /\ UNCHANGED <<amis, header, done>>

(* The first half of append, and all of what GetAll() does: the caller     *)
(* keeps the slice, not a copy of it.                                      *)
Read(c) ==
  /\ pc[c] = "locked"
  /\ header' = [header EXCEPT ![c] = amis]
  /\ Goto(c, IF c \in Goroutines THEN "read" ELSE "leaving")
  /\ UNCHANGED <<amis, held, done>>

(* The second half of append. *)
Store(g) ==
  /\ pc[g] = "read"
  /\ amis' = Append(header[g], ItemsOf[g][done[g] + 1])
  /\ done' = [done EXCEPT ![g] = @ + 1]
  /\ Goto(g, "leaving")
  /\ UNCHANGED <<held, header>>

(* defer a.Unlock(); each reader reads once. *)
Unlock(c) ==
  /\ pc[c] = "leaving"
  /\ held' = held \ {c}
  /\ Goto(c, IF c \in Readers THEN "finished" ELSE "outside")
  /\ UNCHANGED <<amis, header, done>>

AllAdded == \A g \in Goroutines : pc[g] = "outside" /\ ~WantsIn(g)
Ended == AllAdded /\ (\A r \in Readers : pc[r] = "finished") /\ UNCHANGED vars

CallerStep(c) == Lock(c) \/ Read(c) \/ Unlock(c) \/ (c \in Goroutines /\ Store(c))

Next == (\E c \in Callers : CallerStep(c)) \/ Ended

Spec == Init /\ [][Next]_vars

-----------------------------------------------------------------------------
(* The type invariant. *)
TypeOK ==
  /\ amis \in Seq(Items)
  /\ held \subseteq Callers
  /\ pc \in [Callers -> {"outside", "locked", "read", "leaving", "finished"}]
  /\ header \in [Callers -> Seq(Items)]
  /\ done \in [Goroutines -> Nat]

(* The mutex is with the callers inside, one at most, and nobody stores    *)
(* while another one is between reading the slice and storing it.          *)
MutexInv ==
  /\ \A c \in Callers : c \in held <=> pc[c] \in {"locked", "read", "leaving"}
  /\ \A c, d \in held : c = d
  /\ \A g \in Goroutines : pc[g] = "read" => header[g] = amis
  /\ \A g \in Goroutines : pc[g] \in {"locked", "read"} => done[g] < Len(ItemsOf[g])

Inv == TypeOK /\ MutexInv

(* Seen from outside, an Add() is one step: no item is lost to another     *)
(* goroutine's append, none is added twice (ami_collection.go:15-20).      *)
Atomic == INSTANCE AtomicCollection WITH items <- amis, added <- done

ImplementsAtomic == Atomic!Spec

(* The slice a reader got from GetAll() stays what it was although it is   *)
(* not copied: whatever is added later comes after it (22-27).             *)
IsPrefix(s, t) == Len(s) <= Len(t) /\ \A i \in DOMAIN s : s[i] = t[i]

ReadSliceStays == \A r \in Readers : IsPrefix(header[r], amis)
=============================================================================
