-------------------------- MODULE AtomicCollection --------------------------
(***************************************************************************)
(* What collection.Ami and collection.Error promise to the goroutines that *)
(* share one: every item is appended, once and in its goroutine's order,   *)
(* by one indivisible step.                                                *)
(***************************************************************************)
EXTENDS Naturals, Sequences

CONSTANTS Goroutines, ItemsOf   \* what each goroutine will add, in order

VARIABLES items, added          \* the collection; how many items each added

Init == items = <<>> /\ added = [g \in Goroutines |-> 0]

Add(g) ==
  /\ added[g] < Len(ItemsOf[g])
  /\ items' = Append(items, ItemsOf[g][added[g] + 1])
  /\ added' = [added EXCEPT ![g] = @ + 1]

Next == \E g \in Goroutines : Add(g)

Spec == Init /\ [][Next]_<<items, added>>
=============================================================================
