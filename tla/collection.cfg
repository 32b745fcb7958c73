\* Three goroutines, one with two items, and one reader.
SPECIFICATION Spec
CONSTANTS
  g1 = g1
  g2 = g2
  g3 = g3
  r1 = r1
  a1 = a1
  a2 = a2
  a3 = a3
  a4 = a4
  Goroutines = {g1, g2, g3}
  Readers = {r1}
  Items = {a1, a2, a3, a4}
  ItemsOf <- Merges
INVARIANTS
  Inv
  ReadSliceStays
PROPERTY ImplementsAtomic
