\* A standard region with two copies, and panics.
SPECIFICATION Spec
CONSTANTS
  p1 = p1
  p2 = p2
  q1 = q1
  c1 = c1
  c2 = c2
  Standard = {p1}
  Isolated = {}
  Copies = {c1, c2}
  Home <- OneHome
  Owner <- CopyOwner
  Dest <- DistinctDest
  Malformed = TRUE
  StemcellNames = {"xen", "xen-hvm", "plain"}
INVARIANT StatusZeroMeansComplete
