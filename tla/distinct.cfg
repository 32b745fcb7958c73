\* One standard region with two copies and the isolated region.
SPECIFICATION FairSpec
CONSTANTS
  p1 = p1
  p2 = p2
  q1 = q1
  c1 = c1
  c2 = c2
  Standard = {p1}
  Isolated = {q1}
  Copies = {c1, c2}
  Home <- DistinctHome
  Owner <- CopyOwner
  Dest <- DistinctDest
  Malformed = FALSE
  StemcellNames = {"xen", "xen-hvm", "plain"}
INVARIANTS
  TypeOK
  NoAmiUnlisted
PROPERTIES
  ImplementsPublication
  Terminates
