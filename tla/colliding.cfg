\* Two standard regions, with colliding destinations, and the isolated region, with panics.
SPECIFICATION Spec
CONSTANTS
  p1 = p1
  p2 = p2
  q1 = q1
  c1 = c1
  c2 = c2
  Standard = {p1, p2}
  Isolated = {q1}
  Copies = {c1, c2}
  Home <- CollidingHome
  Owner <- CopyOwner
  Dest <- CollidingDest
  Malformed = TRUE
  StemcellNames = {"xen"}
INVARIANTS
  Inv
  FailedEntryMergesNothing
  NilMeansAllCopied
  CleanedUpBeforeExit
  ManifestComplete
  HvmNameWritten
PROPERTY FrozenWhenRead
