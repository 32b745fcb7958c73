\* Every visibility, encrypted or not, with up to two accounts.
SPECIFICATION FairSpec
CONSTANTS
  a1 = a1
  a2 = a2
  Accounts = {a1, a2}
  SharedLists <- Lists
  MaxPolls = 4
  Malformed = TRUE
INVARIANTS
  TypeOK
  OkMeansImported
  OkMeansConfigured
  NobodyElseMayUse
  PublicMeansAvailable
  SnapshotFollowsImage
  ImageStaysForImport
  LeftoversAreReported
  CopyOfFinished
PROPERTIES
  ImplementsPublisher
  Returns
