\* Four polls of a conversion that may complete, be cancelled or never end.
SPECIFICATION FairSpec
CONSTANTS
  Accounts = {}
  SharedLists <- Lists
  MaxPolls = 4
  Malformed = TRUE
INVARIANTS
  TypeOK
  AmiOfWholeImage
  LeftoversAreReported
  ManifestLeadsToImage
  ImageStaysForImport
PROPERTIES
  ImplementsPublisher
  Returns
